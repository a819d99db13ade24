SPECIFICATION CommandSpec
CONSTANTS
  Garbage = Garbage
  q1 = q1
  Self = Self
  Peers = {q1}
  Files <- MCFiles
  Envs <- MCEnvs
  Trees <- MCTrees
INVARIANT TickerStarts
