--------------------------- MODULE CommandsProofs ---------------------------
(***************************************************************************)
(* What config.Load returns and what CreateSnapshot lists under it, for    *)
(* every configuration file, environment and directory.                    *)
(***************************************************************************)
EXTENDS Commands, FiniteSetTheorems, SequenceTheorems, TLAPS

-----------------------------------------------------------------------------
(* The tables of settings *)

\* A setting is of one type only.
LEMMA OneType ==
  Numbers \cap Words = {} /\ "peer_bootstrap" \notin Numbers \cup Words
  BY DEF Numbers, Words

\* What an unset setting decodes to has the setting's type.
LEMMA ZeroFits == \A x \in DOMAIN Zero : Fits(x, Zero[x])
  <1>1. \A x \in Numbers : Zero[x] = 0
    BY DEF Zero
  <1>2. Zero["peer_bootstrap"] = <<>>
    BY OneType, ZenonT(30) DEF Zero
  <1>3. <<>> \in Seq(Peers \cup {Garbage})
    OBVIOUS
  <1>4. ASSUME NEW x \in DOMAIN Zero
        PROVE  Fits(x, Zero[x])
    <2>1. x \in Numbers => Zero[x] \in Int
      BY <1>1
    <2>2. x = "peer_bootstrap" => Zero[x] \in Seq(Peers \cup {Garbage})
      BY <1>2, <1>3, Zenon
    <2> QED
      BY <2>1, <2>2 DEF Fits
  <1> QED
    BY <1>4

\* So has every default.
LEMMA DefaultFits == \A x \in DOMAIN Default : Fits(x, Default[x])
  <1>1. \A x \in DOMAIN Default \ Words : Default[x] \in Int
    BY DEF Default, Words
  <1>2. "peer_bootstrap" \notin DOMAIN Default
    BY DEF Default
  <1> QED
    BY <1>1, <1>2, OneType DEF Fits

\* The settings that the commands use are settings of the file.
LEMMA UsedSettings == Used \cup {"peer_bootstrap"} \subseteq DOMAIN Zero
  BY DEF Used, Zero, Numbers

-----------------------------------------------------------------------------
(* The inductive invariant *)

\* Whatever Load and New do to the settings, the values keep their types.
LoadFacts == \A x \in DOMAIN cfg : Fits(x, cfg[x])

\* After Load the chunker's sizes are usable, the bootstrap addresses left are
\* addresses, and peerctl stores only a peer that it has connected to.
SetupFacts ==
    /\ ppc \in {"loaded", "boot", "run", "store"} =>
          0 < cfg.min_chunk_size /\ cfg.min_chunk_size < cfg.max_chunk_size
    /\ boot \in Seq(Peers \cup {Garbage})
    /\ ppc = "store" => target # Garbage

\* Where the walk is: only a snapshot command walks; the last Read ended at pos, if
\* it was of the current file, and that is not beyond its end.
WalkFacts ==
    /\ wpc # "idle" => ppc = "run" /\ job = "snapshot"
    /\ wpc = "idle" => cur = 1 /\ pos = 0 /\ chunks = <<>>
    /\ tree \in Seq(Nat) /\ cur \in Nat \ {0} /\ pos \in Nat
    /\ chunks \in Seq([file : Nat, from : Nat, end : Nat, to : Nat])
    /\ wpc = "walk" /\ cur <= Len(tree) => pos <= tree[cur]
    /\ chunks = <<>> => pos = 0
    /\ chunks # <<>> => LET c == chunks[Len(chunks)]
                        IN  \/ c.file = cur /\ pos = c.end
                            \/ c.file < cur /\ pos = 0

CommandInductive ==
    /\ CommandTypeOK /\ LoadFacts /\ SetupFacts /\ WalkFacts
    /\ ChunksAccounted

\* A process that is off has no settings, no host and no walk.
LEMMA InitCommand == CommandInit => CommandInductive
  <1> SUFFICES ASSUME CommandInit PROVE CommandInductive
    OBVIOUS
  <1>1. /\ ppc = "off" /\ cfg = Unset /\ DOMAIN cfg = {}
        /\ target = Garbage /\ boot = <<>> /\ disc = "none" /\ found = {}
        /\ conn = {} /\ adv = {} /\ stored = {}
        /\ wpc = "idle" /\ tree = <<>> /\ cur = 1 /\ pos = 0 /\ chunks = <<>>
    BY DEF CommandInit, WalkInit, Unset
  <1>2. CommandTypeOK
    BY <1>1 DEF CommandTypeOK
  <1>3. LoadFacts
    BY <1>1 DEF LoadFacts
  <1>4. SetupFacts
    BY <1>1 DEF SetupFacts
  <1>5. WalkFacts
    BY <1>1 DEF WalkFacts
  <1> QED
    BY <1>1, <1>2, <1>3, <1>4, <1>5
       DEF CommandInductive, ChunksAccounted

\* An exit, at whatever step, leaves nothing but the peers bucket behind.
LEMMA ExitPreserves ==
  ASSUME CommandInductive, ProcessExit, stored' \subseteq Peers
  PROVE  CommandInductive'
  <1>1. /\ ppc' = "off" /\ cfg' = Unset /\ DOMAIN cfg' = {}
        /\ target' = Garbage /\ boot' = <<>> /\ disc' = "none" /\ found' = {}
        /\ conn' = {} /\ adv' \subseteq Peers
        /\ wpc' = "idle" /\ tree' = <<>> /\ cur' = 1 /\ pos' = 0 /\ chunks' = <<>>
    BY DEF ProcessExit, WalkReset, Unset, CommandInductive, CommandTypeOK
  <1>2. CommandTypeOK'
    BY <1>1 DEF CommandTypeOK
  <1>3. LoadFacts'
    BY <1>1 DEF LoadFacts
  <1>4. SetupFacts'
    BY <1>1 DEF SetupFacts
  <1>5. WalkFacts'
    BY <1>1 DEF WalkFacts
  <1>6. ChunksAccounted'
    BY <1>1 DEF ChunksAccounted
  <1> QED
    BY <1>2, <1>3, <1>4, <1>5, <1>6 DEF CommandInductive

\* Steps that change neither the settings nor the set-up keep what is known of them.
LEMMA SameSettings ==
  ASSUME CommandInductive, UNCHANGED <<ppc, cfg, target, boot>>
  PROVE  LoadFacts' /\ SetupFacts'
  <1>1. ppc' = ppc /\ cfg' = cfg /\ target' = target /\ boot' = boot
    OBVIOUS
  <1>2. LoadFacts /\ SetupFacts
    BY DEF CommandInductive
  <1>3. LoadFacts'
    BY <1>1, <1>2, Zenon DEF LoadFacts
  <1>4. SetupFacts'
    BY <1>1, <1>2, Zenon DEF SetupFacts
  <1> QED
    BY <1>3, <1>4

\* Steps that only change connections or what has been found disturb nothing else.
LEMMA SameCommand ==
  ASSUME CommandInductive, CommandTypeOK',
         UNCHANGED <<ppc, cfg, job, target, boot, walkVars>>
  PROVE  CommandInductive'
  <1>1. /\ ppc' = ppc /\ cfg' = cfg /\ job' = job
        /\ wpc' = wpc /\ tree' = tree /\ cur' = cur /\ pos' = pos /\ chunks' = chunks
    BY DEF walkVars
  <1>2. LoadFacts' /\ SetupFacts'
    BY SameSettings
  <1>3. WalkFacts /\ ChunksAccounted
    BY DEF CommandInductive
  <1>4. WalkFacts'
    BY <1>1, <1>3, Zenon DEF WalkFacts
  <1>5. ChunksAccounted'
    BY <1>1, <1>3, Zenon DEF ChunksAccounted, ChunksInOrder, ChunkSizes
  <1> QED
    BY <1>2, <1>4, <1>5 DEF CommandInductive

\* While no walk has begun, there is nothing to say about its chunks.
LEMMA IdleWalk ==
  ASSUME WalkFacts, wpc = "idle", UNCHANGED walkVars
  PROVE  WalkFacts' /\ ChunksAccounted'
  BY DEF WalkFacts, ChunksAccounted, walkVars
-----------------------------------------------------------------------------
(* Load *)

\* Overrides and defaults keep the settings and their types.
LEMMA OverridesFit ==
  ASSUME NEW c, NEW e \in Envs, \A x \in DOMAIN c : Fits(x, c[x])
  PROVE  /\ DOMAIN Overrides(c, e) = DOMAIN c
         /\ \A x \in DOMAIN c : Fits(x, Overrides(c, e)[x])
  <1>1. Fits("compression", 0)
    BY DEF Fits
  <1>2. ASSUME NEW x \in DOMAIN c
        PROVE  Overrides(c, e)[x] = IF x \notin DOMAIN e THEN c[x]
                                    ELSE IF e[x] # Garbage THEN e[x]
                                    ELSE IF x = "compression" THEN 0 ELSE c[x]
    BY DEF Overrides
  <1>3. ASSUME NEW x \in DOMAIN c
        PROVE  Fits(x, Overrides(c, e)[x])
    BY <1>1, <1>2, SettingsFit
  <1> QED
    BY <1>3 DEF Overrides

\* The same for the defaults.
LEMMA DefaultsFit ==
  ASSUME NEW c, DOMAIN c = DOMAIN Zero, \A x \in DOMAIN c : Fits(x, c[x])
  PROVE  /\ DOMAIN Defaults(c) = DOMAIN c
         /\ \A x \in DOMAIN c : Fits(x, Defaults(c)[x])
  <1>1. \A x \in Forced : Fits(x, 1)
    BY DEF Fits, Forced
  <1>2. ASSUME NEW x \in DOMAIN c
        PROVE  Defaults(c)[x] = IF x \in Forced THEN 1
                                ELSE IF x \in DOMAIN Default /\ c[x] = Zero[x]
                                THEN Default[x] ELSE c[x]
    BY DEF Defaults
  <1>3. ASSUME NEW x \in DOMAIN c
        PROVE  Fits(x, Defaults(c)[x])
    BY <1>1, <1>2, DefaultFits
  <1> QED
    BY <1>3 DEF Defaults

\* What passes Validate has sizes that the chunker can use.
LEMMA ValidSizes ==
  ASSUME NEW c, DOMAIN c = DOMAIN Zero, \A x \in DOMAIN c : Fits(x, c[x]), Validate(c)
  PROVE  0 < c.min_chunk_size /\ c.min_chunk_size < c.max_chunk_size
  <1>1. ValidateSizes(c)
    BY Zenon DEF Validate
  <1>2. {"min_chunk_size", "max_chunk_size"} \subseteq Numbers
    BY DEF Numbers
  <1>3. c.min_chunk_size \in Int /\ c.max_chunk_size \in Int
    BY <1>2 DEF Fits, Zero
  <1> QED
    BY <1>1, <1>3 DEF ValidateSizes

\* The steps of Load.
LEMMA LoadPreserves ==
  ASSUME CommandInductive, LoadNext
  PROVE  CommandInductive'
  <1>1. CommandTypeOK /\ LoadFacts /\ SetupFacts /\ WalkFacts /\ ChunksAccounted
    BY DEF CommandInductive
  <1>2. ASSUME ppc \in {"off", "env", "defaults"},
               ppc' \in {"env", "defaults", "loaded"},
               ppc' = "loaded" => /\ 0 < cfg'.min_chunk_size
                                  /\ cfg'.min_chunk_size < cfg'.max_chunk_size,
               DOMAIN cfg' = DOMAIN Zero, LoadFacts',
               UNCHANGED <<job, target, p2pVars, adv, stored, walkVars>>
        PROVE  CommandInductive'
    <2>1. CommandTypeOK'
      BY <1>1, <1>2 DEF CommandTypeOK, p2pVars, walkVars
    <2>2. SetupFacts'
      BY <1>1, <1>2 DEF SetupFacts, p2pVars
    <2>3. wpc = "idle"
      BY <1>1, <1>2 DEF WalkFacts
    <2>4. WalkFacts' /\ ChunksAccounted'
      BY <1>1, <1>2, <2>3, IdleWalk
    <2> QED
      BY <1>2, <2>1, <2>2, <2>4 DEF CommandInductive
  <1>3. ASSUME NEW f \in Files, LoadFile(f)
        PROVE  CommandInductive'
    <2>1. /\ ppc = "off" /\ ppc' = "env"
          /\ cfg' = [x \in DOMAIN Zero |-> IF x \in DOMAIN f THEN f[x] ELSE Zero[x]]
          /\ UNCHANGED <<job, target, p2pVars, adv, stored, walkVars>>
      BY <1>3 DEF LoadFile
    <2>2. LoadFacts'
      BY <2>1, ZeroFits, SettingsFit DEF LoadFacts
    <2> QED
      BY <1>2, <2>1, <2>2
  <1>4. ASSUME NEW e \in Envs, LoadEnv(e)
        PROVE  CommandInductive'
    <2>1. /\ ppc = "env" /\ ppc' = "defaults"
          /\ cfg' = Overrides(cfg, e) /\ DOMAIN cfg = DOMAIN Zero
          /\ UNCHANGED <<job, target, p2pVars, adv, stored, walkVars>>
          /\ \A x \in DOMAIN cfg : Fits(x, cfg[x])
      BY <1>1, <1>4 DEF LoadEnv, LoadFacts, CommandTypeOK
    <2>2. DOMAIN cfg' = DOMAIN Zero /\ LoadFacts'
      BY <2>1, OverridesFit DEF LoadFacts
    <2> QED
      BY <1>2, <2>1, <2>2
  <1>5. ASSUME LoadValidate
        PROVE  CommandInductive'
    <2>1. CASE ~Validate(Defaults(cfg))
      <3>1. ProcessExit /\ stored' \subseteq Peers
        BY <1>1, <1>5, <2>1 DEF LoadValidate, CommandTypeOK
      <3> QED
        BY <3>1, ExitPreserves
    <2>2. CASE Validate(Defaults(cfg))
      <3>1. /\ ppc = "defaults" /\ ppc' = "loaded"
            /\ cfg' = Defaults(cfg) /\ DOMAIN cfg = DOMAIN Zero
            /\ UNCHANGED <<job, target, p2pVars, adv, stored, walkVars>>
            /\ \A x \in DOMAIN cfg : Fits(x, cfg[x])
        BY <1>1, <1>5, <2>2 DEF LoadValidate, LoadFacts, CommandTypeOK
      <3>2. DOMAIN cfg' = DOMAIN Zero /\ LoadFacts'
        BY <3>1, DefaultsFit DEF LoadFacts
      <3>3. 0 < cfg'.min_chunk_size /\ cfg'.min_chunk_size < cfg'.max_chunk_size
        BY <2>2, <3>1, <3>2, ValidSizes DEF LoadFacts
      <3> QED
        BY <1>2, <3>1, <3>2, <3>3
    <2> QED
      BY <2>1, <2>2
  <1> QED
    BY <1>3, <1>4, <1>5 DEF LoadNext

-----------------------------------------------------------------------------
(* Host, discovery and network *)

\* p2p.Setup tries addresses of the loaded list, and the process keeps the sizes.
LEMMA SetupPreserves ==
  ASSUME CommandInductive, SetupNext
  PROVE  CommandInductive'
  <1>1. /\ CommandTypeOK /\ LoadFacts /\ SetupFacts /\ WalkFacts
        /\ ChunksAccounted
    BY DEF CommandInductive
  <1>2. ASSUME NEW j, NEW p \in Peers \cup {Garbage}, SetupHost(j, p)
        PROVE  CommandInductive'
    <2>1. /\ ppc = "loaded" /\ ppc' = "boot" /\ target' = p /\ boot' = cfg.peer_bootstrap
          /\ cfg' = [f \in Used |-> cfg[f]] /\ DOMAIN cfg = DOMAIN Zero
          /\ UNCHANGED <<disc, found, conn, adv, stored, walkVars>>
          /\ \A x \in DOMAIN cfg : Fits(x, cfg[x])
      BY <1>1, <1>2 DEF SetupHost, CommandTypeOK, LoadFacts
    <2>2. wpc = "idle"
      BY <1>1, <2>1 DEF WalkFacts
    <2>3. WalkFacts' /\ ChunksAccounted'
      BY <1>1, <2>1, <2>2, IdleWalk
    <2>4. CommandTypeOK'
      BY <1>1, <2>1 DEF CommandTypeOK, walkVars
    <2>5. LoadFacts'
      BY <2>1, UsedSettings DEF LoadFacts
    <2>6. boot' \in Seq(Peers \cup {Garbage})
      BY <2>1, UsedSettings DEF Fits
    <2>7. 0 < cfg.min_chunk_size /\ cfg.min_chunk_size < cfg.max_chunk_size
      BY <1>1, <2>1 DEF SetupFacts
    <2>8. /\ cfg'.min_chunk_size = cfg.min_chunk_size
          /\ cfg'.max_chunk_size = cfg.max_chunk_size
      BY <2>1 DEF Used
    <2>9. SetupFacts'
      BY <2>1, <2>6, <2>7, <2>8 DEF SetupFacts
    <2> QED
      BY <2>3, <2>4, <2>5, <2>9 DEF CommandInductive
  <1>3. ASSUME ppc = "boot", ppc' \in {"boot", "run"}, disc' \in {"none", "start", "loop"},
               boot' \in Seq(Peers \cup {Garbage}), conn' \subseteq Peers,
               UNCHANGED <<cfg, job, target, found, adv, stored, walkVars>>
        PROVE  CommandInductive'
    <2>1. wpc = "idle"
      BY <1>1, <1>3 DEF WalkFacts
    <2>2. WalkFacts' /\ ChunksAccounted'
      BY <1>1, <1>3, <2>1, IdleWalk
    <2>3. CommandTypeOK'
      BY <1>1, <1>3 DEF CommandTypeOK, walkVars
    <2>4. LoadFacts'
      BY <1>1, <1>3 DEF LoadFacts
    <2>5. SetupFacts'
      BY <1>1, <1>3 DEF SetupFacts
    <2> QED
      BY <2>2, <2>3, <2>4, <2>5 DEF CommandInductive
  <1>4. ASSUME SetupBootstrap
        PROVE  CommandInductive'
    <2>1. boot \in Seq(Peers \cup {Garbage}) /\ boot # <<>>
      BY <1>1, <1>4 DEF SetupFacts, SetupBootstrap
    <2>2. Head(boot) \in Peers \cup {Garbage} /\ Tail(boot) \in Seq(Peers \cup {Garbage})
      BY <2>1
    <2> QED
      BY <1>1, <1>3, <1>4, <2>2 DEF SetupBootstrap, CommandTypeOK
  <1>5. ASSUME SetupDone
        PROVE  CommandInductive'
    BY <1>1, <1>3, <1>5 DEF SetupDone, SetupFacts, CommandTypeOK
  <1> QED
    BY <1>2, <1>4, <1>5 DEF SetupNext

\* The discovery goroutine connects to what it found, but never to the node itself.
LEMMA DiscoveryPreserves ==
  ASSUME CommandInductive, DiscoveryNext
  PROVE  CommandInductive'
  <1>1. CommandTypeOK
    BY DEF CommandInductive
  <1>2. ASSUME disc' \in {"none", "start", "loop"}, found' \subseteq Peers \cup {Self},
               conn' \subseteq Peers,
               UNCHANGED <<ppc, cfg, job, target, boot, adv, stored, walkVars>>
        PROVE  CommandInductive'
    <2>1. CommandTypeOK'
      BY <1>1, <1>2 DEF CommandTypeOK, walkVars
    <2> QED
      BY <1>2, <2>1, SameCommand
  <1>3. ASSUME DiscoveryStart
        PROVE  CommandInductive'
    <2>1. CASE cfg.discovery_interval > 0
      BY <1>1, <1>2, <1>3, <2>1 DEF DiscoveryStart, CommandTypeOK
    <2>2. CASE ~(cfg.discovery_interval > 0)
      <3>1. ProcessExit /\ stored' \subseteq Peers
        BY <1>1, <1>3, <2>2 DEF DiscoveryStart, CommandTypeOK
      <3> QED
        BY <3>1, ExitPreserves
    <2> QED
      BY <2>1, <2>2
  <1>4. ASSUME DiscoveryTick
        PROVE  CommandInductive'
    BY <1>1, <1>2, <1>4, SMTT(30) DEF DiscoveryTick, CommandTypeOK
  <1>5. ASSUME NEW p \in found,
               DiscoveryPass(p) \/ DiscoveryConnect(p) \/ DiscoveryConnectFails(p)
        PROVE  CommandInductive'
    BY <1>1, <1>2, <1>5
       DEF DiscoveryPass, DiscoveryConnect, DiscoveryConnectFails, CommandTypeOK
  <1> QED
    BY <1>3, <1>4, <1>5 DEF DiscoveryNext

\* The network connects and disconnects peers only.
LEMMA NetworkPreserves ==
  ASSUME CommandInductive, NEW p \in Peers, Advertise(p) \/ Disconnect(p)
  PROVE  CommandInductive'
  <1>1. CommandTypeOK
    BY DEF CommandInductive
  <1>2. /\ UNCHANGED <<ppc, cfg, job, target, boot, disc, found, stored, walkVars>>
        /\ adv' \subseteq Peers /\ conn' \subseteq Peers
    BY <1>1 DEF Advertise, Disconnect, CommandTypeOK, p2pVars
  <1>3. CommandTypeOK'
    BY <1>1, <1>2 DEF CommandTypeOK, walkVars
  <1> QED
    BY <1>2, <1>3, SameCommand
-----------------------------------------------------------------------------
(* The walk *)

\* A set of numbers that is not empty has a least member, which Min returns.
LEMMA LeastOfSet ==
  ASSUME NEW S \in SUBSET Nat, S # {}
  PROVE  Min(S) \in S
  <1> DEFINE R == {ss \in Nat \X Nat : ss[1] < ss[2]}
  <1>1. IsWellFoundedOn(R, Nat)
    BY NatLessThanWellFounded DEF OpToRel
  <1>2. PICK m \in S : \A y \in S : ~(<<y, m>> \in R)
    BY <1>1, WFMin, Zenon
  <1>3. ASSUME NEW y \in S
        PROVE  m <= y
    <2>1. m \in Nat /\ y \in Nat /\ <<y, m>> \in Nat \X Nat
      OBVIOUS
    <2>2. y < m => <<y, m>> \in R
      BY <2>1
    <2> QED
      BY <1>2, <2>1, <2>2
  <1> QED
    BY <1>3, Zenon DEF Min

\* Next returns at least one byte and at most what it read, and leaves bytes behind
\* only after more than min.
LEMMA ChunkEndBounds ==
  ASSUME NEW min \in Int, NEW max \in Int, 0 < min, min < max,
         NEW n \in 1 .. max, NEW hits \in SUBSET (0 .. n - 1)
  PROVE  /\ ChunkEnd(n, min, max, hits) \in 1 .. n
         /\ ChunkEnd(n, min, max, hits) < n => ChunkEnd(n, min, max, hits) > min
  <1> DEFINE behind == {i + 1 : i \in {j \in hits : j >= min}}
             full == {m \in {max} : n >= max}
             ends == behind \cup full
             e == ChunkEnd(n, min, max, hits)
  <1>1. \A i \in behind : i \in 1 .. n /\ i > min
    OBVIOUS
  <1>2. \A i \in full : i = n
    OBVIOUS
  <1>3. e = IF ends = {} THEN n ELSE Min(ends)
    BY DEF ChunkEnd
  <1>4. ends \subseteq Nat
    BY <1>1, <1>2
  <1>5. ends # {} => Min(ends) \in ends
    BY <1>4, LeastOfSet, Zenon
  <1> HIDE DEF e, ends, behind, full
  <1>6. e = n \/ e \in behind \/ e \in full
    BY <1>3, <1>5 DEF ends
  <1>7. e \in 1 .. n /\ (e < n => e > min)
    BY <1>1, <1>2, <1>6
  <1> QED
    BY <1>7 DEF e

\* Min of the buffer's length and what is left of the file is no more than either.
LEMMA ReadBounds ==
  ASSUME NEW max \in Int, NEW left \in Int, max > 0, left >= 0
  PROVE  Min({max, left}) <= max /\ Min({max, left}) <= left /\ Min({max, left}) \in Nat
  <1>1. CASE max <= left
    <2>1. Min({max, left}) = max
      BY <1>1 DEF Min
    <2> QED
      BY <1>1, <2>1
  <1>2. CASE left <= max
    <2>1. Min({max, left}) = left
      BY <1>2 DEF Min
    <2> QED
      BY <1>2, <2>1
  <1> QED
    BY <1>1, <1>2
\* The part of a step of the walk that is not about chunks.
LEMMA WalkFrame ==
  ASSUME CommandInductive, SnapshotStep, WalkFacts', ChunksAccounted',
         wpc' \in {"idle", "walk", "done", "failed"},
         wpc' = "walk" => cur' \in 1 .. Len(tree') + 1
  PROVE  CommandInductive'
  <1>1. /\ UNCHANGED <<ppc, cfg, target, boot>>
        /\ UNCHANGED <<disc, found, conn, adv, stored>>
    BY DEF SnapshotStep, p2pVars
  <1>2. LoadFacts' /\ SetupFacts'
    BY <1>1, SameSettings
  <1>3. CommandTypeOK'
    BY <1>1 DEF CommandInductive, CommandTypeOK
  <1> QED
    BY <1>2, <1>3 DEF CommandInductive

\* What a Read and Next add to the chunks of the walk.
LEMMA NewChunk ==
  ASSUME CommandInductive, SnapshotStep, WalkChunk(cfg.min_chunk_size, cfg.max_chunk_size)
  PROVE  \E n \in Nat \ {0}, to \in Nat :
            /\ chunks' = Append(chunks, [file |-> cur, from |-> pos, end |-> pos + n,
                                         to |-> to])
            /\ pos' = pos + n /\ pos + n <= tree[cur]
            /\ pos < to /\ to <= pos + n
            /\ to < pos + n => to - pos > cfg.min_chunk_size
            /\ to - pos <= cfg.max_chunk_size
  <1> DEFINE min == cfg.min_chunk_size
             max == cfg.max_chunk_size
  <1>1. ppc = "run"
    BY DEF SnapshotStep
  <1>2. 0 < min /\ min < max
    BY <1>1 DEF CommandInductive, SetupFacts
  <1>3. min \in Int /\ max \in Int
    <2>1. \A x \in Used : Fits(x, cfg[x])
      BY <1>1 DEF CommandInductive, CommandTypeOK, LoadFacts
    <2> QED
      BY <2>1 DEF Used, Fits, Numbers
  <1>4. /\ wpc = "walk" /\ cur <= Len(tree) /\ tree[cur] \in Nat /\ pos \in Nat
        /\ pos <= tree[cur]
    BY SMTT(30) DEF WalkChunk, CommandInductive, WalkFacts
  <1>5. PICK n \in 1 .. Min({max, tree[cur] - pos}) :
           \E hits \in SUBSET (0 .. n - 1) :
              /\ chunks' = Append(chunks, [file |-> cur, from |-> pos, end |-> pos + n,
                                           to |-> pos + ChunkEnd(n, min, max, hits)])
              /\ pos' = pos + n
    BY DEF WalkChunk
  <1>6. PICK hits \in SUBSET (0 .. n - 1) :
           /\ chunks' = Append(chunks, [file |-> cur, from |-> pos, end |-> pos + n,
                                        to |-> pos + ChunkEnd(n, min, max, hits)])
           /\ pos' = pos + n
    BY <1>5
  <1> HIDE DEF min, max
  <1>7. n \in Nat \ {0} /\ n <= max /\ n <= tree[cur] - pos /\ n \in 1 .. max
    <2>1. max > 0 /\ tree[cur] - pos \in Int /\ tree[cur] - pos >= 0
      BY <1>2, <1>3, <1>4
    <2>2. /\ Min({max, tree[cur] - pos}) <= max
          /\ Min({max, tree[cur] - pos}) <= tree[cur] - pos
          /\ Min({max, tree[cur] - pos}) \in Nat
      BY <1>3, <2>1, ReadBounds, Zenon
    <2> QED
      BY <1>3, <1>5, <2>1, <2>2
  <1> DEFINE e == ChunkEnd(n, min, max, hits)
  <1>8. e \in 1 .. n /\ (e < n => e > min)
    BY <1>2, <1>3, <1>7, ChunkEndBounds
  <1> HIDE DEF e
  <1>9. /\ pos + e \in Nat /\ pos + n <= tree[cur]
        /\ pos < pos + e /\ pos + e <= pos + n
        /\ pos + e < pos + n => (pos + e) - pos > min
        /\ (pos + e) - pos <= max
    BY <1>3, <1>4, <1>7, <1>8
  <1>10. chunks' = Append(chunks, [file |-> cur, from |-> pos, end |-> pos + n,
                                  to |-> pos + e])
    BY <1>6 DEF e
  <1> QED
    BY <1>6, <1>7, <1>9, <1>10 DEF min, max

\* A turn of CreateSnapshot's loop keeps the chunks in order.
LEMMA WalkChunkPreserves ==
  ASSUME CommandInductive, SnapshotStep, WalkChunk(cfg.min_chunk_size, cfg.max_chunk_size)
  PROVE  WalkFacts' /\ ChunksAccounted'
  <1> DEFINE m == Len(chunks)
             Chunk == [file : Nat, from : Nat, end : Nat, to : Nat]
  <1>1. PICK n \in Nat \ {0}, to \in Nat :
           /\ chunks' = Append(chunks, [file |-> cur, from |-> pos, end |-> pos + n,
                                        to |-> to])
           /\ pos' = pos + n /\ pos + n <= tree[cur]
           /\ pos < to /\ to <= pos + n
           /\ to < pos + n => to - pos > cfg.min_chunk_size
           /\ to - pos <= cfg.max_chunk_size
    BY NewChunk
  <1> DEFINE c == [file |-> cur, from |-> pos, end |-> pos + n, to |-> to]
  <1>2. /\ wpc = "walk" /\ ppc = "run" /\ job = "snapshot" /\ wpc' = wpc /\ tree' = tree
        /\ cur' = cur /\ cfg' = cfg /\ ppc' = ppc /\ job' = job
    BY DEF SnapshotStep, WalkChunk
  <1>3. /\ tree \in Seq(Nat) /\ cur \in Nat \ {0} /\ pos \in Nat /\ chunks \in Seq(Chunk)
        /\ m = 0 => pos = 0
        /\ m # 0 => \/ chunks[m].file = cur /\ pos = chunks[m].end
                    \/ chunks[m].file < cur /\ pos = 0
    BY DEF CommandInductive, WalkFacts
  <1>4. ChunksInOrder(cfg.min_chunk_size) /\ ChunkSizes(cfg.max_chunk_size)
    BY <1>2 DEF CommandInductive, ChunksAccounted
  <1>5. /\ c \in Chunk /\ c.file = cur /\ c.from = pos /\ c.end = pos + n /\ c.to = to
    <2>1. cur \in Nat /\ pos \in Nat /\ to \in Nat /\ pos + n \in Nat
      BY <1>3
    <2> QED
      BY <2>1
  <1>6. chunks' = Append(chunks, c)
    BY <1>1
  <1> HIDE DEF c
  <1>7. /\ m \in Nat /\ chunks' \in Seq(Chunk) /\ Len(chunks') = m + 1
        /\ \A k \in 1 .. m : chunks'[k] = chunks[k]
        /\ chunks'[m + 1] = c
    BY <1>3, <1>5, <1>6, SMTT(30)
  <1>8. ASSUME m # 0
        PROVE  chunks'[m] = chunks[m] /\ chunks[m].file \in Nat
    <2>1. m \in 1 .. m
      BY <1>7, <1>8
    <2> HIDE DEF Chunk
    <2>2. chunks[m] \in Chunk
      BY <1>3, <2>1, ElementOfSeq
    <2> HIDE DEF m
    <2>3. chunks'[m] = chunks[m]
      BY <1>7, <2>1
    <2> QED
      BY <2>2, <2>3 DEF Chunk
  <1> HIDE DEF m, Chunk
  <1>9. WalkFacts'
    <2>1. chunks' # <<>> /\ chunks'[Len(chunks')] = c
      BY <1>7
    <2>2. pos' = c.end /\ c.file = cur' /\ pos' \in Nat
      BY <1>1, <1>2, <1>3, <1>5, SMTT(30)
    <2> QED
      BY <1>1, <1>2, <1>3, <1>7, <2>1, <2>2, ZenonT(30) DEF WalkFacts, Chunk
  <1>10. ASSUME NEW k \in 1 .. m + 1
        PROVE  LET d == chunks'[k]
                   p == IF k = 1 THEN [file |-> 0, end |-> 0] ELSE chunks'[k - 1]
               IN  /\ IF p.file = d.file THEN d.from = p.end
                      ELSE p.file < d.file /\ d.from = 0
                   /\ d.to <= d.end
                   /\ d.to < d.end => d.to - d.from > cfg.min_chunk_size
    <2>1. CASE k \in 1 .. m
      <3>1. chunks'[k] = chunks[k] /\ (k # 1 => chunks'[k - 1] = chunks[k - 1])
        <4>1. k # 1 => k - 1 \in 1 .. m
          BY <1>7, <2>1
        <4> QED
          BY <1>7, <2>1, <4>1
      <3>2. k \in 1 .. Len(chunks)
        BY <2>1, SMTT(30) DEF m
      <3> QED
        BY <1>4, <3>1, <3>2, Zenon DEF ChunksInOrder
    <2>2. CASE k = m + 1
      <3>1. chunks'[k] = c
        BY <1>7, <2>2
      <3>2. c.to <= c.end /\ (c.to < c.end => c.to - c.from > cfg.min_chunk_size)
        BY <1>1, <1>5
      <3>3. CASE k = 1
        <4>1. c.from = 0 /\ 0 < c.file
          BY <1>3, <1>5, <1>7, <2>2, <3>3, SMTT(30)
        <4> QED
          BY <3>1, <3>2, <3>3, <4>1
      <3>4. CASE k # 1
        <4>1. m # 0 /\ k - 1 = m
          BY <1>7, <2>2, <3>4
        <4>2. chunks'[k - 1] = chunks[m] /\ chunks[m].file \in Nat
          BY <1>8, <4>1
        <4>3. IF chunks[m].file = c.file THEN c.from = chunks[m].end
              ELSE chunks[m].file < c.file /\ c.from = 0
          BY <1>3, <1>5, <4>1, <4>2
        <4> QED
          BY <3>1, <3>2, <3>4, <4>2, <4>3
      <3> QED
        BY <3>3, <3>4
    <2> QED
      BY <1>7, <2>1, <2>2
  <1>11. ChunksInOrder(cfg.min_chunk_size)'
    BY <1>2, <1>7, <1>10, Zenon DEF ChunksInOrder
  <1>12. ASSUME NEW k \in 1 .. m + 1
         PROVE  /\ chunks'[k].from < chunks'[k].to
                /\ chunks'[k].to - chunks'[k].from <= cfg.max_chunk_size
    <2>1. CASE k \in 1 .. m
      BY <1>4, <1>7, <2>1 DEF ChunkSizes, m
    <2>2. CASE k = m + 1
      BY <1>1, <1>5, <1>7, <2>2
    <2> QED
      BY <1>7, <2>1, <2>2
  <1>13. ChunkSizes(cfg.max_chunk_size)'
    BY <1>2, <1>7, <1>12, Zenon DEF ChunkSizes
  <1> QED
    BY <1>9, <1>11, <1>13 DEF ChunksAccounted
\* The other steps of the walk store nothing.
LEMMA WalkPreserves ==
  ASSUME CommandInductive, SnapshotStep
  PROVE  CommandInductive'
  <1>1. CommandTypeOK /\ WalkFacts /\ ChunksAccounted
    BY DEF CommandInductive
  <1>2. /\ ppc = "run" /\ job = "snapshot" /\ ppc' = ppc /\ job' = job /\ cfg' = cfg
    BY DEF SnapshotStep
  <1>3. ASSUME NEW t \in Trees, WalkBegin(t)
        PROVE  CommandInductive'
    <2>1. /\ wpc = "idle" /\ wpc' = "walk" /\ tree' = t /\ t \in Seq(Nat)
          /\ cur' = 1 /\ pos' = 0 /\ chunks' = <<>>
      BY <1>1, <1>3, SettingsFit DEF WalkBegin, WalkFacts
    <2>2. WalkFacts'
      <3>1. 1 <= Len(t) => 0 <= t[1]
        BY <2>1
      <3> QED
        BY <1>2, <2>1, <3>1 DEF WalkFacts
    <2>3. ChunksAccounted'
      BY <2>1 DEF ChunksAccounted, ChunksInOrder, ChunkSizes
    <2>4. cur' \in 1 .. Len(tree') + 1
      BY <2>1
    <2> QED
      BY <2>1, <2>2, <2>3, <2>4, WalkFrame
  <1>4. ASSUME WalkChunk(cfg.min_chunk_size, cfg.max_chunk_size)
        PROVE  CommandInductive'
    <2>1. wpc = "walk" /\ wpc' = wpc /\ cur' = cur /\ tree' = tree
      BY <1>4 DEF WalkChunk
    <2>2. cur' \in 1 .. Len(tree') + 1
      BY <1>1, <2>1 DEF CommandTypeOK
    <2> QED
      BY <1>4, <2>1, <2>2, WalkChunkPreserves, WalkFrame
  <1>5. ASSUME chunks' = chunks, wpc # "idle"
        PROVE  ChunksAccounted'
    BY <1>1, <1>2, <1>5, Zenon DEF ChunksAccounted, ChunksInOrder, ChunkSizes
  <1>6. ASSUME WalkNextFile
        PROVE  CommandInductive'
    <2>1. /\ wpc = "walk" /\ wpc' = wpc /\ tree' = tree /\ chunks' = chunks
          /\ cur <= Len(tree) /\ cur' = cur + 1 /\ pos' = 0
      BY <1>6 DEF WalkNextFile
    <2>2. /\ tree \in Seq(Nat) /\ cur \in Nat \ {0}
          /\ chunks \in Seq([file : Nat, from : Nat, end : Nat, to : Nat])
          /\ chunks # <<>> => \/ chunks[Len(chunks)].file = cur
                              \/ chunks[Len(chunks)].file < cur
      BY <1>1 DEF WalkFacts
    <2>3. chunks # <<>> => chunks[Len(chunks)].file \in Nat
      <3> DEFINE Chunk == [file : Nat, from : Nat, end : Nat, to : Nat]
      <3>1. chunks # <<>> => Len(chunks) \in 1 .. Len(chunks)
        BY <2>2
      <3> HIDE DEF Chunk
      <3>2. chunks # <<>> => chunks[Len(chunks)] \in Chunk
        BY <2>2, <3>1, ElementOfSeq, Zenon DEF Chunk
      <3> QED
        BY <3>2 DEF Chunk
    <2>4. chunks # <<>> => chunks[Len(chunks)].file < cur'
      BY <2>1, <2>2, <2>3, SMTT(30)
    <2>5. cur' \in Nat \ {0} /\ cur' \in 1 .. Len(tree') + 1
      BY <2>1, <2>2
    <2>6. cur' <= Len(tree') => pos' <= tree'[cur']
      BY <2>1, <2>2, <2>5
    <2>7. WalkFacts'
      BY <1>2, <2>1, <2>2, <2>4, <2>5, <2>6 DEF WalkFacts
    <2> QED
      BY <1>5, <2>1, <2>5, <2>7, WalkFrame
  <1>7. ASSUME WalkFail
        PROVE  CommandInductive'
    <2>1. wpc' = "failed" /\ tree' = <<>> /\ cur' = 1 /\ pos' = 0 /\ chunks' = <<>>
      BY <1>7 DEF WalkFail, WalkReset
    <2>2. WalkFacts'
      BY <1>2, <2>1 DEF WalkFacts
    <2>3. ChunksAccounted'
      BY <2>1 DEF ChunksAccounted, ChunksInOrder, ChunkSizes
    <2> QED
      BY <2>1, <2>2, <2>3, WalkFrame
  <1>8. ASSUME WalkEnd
        PROVE  CommandInductive'
    <2>1. /\ wpc = "walk" /\ wpc' = "done" /\ tree' = tree /\ cur' = cur /\ pos' = pos
          /\ chunks' = chunks
      BY <1>8 DEF WalkEnd
    <2>2. WalkFacts'
      BY <1>1, <1>2, <2>1 DEF WalkFacts
    <2> QED
      BY <1>5, <2>1, <2>2, WalkFrame
  <1> QED
    BY <1>3, <1>4, <1>6, <1>7, <1>8 DEF SnapshotStep, WalkNext

-----------------------------------------------------------------------------
(* The commands *)

\* A job ends in an exit; peerctl stores only what it could connect to.
LEMMA JobPreserves ==
  ASSUME CommandInductive, JobNext
  PROVE  CommandInductive'
  <1>1. CommandTypeOK /\ LoadFacts /\ SetupFacts /\ WalkFacts
    BY DEF CommandInductive
  <1>2. ASSUME ProcessExit,
               \/ stored' \subseteq stored
               \/ ppc = "store" /\ stored' = stored \cup {target}
        PROVE  CommandInductive'
    <2>1. stored' \subseteq Peers
      BY <1>1, <1>2 DEF CommandTypeOK, SetupFacts
    <2> QED
      BY <1>2, <2>1, ExitPreserves
  <1>3. ASSUME SnapshotExit \/ PeerAddStore \/ PeerRemove \/ PeerList
        PROVE  CommandInductive'
    BY <1>2, <1>3 DEF SnapshotExit, PeerAddStore, PeerRemove, PeerList
  <1>4. ASSUME PeerAddConnect
        PROVE  CommandInductive'
    <2>1. /\ ppc = "run" /\ job = "add" /\ ppc' = "store" /\ target # Garbage
          /\ conn' = conn \cup {target}
          /\ UNCHANGED <<cfg, job, target, boot, disc, found, adv, stored, walkVars>>
      BY <1>4 DEF PeerAddConnect
    <2>2. wpc = "idle"
      BY <1>1, <2>1 DEF WalkFacts
    <2>3. WalkFacts' /\ ChunksAccounted'
      BY <1>1, <2>1, <2>2, IdleWalk
    <2>4. CommandTypeOK'
      BY <1>1, <2>1 DEF CommandTypeOK, walkVars
    <2>5. LoadFacts'
      BY <1>1, <2>1 DEF LoadFacts
    <2>6. SetupFacts'
      BY <1>1, <2>1 DEF SetupFacts
    <2> QED
      BY <2>3, <2>4, <2>5, <2>6 DEF CommandInductive
  <1> QED
    BY <1>3, <1>4, WalkPreserves DEF JobNext

\* The invariant holds in all behaviours, whatever fails or is killed.
LEMMA CommandInductiveHolds == CommandSpec => []CommandInductive
  <1>1. CommandInductive /\ [CommandNext]_commandVars => CommandInductive'
    <2> SUFFICES ASSUME CommandInductive, [CommandNext]_commandVars
                 PROVE  CommandInductive'
      OBVIOUS
    <2>1. CASE Kill
      <3>1. ProcessExit /\ stored' \subseteq Peers
        BY <2>1 DEF Kill, CommandInductive, CommandTypeOK
      <3> QED
        BY <3>1, ExitPreserves
    <2>2. CASE UNCHANGED commandVars
      <3>1. /\ UNCHANGED <<ppc, cfg, job, target, boot, walkVars>>
            /\ UNCHANGED <<disc, found, conn, adv, stored>>
        BY <2>2 DEF commandVars, p2pVars
      <3>2. CommandTypeOK'
        BY <3>1 DEF CommandInductive, CommandTypeOK, walkVars
      <3> QED
        BY <3>1, <3>2, SameCommand
    <2> QED
      BY <2>1, <2>2, LoadPreserves, SetupPreserves, DiscoveryPreserves, JobPreserves,
         NetworkPreserves DEF CommandNext
  <1> QED
    BY <1>1, InitCommand, PTL DEF CommandSpec

\* The commands, their host and their walk are well typed.
THEOREM CommandTypeCorrect == CommandSpec => []CommandTypeOK
  <1>1. CommandInductive => CommandTypeOK
    BY DEF CommandInductive
  <1> QED
    BY <1>1, CommandInductiveHolds, PTL

\* For every directory, and wherever Reads and boundaries fall, CreateSnapshot lists
\* chunks that are in order, disjoint, not empty and not too long.
THEOREM ChunksInPlace == CommandSpec => []ChunksAccounted
  <1>1. CommandInductive => ChunksAccounted
    BY DEF CommandInductive
  <1> QED
    BY <1>1, CommandInductiveHolds, PTL
=============================================================================
