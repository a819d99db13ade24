------------------------------- MODULE Commands -------------------------------
(***************************************************************************)
(* The processes of cmd/backup-agent and cmd/peerctl from start to exit:   *)
(* they load the configuration, make an agent, which connects to the       *)
(* bootstrap peers and goes on looking for others in the background        *)
(* (p2p.Setup), and do their job: take a snapshot, run as a daemon, or add *)
(* or remove a peer.                                                       *)
(*                                                                         *)
(* The network is the environment: connecting may fail, peers come and go, *)
(* connections break.  libp2p is external.                                 *)
(***************************************************************************)
EXTENDS Config, Chunker

CONSTANTS Files,  \* what the configuration file may set: records of some settings
          Envs,   \* what the environment may set
          Trees,  \* the lengths of the files of a directory to back up
          Peers,
          Self    \* the node itself, which also advertises

\* The types of the settings that matter: numbers, and the list of the bootstrap
\* addresses, some of which may not parse.
Fits(x, v) ==
    /\ x \in Numbers => v \in Int
    /\ x = "peer_bootstrap" => v \in Seq(Peers \cup {Garbage})

\* A file that decodes has values of these types; a variable of the environment is
\* text, and Garbage if it is no value of its type.
ASSUME SettingsFit ==
    /\ \A s \in Files : \A x \in DOMAIN s : Fits(x, s[x])
    /\ \A s \in Envs : \A x \in DOMAIN s : s[x] = Garbage \/ Fits(x, s[x])
    /\ Trees \subseteq Seq(Nat)

VARIABLES ppc,     \* control state of the process
          cfg,     \* the configuration; after New only what is still used of it
          job,     \* "snapshot", "daemon", "add", "remove" or "list"
          target,  \* the peer to add or remove; Garbage if it does not parse
          boot,    \* bootstrap addresses still to be tried
          disc,    \* the discovery goroutine: "none", "start" or "loop"
          found,   \* what FindPeers has delivered and the loop not looked at
          conn,    \* the peers the host is connected to
          adv,     \* the peers that advertise themselves
          stored   \* the peers bucket

p2pVars == <<boot, disc, found, conn>>
commandVars == <<ppc, cfg, job, target, p2pVars, adv, stored, walkVars>>

Unset == [f \in {} |-> 0]

\* What New keeps using.
Used == {"min_chunk_size", "max_chunk_size", "discovery_interval"}

CommandInit ==
    /\ ppc = "off" /\ cfg = Unset
    /\ job = "none" /\ target = Garbage
    /\ boot = <<>> /\ disc = "none" /\ found = {} /\ conn = {}
    /\ adv = {} /\ stored = {}
    /\ WalkInit

\* The process exits, by itself, by a signal or by a crash.
ProcessExit ==
    /\ ppc' = "off" /\ cfg' = Unset
    /\ job' = "none" /\ target' = Garbage
    /\ boot' = <<>> /\ disc' = "none" /\ found' = {} /\ conn' = {}
    /\ WalkReset("idle")
    /\ UNCHANGED adv

-----------------------------------------------------------------------------
(* config.Load *)

\* The file is decoded; one that cannot be opened or decoded (an empty one cannot)
\* ends the command before anything has changed.
LoadFile(f) ==
    /\ ppc = "off"
    /\ ppc' = "env"
    /\ cfg' = [x \in DOMAIN Zero |-> IF x \in DOMAIN f THEN f[x] ELSE Zero[x]]
    /\ UNCHANGED <<job, target, p2pVars, adv, stored, walkVars>>

LoadEnv(e) ==
    /\ ppc = "env"
    /\ ppc' = "defaults"
    /\ cfg' = Overrides(cfg, e)
    /\ UNCHANGED <<job, target, p2pVars, adv, stored, walkVars>>

\* Defaults, then validation; an invalid configuration ends the command.
LoadValidate ==
    /\ ppc = "defaults"
    /\ IF Validate(Defaults(cfg))
       THEN /\ ppc' = "loaded"
            /\ cfg' = Defaults(cfg)
            /\ UNCHANGED <<job, target, p2pVars, adv, stored, walkVars>>
       ELSE ProcessExit /\ UNCHANGED stored

-----------------------------------------------------------------------------
(* agent.New and p2p.Setup *)

\* The host is made.  Which command it is matters from here on.
SetupHost(j, peer) ==
    /\ ppc = "loaded"
    /\ ppc' = "boot"
    /\ job' = j
    /\ target' = peer
    /\ boot' = cfg.peer_bootstrap
    /\ cfg' = [f \in Used |-> cfg[f]]
    /\ UNCHANGED <<disc, found, conn, adv, stored, walkVars>>

\* Fault: an address that does not parse is tried all the same.
SetupBootstrapUnparsed ==
    /\ ppc = "boot"
    /\ boot # <<>>
    /\ boot' = Tail(boot)
    /\ conn' = conn \cup {Head(boot)}
    /\ UNCHANGED <<ppc, cfg, job, target, disc, found, adv, stored, walkVars>>

\* The next bootstrap address: one that does not parse is passed over, and so is a
\* peer that cannot be reached.
SetupBootstrap ==
    /\ ppc = "boot"
    /\ boot # <<>>
    /\ boot' = Tail(boot)
    /\ \/ UNCHANGED conn
       \/ Head(boot) # Garbage /\ conn' = conn \cup {Head(boot)}
    /\ UNCHANGED <<ppc, cfg, job, target, disc, found, adv, stored, walkVars>>

\* The topic is joined, the discovery goroutine started, and New returns.
SetupDone ==
    /\ ppc = "boot"
    /\ boot = <<>>
    /\ ppc' = "run"
    /\ disc' = "start"
    /\ UNCHANGED <<cfg, job, target, boot, found, conn, adv, stored, walkVars>>

\* time.NewTicker: an interval that is not positive makes it panic, which ends the
\* process whatever command is running.
DiscoveryStart ==
    /\ disc = "start"
    /\ IF cfg.discovery_interval > 0
       THEN /\ disc' = "loop"
            /\ UNCHANGED <<ppc, cfg, job, target, boot, found, conn, adv,
                           stored, walkVars>>
       ELSE ProcessExit /\ UNCHANGED stored

\* At a tick FindPeers returns the peers that advertise by then, or fails.
DiscoveryTick ==
    /\ disc = "loop"
    /\ found = {}
    /\ found' = adv \cup {Self}
    /\ UNCHANGED <<ppc, cfg, job, target, boot, disc, conn, adv, stored,
                   walkVars>>

\* The next peer found is passed over: it is the node itself, or it is connected.
DiscoveryPass(p) ==
    /\ p \in found
    /\ p = Self \/ p \in conn
    /\ found' = found \ {p}
    /\ UNCHANGED <<ppc, cfg, job, target, boot, disc, conn, adv, stored,
                   walkVars>>

\* Fault: the test for the node itself is the wrong way round.
DiscoveryConnectSelf(p) ==
    /\ p \in found
    /\ p = Self
    /\ found' = found \ {p}
    /\ UNCHANGED <<ppc, cfg, job, target, boot, disc, conn, adv, stored,
                   walkVars>>

\* It is connected to, or cannot be.
DiscoveryConnect(p) ==
    /\ p \in found
    /\ p # Self /\ p \notin conn
    /\ conn' = conn \cup {p}
    /\ found' = found \ {p}
    /\ UNCHANGED <<ppc, cfg, job, target, boot, disc, adv, stored, walkVars>>

DiscoveryConnectFails(p) ==
    /\ p \in found
    /\ p # Self /\ p \notin conn
    /\ found' = found \ {p}
    /\ UNCHANGED <<ppc, cfg, job, target, boot, disc, conn, adv, stored,
                   walkVars>>

-----------------------------------------------------------------------------
(* The commands *)

\* backup-agent snapshot: CreateSnapshot with the loaded sizes.
SnapshotStep ==
    /\ ppc = "run" /\ job = "snapshot"
    /\ \/ \E t \in Trees : WalkBegin(t)
       \/ WalkNext(cfg.min_chunk_size, cfg.max_chunk_size)
    /\ UNCHANGED <<ppc, cfg, job, target, p2pVars, adv, stored>>

SnapshotExit ==
    /\ ppc = "run" /\ job = "snapshot"
    /\ wpc \in {"done", "failed"}
    /\ ProcessExit
    /\ UNCHANGED stored

\* peerctl add: an address that does not parse, or a peer that cannot be reached,
\* ends the command (Kill); otherwise the peer is stored.
PeerAddConnect ==
    /\ ppc = "run" /\ job = "add"
    /\ target # Garbage
    /\ conn' = conn \cup {target}
    /\ ppc' = "store"
    /\ UNCHANGED <<cfg, job, target, boot, disc, found, adv, stored, walkVars>>

PeerAddStore ==
    /\ ppc = "store"
    /\ ProcessExit
    /\ stored' = stored \cup {target}

\* peerctl remove deletes the record and no connection.
PeerRemove ==
    /\ ppc = "run" /\ job = "remove"
    /\ ProcessExit
    /\ stored' = stored \ {target}

\* peerctl list only reads.
PeerList ==
    /\ ppc = "run" /\ job = "list"
    /\ ProcessExit
    /\ UNCHANGED stored

\* A signal (RunDaemon), an error of any step or a crash.
Kill ==
    /\ ppc # "off"
    /\ ProcessExit
    /\ UNCHANGED stored

-----------------------------------------------------------------------------
(* The network *)

Advertise(p) ==
    /\ adv' = IF p \in adv THEN adv \ {p} ELSE adv \cup {p}
    /\ UNCHANGED <<ppc, cfg, job, target, p2pVars, stored, walkVars>>

Disconnect(p) ==
    /\ p \in conn
    /\ conn' = conn \ {p}
    /\ UNCHANGED <<ppc, cfg, job, target, boot, disc, found, adv, stored,
                   walkVars>>

-----------------------------------------------------------------------------
LoadNext == (\E f \in Files : LoadFile(f)) \/ (\E e \in Envs : LoadEnv(e)) \/ LoadValidate

SetupNext ==
    \/ \E j \in {"snapshot", "daemon", "list"} : SetupHost(j, Garbage)
    \/ \E j \in {"add", "remove"}, p \in Peers \cup {Garbage} : SetupHost(j, p)
    \/ SetupBootstrap
    \/ SetupDone

DiscoveryNext ==
    \/ DiscoveryStart
    \/ DiscoveryTick
    \/ \E p \in found : DiscoveryPass(p) \/ DiscoveryConnect(p) \/ DiscoveryConnectFails(p)

JobNext ==
    \/ SnapshotStep
    \/ SnapshotExit
    \/ PeerAddConnect
    \/ PeerAddStore
    \/ PeerRemove
    \/ PeerList

CommandNext ==
    \/ LoadNext
    \/ SetupNext
    \/ DiscoveryNext
    \/ JobNext
    \/ Kill
    \/ \E p \in Peers : Advertise(p) \/ Disconnect(p)

CommandSpec == CommandInit /\ [][CommandNext]_commandVars

\* Goroutines run and the ticker ticks; FindPeers and connecting to a peer that goes
\* on advertising do not fail every single time.
CommandFairness ==
    /\ WF_commandVars(SnapshotStep /\ wpc' # "failed")
    /\ WF_commandVars(DiscoveryNext)
    /\ \A p \in Peers : SF_commandVars(DiscoveryConnect(p))

FairCommandSpec == CommandSpec /\ CommandFairness

-----------------------------------------------------------------------------
(* Properties *)

\* Type correctness of the process, its host and its walk.
CommandTypeOK ==
    /\ ppc \in {"off", "env", "defaults", "loaded", "boot", "run", "store"}
    /\ ppc \in {"env", "defaults", "loaded"} => DOMAIN cfg = DOMAIN Zero
    /\ ppc \in {"boot", "run", "store"} => DOMAIN cfg = Used
    /\ target \in Peers \cup {Garbage}
    /\ disc \in {"none", "start", "loop"}
    /\ found \subseteq Peers \cup {Self}
    /\ conn \subseteq Peers /\ adv \subseteq Peers /\ stored \subseteq Peers
    /\ wpc \in {"idle", "walk", "done", "failed"}
    /\ wpc = "walk" => cur \in 1 .. Len(tree) + 1

\* Under every configuration that Load accepts, CreateSnapshot lists the chunks of
\* all files in order and without overlap, none of them empty or too long, and
\* leaves out only bytes that a Read delivered behind a boundary.
ChunksAccounted ==
    wpc # "idle" =>
        ChunksInOrder(cfg.min_chunk_size) /\ ChunkSizes(cfg.max_chunk_size)

\* The walk ends: no sequence of reads, boundaries and empty files keeps it going.
SnapshotEnds == wpc = "walk" ~> wpc # "walk"

\* A running node finds a peer that goes on advertising, and finds it again after
\* the connection broke, unless the loop never began.
PeersFound ==
    \A p \in Peers : []<>(p \in conn \/ p \notin adv \/ disc # "loop")

-----------------------------------------------------------------------------
(* Statements of the repository's tests and docs that the code does not keep. *)

\* internal/chunker/chunker_test.go:30: "if total != len(data)".  When the end of a
\* file is reached, all its bytes are in chunks.
AllBytesChunked ==
    wpc = "done" => \A f \in 1 .. Len(tree) : BytesChunked(f) = tree[f]

\* docs/PRODUCTION_ENHANCEMENTS.md:24: "Comprehensive validation - Validates ports,
\* chunk sizes, timeouts, and all config values".  The interval of a configuration
\* that was validated is one that the ticker of the discovery goroutine accepts.
TickerStarts == disc = "start" => cfg.discovery_interval > 0
=============================================================================
