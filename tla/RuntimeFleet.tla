---------------------------- MODULE RuntimeFleet ----------------------------
(***************************************************************************)
(* The runtimes of several strategies on one QMT userdata path             *)
(* (miniqmt/runtime.py, miniqmt/session_id.py): who may start a trader,    *)
(* and with which session id.  An exclusive runtime takes the runtime      *)
(* mutex; a shared one walks through its candidate ids and takes the lease *)
(* of one.  Both are OS file locks (mutex.py): acquire() does not wait,    *)
(* and a process that dies loses them.  Ids are relative to pool_start.    *)
(* A trader whose stop() fails goes on without its lock: it is left behind *)
(* until the process ends.                                                 *)
(*                                                                         *)
(* What a runtime does once it is connected is module Runtime.             *)
(***************************************************************************)
EXTENDS Naturals, FiniteSets

CONSTANTS Process,
          Configs,        \* the configurations a process may have
          PoolSize,       \* session_id_pool_size
          AttemptLimit,   \* session_id_attempts
          OtherId,        \* an id that exclusive mode may draw outside the pool
          NoId, Nobody,
          MaxCrashes,     \* bound: crashes of one behaviour
          MaxLeft         \* bound: traders that run on at one time

Pool == 0 .. PoolSize - 1
SessionIds == Pool \cup { OtherId }

ASSUME FleetAssumption ==
  /\ PoolSize \in Nat \ {0} /\ AttemptLimit \in Nat \ {0} /\ MaxCrashes \in Nat /\ MaxLeft \in Nat
  /\ OtherId \notin Pool /\ NoId \notin SessionIds /\ Nobody \notin Process
  /\ Configs \subseteq [mode : { "exclusive", "shared" },
                        session_id : Pool \cup { NoId }, offset : Pool]

VARIABLES config,
          pc,             \* where connect() or close() of each process stands
          index,          \* the candidate it is at
          trader,         \* the session id of the trader it has not yet stopped
          left,           \* the ids of its traders that run on after a stop() that failed
          mutex,          \* who owns the runtime mutex
          lease,          \* id -> who owns the lease file
          tried,          \* history: the candidates connect() has tried
          crashes

fleetVars == << config, pc, index, trader, left, mutex, lease, tried, crashes >>

FleetInit ==
  /\ config \in [Process -> Configs]
  /\ pc = [p \in Process |-> "start"]
  /\ index = [p \in Process |-> 0]
  /\ trader = [p \in Process |-> NoId]
  /\ left = [p \in Process |-> {}]
  /\ mutex = Nobody
  /\ lease = [i \in Pool |-> Nobody]
  /\ tried = [p \in Process |-> {}]
  /\ crashes = 0

Shared(p) == config[p].mode = "shared"
Fixed(p) == config[p].session_id # NoId
Goto(p, l) == pc' = [pc EXCEPT ![p] = l]

\* attempts is at most the size of the pool; an exact id is one candidate.
attempts == IF AttemptLimit < PoolSize THEN AttemptLimit ELSE PoolSize

Candidates(p) == IF Fixed(p) THEN 1 ELSE attempts

\* Mutant of candidate: every attempt is at the preferred id.
SameCandidate(p, i) == IF Fixed(p) THEN config[p].session_id ELSE config[p].offset

candidate(p, i) ==
  IF Fixed(p) THEN config[p].session_id ELSE (config[p].offset + i) % PoolSize

-----------------------------------------------------------------------------
(***************************************************************************)
(* Exclusive mode: the mutex, then any id.                                 *)
(***************************************************************************)
acquire_mutex(p) ==
  /\ pc[p] = "start" /\ ~Shared(p)
  /\ IF mutex = Nobody
     THEN mutex' = p /\ Goto(p, "build")
     ELSE mutex' = mutex /\ Goto(p, "failed")
  /\ UNCHANGED << config, index, trader, left, lease, tried, crashes >>

(***************************************************************************)
(* Shared mode: the candidate loop.  A candidate that is leased or does    *)
(* not connect makes room for the next one; an exact id does not.          *)
(***************************************************************************)
\* Mutant of NextCandidate: the loop begins again.
CandidatesForEver(p) ==
  /\ index' = [index EXCEPT ![p] = (@ + 1) % Candidates(p)]
  /\ Goto(p, "start")

NextCandidate(p) ==
  IF Fixed(p) \/ index[p] + 1 >= Candidates(p)
  THEN Goto(p, "failed") /\ index' = index
  ELSE Goto(p, "start") /\ index' = [index EXCEPT ![p] = @ + 1]

acquire_exact(p) ==
  LET id == candidate(p, index[p]) IN
  /\ pc[p] = "start" /\ Shared(p)
  /\ tried' = [tried EXCEPT ![p] = @ \cup { id }]
  /\ IF lease[id] = Nobody
     THEN /\ lease' = [lease EXCEPT ![id] = p]
          /\ Goto(p, "build") /\ index' = index
     ELSE lease' = lease /\ NextCandidate(p)
  /\ UNCHANGED << config, trader, left, mutex, crashes >>

\* Mutant of run_trader: a shared runtime draws its id as an exclusive one does.
TraderIgnoresLease(p) ==
  /\ pc[p] = "build"
  /\ \E id \in SessionIds : trader' = [trader EXCEPT ![p] = id]
  /\ Goto(p, "connect")
  /\ UNCHANGED << config, index, left, mutex, lease, tried, crashes >>

\* trader_factory(), start(); exclusive mode draws a random id.
run_trader(p) ==
  /\ pc[p] = "build"
  /\ \E id \in SessionIds :
       /\ Shared(p) => id = candidate(p, index[p])
       /\ ~Shared(p) /\ Fixed(p) => id = config[p].session_id
       /\ trader' = [trader EXCEPT ![p] = id]
  /\ Goto(p, "connect")
  /\ UNCHANGED << config, index, left, mutex, lease, tried, crashes >>

\* connect() of the trader returned 0.
connect_ok(p) ==
  /\ pc[p] = "connect"
  /\ Goto(p, "up")
  /\ UNCHANGED << config, index, trader, left, mutex, lease, tried, crashes >>

\* The factory, start() or connect() of the trader fails.
connect_fails(p) ==
  /\ pc[p] \in { "build", "connect" }
  /\ Goto(p, "give_up")
  /\ UNCHANGED << config, index, trader, left, mutex, lease, tried, crashes >>

(***************************************************************************)
(* The end of a runtime whose trader was connected (close(), or a later    *)
(* step of connect() that fails) and of a candidate: first the trader,     *)
(* then the lock.                                                          *)
(***************************************************************************)
close(p) ==
  /\ pc[p] = "up"
  /\ Goto(p, "closing")
  /\ UNCHANGED << config, index, trader, left, mutex, lease, tried, crashes >>

Left == { s \in Process \X SessionIds : s[2] \in left[s[1]] }

\* _best_effort_stop(): the trader ends, or stop() raises or is missing; p goes
\* on either way.
stop_trader(p) ==
  /\ pc[p] \in { "closing", "give_up" } /\ trader[p] # NoId
  /\ trader' = [trader EXCEPT ![p] = NoId]
  /\ \/ left' = left
     \/ Cardinality(Left) < MaxLeft /\ left' = [left EXCEPT ![p] = @ \cup { trader[p] }]
  /\ UNCHANGED << config, pc, index, mutex, lease, tried, crashes >>

\* What p owns, given back: release() of the lease and of the mutex.
Released(p) ==
  /\ mutex' = IF mutex = p THEN Nobody ELSE mutex
  /\ lease' = [i \in Pool |-> IF lease[i] = p THEN Nobody ELSE lease[i]]

release_closed(p) ==
  /\ pc[p] = "closing" /\ trader[p] = NoId
  /\ Released(p)
  /\ Goto(p, "done")
  /\ UNCHANGED << config, index, trader, left, tried, crashes >>

\* Mutant of release_failed: the lease of a candidate that failed stays.
FailureKeepsLease(p) ==
  /\ pc[p] = "give_up" /\ trader[p] = NoId
  /\ UNCHANGED << mutex, lease >>
  /\ IF Shared(p) THEN NextCandidate(p) ELSE Goto(p, "failed") /\ index' = index
  /\ UNCHANGED << config, trader, left, tried, crashes >>

release_failed(p) ==
  /\ pc[p] = "give_up" /\ trader[p] = NoId
  /\ Released(p)
  /\ IF Shared(p) THEN NextCandidate(p) ELSE Goto(p, "failed") /\ index' = index
  /\ UNCHANGED << config, trader, left, tried, crashes >>

\* The process dies and is started again: its traders and its locks are gone.
crash(p) ==
  /\ crashes < MaxCrashes /\ pc[p] \notin { "done", "failed" }
  /\ crashes' = crashes + 1
  /\ Released(p)
  /\ trader' = [trader EXCEPT ![p] = NoId]
  /\ left' = [left EXCEPT ![p] = {}]
  /\ index' = [index EXCEPT ![p] = 0]
  /\ tried' = [tried EXCEPT ![p] = {}]
  /\ Goto(p, "start")
  /\ UNCHANGED config

-----------------------------------------------------------------------------
Connect(p) ==
  \/ acquire_mutex(p) \/ acquire_exact(p) \/ run_trader(p)
  \/ connect_ok(p) \/ connect_fails(p)
  \/ stop_trader(p) \/ release_closed(p) \/ release_failed(p)

FleetNext == \E p \in Process : Connect(p) \/ close(p) \/ crash(p)

FleetSpec == FleetInit /\ [][FleetNext]_fleetVars

\* A process goes on with what it has begun; nobody has to close().
FairFleetSpec == FleetSpec /\ \A p \in Process : WF_fleetVars(Connect(p))

-----------------------------------------------------------------------------
Running(p) == trader[p] # NoId

(***************************************************************************)
(* Two shared runtimes never run traders under one session id, while they  *)
(* start, fall back to the next candidate, stop and crash in any order,    *)
(* and whichever traders of others were left behind (runtime.py:382-430,   *)
(* session_id.py:77-85).  Of a trader that its runtime could not stop      *)
(* nothing is promised: its lease is released all the same (416-419,       *)
(* 660-664), and the next runtime may take the id while it runs.           *)
(***************************************************************************)
SessionIdsDiffer ==
  \A p, q \in Process :
    p # q /\ Shared(p) /\ Shared(q) /\ Running(p) => trader[p] # trader[q]

(***************************************************************************)
(* A shared runtime gives up only when it has tried as many different ids  *)
(* as it may: the walk around the pool neither repeats an id nor stops at  *)
(* the first that is taken (session_id.py:67-75).                          *)
(***************************************************************************)
GivesUpLate ==
  \A p \in Process :
    Shared(p) /\ pc[p] = "failed" => Cardinality(tried[p]) = Candidates(p)

(***************************************************************************)
(* A runtime that is gone owns no lock, so nothing but a live process ever *)
(* blocks another one (runtime.py:416-419, 535-540, 660-664).              *)
(***************************************************************************)
LocksHaveLiveOwners ==
  \A p \in Process :
    pc[p] \in { "done", "failed" } => mutex # p /\ \A i \in Pool : lease[i] # p

(***************************************************************************)
(* "No unlimited retry" (docs/OPERATIONS.md:126): every connect() succeeds *)
(* or fails in the end, whatever ids the others take and give back.        *)
(***************************************************************************)
ConnectEnds ==
  \A p \in Process : pc[p] = "start" ~> pc[p] \in { "up", "failed" }

=============================================================================
