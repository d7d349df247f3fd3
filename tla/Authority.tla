------------------------------ MODULE Authority -----------------------------
(***************************************************************************)
(* The Account Runtime Authority of one account (authority.py) and the     *)
(* certification of its coordination database (coordination.py, create()   *)
(* and _initialize()): the file that names the one database every shared   *)
(* runtime of the account must use.                                        *)
(*                                                                         *)
(* A process calls resolve() under the per-account OS lock, as an operator *)
(* bootstrap or as a runtime that may only verify, and then opens the      *)
(* database the record certifies.  One step is the code between two file   *)
(* operations, so a crash can leave one without the other.                 *)
(***************************************************************************)
CONSTANTS Process,        \* operators and runtimes
          Path,           \* database paths a caller may intend
          Default,        \* default_coordination_db_path()
          Uuid,           \* database uuids, one per attempt to bootstrap
          None

Record == [path : Path, uuid : Uuid]

ASSUME AuthorityAssumption ==
  /\ Default \in Path
  /\ None \notin Process \cup Path \cup Uuid \cup Record \cup { "foreign" }
  /\ "foreign" \notin Uuid

VARIABLES pc,             \* where each process stands
          bootstrap,      \* resolve(bootstrap=...) of each process
          intended,       \* its coordination_db_path argument, or None
          certified,      \* the record it resolved, or None
          lock,           \* the process that has the authority lock, or None
          authority,      \* the authority file: a record, or None
          db              \* path -> uuid in the database's identity row,
                          \* "foreign" for a file without it, None for no file

vars == << pc, bootstrap, intended, certified, lock, authority, db >>

Init ==
  /\ pc = [p \in Process |-> "out"]
  /\ bootstrap = [p \in Process |-> FALSE]
  /\ intended = [p \in Process |-> None]
  /\ certified = [p \in Process |-> None]
  /\ lock = None
  /\ authority = None
  /\ db = [path \in Path |-> None]

TargetOf(p) == IF intended[p] = None THEN Default ELSE intended[p]

\* The call fails, or the process ends: its lock is released, by release()
\* or by the operating system, and nothing of it remains but the files.
Leave(p) ==
  /\ pc' = [pc EXCEPT ![p] = "out"]
  /\ bootstrap' = [bootstrap EXCEPT ![p] = FALSE]
  /\ intended' = [intended EXCEPT ![p] = None]
  /\ certified' = [certified EXCEPT ![p] = None]
  /\ lock' = IF lock = p THEN None ELSE lock

\* resolve() returns the record.
Resolved(p, record) ==
  /\ pc' = [pc EXCEPT ![p] = "open"]
  /\ certified' = [certified EXCEPT ![p] = record]
  /\ lock' = None
  /\ UNCHANGED << bootstrap, intended >>

\* Mutant of Acquire: resolve() without the lock.
AcquireUnlocked(p) ==
  /\ pc[p] = "out"
  /\ pc' = [pc EXCEPT ![p] = "read"]
  /\ \E b \in BOOLEAN, path \in Path \cup { None } :
       /\ bootstrap' = [bootstrap EXCEPT ![p] = b]
       /\ intended' = [intended EXCEPT ![p] = path]
  /\ UNCHANGED << certified, lock, authority, db >>

(***************************************************************************)
(* resolve(): take the lock, read the record and verify it, or refuse, or  *)
(* go on to the bootstrap.                                                 *)
(***************************************************************************)
Acquire(p) ==
  /\ pc[p] = "out" /\ lock = None
  /\ lock' = p
  /\ pc' = [pc EXCEPT ![p] = "read"]
  /\ \E b \in BOOLEAN, path \in Path \cup { None } :
       /\ bootstrap' = [bootstrap EXCEPT ![p] = b]
       /\ intended' = [intended EXCEPT ![p] = path]
  /\ UNCHANGED << certified, authority, db >>

VerifyAuthority(p) ==
  /\ pc[p] = "read" /\ authority # None
  /\ IF intended[p] \in { None, authority.path } THEN Resolved(p, authority) ELSE Leave(p)
  /\ UNCHANGED << authority, db >>

RefuseMissing(p) ==
  /\ pc[p] = "read" /\ authority = None /\ ~ bootstrap[p]
  /\ Leave(p)
  /\ UNCHANGED << authority, db >>

\* Mutant of CreateFile: a bootstrap recreates a database that is missing,
\* whether or not a record exists.
CreateMissing(p) ==
  /\ pc[p] = "read" /\ bootstrap[p] /\ db[TargetOf(p)] = None
  /\ db' = [db EXCEPT ![TargetOf(p)] = "foreign"]
  /\ pc' = [pc EXCEPT ![p] = "insert"]
  /\ UNCHANGED << bootstrap, intended, certified, lock, authority >>

(***************************************************************************)
(* _bootstrap(): create() makes the file (sqlite3.connect), then commits   *)
(* the identity row; the record is written last, by os.replace.            *)
(***************************************************************************)
CreateFile(p) ==
  /\ pc[p] = "read" /\ authority = None /\ bootstrap[p]
  /\ IF db[TargetOf(p)] # None
     THEN Leave(p) /\ UNCHANGED db
     ELSE /\ db' = [db EXCEPT ![TargetOf(p)] = "foreign"]
          /\ pc' = [pc EXCEPT ![p] = "insert"]
          /\ UNCHANGED << bootstrap, intended, certified, lock >>
  /\ UNCHANGED authority

\* uuid4() never repeats; a failed transaction leaves the file behind.
InsertIdentity(p) ==
  /\ pc[p] = "insert"
  /\ \/ \E u \in Uuid :
          /\ \A path \in Path : db[path] # u
          /\ db' = [db EXCEPT ![TargetOf(p)] = u]
          /\ certified' = [certified EXCEPT ![p] = [path |-> TargetOf(p), uuid |-> u]]
          /\ pc' = [pc EXCEPT ![p] = "write"]
          /\ UNCHANGED << bootstrap, intended, lock >>
     \/ Leave(p) /\ UNCHANGED db
  /\ UNCHANGED authority

\* Mutant of WriteAuthority: the uuid is written instead of the record.
WriteUuidOnly(p) ==
  /\ pc[p] = "write"
  /\ authority' = certified[p].uuid
  /\ Resolved(p, certified[p])
  /\ UNCHANGED db

WriteAuthority(p) ==
  /\ pc[p] = "write"
  /\ authority' = certified[p]
  /\ Resolved(p, certified[p])
  /\ UNCHANGED db

(***************************************************************************)
(* SQLiteExecutionCoordinator(path, expected_identity): the file must be   *)
(* there and carry exactly the certified identity.                         *)
(***************************************************************************)
OpenDatabase(p) ==
  /\ pc[p] = "open"
  /\ IF db[certified[p].path] = certified[p].uuid
     THEN /\ pc' = [pc EXCEPT ![p] = "attached"]
          /\ UNCHANGED << bootstrap, intended, certified, lock >>
     ELSE Leave(p)
  /\ UNCHANGED << authority, db >>

\* close(), or the process dies.
Stop(p) ==
  /\ pc[p] # "out"
  /\ Leave(p)
  /\ UNCHANGED << authority, db >>

\* Between two resolve() calls a database file is lost, or replaced by one
\* without the identity.
Tamper(path) ==
  /\ lock = None /\ db[path] # None
  /\ db' = [db EXCEPT ![path] = None] \/ db' = [db EXCEPT ![path] = "foreign"]
  /\ UNCHANGED << pc, bootstrap, intended, certified, lock, authority >>

(***************************************************************************)
(* prepare(), restore(), update_finality() or has_claim() of an attached   *)
(* coordinator: _connect() opens whatever is at the path, without a look   *)
(* at its identity, and creates an empty file when there is nothing.       *)
(***************************************************************************)
Transact(p) ==
  LET path == certified[p].path IN
  /\ pc[p] = "attached"
  /\ db' = [db EXCEPT ![path] = IF @ = None THEN "foreign" ELSE @]
  /\ UNCHANGED << pc, bootstrap, intended, certified, lock, authority >>

Step(p) ==
  \/ Acquire(p) \/ VerifyAuthority(p) \/ RefuseMissing(p) \/ CreateFile(p)
  \/ InsertIdentity(p) \/ WriteAuthority(p) \/ OpenDatabase(p) \/ Transact(p) \/ Stop(p)

Next == (\E p \in Process : Step(p)) \/ (\E path \in Path : Tamper(path))

Spec == Init /\ [][Next]_vars

-----------------------------------------------------------------------------
TypeOK ==
  /\ pc \in [Process -> { "out", "read", "insert", "write", "open", "attached" }]
  /\ bootstrap \in [Process -> BOOLEAN]
  /\ intended \in [Process -> Path \cup { None }]
  /\ certified \in [Process -> Record \cup { None }]
  /\ lock \in Process \cup { None }
  /\ authority \in Record \cup { None }
  /\ db \in [Path -> Uuid \cup { "foreign", None }]

(***************************************************************************)
(* AUTH-001: all runtimes of the account that passed the certification     *)
(* coordinate in one database, whatever bootstraps raced, crashed or aimed *)
(* at other paths before (authority.py:325-352).                           *)
(***************************************************************************)
OneDomain ==
  \A p \in Process : pc[p] \in { "open", "attached" } => certified[p] = authority

(***************************************************************************)
(* The record is written once, after the database it names carries its     *)
(* identity, and is never rewritten, not even when the database has been   *)
(* lost or replaced (authority.py:296-300, 379-392).                       *)
(***************************************************************************)
WrittenOnce ==
  [][ authority' # authority => authority = None ]_vars

(***************************************************************************)
(* A replaced or recreated database never inherits the certified identity: *)
(* no other identity is ever certified at the path the record names        *)
(* (coordination.py:355-492).                                              *)
(***************************************************************************)
NoOtherIdentity ==
  authority # None => db[authority.path] \in { authority.uuid, "foreign", None }

=============================================================================
