--------------------------- MODULE IdentityProofs ---------------------------
(***************************************************************************)
(* How a process knows its own: its database (module Authority), for any   *)
(* number of processes, paths and bootstraps, and its order (module        *)
(* OrderIdentity), for every window, any number of cycles, any requests    *)
(* and any orders of others.                                               *)
(***************************************************************************)
EXTENDS Authority, OrderIdentity, Integers, TLAPS

(***************************************************************************)
(* The database.  OneDomain is not inductive: it has to be known that      *)
(* whoever is inside resolve() has the lock, that a bootstrap under way    *)
(* means there is no record yet, and that the database it is about to      *)
(* certify carries the uuid it is about to write.                          *)
(***************************************************************************)
LockIsHeld ==
  \A p \in Process : pc[p] \in { "read", "insert", "write" } => lock = p

BootstrapHasNoRecord ==
  \A p \in Process : pc[p] \in { "insert", "write" } => authority = None

BootstrapIsCertified ==
  \A p \in Process : pc[p] = "write" =>
    /\ certified[p] \in Record
    /\ db[certified[p].path] = certified[p].uuid

DomainIsRecorded ==
  \A p \in Process : pc[p] \in { "open", "attached" } =>
    certified[p] = authority /\ authority # None

IInv ==
  /\ TypeOK
  /\ LockIsHeld
  /\ BootstrapHasNoRecord
  /\ BootstrapIsCertified
  /\ DomainIsRecorded
  /\ NoOtherIdentity

\* The invariant holds at the start ...
LEMMA InitIInv == Init => IInv
  BY AuthorityAssumption
  DEF Init, IInv, TypeOK, LockIsHeld, BootstrapHasNoRecord, BootstrapIsCertified,
      DomainIsRecorded, NoOtherIdentity

\* Leaving takes nothing from the others.
LEMMA LeaveIInv ==
  ASSUME IInv, NEW p \in Process, Leave(p), UNCHANGED << authority, db >>
  PROVE  IInv'
  BY AuthorityAssumption
  DEF Leave, IInv, TypeOK, LockIsHeld, BootstrapHasNoRecord, BootstrapIsCertified,
      DomainIsRecorded, NoOtherIdentity

\* ... every step preserves it ...
LEMMA NextIInv == IInv /\ [Next]_vars => IInv'
<1> SUFFICES ASSUME IInv, [Next]_vars
             PROVE  IInv'
  OBVIOUS
<1> USE AuthorityAssumption
    DEF IInv, TypeOK, LockIsHeld, BootstrapHasNoRecord, BootstrapIsCertified,
        DomainIsRecorded, NoOtherIdentity
<1>1. CASE UNCHANGED vars
  BY <1>1 DEF vars
<1>2. ASSUME NEW p \in Process, Step(p)
      PROVE  IInv'
  <2>1. CASE Acquire(p)
    BY <1>2, <2>1 DEF Acquire
  <2>2. CASE VerifyAuthority(p)
    <3>1. CASE Resolved(p, authority)
      BY <1>2, <2>2, <3>1 DEF VerifyAuthority, Resolved
    <3>2. CASE Leave(p)
      BY <1>2, <2>2, <3>2, LeaveIInv DEF VerifyAuthority
    <3> QED
      BY <2>2, <3>1, <3>2 DEF VerifyAuthority
  <2>3. CASE RefuseMissing(p)
    BY <1>2, <2>3, LeaveIInv DEF RefuseMissing
  <2>4. CASE CreateFile(p)
    <3>1. CASE db[TargetOf(p)] # None
      BY <1>2, <2>4, <3>1, LeaveIInv DEF CreateFile
    <3>2. CASE db[TargetOf(p)] = None
      <4>1. TargetOf(p) \in Path
        BY DEF TargetOf
      <4> QED
        BY <1>2, <2>4, <3>2, <4>1 DEF CreateFile
    <3> QED
      BY <3>1, <3>2
  <2>5. CASE InsertIdentity(p)
    <3>1. CASE Leave(p) /\ UNCHANGED db
      BY <1>2, <2>5, <3>1, LeaveIInv DEF InsertIdentity
    <3>2. CASE ~ (Leave(p) /\ UNCHANGED db)
      <4>1. TargetOf(p) \in Path
        BY DEF TargetOf
      <4>2. PICK u \in Uuid :
              /\ db' = [db EXCEPT ![TargetOf(p)] = u]
              /\ certified' = [certified EXCEPT ![p] = [path |-> TargetOf(p), uuid |-> u]]
              /\ pc' = [pc EXCEPT ![p] = "write"]
              /\ UNCHANGED << bootstrap, intended, lock, authority >>
        BY <2>5, <3>2 DEF InsertIdentity
      <4>3. [path |-> TargetOf(p), uuid |-> u] \in Record
        BY <4>1 DEF Record
      <4> QED
        BY <1>2, <2>5, <4>1, <4>2, <4>3 DEF InsertIdentity
    <3> QED
      BY <3>1, <3>2
  <2>6. CASE WriteAuthority(p)
    <3>1. certified[p] \in Record /\ lock = p /\ authority = None
      BY <2>6 DEF WriteAuthority
    <3>2. \A q \in Process : q # p => pc[q] \in { "out" }
      BY <2>6, <3>1 DEF WriteAuthority
    <3> QED
      BY <1>2, <2>6, <3>1, <3>2 DEF WriteAuthority, Resolved
  <2>7. CASE OpenDatabase(p)
    <3>1. CASE Leave(p)
      BY <1>2, <2>7, <3>1, LeaveIInv DEF OpenDatabase
    <3>2. CASE ~ Leave(p)
      BY <1>2, <2>7, <3>2 DEF OpenDatabase
    <3> QED
      BY <3>1, <3>2
  <2>8. CASE Stop(p)
    BY <1>2, <2>8, LeaveIInv DEF Stop
  <2>9. CASE Transact(p)
    <3>1. /\ pc[p] = "attached" /\ certified[p] = authority /\ authority \in Record
          /\ UNCHANGED << pc, bootstrap, intended, certified, lock, authority >>
      BY <2>9 DEF Transact
    <3>2. authority.path \in Path
      BY <3>1 DEF Record
    <3>3. PICK file \in { db[authority.path], "foreign" } :
            db' = [db EXCEPT ![authority.path] = file]
      BY <2>9, <3>1 DEF Transact
    <3>4. ASSUME NEW q \in Process, pc[q] = "write"
          PROVE  FALSE
      BY <3>1, <3>4
    <3> QED
      BY <3>1, <3>2, <3>3, <3>4
  <2> QED
    BY <1>2, <2>1, <2>2, <2>3, <2>4, <2>5, <2>6, <2>7, <2>8, <2>9 DEF Step
<1>3. ASSUME NEW path \in Path, Tamper(path)
      PROVE  IInv'
  <2>1. PICK file \in { None, "foreign" } : db' = [db EXCEPT ![path] = file]
    BY <1>3 DEF Tamper
  <2>2. /\ lock = None
        /\ UNCHANGED << pc, bootstrap, intended, certified, lock, authority >>
    BY <1>3 DEF Tamper
  <2>3. \A p \in Process : pc[p] # "write"
    BY <2>2
  <2>4. NoOtherIdentity'
    BY <2>1, <2>2 DEF Record
  <2> QED
    BY <1>3, <2>1, <2>2, <2>3, <2>4
<1> QED
  BY <1>1, <1>2, <1>3 DEF Next

\* ... so it holds for ever.
LEMMA Invariance == Spec => []IInv
  BY InitIInv, NextIInv, PTL DEF Spec

(***************************************************************************)
(* The files and the state of every process keep their types.              *)
(***************************************************************************)
THEOREM TypeCorrect == Spec => []TypeOK
<1>1. IInv => TypeOK
  BY DEF IInv
<1> QED
  BY <1>1, Invariance, PTL

(***************************************************************************)
(* AUTH-001 for any number of processes: whoever passed the certification  *)
(* coordinates in the database the one record names (authority.py:325-352).*)
(***************************************************************************)
THEOREM SingleDomain == Spec => []OneDomain
<1>1. IInv => OneDomain
  BY DEF IInv, DomainIsRecorded, OneDomain
<1> QED
  BY <1>1, Invariance, PTL

(***************************************************************************)
(* No other identity is ever certified at the recorded path                *)
(* (coordination.py:355-492).                                              *)
(***************************************************************************)
THEOREM IdentityIsUnique == Spec => []NoOtherIdentity
<1>1. IInv => NoOtherIdentity
  BY DEF IInv
<1> QED
  BY <1>1, Invariance, PTL

(***************************************************************************)
(* The record is never rewritten (authority.py:296-300, 379-392): a        *)
(* bootstrap that reaches its write still finds no record.                 *)
(***************************************************************************)
THEOREM RecordIsFinal == Spec => WrittenOnce
<1>1. ASSUME IInv, Next
      PROVE  authority' # authority => authority = None
  <2>1. ASSUME NEW p \in Process, Step(p), authority' # authority
        PROVE  authority = None
    BY <1>1, <2>1
    DEF Step, Acquire, VerifyAuthority, RefuseMissing, CreateFile, InsertIdentity,
        WriteAuthority, OpenDatabase, Transact, Stop, IInv, BootstrapHasNoRecord
  <2>2. ASSUME NEW path \in Path, Tamper(path)
        PROVE  authority' = authority
    BY <2>2 DEF Tamper
  <2> QED
    BY <1>1, <2>1, <2>2 DEF Next
<1>2. IInv /\ [Next]_vars => [authority' # authority => authority = None]_vars
  BY <1>1
<1> QED
  BY <1>2, Invariance, PTL DEF Spec, WrittenOnce

-----------------------------------------------------------------------------
(***************************************************************************)
(* The order.  The two properties speak of the book only; the invariant    *)
(* ties the book to the window of the journal.  The k-th cycle has exactly *)
(* one intent, so the remark of an order is in the window at the place of  *)
(* its cycle, unless the order is older than the window.                   *)
(***************************************************************************)
Remarks == { r.remark : r \in Requests }
AllRemarks == Remarks \cup { o.remark : o \in Strangers }

Order ==
  [remark : AllRemarks, name : { OwnName } \cup { o.name : o \in Strangers },
   leg : { r.leg : r \in Requests } \cup { o.leg : o \in Strangers }, cycle : Nat]

IdentityTypeOK ==
  /\ cycle \in Nat \ {0}
  /\ state \in { "WAIT_TRIGGER", "SUBMITTED", "UNKNOWN", "TRACKED", "RESOLVED", "FAILED" }
  /\ intent \in Requests \cup { NoRequest }
  /\ usedRemarks \in Seq(AllRemarks)
  /\ book \in Seq(Order) /\ flight \subseteq Order
  /\ oid \in 0 .. Len(book) /\ found \in { NoId, oid }

\* Which facts of the journal go together (session.py:352-436).
JournalOK ==
  /\ intent = NoRequest <=> state = "WAIT_TRIGGER"
  /\ state \in { "WAIT_TRIGGER", "SUBMITTED" } => oid = NoId
  /\ found # NoId => state \in { "UNKNOWN", "TRACKED" }
  /\ oid # NoId => book[oid].remark = intent.remark

\* The intents so far: one for each cycle that is over, and that of this one.
Intents == IF intent = NoRequest THEN cycle - 1 ELSE cycle

\* The remark of the k-th intent is at place k of the list, less what was dropped.
Place(k) == k - (Intents - Len(usedRemarks))

WindowOK ==
  /\ Len(usedRemarks) = IF Intents < Window THEN Intents ELSE Window
  /\ intent # NoRequest => usedRemarks[Len(usedRemarks)] = intent.remark

\* The orders of the account, those on their way included.
Orders == { book[i] : i \in DOMAIN book } \cup flight

OrderOK(o) ==
  /\ o.cycle <= Intents
  /\ o.cycle = cycle => o.remark = intent.remark /\ o.leg = intent.leg
  /\ 0 < o.cycle /\ 0 < Place(o.cycle) => usedRemarks[Place(o.cycle)] = o.remark
  /\ intent # NoRequest /\ o.remark = intent.remark /\ 0 < o.cycle /\ o.cycle < cycle =>
       o.cycle + Window < cycle

FarApart(o, q) ==
  0 < o.cycle /\ o.cycle < q.cycle /\ o.remark = q.remark => o.cycle + Window < q.cycle

BookOK == \A o \in Orders : OrderOK(o) /\ \A q \in Orders : FarApart(o, q)

\* place_order() is called once in a cycle, and what is found later is compared
\* with the order that it made.
FirstOK ==
  /\ state = "SUBMITTED" => \A o \in Orders : o.cycle # cycle
  /\ oid # NoId => \A i \in DOMAIN book : book[i].cycle = cycle => oid <= i

\* What may be followed in this cycle.
Followed(o) ==
  \/ o.cycle = cycle
  \/ 0 < o.cycle /\ o.cycle + Window < cycle
  \/ Indistinguishable(o)

AdoptedOK == oid # NoId /\ state \in { "TRACKED", "RESOLVED" } => Followed(book[oid])

IdentityInv ==
  IdentityTypeOK /\ JournalOK /\ WindowOK /\ BookOK /\ FirstOK /\ AdoptedOK

-----------------------------------------------------------------------------
\* t is the window s after x: x is the last entry, and the others keep their
\* distance from it.
MovedOn(s, x, t) ==
  /\ t \in Seq(AllRemarks)
  /\ Len(t) = IF Len(s) < Window THEN Len(s) + 1 ELSE Window
  /\ t[Len(t)] = x
  /\ \A k \in 1 .. Len(t) - 1 : t[k] = s[k + 1 + Len(s) - Len(t)]

\* s[-Window:] of a list that grew by one (journal.py:142-158).
LEMMA KeepLastMovesOn ==
  ASSUME NEW s \in Seq(AllRemarks), NEW x \in AllRemarks, Len(s) <= Window
  PROVE  MovedOn(s, x, KeepLast(Append(s, x)))
<1> DEFINE t == KeepLast(Append(s, x))
<1>1. PICK a \in Seq(AllRemarks) :
        /\ t = KeepLast(a) /\ Len(a) = Len(s) + 1 /\ a[Len(s) + 1] = x
        /\ \A k \in 1 .. Len(s) : a[k] = s[k]
  <2> WITNESS Append(s, x) \in Seq(AllRemarks)
  <2> QED
    OBVIOUS
<1> HIDE DEF t
<1> SUFFICES MovedOn(s, x, t)
  BY DEF t
<1>2. Window \in Nat \ {0} /\ Len(s) \in Nat
  <2>1. Window \in Nat \ {0}
    BY IdentityAssumption
  <2> QED
    BY <2>1
<1>3. CASE Len(s) < Window
  <2>1. t = a
    BY <1>1, <1>2, <1>3 DEF KeepLast
  <2> QED
    BY <1>1, <1>2, <1>3, <2>1 DEF MovedOn
<1>4. CASE Len(s) = Window
  <2>1. t = SubSeq(a, 2, Len(a))
    <3>1. ~(Len(a) <= Window) /\ Len(a) - Window + 1 = 2
      BY <1>1, <1>2, <1>4
    <3> QED
      BY <1>1, <3>1 DEF KeepLast
  <2>2. t \in Seq(AllRemarks) /\ Len(t) = Window /\ \A k \in 1 .. Window : t[k] = a[k + 1]
    BY <1>1, <1>2, <1>4, <2>1
  <2> QED
    BY <1>1, <1>2, <1>4, <2>2 DEF MovedOn
<1> QED
  BY <1>2, <1>3, <1>4

\* One order more, which fits to the window and to the others.
LEMMA OneOrderMore ==
  ASSUME BookOK, NEW o \in Order, Orders' \subseteq Orders \cup { o }, OrderOK(o),
         \A q \in Orders : FarApart(o, q) /\ FarApart(q, o),
         UNCHANGED << cycle, intent, usedRemarks >>
  PROVE  BookOK'
<1>1. \A q : OrderOK(q)' <=> OrderOK(q)
  BY DEF OrderOK, Intents, Place
<1>2. FarApart(o, o)
  BY DEF FarApart, Order
<1> QED
  BY <1>1, <1>2 DEF BookOK, FarApart

\* The order of this cycle fits, because its remark was not in the window.
LEMMA OwnOrderFits ==
  ASSUME IdentityInv, state = "SUBMITTED"
  PROVE  /\ OwnOrder \in Order /\ OrderOK(OwnOrder)
         /\ OwnOrder.cycle = cycle /\ OwnOrder.remark = intent.remark
         /\ OwnOrder.leg = intent.leg
         /\ \A q \in Orders : FarApart(OwnOrder, q) /\ FarApart(q, OwnOrder)
<1>1. intent \in Requests /\ intent # NoRequest
  BY DEF IdentityInv, JournalOK, IdentityTypeOK
<1>2. OwnOrder \in Order /\ OwnOrder.cycle = cycle /\ OwnOrder.remark = intent.remark
        /\ OwnOrder.leg = intent.leg
  BY <1>1 DEF OwnOrder, Order, Remarks, AllRemarks, IdentityInv, IdentityTypeOK
<1>3. PICK own \in Order : own = OwnOrder /\ own.cycle = cycle /\ own.remark = intent.remark
                            /\ own.leg = intent.leg
  BY <1>2
<1>4. Intents = cycle /\ cycle \in Nat \ {0} /\ Len(usedRemarks) \in Nat
  BY <1>1 DEF Intents, IdentityInv, IdentityTypeOK
<1>5. OrderOK(own)
  <2>1. Place(own.cycle) = Len(usedRemarks)
    BY <1>3, <1>4 DEF Place
  <2>2. usedRemarks[Place(own.cycle)] = own.remark
    BY <1>1, <1>3, <2>1 DEF IdentityInv, WindowOK
  <2>3. own.cycle # 0 /\ own.cycle <= Intents /\ ~(own.cycle < cycle)
    BY <1>3, <1>4
  <2> QED
    BY <1>3, <2>2, <2>3 DEF OrderOK
<1>6. ASSUME NEW q \in Orders
      PROVE  FarApart(own, q) /\ FarApart(q, own)
  <2>1. OrderOK(q) /\ q \in Order
    BY DEF IdentityInv, BookOK, IdentityTypeOK, Orders
  <2>2. q.cycle \in Nat
    BY <2>1 DEF Order
  <2>3. q.cycle <= Intents
    BY <2>1 DEF OrderOK
  <2>4. 0 < q.cycle /\ q.cycle < cycle /\ q.remark = intent.remark => q.cycle + Window < cycle
    BY <1>1, <2>1 DEF OrderOK
  <2>5. FarApart(own, q)
    BY <1>3, <1>4, <2>2, <2>3 DEF FarApart
  <2>6. FarApart(q, own)
    BY <1>3, <2>4 DEF FarApart
  <2> QED
    BY <2>5, <2>6
<1> QED
  BY <1>3, <1>5, <1>6

\* A longer book: what was in it stays where it was.
LEMMA BookAppends ==
  ASSUME IdentityTypeOK, NEW o \in Order, book' = Append(book, o)
  PROVE  /\ book' \in Seq(Order) /\ Len(book') = Len(book) + 1
         /\ book'[Len(book')] = o /\ \A i \in 1 .. Len(book) : book'[i] = book[i]
         /\ { book'[i] : i \in DOMAIN book' } \subseteq { book[i] : i \in DOMAIN book } \cup { o }
<1>1. /\ book' \in Seq(Order) /\ Len(book') = Len(book) + 1
      /\ book'[Len(book) + 1] = o /\ \A i \in 1 .. Len(book) : book'[i] = book[i]
  BY DEF IdentityTypeOK
<1>2. DOMAIN book' = 1 .. Len(book) + 1 /\ DOMAIN book = 1 .. Len(book) /\ Len(book) \in Nat
  BY <1>1 DEF IdentityTypeOK
<1>3. ASSUME NEW i \in DOMAIN book'
      PROVE  book'[i] \in { book[k] : k \in DOMAIN book } \cup { o }
  <2>1. CASE i = Len(book) + 1
    BY <1>1, <2>1
  <2>2. CASE i \in 1 .. Len(book)
    BY <1>1, <1>2, <2>2
  <2> QED
    BY <1>2, <2>1, <2>2
<1> QED
  BY <1>1, <1>3

\* What touches neither the book nor the intent says nothing new about orders.
LEMMA BookStays ==
  ASSUME IdentityInv, UNCHANGED << cycle, intent, usedRemarks, book, flight >>
  PROVE  WindowOK' /\ BookOK'
<1>1. \A q : OrderOK(q)' <=> OrderOK(q)
  BY DEF OrderOK, Intents, Place
<1>2. Orders' = Orders
  BY DEF Orders
<1> QED
  BY <1>1, <1>2 DEF IdentityInv, WindowOK, Intents, BookOK, FarApart

\* An order that _apply_observation() accepts under our remark is of this cycle,
\* older than the window, or of another and in nothing different from ours
\* (session.py:415-436).
LEMMA ValidatedIsOurs ==
  ASSUME IdentityInv, oid # NoId, validate_identity(book[oid])
  PROVE  Followed(book[oid])
<1>1. PICK o \in Order : o = book[oid]
  BY DEF IdentityInv, IdentityTypeOK, NoId
<1>2. o \in Orders
  BY <1>1 DEF Orders, IdentityInv, IdentityTypeOK, NoId
<1>3. intent \in Requests /\ intent # NoRequest /\ o.remark = intent.remark
  BY <1>1 DEF validate_identity, IdentityInv, IdentityTypeOK, JournalOK
<1>4. o.leg = intent.leg /\ o.name \in { "", OwnName }
  BY <1>1 DEF validate_identity
<1>5. o.cycle \in Nat /\ cycle \in Nat
  BY <1>2 DEF Order, IdentityInv, IdentityTypeOK
<1>6. o.cycle <= cycle /\ (0 < o.cycle /\ o.cycle < cycle => o.cycle + Window < cycle)
  BY <1>2, <1>3 DEF IdentityInv, BookOK, OrderOK, Intents
<1>7. CASE o.cycle = 0
  BY <1>1, <1>3, <1>4, <1>7 DEF Followed, Indistinguishable
<1>8. CASE o.cycle # 0
  BY <1>1, <1>5, <1>6, <1>8 DEF Followed
<1> QED
  BY <1>7, <1>8

\* The steps of the session that leave the account alone (session.py:352-436).
LEMMA SessionKeeps ==
  ASSUME IdentityInv,
         \/ place_rejected \/ place_aborted \/ find_unique_managed_order \/ recovery_failed
         \/ query_order \/ query_ambiguous \/ apply_observation \/ identity_conflict \/ restart
  PROVE  IdentityInv'
<1>1. UNCHANGED << cycle, intent, usedRemarks, book, flight >>
  BY DEF place_rejected, place_aborted, find_unique_managed_order, recovery_failed, query_order,
         query_ambiguous, apply_observation, identity_conflict, restart, journalVars
<1>2. FirstOK'
  <2>1. state' # "SUBMITTED"
    <3>1. state = "SUBMITTED" /\ state' = state => FALSE
      BY DEF place_rejected, place_aborted, find_unique_managed_order, recovery_failed,
             query_order, query_ambiguous, apply_observation, identity_conflict, restart,
             IdentityInv, JournalOK
    <3>2. state' = state \/ state' \in { "RESOLVED", "FAILED", "UNKNOWN", "TRACKED" }
      BY DEF place_rejected, place_aborted, find_unique_managed_order, recovery_failed,
             query_order, query_ambiguous, apply_observation, identity_conflict, restart
    <3> QED
      BY <3>1, <3>2
  <2>2. CASE oid' = oid
    BY <1>1, <2>1, <2>2 DEF FirstOK, IdentityInv
  <2>3. CASE find_unique_managed_order
    <3>1. PICK i \in Matches : Matches = { i } /\ oid' = i
      BY <2>3 DEF find_unique_managed_order
    <3>2. ASSUME NEW j \in DOMAIN book, book[j].cycle = cycle
          PROVE  j = i
      <4>1. OrderOK(book[j])
        BY <3>2 DEF IdentityInv, BookOK, Orders
      <4>2. j \in Matches
        BY <3>2, <4>1 DEF OrderOK, Matches
      <4> QED
        BY <3>1, <4>2
    <3>3. \A j \in DOMAIN book : j \in Int /\ j <= j
      BY DEF IdentityInv, IdentityTypeOK
    <3> QED
      BY <1>1, <2>1, <3>1, <3>2, <3>3 DEF FirstOK
  <2> QED
    BY <2>2, <2>3
       DEF place_rejected, place_aborted, recovery_failed, query_order, query_ambiguous,
           apply_observation, identity_conflict, restart
<1> SUFFICES IdentityTypeOK' /\ JournalOK' /\ AdoptedOK'
  BY <1>1, <1>2, BookStays DEF IdentityInv
<1> USE DEF IdentityInv, IdentityTypeOK, JournalOK, AdoptedOK, NoId
<1>3. CASE place_rejected \/ place_aborted
  BY <1>1, <1>3 DEF place_rejected, place_aborted
<1>4. CASE find_unique_managed_order
  BY <1>1, <1>4 DEF find_unique_managed_order, Matches
<1>5. CASE recovery_failed \/ query_order \/ query_ambiguous
  BY <1>1, <1>5 DEF recovery_failed, query_order, query_ambiguous, Followed, Indistinguishable
<1>6. CASE apply_observation
  <2>1. found = oid /\ oid # NoId /\ oid' = oid /\ found' = NoId /\ validate_identity(book[oid])
          /\ state' \in { "TRACKED", "RESOLVED", "UNKNOWN", "FAILED" }
    BY <1>6 DEF apply_observation
  <2> QED
    BY <1>1, <2>1, ValidatedIsOurs DEF Followed, Indistinguishable
<1>7. CASE identity_conflict \/ restart
  BY <1>1, <1>7 DEF identity_conflict, restart, Followed, Indistinguishable
<1> QED
  BY <1>3, <1>4, <1>5, <1>6, <1>7

\* place_order() that reaches the account, at once or late (session.py).
LEMMA PlacementKeeps ==
  ASSUME IdentityInv, place_accepted \/ place_ambiguous
  PROVE  IdentityInv'
<1>1. state = "SUBMITTED" /\ UNCHANGED << cycle, intent, usedRemarks, found >>
  BY DEF place_accepted, place_ambiguous, journalVars
<1>2. PICK own \in Order :
        /\ own = OwnOrder /\ OrderOK(own) /\ own.cycle = cycle /\ own.remark = intent.remark
        /\ \A q \in Orders : FarApart(own, q) /\ FarApart(q, own)
  BY <1>1, OwnOrderFits
<1>3. WindowOK'
  BY <1>1 DEF IdentityInv, WindowOK, Intents
<1>4. CASE book' = Append(book, own) /\ flight' = flight
  <2>1. Orders' \subseteq Orders \cup { own }
    BY <1>4, BookAppends DEF Orders, IdentityInv
  <2>2. BookOK'
    BY <1>1, <1>2, <2>1, OneOrderMore DEF IdentityInv
  <2>3. IdentityTypeOK' /\ JournalOK' /\ AdoptedOK' /\ FirstOK'
    <3>1. /\ book' \in Seq(Order) /\ Len(book') = Len(book) + 1 /\ book'[Len(book')] = own
          /\ \A i \in 1 .. Len(book) : book'[i] = book[i]
      BY <1>4, BookAppends DEF IdentityInv
    <3>2. \/ oid' = Len(book') /\ state' = "TRACKED"
          \/ oid' = oid /\ state' = "UNKNOWN"
      BY DEF place_accepted, place_ambiguous
    <3>3. FirstOK'
      <4>1. \A i \in 1 .. Len(book) : book[i].cycle # cycle
        BY <1>1 DEF IdentityInv, IdentityTypeOK, FirstOK, Orders
      <4>2. oid = NoId /\ Len(book) \in Nat /\ DOMAIN book' = 1 .. Len(book) + 1
        BY <1>1, <3>1 DEF IdentityInv, IdentityTypeOK, JournalOK
      <4>3. ASSUME NEW i \in DOMAIN book', book'[i].cycle = cycle
            PROVE  i = Len(book')
        BY <3>1, <4>1, <4>2, <4>3
      <4> QED
        BY <1>1, <3>1, <3>2, <4>2, <4>3 DEF FirstOK
    <3> QED
      BY <1>1, <1>2, <1>4, <3>1, <3>2, <3>3
         DEF IdentityInv, IdentityTypeOK, JournalOK, AdoptedOK, Followed, NoId
  <2> QED
    BY <1>3, <2>2, <2>3 DEF IdentityInv
<1>5. CASE book' = book /\ flight' \in { flight, flight \cup { own } } /\ place_ambiguous
  <2>1. Orders' \subseteq Orders \cup { own }
    BY <1>5 DEF Orders
  <2>2. BookOK'
    BY <1>1, <1>2, <2>1, OneOrderMore DEF IdentityInv
  <2>3. IdentityTypeOK' /\ JournalOK' /\ AdoptedOK' /\ FirstOK'
    <3>1. oid' = oid /\ state' = "UNKNOWN"
      BY <1>5 DEF place_ambiguous
    <3> QED
      BY <1>1, <1>2, <1>5, <3>1
         DEF IdentityInv, IdentityTypeOK, JournalOK, AdoptedOK, FirstOK, NoId
  <2> QED
    BY <1>3, <2>2, <2>3 DEF IdentityInv
<1> QED
  BY <1>2, <1>4, <1>5 DEF place_accepted, place_ambiguous

\* The account goes on by itself: an order of ours arrives, or one of another.
LEMMA AccountKeeps ==
  ASSUME IdentityInv, (\E o \in flight : arrive(o)) \/ (\E o \in Strangers : stranger(o))
  PROVE  IdentityInv'
<1>1. UNCHANGED << cycle, intent, usedRemarks, state, oid, found >>
  BY DEF arrive, stranger, journalVars
<1>2. \E o \in Order :
        /\ book' = Append(book, o) /\ flight' \subseteq flight /\ OrderOK(o)
        /\ o \in Orders \/ o.cycle # cycle
        /\ \A q \in Orders : FarApart(o, q) /\ FarApart(q, o)
  <2>1. CASE \E o \in flight : arrive(o)
    <3>1. PICK o \in flight : arrive(o)
      BY <2>1
    <3>2. o \in Order /\ o \in Orders
      BY DEF IdentityInv, IdentityTypeOK, Orders
    <3> QED
      BY <3>1, <3>2 DEF arrive, IdentityInv, BookOK
  <2>2. CASE \E o \in Strangers : stranger(o)
    <3>1. PICK o \in Strangers : stranger(o)
      BY <2>2
    <3>2. PICK x \in Order : x = [remark |-> o.remark, leg |-> o.leg, name |-> o.name, cycle |-> 0]
      BY DEF Order, AllRemarks
    <3>3. x.cycle = 0 /\ ~(0 < x.cycle) /\ x.name = o.name /\ x.remark = o.remark
      BY <3>2
    <3>4. x.cycle # cycle
      BY <3>3 DEF IdentityInv, IdentityTypeOK
    <3>5. x.cycle <= Intents
      BY <3>3 DEF Intents, IdentityInv, IdentityTypeOK
    <3>6. OrderOK(x)
      BY <3>3, <3>4, <3>5 DEF OrderOK
    <3>7. \A q \in Orders : FarApart(x, q) /\ FarApart(q, x)
      <4>1. \A q \in Orders : q \in Order
        BY DEF Orders, IdentityInv, IdentityTypeOK
      <4>2. \A q \in Orders : q.cycle \in Nat
        BY <4>1 DEF Order
      <4> QED
        BY <3>3, <4>2 DEF FarApart
    <3>8. book' = Append(book, x) /\ flight' = flight
      BY <3>1, <3>2 DEF stranger
    <3> QED
      BY <3>4, <3>6, <3>7, <3>8
  <2> QED
    BY <2>1, <2>2
<1>3. PICK o \in Order :
        /\ book' = Append(book, o) /\ flight' \subseteq flight /\ OrderOK(o)
        /\ o \in Orders \/ o.cycle # cycle
        /\ \A q \in Orders : FarApart(o, q) /\ FarApart(q, o)
  BY <1>2
<1>4. Orders' \subseteq Orders \cup { o }
  BY <1>3, BookAppends DEF Orders, IdentityInv
<1>5. BookOK'
  BY <1>1, <1>3, <1>4, OneOrderMore DEF IdentityInv
<1>6. WindowOK'
  BY <1>1 DEF IdentityInv, WindowOK, Intents
<1>7. IdentityTypeOK' /\ JournalOK' /\ AdoptedOK'
  <2>1. /\ book' \in Seq(Order) /\ Len(book') = Len(book) + 1
        /\ \A i \in 1 .. Len(book) : book'[i] = book[i]
    BY <1>3, BookAppends DEF IdentityInv
  <2>2. flight' \subseteq Order
    BY <1>3 DEF IdentityInv, IdentityTypeOK
  <2>3. oid # NoId => book'[oid] = book[oid]
    BY <2>1 DEF IdentityInv, IdentityTypeOK, NoId
  <2>4. IdentityTypeOK'
    BY <1>1, <2>1, <2>2 DEF IdentityInv, IdentityTypeOK
  <2>5. JournalOK'
    BY <1>1, <2>3 DEF IdentityInv, JournalOK
  <2>6. AdoptedOK'
    BY <1>1, <2>3 DEF IdentityInv, AdoptedOK, Followed, Indistinguishable
  <2> QED
    BY <2>4, <2>5, <2>6
<1>8. FirstOK'
  <2>1. state = "SUBMITTED" => \A q \in Orders' : q.cycle # cycle
    BY <1>3, <1>4 DEF IdentityInv, FirstOK
  <2>2. /\ book' \in Seq(Order) /\ Len(book') = Len(book) + 1
        /\ \A i \in 1 .. Len(book) : book'[i] = book[i]
    BY <1>3, BookAppends DEF IdentityInv
  <2>3. ASSUME oid # NoId, NEW i \in DOMAIN book', book'[i].cycle = cycle
        PROVE  oid <= i
    <3>1. oid \in 0 .. Len(book) /\ Len(book) \in Nat /\ i \in 1 .. Len(book) + 1
      BY <2>2 DEF IdentityInv, IdentityTypeOK
    <3>2. CASE i \in 1 .. Len(book)
      BY <2>2, <2>3, <3>2 DEF IdentityInv, IdentityTypeOK, FirstOK
    <3> QED
      BY <3>1, <3>2
  <2> QED
    BY <1>1, <2>1, <2>3 DEF FirstOK
<1> QED
  BY <1>5, <1>6, <1>7, <1>8 DEF IdentityInv

\* next_cycle() keeps the window: the intents so far are the same
\* (journal.py:208-221).
LEMMA CycleKeeps ==
  ASSUME IdentityInv, next_cycle
  PROVE  IdentityInv'
<1>1. /\ state = "RESOLVED" /\ cycle' = cycle + 1 /\ state' = "WAIT_TRIGGER"
      /\ intent' = NoRequest /\ oid' = NoId
      /\ UNCHANGED << usedRemarks, found, book, flight >>
  BY DEF next_cycle
<1>2. Intents' = Intents /\ found = NoId
  BY <1>1 DEF Intents, IdentityInv, IdentityTypeOK, JournalOK
<1>3. Orders' = Orders
  BY <1>1 DEF Orders
<1>4. ASSUME NEW o \in Orders
      PROVE  OrderOK(o)'
  <2>1. OrderOK(o) /\ o \in Order
    BY DEF IdentityInv, BookOK, IdentityTypeOK, Orders
  <2>2. o.cycle # cycle'
    BY <1>1, <2>1 DEF OrderOK, Order, Intents, IdentityInv, IdentityTypeOK
  <2> QED
    BY <1>1, <1>2, <2>1, <2>2 DEF OrderOK, Place
<1>5. BookOK'
  BY <1>3, <1>4 DEF IdentityInv, BookOK, FarApart
<1>6. WindowOK'
  BY <1>1, <1>2 DEF IdentityInv, WindowOK
<1>7. IdentityTypeOK' /\ JournalOK' /\ AdoptedOK' /\ FirstOK'
  BY <1>1, <1>2 DEF IdentityInv, IdentityTypeOK, JournalOK, AdoptedOK, FirstOK, NoId
<1> QED
  BY <1>5, <1>6, <1>7 DEF IdentityInv

\* A new intent: the window moves on by one, and an order that bears the same
\* remark has left it, since assert_identity_unused() found no such remark
\* (journal.py:112-158).
LEMMA IntentKeeps ==
  ASSUME IdentityInv, NEW r \in Requests, persist_intent(r)
  PROVE  IdentityInv'
<1>1. /\ state = "WAIT_TRIGGER" /\ intent = NoRequest /\ intent' = r /\ state' = "SUBMITTED"
      /\ \A i \in DOMAIN usedRemarks : usedRemarks[i] # r.remark
      /\ UNCHANGED << cycle, oid, found, book, flight >>
  BY DEF persist_intent, assert_identity_unused
<1>2. r # NoRequest /\ Window \in Nat \ {0} /\ r.remark \in AllRemarks
  BY IdentityAssumption DEF AllRemarks, Remarks
<1>3. /\ Intents = cycle - 1 /\ Intents' = cycle /\ cycle \in Nat \ {0} /\ Len(usedRemarks) \in Nat
      /\ Len(usedRemarks) = IF Intents < Window THEN Intents ELSE Window
  BY <1>1, <1>2 DEF Intents, IdentityInv, IdentityTypeOK, WindowOK
<1>4. /\ usedRemarks' \in Seq(AllRemarks)
      /\ Len(usedRemarks') = IF Len(usedRemarks) < Window THEN Len(usedRemarks) + 1 ELSE Window
      /\ usedRemarks'[Len(usedRemarks')] = r.remark
      /\ \A k \in 1 .. Len(usedRemarks') - 1 :
           usedRemarks'[k] = usedRemarks[k + 1 + Len(usedRemarks) - Len(usedRemarks')]
  <2>1. usedRemarks' = KeepLast(Append(usedRemarks, r.remark)) /\ usedRemarks \in Seq(AllRemarks)
          /\ Len(usedRemarks) <= Window
    BY <1>2, <1>3 DEF persist_intent, IdentityInv, IdentityTypeOK
  <2>2. MovedOn(usedRemarks, r.remark, usedRemarks')
    BY <1>2, <2>1, KeepLastMovesOn
  <2> QED
    BY <2>2 DEF MovedOn
<1>5. WindowOK'
  BY <1>1, <1>2, <1>3, <1>4 DEF WindowOK
<1>6. ASSUME NEW o \in Orders
      PROVE  OrderOK(o)'
  <2>1. OrderOK(o) /\ o \in Order
    BY DEF IdentityInv, BookOK, IdentityTypeOK, Orders
  <2>2. o.cycle \in Nat /\ o.cycle <= cycle - 1
    BY <1>3, <2>1 DEF Order, OrderOK
  <2>3. o.cycle # cycle'
    BY <1>1, <1>3, <2>2
  <2>4. 0 < o.cycle /\ 0 < Place(o.cycle) => usedRemarks[Place(o.cycle)] = o.remark
    BY <2>1 DEF OrderOK
  <2>5. 0 < o.cycle /\ 0 < Place(o.cycle)' => usedRemarks'[Place(o.cycle)'] = o.remark
    <3> SUFFICES ASSUME 0 < o.cycle, 0 < Place(o.cycle)'
                 PROVE  usedRemarks'[Place(o.cycle)'] = o.remark
      OBVIOUS
    <3>1. /\ Place(o.cycle) = o.cycle - (cycle - 1 - Len(usedRemarks))
          /\ Place(o.cycle)' = o.cycle - (cycle - Len(usedRemarks'))
      BY <1>3 DEF Place
    <3>2. /\ Len(usedRemarks) \in Nat /\ Len(usedRemarks') \in Nat
          /\ Len(usedRemarks') <= Len(usedRemarks) + 1
      <4>1. CASE Len(usedRemarks) < Window
        BY <1>3, <1>4, <4>1
      <4>2. CASE ~(Len(usedRemarks) < Window)
        BY <1>2, <1>3, <1>4, <4>2
      <4> QED
        BY <4>1, <4>2
    <3>3. \A c, n, m, k \in Nat : c <= k - 1 /\ 0 < c - (k - m) /\ m <= n + 1 =>
            /\ (c - (k - m)) + 1 + n - m = c - (k - 1 - n)
            /\ c - (k - m) \in 1 .. m - 1
            /\ 0 < c - (k - 1 - n)
      OBVIOUS
    <3>4. /\ Place(o.cycle)' + 1 + Len(usedRemarks) - Len(usedRemarks') = Place(o.cycle)
          /\ 0 < Place(o.cycle)
          /\ Place(o.cycle)' \in 1 .. Len(usedRemarks') - 1
      <4>1. /\ cycle \in Nat /\ 0 < o.cycle - (cycle - Len(usedRemarks'))
        BY <1>3, <3>1
      <4>2. /\ (o.cycle - (cycle - Len(usedRemarks'))) + 1 + Len(usedRemarks) - Len(usedRemarks')
                 = o.cycle - (cycle - 1 - Len(usedRemarks))
            /\ o.cycle - (cycle - Len(usedRemarks')) \in 1 .. Len(usedRemarks') - 1
            /\ 0 < o.cycle - (cycle - 1 - Len(usedRemarks))
        BY <2>2, <3>2, <3>3, <4>1
      <4> QED
        BY <3>1, <4>2
    <3> QED
      BY <1>4, <2>4, <3>4
  <2>6. 0 < o.cycle /\ o.remark = r.remark => o.cycle + Window < cycle
    <3> SUFFICES ASSUME 0 < o.cycle, o.remark = r.remark
                 PROVE  o.cycle + Window < cycle
      OBVIOUS
    <3>1. ~(0 < Place(o.cycle))
      <4>1. 0 < Place(o.cycle) => Place(o.cycle) \in DOMAIN usedRemarks
        BY <1>3, <2>2 DEF Place, IdentityInv, IdentityTypeOK
      <4> QED
        BY <1>1, <2>4, <4>1
    <3> QED
      BY <1>2, <1>3, <2>2, <3>1 DEF Place
  <2>7. o.cycle <= Intents'
    BY <1>3, <2>2
  <2>8. intent' # NoRequest /\ o.remark = intent'.remark /\ 0 < o.cycle /\ o.cycle < cycle' =>
          o.cycle + Window < cycle'
    BY <1>1, <2>6
  <2> QED
    BY <2>3, <2>5, <2>7, <2>8 DEF OrderOK
<1>7. BookOK'
  <2>1. Orders' = Orders
    BY <1>1 DEF Orders
  <2> QED
    BY <1>6, <2>1 DEF IdentityInv, BookOK, FarApart
<1>8. IdentityTypeOK' /\ JournalOK' /\ AdoptedOK'
  BY <1>1, <1>2, <1>4 DEF IdentityInv, IdentityTypeOK, JournalOK, AdoptedOK, NoId
<1>9. FirstOK'
  <2>1. ASSUME NEW o \in Orders
        PROVE  o.cycle # cycle
    <3>1. OrderOK(o) /\ o \in Order
      BY DEF IdentityInv, BookOK, IdentityTypeOK, Orders
    <3> QED
      BY <1>3, <3>1 DEF OrderOK, Order
  <2>2. oid = NoId
    BY <1>1 DEF IdentityInv, JournalOK
  <2>3. Orders' = Orders
    BY <1>1 DEF Orders
  <2> QED
    BY <1>1, <2>1, <2>2, <2>3 DEF FirstOK
<1> QED
  BY <1>5, <1>7, <1>8, <1>9 DEF IdentityInv

\* Every step of the session and of the account keeps the invariant.
LEMMA IdentityInvariant == IdentitySpec => []IdentityInv
<1>1. IdentityInit => IdentityInv
  <2> SUFFICES ASSUME IdentityInit
               PROVE  IdentityInv
    OBVIOUS
  <2>1. /\ cycle = 1 /\ state = "WAIT_TRIGGER" /\ intent = NoRequest /\ oid = 0 /\ found = 0
        /\ usedRemarks = << >> /\ book = << >> /\ flight = {}
    BY DEF IdentityInit, NoId
  <2>2. IdentityTypeOK /\ JournalOK /\ AdoptedOK /\ FirstOK
    BY <2>1 DEF IdentityTypeOK, JournalOK, AdoptedOK, FirstOK, NoId
  <2>3. WindowOK
    <3>1. Window \in Nat \ {0}
      BY IdentityAssumption
    <3>2. Intents = 0 /\ Len(usedRemarks) = 0 /\ 0 < Window
      BY <2>1, <3>1 DEF Intents
    <3> QED
      BY <2>1, <3>2 DEF WindowOK
  <2>4. BookOK
    BY <2>1 DEF BookOK, Orders
  <2> QED
    BY <2>2, <2>3, <2>4 DEF IdentityInv
<1>2. IdentityInv /\ [IdentityNext]_identityVars => IdentityInv'
  <2> SUFFICES ASSUME IdentityInv, [IdentityNext]_identityVars
               PROVE  IdentityInv'
    OBVIOUS
  <2>1. CASE UNCHANGED identityVars
    BY <2>1, BookStays
       DEF identityVars, IdentityInv, IdentityTypeOK, JournalOK, AdoptedOK, FirstOK, Orders,
           Followed, Indistinguishable
  <2>2. CASE IdentityNext
    BY <2>2, IntentKeeps, PlacementKeeps, SessionKeeps, CycleKeeps, AccountKeeps
       DEF IdentityNext
  <2> QED
    BY <2>1, <2>2
<1> QED
  BY <1>1, <1>2, PTL DEF IdentitySpec

(***************************************************************************)
(* Two orders of one session bear one remark only when more than Window    *)
(* intents lie between them, whatever became of the cycles in between      *)
(* (journal.py:112-158, 208-221).                                          *)
(***************************************************************************)
THEOREM ReusedRemarksAreFarApart == IdentitySpec => []ReuseIsFarApart
<1>1. IdentityInv => ReuseIsFarApart
  BY DEF IdentityInv, BookOK, Orders, FarApart, ReuseIsFarApart
<1> QED
  BY <1>1, IdentityInvariant, PTL

(***************************************************************************)
(* The order that an execution tracks, or takes its result from, is of     *)
(* this cycle, of this session and older than the window, or another's     *)
(* with our remark, our leg and our name or none; and it did not come      *)
(* after the order of this cycle (session.py:352-380, 415-436).            *)
(***************************************************************************)
THEOREM AdoptedOrdersAreOurs == IdentitySpec => []AdoptedOrderIsOurs
<1>1. IdentityInv => AdoptedOrderIsOurs
  BY DEF IdentityInv, FirstOK, AdoptedOK, Followed, AdoptedOrderIsOurs
<1> QED
  BY <1>1, IdentityInvariant, PTL

=============================================================================
