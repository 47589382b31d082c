---------------------------- MODULE JmapSyncProofs -----------------------------
(***************************************************************************)
(* Theorems about the JMAP service (JmapSync), for any mailboxes, emails,  *)
(* hash, limit, delays and number of faults.                               *)
(***************************************************************************)
EXTENDS JmapSync, WellFoundedInduction, TLAPS

-------------------------------------------------------------------------------
\* The first and the last of a batch.

(* A set of numbers has a least member, and a greatest below a bound.      *)
LEMMA HasLeast ==
    ASSUME NEW S \in SUBSET Nat, S # {}
    PROVE  \E x \in S : \A y \in S : x <= y
<1> DEFINE R == OpToRel(<, Nat)
<1>1. IsWellFoundedOn(R, Nat)
  BY NatLessThanWellFounded
<1>2. \A x, y \in Nat : y < x => <<y, x>> \in R
  BY DEF OpToRel
<1>3. \E x \in S : \A y \in S : ~(<<y, x>> \in R)
  <2> HIDE DEF R
  <2> QED
    BY <1>1, WFMin
<1> HIDE DEF R
<1>4. PICK x \in S : \A y \in S : ~(<<y, x>> \in R)
  BY <1>3
<1>5. ASSUME NEW y \in S PROVE x <= y
  <2>1. x \in Nat /\ y \in Nat
    OBVIOUS
  <2>2. ~(y < x)
    BY <1>2, <1>4, <2>1
  <2>3. QED
    BY <2>1, <2>2
<1>6. QED
  BY <1>5

LEMMA HasGreatest ==
    ASSUME NEW n \in Nat, NEW S \in SUBSET (1 .. n), S # {}
    PROVE  \E x \in S : \A y \in S : x >= y
<1> DEFINE T == {n - x : x \in S}
<1>1. T \in SUBSET Nat /\ T # {}
  <2>1. \A x \in S : n - x \in Nat
    OBVIOUS
  <2>2. QED
    BY <2>1
<1>2. PICK z \in T : \A y \in T : z <= y
  <2> HIDE DEF T
  <2> QED
    BY <1>1, HasLeast
<1>3. PICK x \in S : z = n - x
  OBVIOUS
<1>4. ASSUME NEW y \in S PROVE x >= y
  <2>1. n - y \in T /\ x \in Int /\ y \in Int
    OBVIOUS
  <2>2. n - x <= n - y
    BY <1>2, <1>3, <2>1
  <2>3. QED
    BY <2>1, <2>2
<1>5. QED
  BY <1>4

(* The emails of an answer that share a UID.                               *)
Same(u) == {a \in answer : Hash[a.email] = u}

(* What a row shows after an ingest: the state of an email of the answer,  *)
(* and that email or the one the row had (ingest_batch).                   *)
LEMMA IngestedRow ==
    ASSUME answer \subseteq [email: Email, state: 1 .. MaxState], NEW m, NEW u
    PROVE  \/ Same(u) = {} /\ Ingested(m, u) = stored[m][u]
           \/ \E a, b \in Same(u) :
                 Ingested(m, u) =
                     [email |-> IF stored[m][u] = Absent THEN a.email ELSE stored[m][u].email,
                      state |-> b.state]
<1> DEFINE E == {a.email : a \in Same(u)}
<1>1. CASE Same(u) = {}
  BY <1>1 DEF Same, Ingested
<1>2. CASE Same(u) # {}
  <2>1. E \in SUBSET (1 .. MaxEmail) /\ E # {} /\ MaxEmail \in Nat
    BY <1>2, JmapAssumption DEF Same, Email
  <2>2. E \in SUBSET Nat
    BY <2>1
  <2>3. \E a \in Same(u) : \A b \in Same(u) : a.email >= b.email
    <3>1. PICK x \in E : \A y \in E : x >= y
      <4> HIDE DEF E
      <4> QED
        BY <2>1, HasGreatest
    <3>2. QED
      BY <3>1
  <2>4. \E a \in Same(u) : \A b \in Same(u) : a.email <= b.email
    <3>1. PICK x \in E : \A y \in E : x <= y
      <4> HIDE DEF E
      <4> QED
        BY <2>1, <2>2, HasLeast
    <3>2. QED
      BY <3>1
  <2> DEFINE first == CHOOSE a \in Same(u) : \A b \in Same(u) : a.email >= b.email
             last  == CHOOSE a \in Same(u) : \A b \in Same(u) : a.email <= b.email
  <2>5. first \in Same(u) /\ last \in Same(u)
    BY <2>3, <2>4
  <2>6. Ingested(m, u) =
           [email |-> IF stored[m][u] = Absent THEN first.email ELSE stored[m][u].email,
            state |-> last.state]
    BY <1>2 DEF Ingested, Same
  <2>7. QED
    BY <2>5, <2>6
<1>3. QED
  BY <1>1, <1>2

-------------------------------------------------------------------------------
\* Type correctness.

(* The truth values and the rest of TypeOK, which the provers take apart.  *)
BooleanType == honours \in BOOLEAN /\ cancelled \in BOOLEAN /\ truncated \in BOOLEAN

DataType ==
    /\ state \in 1 .. MaxState
    /\ mail \in [Email -> [box: Mailbox \cup {NoMailbox}, state: 0 .. MaxState]]
    /\ rows \in SUBSET Mailbox /\ todo \in SUBSET rows
    /\ cursor \in [Mailbox -> 0 .. MaxState]
    /\ stored \in [Mailbox -> [UID -> Version]]
    /\ pc \in Steps /\ announced \in ConnectionState
    /\ backoff \in BackoffStart .. BackoffCap
    /\ folder \in Mailbox \cup {NoMailbox}
    /\ answer \in SUBSET Version /\ newState \in 0 .. MaxState
    /\ faults \in 0 .. MaxFaults

LEMMA TypeParts ==
    /\ TypeOK <=> BooleanType /\ DataType
    /\ TypeOK' <=> BooleanType' /\ DataType'
BY Zenon DEF TypeOK, BooleanType, DataType

(* Where the service is in a folder's pass, and what it has asked for.     *)
AnswerInv ==
    /\ pc \in {"query", "ingest", "cursor"} => folder \in Mailbox
    /\ answer \subseteq [email: Email, state: 1 .. MaxState]
    /\ \A e \in Email : mail[e].box # NoMailbox => mail[e].state > 0

BaseInv == TypeOK /\ AnswerInv

LEMMA InitType == Init => BaseInv
<1> SUFFICES ASSUME Init PROVE BooleanType /\ DataType /\ AnswerInv
  BY TypeParts DEF BaseInv
<1>1. BooleanType
  BY Zenon DEF Init, BooleanType
<1>2. DataType
  BY JmapAssumption DEF Init, DataType, Steps, ConnectionState, Version, Absent
<1>3. AnswerInv
  BY DEF Init, AnswerInv
<1>4. QED
  BY <1>1, <1>2, <1>3

LEMMA BooleanStep ==
    ASSUME TypeOK, Next PROVE BooleanType'
<1> USE TypeParts DEF BooleanType, server, engine, store, pass, service
<1>1. CASE \/ Cancel \/ \E e \in Email : \E box \in Mailbox \cup {NoMailbox} : Change(e, box)
  BY <1>1, Zenon DEF Cancel, Change
<1>2. CASE \/ Top \/ Discover \/ Discovered \/ SyncHierarchy \/ FolderTreeChanged
           \/ (\E m \in Mailbox : NextFolder(m)) \/ IngestBatch \/ UpdateCursor
  BY <1>2, Zenon DEF Top, Discover, Discovered, SyncHierarchy, FolderTreeChanged, NextFolder,
     IngestBatch, UpdateCursor
<1>3. CASE PassDone \/ Poll \/ CycleEnds \/ WaitCancelled \/ BackoffElapses
  BY <1>3, Zenon DEF PassDone, Poll, CycleEnds, WaitCancelled, BackoffElapses
<1>4. CASE QueryEmails
  <2>1. truncated' \in BOOLEAN
    BY <1>4, Zenon DEF QueryEmails
  <2>2. QED
    BY <1>4, <2>1, Zenon DEF QueryEmails
<1>5. CASE RequestFails \/ BusClosed \/ IngestFails
  BY <1>5, Zenon DEF RequestFails, BusClosed, IngestFails, CycleErr
<1>6. CASE Crash \/ MethodError \/ CursorFails \/ RowsMissing
  BY <1>6, Zenon DEF Crash, MethodError, CursorFails, RowsMissing
<1>7. QED
  BY <1>1, <1>2, <1>3, <1>4, <1>5, <1>6 DEF Next, Engine

(* What an ingest leaves of a row.                                         *)
LEMMA IngestedType ==
    ASSUME BaseInv, NEW m \in Mailbox, NEW u \in UID
    PROVE  Ingested(m, u) \in Version
<1>1. stored[m][u] \in Version
  BY DEF BaseInv, TypeOK
<1>2. \A a \in answer : a.email \in 0 .. MaxEmail /\ a.state \in 0 .. MaxState
  BY DEF BaseInv, TypeOK, Version
<1>3. CASE Same(u) = {}
  BY <1>1, <1>3, IngestedRow DEF BaseInv, AnswerInv
<1>4. CASE Same(u) # {}
  <2>1. PICK a, b \in Same(u) :
            Ingested(m, u) =
                [email |-> IF stored[m][u] = Absent THEN a.email ELSE stored[m][u].email,
                 state |-> b.state]
    BY <1>4, IngestedRow DEF BaseInv, AnswerInv
  <2>2. a.email \in 0 .. MaxEmail /\ b.state \in 0 .. MaxState
    BY <1>2 DEF Same
  <2>3. QED
    BY <1>1, <2>1, <2>2 DEF Version
<1>5. QED
  BY <1>3, <1>4

LEMMA DataStep ==
    ASSUME BaseInv, Next PROVE DataType' /\ AnswerInv'
<1> USE JmapAssumption, TypeParts
    DEF BaseInv, DataType, AnswerInv, server, engine, store, pass, service, Goto, EndFolder,
        Steps, ConnectionState
<1>1. ASSUME NEW e \in Email, NEW box \in Mailbox \cup {NoMailbox}, Change(e, box)
      PROVE  DataType' /\ AnswerInv'
  BY <1>1 DEF Change
<1>2. CASE Cancel \/ Top \/ Discover \/ Discovered \/ SyncHierarchy \/ FolderTreeChanged
  BY <1>2 DEF Cancel, Top, Discover, Discovered, SyncHierarchy, FolderTreeChanged
<1>3. ASSUME NEW m \in Mailbox, NextFolder(m) PROVE DataType' /\ AnswerInv'
  BY <1>3 DEF NextFolder
<1>4. CASE QueryEmails
  <2>1. CASE Matches(folder) = {}
    BY <1>4, <2>1 DEF QueryEmails
  <2>2. CASE Matches(folder) # {}
    <3>1. /\ answer' = {[email |-> e, state |-> mail[e].state] : e \in Newest(Matches(folder))}
          /\ pc' = "ingest" /\ newState' = IF honours THEN state ELSE 0
      BY <1>4, <2>2 DEF QueryEmails
    <3>2. \A e \in Newest(Matches(folder)) :
              /\ e \in Email /\ e \in 0 .. MaxEmail
              /\ mail[e].state \in 1 .. MaxState /\ mail[e].state \in 0 .. MaxState
      BY <1>4 DEF Newest, Matches, Email, QueryEmails
    <3>3. /\ answer' \subseteq Version
          /\ answer' \subseteq [email: Email, state: 1 .. MaxState]
      BY <3>1, <3>2 DEF Version
    <3>4. QED
      BY <1>4, <2>2, <3>1, <3>3 DEF QueryEmails
  <2>3. QED
    BY <2>1, <2>2
<1>5. CASE IngestBatch
  <2>1. [u \in UID |-> Ingested(folder, u)] \in [UID -> Version]
    BY <1>5, IngestedType DEF IngestBatch
  <2>2. stored' \in [Mailbox -> [UID -> Version]]
    BY <1>5, <2>1 DEF IngestBatch
  <2>3. QED
    BY <1>5, <2>2 DEF IngestBatch
<1>6. CASE UpdateCursor
  BY <1>6 DEF UpdateCursor
<1>7. CASE PassDone \/ Poll \/ CycleEnds \/ WaitCancelled \/ BackoffElapses
  BY <1>7 DEF PassDone, Poll, CycleEnds, WaitCancelled, BackoffElapses
<1>8. CASE RequestFails \/ BusClosed \/ IngestFails
  BY <1>8 DEF RequestFails, BusClosed, IngestFails, CycleErr, Fault
<1>9. CASE Crash \/ MethodError \/ CursorFails
  BY <1>9 DEF Crash, MethodError, CursorFails, Fault
<1>10. CASE RowsMissing
  BY <1>10 DEF RowsMissing, Fault
<1>11. QED
  BY <1>1, <1>2, <1>3, <1>4, <1>5, <1>6, <1>7, <1>8, <1>9, <1>10 DEF Next, Engine

LEMMA TypeInvariant == Spec => []BaseInv
<1>1. BaseInv /\ UNCHANGED vars => BaseInv'
  BY DEF BaseInv, TypeOK, AnswerInv, vars, server, store, pass, service
<1>2. BaseInv /\ [Next]_vars => BaseInv'
  BY <1>1, TypeParts, BooleanStep, DataStep DEF BaseInv
<1>3. QED
  BY <1>2, InitType, PTL DEF Spec

(* Every reachable state of the JMAP service is well typed: the delay      *)
(* keeps to its cap (run), and only stored rows are polled (the poll loop).*)
THEOREM TypeCorrect == Spec => []TypeOK
<1>1. BaseInv => TypeOK
  BY DEF BaseInv
<1>2. QED
  BY <1>1, TypeInvariant, PTL

-------------------------------------------------------------------------------
\* What a row shows.

(* A row shows an email of its UID, and only a mailbox whose filter the    *)
(* server understands gets to an ingest.                                   *)
RowsInv ==
    /\ RowsAreReal
    /\ \A m \in Mailbox : \A u \in UID :
           stored[m][u] # Absent => stored[m][u].email \in Email
    /\ pc = "ingest" => folder \in NamedById

LEMMA IngestedReal ==
    ASSUME BaseInv, RowsInv, NEW m \in Mailbox, NEW u \in UID, Ingested(m, u) # Absent
    PROVE  Ingested(m, u).email \in Email /\ Hash[Ingested(m, u).email] = u
<1>1. CASE Same(u) = {}
  BY <1>1, IngestedRow DEF BaseInv, AnswerInv, RowsInv, RowsAreReal
<1>2. CASE Same(u) # {}
  <2>1. PICK a, b \in Same(u) :
            Ingested(m, u) =
                [email |-> IF stored[m][u] = Absent THEN a.email ELSE stored[m][u].email,
                 state |-> b.state]
    BY <1>2, IngestedRow DEF BaseInv, AnswerInv
  <2>2. a.email \in Email /\ Hash[a.email] = u
    BY DEF Same, BaseInv, AnswerInv
  <2>3. stored[m][u] # Absent => stored[m][u].email \in Email /\ Hash[stored[m][u].email] = u
    BY DEF RowsInv, RowsAreReal
  <2>4. QED
    BY <2>1, <2>2, <2>3
<1>3. QED
  BY <1>1, <1>2

(* The steps that leave the rows as they are.                              *)
LEMMA KeepsStored ==
    ASSUME Next, ~IngestBatch PROVE stored' = stored
BY DEF Next, Engine, Change, Cancel, Top, Discover, Discovered, SyncHierarchy,
   FolderTreeChanged, NextFolder, QueryEmails, UpdateCursor, PassDone, Poll, CycleEnds,
   WaitCancelled, BackoffElapses, RequestFails, BusClosed, IngestFails, CycleErr, Crash,
   MethodError, CursorFails, RowsMissing, engine, store

LEMMA ReachesIngest ==
    ASSUME Next, pc' = "ingest"
    PROVE  \/ QueryEmails /\ Matches(folder) # {}
           \/ /\ pc = "ingest" /\ UNCHANGED <<engine, honours>>
              /\ \E e \in Email : \E box \in Mailbox \cup {NoMailbox} : Change(e, box)
           \/ Cancel
BY DEF Next, Engine, Change, Cancel, Top, Discover, Discovered, SyncHierarchy,
   FolderTreeChanged, NextFolder, QueryEmails, IngestBatch, UpdateCursor, PassDone, Poll,
   CycleEnds, WaitCancelled, BackoffElapses, RequestFails, BusClosed, IngestFails, CycleErr,
   Crash, MethodError, CursorFails, RowsMissing, engine, Goto

LEMMA RowsInvStep ==
    ASSUME BaseInv, RowsInv, [Next]_vars PROVE RowsInv'
<1>1. CASE UNCHANGED vars
  BY <1>1 DEF vars, store, pass, RowsInv, RowsAreReal
<1>2. CASE Next
  <2>1. pc' = "ingest" => folder' \in NamedById
    <3>1. CASE QueryEmails /\ Matches(folder) # {}
      BY <3>1 DEF QueryEmails, Matches
    <3>2. CASE pc' = "ingest" /\ ~(QueryEmails /\ Matches(folder) # {})
      BY <1>2, <3>2, ReachesIngest DEF engine, pass, Cancel, RowsInv
    <3>3. QED
      BY <1>2, <3>1, <3>2, ReachesIngest
  <2>2. CASE IngestBatch
    <3>1. folder \in Mailbox /\ folder \in NamedById /\ folder' = folder
      BY <2>2 DEF IngestBatch, Goto, pass, BaseInv, AnswerInv, RowsInv
    <3>2. stored' = [stored EXCEPT ![folder] = [u \in UID |-> Ingested(folder, u)]]
      BY <2>2 DEF IngestBatch
    <3>3. ASSUME NEW m \in Mailbox, NEW u \in UID, stored'[m][u] # Absent
          PROVE  /\ m \in NamedById /\ Hash[stored'[m][u].email] = u
                 /\ stored'[m][u].email \in Email
      <4>1. CASE m = folder
        <5>1. stored'[m][u] = Ingested(folder, u)
          BY <3>2, <4>1 DEF BaseInv, TypeOK
        <5>2. QED
          BY <3>1, <3>3, <4>1, <5>1, IngestedReal
      <4>2. CASE m # folder
        <5>1. stored'[m][u] = stored[m][u]
          BY <3>2, <4>2 DEF BaseInv, TypeOK
        <5>2. QED
          BY <3>3, <5>1 DEF RowsInv, RowsAreReal
      <4>3. QED
        BY <4>1, <4>2
    <3>4. QED
      BY <2>1, <3>3 DEF RowsInv, RowsAreReal
  <2>3. CASE ~IngestBatch
    BY <1>2, <2>1, <2>3, KeepsStored DEF RowsInv, RowsAreReal
  <2>4. QED
    BY <2>2, <2>3
<1>3. QED
  BY <1>1, <1>2

LEMMA RowsInvariant == Spec => [](BaseInv /\ RowsInv)
<1>1. Init => RowsInv
  BY DEF Init, RowsInv, RowsAreReal
<1>2. BaseInv /\ RowsInv /\ [Next]_vars => RowsInv'
  BY RowsInvStep
<1>3. QED
  BY <1>1, <1>2, TypeInvariant, PTL DEF Spec

(* No row is made for a mailbox that the server found nothing in, and a    *)
(* row stands for an email of its UID (ingest_batch), for any hash.        *)
THEOREM RowsAreRealHolds == Spec => []RowsAreReal
<1>1. RowsInv => RowsAreReal
  BY DEF RowsInv
<1>2. QED
  BY <1>1, RowsInvariant, PTL

-------------------------------------------------------------------------------
\* What the cursor has passed.

(* No state is ahead of the server's, and one that returns no newState     *)
(* moves no cursor.                                                        *)
StatesInv ==
    /\ \A e \in Email : mail[e].state <= state
    /\ \A m \in Mailbox : cursor[m] <= state
    /\ newState <= state
    /\ ~honours => newState = 0 /\ \A m \in Mailbox : cursor[m] = 0

(* The answer has what the folder's cursor has not passed, one record for  *)
(* each email and as it was at a state up to newState.                     *)
DeltaInv ==
    pc = "ingest" =>
        /\ \A a \in answer : honours => a.state > cursor[folder]
        /\ \A a \in answer : a.state <= mail[a.email].state
        /\ \A a, b \in answer : a.email = b.email => a = b
        /\ ~truncated =>
               \A e \in Email :
                   Alone(e) /\ mail[e].box = folder
                   /\ cursor[folder] < mail[e].state /\ mail[e].state <= newState
                       => [email |-> e, state |-> mail[e].state] \in answer

(* What is in the folder's rows before its cursor moves to newState.       *)
Covered(m, upTo) ==
    \A e \in Email :
        ~truncated /\ Alone(e) /\ mail[e].box = m /\ mail[e].state <= upTo
            => stored[m][Hash[e]] = [email |-> e, state |-> mail[e].state]

StoredInv == pc = "cursor" => Covered(folder, newState)

CoverInv == StatesInv /\ DeltaInv /\ StoredInv /\ CursorCovers

LEMMA CoverInit == Init => CoverInv
BY JmapAssumption DEF Init, CoverInv, StatesInv, DeltaInv, StoredInv, CursorCovers

(* A change to an email takes it past every cursor and past newState.      *)
LEMMA CoverChange ==
    ASSUME BaseInv, CoverInv, NEW e \in Email, NEW box \in Mailbox \cup {NoMailbox}, Change(e, box)
    PROVE  CoverInv'
<1>1. /\ state' = state + 1
      /\ mail' = [mail EXCEPT ![e] = [box |-> box, state |-> state + 1]]
      /\ UNCHANGED <<honours, cursor, stored, pc, folder, answer, newState, truncated>>
  BY DEF Change, engine, store, pass
<1>2. /\ state \in Int /\ newState \in Int
      /\ \A m \in Mailbox : cursor[m] \in Int
      /\ \A d \in Email : mail[d].state \in Int
  BY DEF BaseInv, TypeOK
<1>3. mail'[e].state = state + 1 /\ \A d \in Email \ {e} : mail'[d] = mail[d]
  BY <1>1 DEF BaseInv, TypeOK
<1>4. StatesInv'
  BY <1>1, <1>2, <1>3 DEF CoverInv, StatesInv
<1>5. ASSUME pc = "ingest" PROVE DeltaInv'
  <2>1. folder \in Mailbox /\ answer \subseteq [email: Email, state: 1 .. MaxState]
    BY <1>5 DEF BaseInv, AnswerInv
  <2>2. \A a \in answer : a.state <= mail'[a.email].state
    <3>1. \A a \in answer : a.email \in Email /\ a.state \in Int /\ a.state <= mail[a.email].state
      BY <1>5, <2>1, JmapAssumption DEF CoverInv, DeltaInv
    <3>2. \A a \in answer : a.email = e => a.state <= state + 1
      BY <1>2, <3>1 DEF CoverInv, StatesInv
    <3>3. QED
      BY <1>2, <1>3, <3>1, <3>2
  <2>3. ASSUME ~truncated, NEW d \in Email, Alone(d), mail'[d].box = folder,
               cursor[folder] < mail'[d].state, mail'[d].state <= newState
        PROVE  [email |-> d, state |-> mail'[d].state] \in answer
    <3>1. d # e
      BY <1>2, <1>3, <2>3 DEF CoverInv, StatesInv
    <3>2. QED
      BY <1>3, <1>5, <2>3, <3>1 DEF CoverInv, DeltaInv
  <2>4. \A a \in answer : honours => a.state > cursor[folder]
    BY <1>5 DEF CoverInv, DeltaInv
  <2>5. \A a, b \in answer : a.email = b.email => a = b
    BY <1>5 DEF CoverInv, DeltaInv
  <2>6. ~truncated =>
            \A d \in Email :
                Alone(d) /\ mail'[d].box = folder
                /\ cursor[folder] < mail'[d].state /\ mail'[d].state <= newState
                    => [email |-> d, state |-> mail'[d].state] \in answer
    BY <2>3, Zenon
  <2>7. QED
    BY <1>1, <2>2, <2>4, <2>5, <2>6, Zenon DEF DeltaInv, Alone
<1>6. StoredInv' /\ CursorCovers'
  <2>1. ASSUME NEW m \in Mailbox, NEW upTo \in Int, upTo <= state, Covered(m, upTo)
        PROVE  Covered(m, upTo)'
    BY <1>1, <1>2, <1>3, <2>1 DEF Covered, Alone
  <2>2. pc = "cursor" => folder \in Mailbox
    BY DEF BaseInv, AnswerInv
  <2>3. \A m \in Mailbox : Covered(m, cursor[m])
    BY DEF CoverInv, CursorCovers, Covered
  <2>4. \A m \in Mailbox : Covered(m, cursor[m])'
    <3>1. TAKE m \in Mailbox
    <3>2. Covered(m, cursor[m]) /\ cursor[m] \in Int /\ cursor[m] <= state
      BY <1>2, <2>3 DEF CoverInv, StatesInv
    <3>3. QED
      BY <1>1, <2>1, <3>2 DEF Covered
  <2>5. pc = "cursor" => Covered(folder, newState)'
    BY <1>1, <1>2, <2>1, <2>2 DEF CoverInv, StoredInv, StatesInv, Covered
  <2>6. QED
    BY <1>1, <2>4, <2>5 DEF StoredInv, CursorCovers, Covered
<1>7. QED
  BY <1>1, <1>4, <1>5, <1>6 DEF CoverInv, DeltaInv

LEMMA CoverQuery ==
    ASSUME BaseInv, CoverInv, QueryEmails PROVE CoverInv'
<1>1. UNCHANGED <<state, mail, honours, cursor, stored>> /\ folder \in Mailbox
  BY DEF QueryEmails, server, store, Goto, BaseInv, AnswerInv
<1>2. StatesInv'
  BY <1>1, JmapAssumption DEF QueryEmails, EndFolder, CoverInv, StatesInv, BaseInv, TypeOK
<1>3. CursorCovers' /\ StoredInv'
  BY <1>1 DEF QueryEmails, EndFolder, CoverInv, CursorCovers, StoredInv, Alone, BaseInv, TypeOK
<1>4. DeltaInv'
  <2>1. CASE Matches(folder) = {}
    BY <2>1 DEF QueryEmails, DeltaInv
  <2>2. CASE Matches(folder) # {}
    <3> DEFINE found == Matches(folder)
    <3>1. /\ answer' = {[email |-> e, state |-> mail[e].state] : e \in Newest(found)}
          /\ folder' = folder
          /\ truncated' = (truncated \/ Newest(found) # found)
      BY <2>2 DEF QueryEmails
    <3>2. found \subseteq Email /\ Newest(found) \subseteq found
      BY DEF Matches, Newest
    <3>3. \A e \in found : honours => mail[e].state > cursor[folder]
      <4>1. \A e \in found : mail[e].state > 0 /\ mail[e].state \in Int
        BY <1>1, JmapAssumption DEF Matches, BaseInv, AnswerInv, TypeOK
      <4>2. cursor[folder] \in Nat
        BY <1>1 DEF BaseInv, TypeOK
      <4>3. QED
        BY <4>1, <4>2 DEF Matches
    <3>4. \A a \in answer' : honours => a.state > cursor[folder]
      BY <3>1, <3>2, <3>3
    <3>5. \A a \in answer' : a.state <= mail[a.email].state
      BY <3>1, <3>2 DEF BaseInv, TypeOK
    <3>6. \A a, b \in answer' : a.email = b.email => a = b
      BY <3>1
    <3>7. ASSUME ~truncated', NEW e \in Email, mail[e].box = folder,
                 cursor[folder] < mail[e].state, folder \in NamedById
          PROVE  [email |-> e, state |-> mail[e].state] \in answer'
      BY <3>1, <3>7 DEF Matches
    <3>8. folder \in NamedById
      BY <2>2 DEF Matches
    <3>9. ~truncated' =>
              \A e \in Email :
                  Alone(e) /\ mail[e].box = folder
                  /\ cursor[folder] < mail[e].state /\ mail[e].state <= newState'
                      => [email |-> e, state |-> mail[e].state] \in answer'
      BY <3>7, <3>8, Zenon
    <3>10. QED
      BY <1>1, <3>1, <3>4, <3>5, <3>6, <3>9, Zenon DEF DeltaInv, Alone
  <2>3. QED
    BY <2>1, <2>2
<1>5. QED
  BY <1>2, <1>3, <1>4 DEF CoverInv

(* An email with a hash of its own that is in the answer is in its row     *)
(* after the ingest, at the state of the answer.                           *)
LEMMA IngestedAlone ==
    ASSUME BaseInv, RowsInv, DeltaInv, pc = "ingest",
           NEW m \in Mailbox, NEW r \in answer, Alone(r.email)
    PROVE  Ingested(m, Hash[r.email]) = r
<1> DEFINE u == Hash[r.email]
<1>1. r \in [email: Email, state: 1 .. MaxState] /\ r \in Same(u) /\ u \in UID
  BY DEF BaseInv, AnswerInv, Same, UID
<1>2. \A a \in Same(u) : a = r
  <2>1. \A a \in Same(u) : a \in answer /\ a.email \in Email /\ Hash[a.email] = u
    BY DEF Same, BaseInv, AnswerInv
  <2>2. \A a \in Same(u) : a.email = r.email
    BY <1>1, <2>1 DEF Alone
  <2>3. QED
    BY <2>1, <2>2 DEF DeltaInv
<1>3. stored[m][u] # Absent => stored[m][u].email = r.email
  BY <1>1 DEF RowsInv, RowsAreReal, Alone
<1>4. PICK a, b \in Same(u) :
          Ingested(m, u) =
              [email |-> IF stored[m][u] = Absent THEN a.email ELSE stored[m][u].email,
               state |-> b.state]
  BY <1>1, IngestedRow DEF BaseInv, AnswerInv
<1>5. QED
  BY <1>1, <1>2, <1>3, <1>4

LEMMA CoverIngest ==
    ASSUME BaseInv, RowsInv, CoverInv, IngestBatch PROVE CoverInv'
<1>1. /\ pc = "ingest" /\ pc' = "cursor" /\ folder \in Mailbox
      /\ stored' = [stored EXCEPT ![folder] = [u \in UID |-> Ingested(folder, u)]]
      /\ UNCHANGED <<state, mail, honours, cursor, folder, newState, truncated>>
  BY DEF IngestBatch, Goto, server, pass, BaseInv, AnswerInv
<1>2. /\ state \in Int /\ newState \in Int /\ cursor[folder] \in Int
      /\ \A e \in Email : mail[e].state \in Int
      /\ \A m \in Mailbox : cursor[m] \in Int
  BY <1>1 DEF BaseInv, TypeOK
(* An email that the cursor has passed already is not in the answer.       *)
<1>3. ASSUME NEW e \in Email, ~truncated, Alone(e), mail[e].box = folder,
             mail[e].state <= cursor[folder]
      PROVE  stored'[folder][Hash[e]] = [email |-> e, state |-> mail[e].state]
  <2>1. honours /\ Hash[e] \in UID
    <3>1. mail[e].state > 0
      BY <1>1, <1>3, JmapAssumption DEF BaseInv, AnswerInv
    <3>2. ~honours => cursor[folder] = 0
      BY <1>1 DEF CoverInv, StatesInv
    <3>3. QED
      BY <1>2, <1>3, <3>1, <3>2 DEF UID
  <2>2. Same(Hash[e]) = {}
    <3> SUFFICES ASSUME NEW a \in Same(Hash[e]) PROVE FALSE
      OBVIOUS
    <3>1. a \in answer /\ a.email \in Email /\ a.state \in Int /\ Hash[a.email] = Hash[e]
      BY JmapAssumption DEF Same, BaseInv, AnswerInv
    <3>2. a.email = e
      BY <1>3, <3>1 DEF Alone
    <3>3. a.state > cursor[folder] /\ a.state <= mail[e].state
      BY <1>1, <2>1, <3>1, <3>2 DEF CoverInv, DeltaInv
    <3>4. QED
      BY <1>2, <1>3, <3>1, <3>3
  <2>3. Ingested(folder, Hash[e]) = stored[folder][Hash[e]]
    BY <1>1, <2>2, IngestedRow DEF BaseInv, AnswerInv
  <2>4. stored'[folder][Hash[e]] = stored[folder][Hash[e]]
    BY <1>1, <2>1, <2>3 DEF BaseInv, TypeOK
  <2>5. QED
    BY <1>1, <1>3, <2>4 DEF CoverInv, CursorCovers
<1>4. ASSUME NEW e \in Email, ~truncated, Alone(e), mail[e].box = folder,
             cursor[folder] < mail[e].state, mail[e].state <= newState
      PROVE  stored'[folder][Hash[e]] = [email |-> e, state |-> mail[e].state]
  <2> DEFINE r == [email |-> e, state |-> mail[e].state]
  <2>1. r \in answer /\ Hash[e] \in UID /\ r.email = e
    BY <1>1, <1>4 DEF CoverInv, DeltaInv, UID
  <2>2. Ingested(folder, Hash[e]) = r
    BY <1>1, <1>4, <2>1, IngestedAlone DEF CoverInv
  <2>3. QED
    BY <1>1, <2>1, <2>2 DEF BaseInv, TypeOK
<1>5. StatesInv' /\ DeltaInv'
  BY <1>1 DEF CoverInv, StatesInv, DeltaInv
<1>6. StoredInv'
  BY <1>1, <1>2, <1>3, <1>4 DEF StoredInv, Covered, Alone
<1>7. CursorCovers'
  <2>1. ASSUME NEW m \in Mailbox, NEW e \in Email, ~truncated, Alone(e), mail[e].box = m,
               mail[e].state <= cursor[m]
        PROVE  stored'[m][Hash[e]] = [email |-> e, state |-> mail[e].state]
    <3>1. CASE m = folder
      BY <1>3, <2>1, <3>1
    <3>2. CASE m # folder
      <4>1. stored'[m] = stored[m]
        BY <1>1, <3>2 DEF BaseInv, TypeOK
      <4>2. QED
        BY <2>1, <4>1 DEF CoverInv, CursorCovers
    <3>3. QED
      BY <3>1, <3>2
  <2>2. QED
    BY <1>1, <2>1 DEF CursorCovers, Alone
<1>8. QED
  BY <1>5, <1>6, <1>7 DEF CoverInv

LEMMA CoverUpdateCursor ==
    ASSUME BaseInv, CoverInv, UpdateCursor PROVE CoverInv'
<1>1. /\ pc = "cursor" /\ pc' = "pass" /\ folder \in Mailbox /\ newState' = 0
      /\ UNCHANGED <<state, mail, honours, stored, truncated>>
      /\ newState \in Nat /\ state \in Nat
      /\ cursor' = IF newState > 0 THEN [cursor EXCEPT ![folder] = newState] ELSE cursor
  BY DEF UpdateCursor, EndFolder, Goto, server, BaseInv, AnswerInv, TypeOK
<1>2. \A m \in Mailbox :
          cursor'[m] = cursor[m] \/ (m = folder /\ newState > 0 /\ cursor'[m] = newState)
  BY <1>1 DEF BaseInv, TypeOK
<1>3. StatesInv' /\ DeltaInv' /\ StoredInv'
  BY <1>1, <1>2 DEF CoverInv, StatesInv, DeltaInv, StoredInv
<1>4. CursorCovers'
  BY <1>1, <1>2 DEF CoverInv, StoredInv, Covered, CursorCovers, Alone
<1>5. QED
  BY <1>3, <1>4 DEF CoverInv

(* The steps that end what is under way or have nothing to do with it.     *)
LEMMA CoverOther ==
    ASSUME BaseInv, CoverInv,
           /\ UNCHANGED <<state, mail, honours, cursor, stored, truncated>>
           /\ \/ UNCHANGED <<pc, folder, answer, newState>>
              \/ pc' \notin {"ingest", "cursor"} /\ newState' \in {0, newState}
    PROVE  CoverInv'
<1>1. StatesInv' /\ DeltaInv'
  <2>1. CASE newState' = newState
    BY <2>1 DEF CoverInv, StatesInv, DeltaInv, Alone
  <2>2. CASE newState' = 0 /\ pc' \notin {"ingest", "cursor"}
    BY <2>2 DEF CoverInv, StatesInv, DeltaInv, BaseInv, TypeOK
  <2>3. QED
    BY <2>1, <2>2
<1>2. StoredInv' /\ CursorCovers'
  BY DEF CoverInv, StoredInv, Covered, CursorCovers, Alone
<1>3. QED
  BY <1>1, <1>2 DEF CoverInv

LEMMA CoverStep ==
    ASSUME BaseInv, RowsInv, CoverInv, [Next]_vars PROVE CoverInv'
<1> USE DEF server, engine, store, pass, service, Goto, EndFolder
<1>1. CASE UNCHANGED vars
  BY <1>1, CoverOther DEF vars
<1>2. ASSUME NEW e \in Email, NEW box \in Mailbox \cup {NoMailbox}, Change(e, box)
      PROVE  CoverInv'
  BY <1>2, CoverChange
<1>3. CASE Cancel \/ Top \/ Discover \/ Discovered \/ SyncHierarchy \/ FolderTreeChanged
  BY <1>3, CoverOther DEF Cancel, Top, Discover, Discovered, SyncHierarchy, FolderTreeChanged
<1>4. ASSUME NEW m \in Mailbox, NextFolder(m) PROVE CoverInv'
  BY <1>4, CoverOther DEF NextFolder
<1>5. CASE QueryEmails
  BY <1>5, CoverQuery
<1>6. CASE IngestBatch
  BY <1>6, CoverIngest
<1>7. CASE UpdateCursor
  BY <1>7, CoverUpdateCursor
<1>8. CASE PassDone \/ Poll \/ CycleEnds \/ WaitCancelled \/ BackoffElapses
  BY <1>8, CoverOther DEF PassDone, Poll, CycleEnds, WaitCancelled, BackoffElapses
<1>9. CASE RequestFails \/ BusClosed \/ IngestFails
  BY <1>9, CoverOther DEF RequestFails, BusClosed, IngestFails, CycleErr
<1>10. CASE Crash \/ MethodError \/ CursorFails \/ RowsMissing
  BY <1>10, CoverOther DEF Crash, MethodError, CursorFails, RowsMissing
<1>11. QED
  BY <1>1, <1>2, <1>3, <1>4, <1>5, <1>6, <1>7, <1>8, <1>9, <1>10 DEF Next, Engine

(* The delta sync by state tokens loses nothing (sync_folder): what a      *)
(* folder's cursor has passed is in its rows, whatever is delivered, moved *)
(* or destroyed between a request and its ingest and wherever a cycle      *)
(* fails, except for emails that share a hash or an answer that was cut.   *)
THEOREM CursorCoversHolds == Spec => []CursorCovers
<1>1. CoverInv => CursorCovers
  BY DEF CoverInv
<1>2. BaseInv /\ RowsInv /\ CoverInv /\ [Next]_vars => CoverInv'
  BY CoverStep
<1>3. QED
  BY <1>1, <1>2, CoverInit, RowsInvariant, PTL DEF Spec

-------------------------------------------------------------------------------
\* The lifecycle.

(* The announced state by step.  A cancelled cycle ends as Syncing.        *)
AnnouncedInv ==
    /\ pc = "discover" => announced = "Connecting"
    /\ pc = "discovered" => announced = "Authenticating"
    /\ pc \in {"hierarchy", "tree", "pass", "query", "ingest", "cursor", "poll"} =>
           announced = "Syncing"
    /\ pc = "wait" \/ (pc = "top" /\ ~cancelled) => announced = "Disconnected"

Linked == pc \notin {"top", "discover", "wait", "returned"}

LEMMA LifecycleInit == Init => Lifecycle!Init /\ AnnouncedInv
<1> SUFFICES ASSUME Init PROVE Lifecycle!Init /\ AnnouncedInv
  OBVIOUS
<1>1. announced = "Disconnected" /\ cancelled = FALSE /\ pc = "top"
  BY DEF Init
<1>2. QED
  BY <1>1 DEF Lifecycle!Init, AnnouncedInv

LEMMA LifecycleStutters ==
    ASSUME UNCHANGED <<announced, cancelled>>, Linked' <=> Linked,
           pc' = "returned" <=> pc = "returned"
    PROVE  [Lifecycle!Next]_Lifecycle!vars
BY DEF Lifecycle!vars, Linked

LEMMA LifecycleStep ==
    ASSUME BaseInv, AnnouncedInv, [Next]_vars
    PROVE  [Lifecycle!Next]_Lifecycle!vars /\ AnnouncedInv'
<1> USE DEF server, engine, store, pass, service, Goto
<1>1. CASE UNCHANGED vars
  BY <1>1, LifecycleStutters DEF vars, Linked, AnnouncedInv
<1>2. CASE \/ QueryEmails \/ IngestBatch \/ UpdateCursor \/ (\E m \in Mailbox : NextFolder(m))
           \/ SyncHierarchy \/ FolderTreeChanged \/ PassDone \/ RowsMissing
           \/ MethodError \/ CursorFails
  <2>1. /\ UNCHANGED <<announced, cancelled>> /\ announced = "Syncing"
        /\ pc' \in {"tree", "pass", "query", "ingest", "cursor", "poll"}
        /\ pc \in {"hierarchy", "tree", "pass", "query", "ingest", "cursor", "poll"}
    BY <1>2 DEF QueryEmails, IngestBatch, UpdateCursor, NextFolder, SyncHierarchy,
       FolderTreeChanged, PassDone, RowsMissing, MethodError, CursorFails, AnnouncedInv
  <2>2. QED
    BY <2>1, LifecycleStutters DEF Linked, AnnouncedInv
<1>3. ASSUME NEW e \in Email, NEW box \in Mailbox \cup {NoMailbox}, Change(e, box)
      PROVE  [Lifecycle!Next]_Lifecycle!vars /\ AnnouncedInv'
  BY <1>3, LifecycleStutters DEF Change, Linked, AnnouncedInv
<1>4. CASE Cancel
  <2>1. ~cancelled /\ cancelled' = TRUE /\ UNCHANGED <<announced, pc>>
    BY <1>4 DEF Cancel
  <2>2. QED
    BY <2>1 DEF Lifecycle!Cancel, Lifecycle!Next, AnnouncedInv
<1>5. CASE Top
  <2>1. pc = "top" /\ cancelled' = cancelled
    BY <1>5 DEF Top
  <2>2. CASE cancelled
    <3>1. pc' = "returned" /\ announced' = announced
      BY <1>5, <2>2 DEF Top
    <3>2. QED
      BY <2>1, <2>2, <3>1 DEF Lifecycle!End, Lifecycle!Next, AnnouncedInv
  <2>3. CASE ~cancelled
    <3>1. announced = "Disconnected" /\ announced' = "Connecting" /\ pc' = "discover"
      BY <1>5, <2>1, <2>3 DEF Top, AnnouncedInv
    <3>2. QED
      BY <2>1, <2>3, <3>1 DEF Lifecycle!Announce, Lifecycle!Next, AnnouncedInv
  <2>4. QED
    BY <2>2, <2>3
<1>6. CASE Discover
  <2>1. /\ pc = "discover" /\ pc' = "discovered" /\ cancelled' = cancelled
        /\ announced = "Connecting" /\ announced' = "Authenticating"
    BY <1>6 DEF Discover, AnnouncedInv
  <2>2. QED
    BY <2>1 DEF Lifecycle!Open, Lifecycle!Next, AnnouncedInv
<1>7. CASE Discovered
  <2>1. /\ pc = "discovered" /\ pc' = "hierarchy" /\ cancelled' = cancelled
        /\ announced = "Authenticating" /\ announced' = "Syncing"
    BY <1>7 DEF Discovered, AnnouncedInv
  <2>2. QED
    BY <2>1 DEF Lifecycle!Sync, Lifecycle!Next, AnnouncedInv
<1>8. CASE Poll
  <2>1. /\ pc = "poll" /\ pc' = "pass" /\ cancelled' = cancelled
        /\ announced = "Syncing" /\ announced' = "Syncing"
    BY <1>8 DEF Poll, AnnouncedInv
  <2>2. QED
    BY <2>1, LifecycleStutters DEF Linked, AnnouncedInv
<1>9. CASE CycleEnds
  <2>1. /\ pc \in {"poll", "pass"} /\ pc' = "top" /\ cancelled
        /\ UNCHANGED <<announced, cancelled>>
    BY <1>9 DEF CycleEnds
  <2>2. QED
    BY <2>1 DEF Lifecycle!Close, Lifecycle!Next, AnnouncedInv
<1>10. CASE WaitCancelled
  <2>1. pc = "wait" /\ pc' = "returned" /\ cancelled /\ UNCHANGED <<announced, cancelled>>
    BY <1>10 DEF WaitCancelled
  <2>2. QED
    BY <2>1 DEF Lifecycle!End, Lifecycle!Next, AnnouncedInv
<1>11. CASE BackoffElapses
  BY <1>11, LifecycleStutters DEF BackoffElapses, Linked, AnnouncedInv
<1>12. CASE RequestFails \/ BusClosed \/ IngestFails
  <2>1. /\ pc \in {"discover", "hierarchy", "query", "tree", "ingest"} /\ pc' = "wait"
        /\ announced \in {"Connecting", "Syncing"} /\ announced' = "Disconnected"
        /\ cancelled' = cancelled
    BY <1>12 DEF RequestFails, BusClosed, IngestFails, CycleErr, AnnouncedInv
  <2>2. QED
    BY <2>1 DEF Lifecycle!Lose, Lifecycle!Next, AnnouncedInv
<1>13. CASE Crash
  <2>1. /\ pc \in Steps \ {"top", "returned"} /\ pc' = "top"
        /\ announced' = "Disconnected" /\ cancelled' = cancelled
    BY <1>13 DEF Crash, BaseInv, TypeOK
  <2>2. CASE pc = "wait"
    BY <2>1, <2>2, LifecycleStutters DEF Linked, AnnouncedInv
  <2>3. CASE pc # "wait"
    <3>1. announced \in {"Connecting", "Authenticating", "Syncing"}
      BY <2>1, <2>3 DEF AnnouncedInv, Steps
    <3>2. QED
      BY <2>1, <3>1 DEF Lifecycle!Lose, Lifecycle!Next, AnnouncedInv
  <2>4. QED
    BY <2>2, <2>3
<1>14. QED
  BY <1>1, <1>2, <1>3, <1>4, <1>5, <1>6, <1>7, <1>8, <1>9, <1>10, <1>11, <1>12, <1>13
     DEF Next, Engine

(* What the JMAP service announces follows the same ConnectionLifecycle as *)
(* the IMAP one does (emit_state), whatever fails or crashes and whenever  *)
(* it is cancelled.                                                        *)
THEOREM ServiceImplementsLifecycle == Spec => ImplementsLifecycle
<1>1. BaseInv /\ AnnouncedInv /\ [Next]_vars => [Lifecycle!Next]_Lifecycle!vars /\ AnnouncedInv'
  BY LifecycleStep
<1>2. QED
  BY <1>1, LifecycleInit, TypeInvariant, PTL DEF Spec, ImplementsLifecycle, Lifecycle!Spec
===============================================================================
