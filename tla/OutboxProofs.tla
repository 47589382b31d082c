----------------------------- MODULE OutboxProofs -----------------------------
(***************************************************************************)
(* Theorems about the outbox service (Outbox), for any rows, any number of *)
(* tasks flushing at the same time and any number of faults.               *)
(***************************************************************************)
EXTENDS Outbox, FiniteSetTheorems, TLAPS

-------------------------------------------------------------------------------
\* Type correctness.  The steps between taking a row and being done with it
\* have a row; in the others there is none.

Sending == {"load", "submit", "append", "markSent", "saySent", "markRetry",
            "sayRetry", "sayFailed"}

RowInv ==
    \A f \in Flusher : pc[f] \in Sending => cur[f] \in Entry

LEMMA InitType == Init => TypeOK /\ RowInv
<1> SUFFICES ASSUME Init PROVE TypeOK /\ RowInv
  OBVIOUS
<1>1. pc \in [Flusher -> Steps] /\ RowInv
  BY DEF Init, RowInv, Sending, Steps
<1>2. due \in [Flusher -> SUBSET Entry] /\ cur \in [Flusher -> Entry \cup {NoEntry}]
  BY DEF Init
<1>3. flushes \in [Flusher -> 0 .. MaxFlushes] /\ faults \in 0 .. MaxFaults
  BY OutboxAssumption DEF Init
<1>4. QED
  BY <1>1, <1>2, <1>3 DEF Init, TypeOK

LEMMA DueRowsType == TypeOK => DueRows \in SUBSET Entry
BY DEF TypeOK, DueRows, Entry

LEMMA FlushType ==
    ASSUME TypeOK, RowInv, NEW f \in Flusher, Flush(f)
    PROVE  TypeOK' /\ RowInv'
<1> USE DEF Goto, store, remote, host, Steps, Sending
<1>1. ASSUME NEW entry \in due[f], TakeRow(f, entry) PROVE TypeOK' /\ RowInv'
  BY <1>1 DEF TakeRow, TypeOK, RowInv
<1>2. CASE ReadBlob(f)
  BY <1>2 DEF ReadBlob, TypeOK, RowInv
<1>3. CASE Accepted(f)
  BY <1>3 DEF Accepted, TypeOK, RowInv, Entry
<1>4. CASE AppendToSent(f)
  BY <1>4 DEF AppendToSent, TypeOK, RowInv, Entry
<1>5. CASE MarkSent(f)
  BY <1>5 DEF MarkSent, TypeOK, RowInv, Entry
<1>6. CASE SaySent(f)
  BY <1>6 DEF SaySent, NextRow, TypeOK, RowInv, Entry
<1>7. CASE MarkRetry(f)
  BY <1>7 DEF MarkRetry, TypeOK, RowInv, Entry
<1>8. CASE SayRetry(f)
  BY <1>8 DEF SayRetry, NextRow, TypeOK, RowInv, Entry
<1>9. CASE SayFailed(f)
  BY <1>9 DEF SayFailed, NextRow, TypeOK, RowInv, Entry
<1>10. CASE EndFlush(f)
  BY <1>10 DEF EndFlush, TypeOK, RowInv
<1>11. CASE DraftInvalid(f)
  BY <1>11 DEF DraftInvalid, AfterError, TypeOK, RowInv
<1>12. QED
  BY <1>1, <1>2, <1>3, <1>4, <1>5, <1>6, <1>7, <1>8, <1>9, <1>10, <1>11 DEF Flush

LEMMA BeginType ==
    ASSUME TypeOK, RowInv, Tick \/ FinalFlush \/ \E f \in Flusher : FlushOnce(f)
    PROVE  TypeOK' /\ RowInv'
<1> USE OutboxAssumption, DueRowsType
        DEF BeginFlush, store, remote, host, Steps, Sending, TypeOK, RowInv
<1>1. CASE Tick
  BY <1>1 DEF Tick
<1>2. CASE FinalFlush
  BY <1>2 DEF FinalFlush
<1>3. ASSUME NEW f \in Flusher, FlushOnce(f) PROVE TypeOK' /\ RowInv'
  BY <1>3 DEF FlushOnce
<1>4. QED
  BY <1>1, <1>2, <1>3

LEMMA FaultsType ==
    ASSUME TypeOK, RowInv, Faults PROVE TypeOK' /\ RowInv'
<1> USE OutboxAssumption
    DEF Goto, store, remote, host, Steps, Sending, TypeOK, RowInv, Fault, Fails
<1>1. ASSUME NEW f \in Flusher,
             \/ BlobMissing(f) \/ SubmitFails(f) \/ AppendFails(f) \/ AppendHangs(f)
             \/ MarkFails(f) \/ OutboxDueFails
      PROVE  TypeOK' /\ RowInv'
  BY <1>1 DEF BlobMissing, SubmitFails, AfterError, AppendFails, AppendHangs,
              MarkFails, OutboxDueFails
<1>2. ASSUME NEW f \in Flusher, ReplyLost(f) PROVE TypeOK' /\ RowInv'
  BY <1>2 DEF ReplyLost, AfterError, Entry
<1>3. CASE Crash
  <2>1. pc' \in [Flusher -> Steps] /\ RowInv'
    BY <1>3 DEF Crash
  <2>2. due' \in [Flusher -> SUBSET Entry] /\ cur' \in [Flusher -> Entry \cup {NoEntry}]
    BY <1>3 DEF Crash
  <2>3. faults' \in 0 .. MaxFaults
    BY <1>3 DEF Crash
  <2>4. final' \in BOOLEAN /\ cancelled' \in BOOLEAN
    BY <1>3, Zenon DEF Crash
  <2>5. UNCHANGED <<store, remote, online, sent, failed, flushes>>
    BY <1>3 DEF Crash
  <2>6. QED
    BY <2>1, <2>2, <2>3, <2>4, <2>5
<1>4. QED
  BY <1>1, <1>2, <1>3 DEF Faults

LEMMA HostType ==
    ASSUME TypeOK, RowInv,
           \/ \E r \in Row : Enqueue(r) \/ BackoffElapses(r)
           \/ SwitchOnline \/ Cancel
    PROVE  TypeOK' /\ RowInv'
BY DEF Enqueue, BackoffElapses, SwitchOnline, Cancel, store, remote, host, tasks,
       TypeOK, RowInv

(* Every reachable state of the outbox service is well typed, and a flush  *)
(* past flush_once's `for row in due` has a row of the outbox in hand.     *)
THEOREM TypeCorrect == Spec => [](TypeOK /\ RowInv)
<1>1. TypeOK /\ RowInv /\ UNCHANGED vars => (TypeOK /\ RowInv)'
  BY DEF TypeOK, RowInv, vars, store, remote, host, tasks
<1>2. TypeOK /\ RowInv /\ [Next]_vars => (TypeOK /\ RowInv)'
  BY <1>1, FlushType, BeginType, FaultsType, HostType DEF Next, Host
<1>3. QED
  BY <1>2, InitType, PTL DEF Spec

-------------------------------------------------------------------------------
\* Nothing is lost.

(* A flush that is past the submission holds a message the server took.    *)
TakenInv ==
    /\ NothingLost
    /\ \A f \in Flusher :
          pc[f] \in {"append", "markSent", "saySent"} => accepted[cur[f].row] > 0

LEMMA TakenInvInit == Init => TakenInv
BY DEF Init, TakenInv, NothingLost

LEMMA TakenInvStep ==
    ASSUME TypeOK, RowInv, TakenInv, [Next]_vars PROVE TakenInv'
<1> USE DEF TakenInv, NothingLost, Goto, store, remote, host, tasks
<1>1. CASE UNCHANGED vars
  BY <1>1 DEF vars
<1>2. CASE \/ \E r \in Row : Enqueue(r) \/ BackoffElapses(r)
           \/ SwitchOnline \/ Cancel
  BY <1>2 DEF Enqueue, BackoffElapses, SwitchOnline, Cancel, TypeOK
<1>3. CASE Tick \/ FinalFlush \/ \E f \in Flusher : FlushOnce(f)
  BY <1>3, OutboxAssumption DEF Tick, FinalFlush, FlushOnce, BeginFlush, TypeOK
<1>4. ASSUME NEW f \in Flusher, Flush(f) PROVE TakenInv'
  <2>1. ASSUME NEW entry \in due[f], TakeRow(f, entry) PROVE TakenInv'
    BY <2>1 DEF TakeRow, TypeOK
  <2>2. CASE ReadBlob(f) \/ DraftInvalid(f) \/ EndFlush(f)
    BY <2>2 DEF ReadBlob, DraftInvalid, AfterError, EndFlush, TypeOK
  <2>3. CASE Accepted(f)
    BY <2>3 DEF Accepted, TypeOK, RowInv, Sending, Entry
  <2>4. CASE AppendToSent(f)
    BY <2>4 DEF AppendToSent, TypeOK
  <2>5. CASE MarkSent(f)
    BY <2>5 DEF MarkSent, TypeOK, RowInv, Sending, Entry
  <2>6. CASE SaySent(f)
    BY <2>6 DEF SaySent, NextRow, TypeOK, RowInv, Sending, Entry
  <2>7. CASE MarkRetry(f)
    BY <2>7 DEF MarkRetry, TypeOK, RowInv, Sending, Entry
  <2>8. CASE SayRetry(f) \/ SayFailed(f)
    BY <2>8 DEF SayRetry, SayFailed, NextRow, TypeOK
  <2>9. QED
    BY <1>4, <2>1, <2>2, <2>3, <2>4, <2>5, <2>6, <2>7, <2>8 DEF Flush
<1>5. CASE Faults
  <2>1. ASSUME NEW f \in Flusher,
               \/ BlobMissing(f) \/ SubmitFails(f) \/ AppendFails(f)
               \/ AppendHangs(f) \/ MarkFails(f)
        PROVE  TakenInv'
    BY <2>1 DEF Fails, BlobMissing, SubmitFails, AfterError, AppendFails,
                AppendHangs, MarkFails, TypeOK
  <2>2. ASSUME NEW f \in Flusher, ReplyLost(f) PROVE TakenInv'
    BY <2>2 DEF ReplyLost, AfterError, TypeOK, RowInv, Sending, Entry
  <2>3. CASE OutboxDueFails
    BY <2>3, OutboxAssumption DEF OutboxDueFails, Fails, TypeOK
  <2>4. CASE Crash
    BY <2>4 DEF Crash, TypeOK
  <2>5. QED
    BY <1>5, <2>1, <2>2, <2>3, <2>4 DEF Faults
<1>6. QED
  BY <1>1, <1>2, <1>3, <1>4, <1>5 DEF Next, Host

(* No row leaves the outbox and no MailSent is emitted before the SMTP     *)
(* server has taken the message, with any number of flushes at once, lost  *)
(* replies, store errors and crashes (flush_once, try_send).               *)
THEOREM NothingLostHolds == Spec => []NothingLost
<1>1. TypeOK /\ RowInv /\ TakenInv /\ [Next]_vars => TakenInv'
  BY TakenInvStep
<1>2. TakenInv => NothingLost
  BY DEF TakenInv
<1>3. QED
  BY <1>1, <1>2, TakenInvInit, TypeCorrect, PTL DEF Spec

-------------------------------------------------------------------------------
\* Duplicates.

(* The rows a flush still has to send are distinct, and are not the one it *)
(* is sending.                                                             *)
QueueInv ==
    \A f \in Flusher :
        /\ \A e, d \in due[f] : e.row = d.row => e = d
        /\ pc[f] \in Sending => \A e \in due[f] : e.row # cur[f].row

LEMMA QueueInvInit == Init => QueueInv
BY DEF Init, QueueInv, Sending

LEMMA QueueInvStep ==
    ASSUME TypeOK, RowInv, QueueInv, [Next]_vars PROVE QueueInv'
<1> USE DEF QueueInv, TypeOK, Sending, Goto, store, remote, host, tasks
<1>1. CASE UNCHANGED vars
  BY <1>1 DEF vars
<1>2. CASE \/ \E r \in Row : Enqueue(r) \/ BackoffElapses(r)
           \/ SwitchOnline \/ Cancel
  BY <1>2 DEF Enqueue, BackoffElapses, SwitchOnline, Cancel
<1>3. CASE Tick \/ FinalFlush \/ \E f \in Flusher : FlushOnce(f)
  <2>1. PICK f \in Flusher : BeginFlush(f)
    BY <1>3, OutboxAssumption DEF Tick, FinalFlush, FlushOnce
  <2>2. \A e, d \in DueRows : e.row = d.row => e = d
    BY DEF DueRows
  <2>3. QED
    BY <2>1, <2>2 DEF BeginFlush
<1>4. ASSUME NEW f \in Flusher, Flush(f) PROVE QueueInv'
  <2>1. ASSUME NEW entry \in due[f], TakeRow(f, entry) PROVE QueueInv'
    BY <2>1 DEF TakeRow
  <2>2. CASE \/ ReadBlob(f) \/ DraftInvalid(f) \/ Accepted(f) \/ AppendToSent(f)
             \/ MarkSent(f) \/ MarkRetry(f) \/ EndFlush(f)
    BY <2>2 DEF ReadBlob, DraftInvalid, AfterError, Accepted, AppendToSent,
                MarkSent, MarkRetry, EndFlush
  <2>3. CASE SaySent(f) \/ SayRetry(f) \/ SayFailed(f)
    BY <2>3 DEF SaySent, SayRetry, SayFailed, NextRow
  <2>4. QED
    BY <1>4, <2>1, <2>2, <2>3 DEF Flush
<1>5. CASE Faults
  <2>1. ASSUME NEW f \in Flusher,
               \/ BlobMissing(f) \/ SubmitFails(f) \/ ReplyLost(f)
               \/ AppendFails(f) \/ AppendHangs(f) \/ MarkFails(f)
        PROVE  QueueInv'
    BY <2>1 DEF Fails, BlobMissing, SubmitFails, ReplyLost, AfterError,
                AppendFails, AppendHangs, MarkFails
  <2>2. CASE OutboxDueFails
    BY <2>2, OutboxAssumption DEF OutboxDueFails, Fails
  <2>3. CASE Crash
    BY <2>3 DEF Crash
  <2>4. QED
    BY <1>5, <2>1, <2>2, <2>3 DEF Faults
<1>6. QED
  BY <1>1, <1>2, <1>3, <1>4, <1>5 DEF Next, Host

(* The tasks that may still deliver a row's message without another fault: *)
(* those that have the row in hand, and, while it is in the outbox, all    *)
(* but those that are about to remove it.                                  *)
Holds(f, r) ==
    \/ \E e \in due[f] : e.row = r
    \/ pc[f] \in {"load", "submit"} /\ cur[f].row = r
Removing(f, r) == pc[f] \in {"append", "markSent"} /\ cur[f].row = r

Able(r) ==
    {f \in Flusher : Holds(f, r) \/ (outbox[r] # "gone" /\ ~Removing(f, r))}

(* Without a fault, a delivery costs the task that makes it its ability to *)
(* make another, and nobody gains any.                                     *)
LEMMA AbleSteps ==
    ASSUME TypeOK, RowInv, QueueInv, NEW r \in Row, [Next]_vars, ~Faults
    PROVE  /\ faults' = faults
           /\ \/ accepted'[r] = accepted[r] /\ Able(r)' \subseteq Able(r)
              \/ /\ accepted'[r] = accepted[r] + 1
                 /\ \E f \in Able(r) : Able(r)' \subseteq Able(r) \ {f}
<1> DEFINE Same  == accepted'[r] = accepted[r] /\ Able(r)' \subseteq Able(r)
           Costs == /\ accepted'[r] = accepted[r] + 1
                    /\ \E f \in Able(r) : Able(r)' \subseteq Able(r) \ {f}
<1> USE DEF Able, Holds, Removing, TypeOK, Goto, store, remote, host, tasks
<1>1. CASE UNCHANGED vars
  BY <1>1 DEF vars
<1>2. CASE \/ \E q \in Row : Enqueue(q) \/ BackoffElapses(q)
           \/ SwitchOnline \/ Cancel
  BY <1>2 DEF Enqueue, BackoffElapses, SwitchOnline, Cancel
<1>3. CASE Tick \/ FinalFlush \/ \E f \in Flusher : FlushOnce(f)
  <2>1. PICK f \in Flusher : BeginFlush(f)
    BY <1>3, OutboxAssumption DEF Tick, FinalFlush, FlushOnce
  <2>2. \A e \in DueRows : outbox[e.row] # "gone"
    BY DEF DueRows
  <2>3. QED
    BY <2>1, <2>2 DEF BeginFlush
<1>4. ASSUME NEW f \in Flusher, Flush(f) PROVE faults' = faults /\ (Same \/ Costs)
  <2>1. ASSUME NEW entry \in due[f], TakeRow(f, entry) PROVE faults' = faults /\ Same
    BY <2>1 DEF TakeRow
  <2>2. CASE ReadBlob(f) \/ DraftInvalid(f) \/ AppendToSent(f) \/ EndFlush(f)
    BY <2>2 DEF ReadBlob, DraftInvalid, AfterError, AppendToSent, EndFlush
  <2>3. CASE Accepted(f)
    <3>1. cur[f] \in Entry
      BY <2>3 DEF Accepted, RowInv, Sending
    <3>2. CASE cur[f].row = r
      <4>1. f \in Able(r) /\ accepted'[r] = accepted[r] + 1
        BY <2>3, <3>1, <3>2 DEF Accepted, Entry
      <4>2. Able(r)' \subseteq Able(r) \ {f}
        BY <2>3, <3>1, <3>2 DEF Accepted, Entry, QueueInv, Sending
      <4>3. QED
        BY <2>3, <4>1, <4>2 DEF Accepted
    <3>3. CASE cur[f].row # r
      BY <2>3, <3>1, <3>3 DEF Accepted, Entry
    <3>4. QED
      BY <3>2, <3>3
  <2>4. CASE MarkSent(f)
    <3>1. cur[f] \in Entry /\ \A e \in due[f] : e.row # cur[f].row
      BY <2>4 DEF MarkSent, RowInv, QueueInv, Sending
    <3>2. QED
      BY <2>4, <3>1 DEF MarkSent, Entry
  <2>5. CASE SaySent(f) \/ SayRetry(f) \/ SayFailed(f)
    BY <2>5 DEF SaySent, SayRetry, SayFailed, NextRow
  <2>6. CASE MarkRetry(f)
    BY <2>6 DEF MarkRetry, RowInv, Sending, Entry
  <2>7. QED
    BY <1>4, <2>1, <2>2, <2>3, <2>4, <2>5, <2>6 DEF Flush
<1>5. QED
  BY <1>1, <1>2, <1>3, <1>4 DEF Next, Host

(* A fault makes one delivery at most, by a task that was able to.         *)
LEMMA AbleFaults ==
    ASSUME TypeOK, RowInv, NEW r \in Row, Faults
    PROVE  /\ faults' = faults + 1
           /\ \/ accepted'[r] = accepted[r]
              \/ accepted'[r] = accepted[r] + 1 /\ Able(r) # {}
<1> USE DEF Fault, Fails, Goto, store, remote, host, tasks
<1>1. ASSUME NEW f \in Flusher,
             \/ BlobMissing(f) \/ SubmitFails(f) \/ AppendFails(f) \/ AppendHangs(f)
             \/ MarkFails(f) \/ OutboxDueFails \/ Crash
      PROVE  faults' = faults + 1 /\ accepted' = accepted
  BY <1>1 DEF BlobMissing, SubmitFails, AppendFails, AppendHangs, MarkFails,
              OutboxDueFails, Crash
<1>2. ASSUME NEW f \in Flusher, ReplyLost(f)
      PROVE  /\ faults' = faults + 1
             /\ \/ accepted'[r] = accepted[r]
                \/ accepted'[r] = accepted[r] + 1 /\ f \in Able(r)
  BY <1>2 DEF ReplyLost, TypeOK, RowInv, Sending, Entry, Able, Holds
<1>3. QED
  BY <1>1, <1>2, OutboxAssumption DEF Faults

(* One of N tasks may deliver the message without a fault, and each fault  *)
(* gives all of them another chance.                                       *)
CountInv ==
    \A r \in Row :
        accepted[r] + Cardinality(Able(r)) <= Cardinality(Flusher) * (1 + faults)

LEMMA AbleFinite ==
    ASSUME IsFiniteSet(Flusher), NEW r \in Row
    PROVE  /\ IsFiniteSet(Able(r)) /\ Cardinality(Able(r)) \in Nat
           /\ Cardinality(Able(r)) <= Cardinality(Flusher)
           /\ Cardinality(Flusher) \in Nat \ {0}
<1>1. Able(r) \subseteq Flusher
  BY DEF Able
<1>2. Cardinality(Flusher) # 0
  BY OutboxAssumption, FS_EmptySet
<1>3. QED
  BY <1>1, <1>2, FS_Subset, FS_CardinalityType

LEMMA CountInvStep ==
    ASSUME IsFiniteSet(Flusher), TypeOK, RowInv, QueueInv, CountInv, [Next]_vars
    PROVE  CountInv'
<1> SUFFICES ASSUME NEW r \in Row
    PROVE  accepted'[r] + Cardinality(Able(r)')
               <= Cardinality(Flusher) * (1 + faults')
  BY DEF CountInv
<1> DEFINE N == Cardinality(Flusher)
           K == Cardinality(Able(r))
           L == Cardinality(Able(r)')
<1>1. /\ IsFiniteSet(Able(r)) /\ K \in Nat /\ N \in Nat \ {0}
      /\ accepted[r] \in Nat /\ faults \in Nat /\ accepted[r] + K <= N * (1 + faults)
  BY AbleFinite, OutboxAssumption DEF TypeOK, CountInv
<1>2. Able(r)' \subseteq Flusher /\ IsFiniteSet(Able(r)') /\ L \in Nat /\ L <= N
  <2>1. Able(r)' \subseteq Flusher
    BY DEF Able
  <2>2. QED
    BY <2>1, FS_Subset, FS_CardinalityType
<1>3. CASE Faults
  <2>1. faults' = faults + 1 /\ accepted'[r] + L <= accepted[r] + K + N
    <3>1. CASE accepted'[r] = accepted[r]
      BY <1>1, <1>2, <1>3, <3>1, AbleFaults
    <3>2. CASE accepted'[r] = accepted[r] + 1 /\ Able(r) # {}
      <4>1. K >= 1
        BY <1>1, <3>2, FS_EmptySet
      <4>2. QED
        BY <1>1, <1>2, <1>3, <3>2, <4>1, AbleFaults
    <3>3. QED
      BY <1>3, <3>1, <3>2, AbleFaults
  <2>2. N * (1 + (faults + 1)) = N * (1 + faults) + N
    BY <1>1
  <2>3. N * (1 + faults) \in Nat /\ accepted'[r] \in Nat
    BY <1>1, <1>3, AbleFaults
  <2>4. QED
    BY <1>1, <1>2, <2>1, <2>2, <2>3
<1>4. CASE ~Faults
  <2>1. CASE accepted'[r] = accepted[r] /\ Able(r)' \subseteq Able(r)
    <3>1. L <= K
      BY <1>1, <2>1, FS_Subset
    <3>2. QED
      BY <1>1, <1>2, <1>4, <2>1, <3>1, AbleSteps
  <2>2. CASE /\ accepted'[r] = accepted[r] + 1
             /\ \E f \in Able(r) : Able(r)' \subseteq Able(r) \ {f}
    <3>1. PICK f \in Able(r) : Able(r)' \subseteq Able(r) \ {f}
      BY <2>2
    <3>2. IsFiniteSet(Able(r) \ {f}) /\ Cardinality(Able(r) \ {f}) = K - 1
      BY <1>1, FS_RemoveElement
    <3>3. L <= K - 1
      BY <3>1, <3>2, FS_Subset
    <3>4. QED
      BY <1>1, <1>2, <1>4, <2>2, <3>3, AbleSteps
  <2>3. QED
    BY <1>4, <2>1, <2>2, AbleSteps
<1>5. QED
  BY <1>3, <1>4

(* With N tasks flushing, a message is delivered at most N times plus N    *)
(* times per fault: lost reply, store error or crash (flush_once,          *)
(* try_send).  With run() alone a second delivery needs a fault.           *)
THEOREM DuplicatesNeedReasons ==
    ASSUME IsFiniteSet(Flusher) PROVE Spec => []DeliveriesBounded
<1>1. Init => CountInv
  <2> SUFFICES ASSUME Init, NEW r \in Row
      PROVE  accepted[r] + Cardinality(Able(r)) <= Cardinality(Flusher) * (1 + faults)
    BY DEF CountInv
  <2>1. accepted[r] = 0 /\ faults = 0
    BY DEF Init
  <2>2. QED
    BY <2>1, AbleFinite
<1>2. TypeOK /\ RowInv /\ QueueInv /\ [Next]_vars => QueueInv'
  BY QueueInvStep
<1>3. TypeOK /\ RowInv /\ QueueInv /\ CountInv /\ [Next]_vars => CountInv'
  BY CountInvStep
<1>4. TypeOK /\ CountInv => DeliveriesBounded
  <2> SUFFICES ASSUME TypeOK, CountInv, NEW r \in Row
      PROVE  accepted[r] <= Cardinality(Flusher) * (1 + faults)
    BY DEF DeliveriesBounded
  <2>1. accepted[r] + Cardinality(Able(r)) <= Cardinality(Flusher) * (1 + faults)
    BY DEF CountInv
  <2>2. accepted[r] \in Nat /\ Cardinality(Flusher) * (1 + faults) \in Nat
    BY AbleFinite, OutboxAssumption DEF TypeOK
  <2>3. QED
    BY <2>1, <2>2, AbleFinite
<1>5. QED
  BY <1>1, <1>2, <1>3, <1>4, QueueInvInit, TypeCorrect, PTL DEF Spec

-------------------------------------------------------------------------------
\* The Sent folder.

(* A task files a message once, right after its delivery.                  *)
LEMMA FilingSteps ==
    ASSUME TypeOK, RowInv, NEW r \in Row, [Next]_vars, ~Faults
    PROVE  /\ faults' = faults
           /\ \/ /\ accepted'[r] = accepted[r] /\ filed'[r] = filed[r]
                 /\ Filing(r)' = Filing(r)
              \/ /\ accepted'[r] = accepted[r] + 1 /\ filed'[r] = filed[r]
                 /\ \E f \in Flusher \ Filing(r) : Filing(r)' = Filing(r) \cup {f}
              \/ /\ accepted'[r] = accepted[r] /\ filed'[r] = filed[r] + 1
                 /\ \E f \in Filing(r) : Filing(r)' = Filing(r) \ {f}
<1> USE DEF Filing, TypeOK, Goto, store, remote, host, tasks
<1>1. CASE UNCHANGED vars
  BY <1>1 DEF vars
<1>2. CASE \/ \E q \in Row : Enqueue(q) \/ BackoffElapses(q)
           \/ SwitchOnline \/ Cancel
  BY <1>2 DEF Enqueue, BackoffElapses, SwitchOnline, Cancel
<1>3. CASE Tick \/ FinalFlush \/ \E f \in Flusher : FlushOnce(f)
  BY <1>3, OutboxAssumption DEF Tick, FinalFlush, FlushOnce, BeginFlush
<1>4. ASSUME NEW f \in Flusher,
             \/ \E entry \in due[f] : TakeRow(f, entry)
             \/ ReadBlob(f) \/ DraftInvalid(f) \/ MarkSent(f) \/ SaySent(f)
             \/ MarkRetry(f) \/ SayRetry(f) \/ SayFailed(f) \/ EndFlush(f)
      PROVE  UNCHANGED <<accepted, filed, faults>> /\ Filing(r)' = Filing(r)
  BY <1>4 DEF TakeRow, ReadBlob, DraftInvalid, AfterError, MarkSent, SaySent,
              MarkRetry, SayRetry, SayFailed, EndFlush, NextRow
<1>5. ASSUME NEW f \in Flusher, Accepted(f)
      PROVE  /\ UNCHANGED <<filed, faults>>
             /\ \/ accepted'[r] = accepted[r] /\ Filing(r)' = Filing(r)
                \/ /\ accepted'[r] = accepted[r] + 1
                   /\ f \notin Filing(r) /\ Filing(r)' = Filing(r) \cup {f}
  BY <1>5 DEF Accepted, RowInv, Sending, Entry
<1>6. ASSUME NEW f \in Flusher, AppendToSent(f)
      PROVE  /\ UNCHANGED <<accepted, faults>>
             /\ \/ filed'[r] = filed[r] /\ Filing(r)' = Filing(r)
                \/ /\ filed'[r] = filed[r] + 1
                   /\ f \in Filing(r) /\ Filing(r)' = Filing(r) \ {f}
  BY <1>6 DEF AppendToSent, RowInv, Sending, Entry
<1>7. QED
  BY <1>1, <1>2, <1>3, <1>4, <1>5, <1>6 DEF Next, Host, Flush

(* A fault costs the copies that were being filed, or one not begun.       *)
LEMMA FilingFaults ==
    ASSUME TypeOK, RowInv, NEW r \in Row, Faults
    PROVE  /\ faults' = faults + 1 /\ filed' = filed
           /\ \/ accepted'[r] = accepted[r] /\ Filing(r)' \subseteq Filing(r)
              \/ accepted'[r] = accepted[r] + 1 /\ Filing(r)' = Filing(r)
<1> USE OutboxAssumption DEF Filing, TypeOK, Fault, Fails, Goto, store, remote, host, tasks
<1>1. ASSUME NEW f \in Flusher,
             \/ BlobMissing(f) \/ SubmitFails(f) \/ AppendFails(f) \/ AppendHangs(f)
             \/ MarkFails(f) \/ OutboxDueFails
      PROVE  /\ faults' = faults + 1 /\ UNCHANGED <<accepted, filed>>
             /\ Filing(r)' \subseteq Filing(r)
  BY <1>1 DEF BlobMissing, SubmitFails, AfterError, AppendFails, AppendHangs,
              MarkFails, OutboxDueFails
<1>2. ASSUME NEW f \in Flusher, ReplyLost(f)
      PROVE  /\ faults' = faults + 1 /\ filed' = filed
             /\ accepted'[r] = accepted[r] \/ accepted'[r] = accepted[r] + 1
             /\ Filing(r)' = Filing(r)
  BY <1>2 DEF ReplyLost, AfterError, RowInv, Sending, Entry
<1>3. CASE Crash
  BY <1>3 DEF Crash
<1>4. QED
  BY <1>1, <1>2, <1>3 DEF Faults

(* Each delivery is filed, being filed, or has a fault to answer for it.   *)
FiledInv ==
    \A r \in Row :
        /\ filed[r] + Cardinality(Filing(r)) <= accepted[r]
        /\ accepted[r] <= filed[r] + Cardinality(Filing(r)) + Cardinality(Flusher) * faults

LEMMA FilingFinite ==
    ASSUME IsFiniteSet(Flusher), NEW r \in Row
    PROVE  /\ IsFiniteSet(Filing(r)) /\ Cardinality(Filing(r)) \in Nat
           /\ Cardinality(Filing(r)) <= Cardinality(Flusher)
<1>1. Filing(r) \subseteq Flusher
  BY DEF Filing
<1>2. QED
  BY <1>1, FS_Subset, FS_CardinalityType

LEMMA FiledInvStep ==
    ASSUME IsFiniteSet(Flusher), TypeOK, RowInv, FiledInv, [Next]_vars
    PROVE  FiledInv'
<1> SUFFICES ASSUME NEW r \in Row
    PROVE  /\ filed'[r] + Cardinality(Filing(r)') <= accepted'[r]
           /\ accepted'[r] <= filed'[r] + Cardinality(Filing(r)')
                                        + Cardinality(Flusher) * faults'
  BY DEF FiledInv
<1> DEFINE N == Cardinality(Flusher)
           K == Cardinality(Filing(r))
           L == Cardinality(Filing(r)')
<1>1. /\ IsFiniteSet(Filing(r)) /\ K \in Nat /\ K <= N /\ N \in Nat \ {0}
      /\ accepted[r] \in Nat /\ filed[r] \in Nat /\ faults \in Nat
      /\ N * faults \in Nat /\ N * (faults + 1) = N * faults + N
      /\ filed[r] + K <= accepted[r] /\ accepted[r] <= filed[r] + K + N * faults
  BY FilingFinite, AbleFinite, OutboxAssumption DEF TypeOK, FiledInv
<1>2. CASE Faults
  <2>1. Filing(r)' \subseteq Filing(r) /\ L \in Nat /\ L <= K
    <3>1. Filing(r)' \subseteq Filing(r)
      BY <1>2, FilingFaults
    <3>2. QED
      BY <1>1, <3>1, FS_Subset, FS_CardinalityType
  <2>2. QED
    BY <1>1, <1>2, <2>1, FilingFaults
<1>3. CASE ~Faults
  <2>1. CASE /\ accepted'[r] = accepted[r] /\ filed'[r] = filed[r]
             /\ Filing(r)' = Filing(r)
    BY <1>1, <1>3, <2>1, FilingSteps
  <2>2. CASE /\ accepted'[r] = accepted[r] + 1 /\ filed'[r] = filed[r]
             /\ \E f \in Flusher \ Filing(r) : Filing(r)' = Filing(r) \cup {f}
    <3>1. L = K + 1
      BY <1>1, <2>2, FS_AddElement
    <3>2. QED
      BY <1>1, <1>3, <2>2, <3>1, FilingSteps
  <2>3. CASE /\ accepted'[r] = accepted[r] /\ filed'[r] = filed[r] + 1
             /\ \E f \in Filing(r) : Filing(r)' = Filing(r) \ {f}
    <3>1. L = K - 1
      BY <1>1, <2>3, FS_RemoveElement
    <3>2. QED
      BY <1>1, <1>3, <2>3, <3>1, FilingSteps
  <2>4. QED
    BY <1>3, <2>1, <2>2, <2>3, FilingSteps
<1>4. QED
  BY <1>2, <1>3

(* The Sent folder has no copy of what was not delivered, and lacks one of *)
(* what was only while it is being filed or after a fault (try_send,       *)
(* append_to_sent), with any number of tasks.                              *)
THEOREM FiledUnlessFaultHolds ==
    ASSUME IsFiniteSet(Flusher) PROVE Spec => []FiledUnlessFault
<1>1. Init => FiledInv
  <2> SUFFICES ASSUME Init, NEW r \in Row
      PROVE  /\ filed[r] + Cardinality(Filing(r)) <= accepted[r]
             /\ accepted[r] <= filed[r] + Cardinality(Filing(r)) + Cardinality(Flusher) * faults
    BY DEF FiledInv
  <2>1. accepted[r] = 0 /\ filed[r] = 0 /\ faults = 0 /\ Filing(r) = {}
    BY DEF Init, Filing
  <2>2. QED
    BY <2>1, FS_EmptySet, AbleFinite
<1>2. TypeOK /\ RowInv /\ FiledInv /\ [Next]_vars => FiledInv'
  BY FiledInvStep
<1>3. TypeOK /\ FiledInv => FiledUnlessFault
  <2> SUFFICES ASSUME TypeOK, FiledInv, NEW r \in Row
      PROVE  /\ filed[r] <= accepted[r]
             /\ accepted[r] <= filed[r] + Cardinality(Filing(r)) + Cardinality(Flusher) * faults
    BY DEF FiledUnlessFault
  <2>1. QED
    BY FilingFinite DEF TypeOK, FiledInv
<1>4. QED
  BY <1>1, <1>2, <1>3, TypeCorrect, PTL DEF Spec

-------------------------------------------------------------------------------
\* run() alone.

(* What the flush read of the rows it still has to send is true, and stays *)
(* true of the one in hand until its fate is written down.                 *)
Unsettled == {"load", "submit", "append", "markSent", "markRetry"}
SnapshotInv ==
    /\ \A e \in due[Loop] : outbox[e.row] = "due" /\ retry[e.row] = e.retry
    /\ pc[Loop] \in Unsettled =>
           outbox[cur[Loop].row] = "due" /\ retry[cur[Loop].row] = cur[Loop].retry

LEMMA SnapshotInvInit == Init => SnapshotInv
BY OutboxAssumption DEF Init, SnapshotInv, Unsettled

LEMMA SnapshotInvStep ==
    ASSUME Flusher = {Loop}, TypeOK, RowInv, QueueInv, SnapshotInv, [Next]_vars
    PROVE  SnapshotInv'
<1> USE DEF SnapshotInv, Unsettled, TypeOK, Goto, store, remote, host, tasks
<1>1. CASE UNCHANGED vars
  BY <1>1 DEF vars
<1>2. CASE \/ \E r \in Row : Enqueue(r) \/ BackoffElapses(r)
           \/ SwitchOnline \/ Cancel
  <2>1. ASSUME NEW r \in Row, Enqueue(r) \/ BackoffElapses(r) PROVE SnapshotInv'
    <3>1. /\ outbox[r] # "due" /\ outbox' = [outbox EXCEPT ![r] = "due"]
          /\ UNCHANGED <<retry, pc, due, cur>>
      BY <2>1 DEF Enqueue, BackoffElapses
    <3>2. \A q \in Row : outbox[q] = "due" => outbox'[q] = "due"
      BY <3>1
    <3>3. QED
      BY <3>1, <3>2 DEF RowInv, Sending, Entry
  <2>2. QED
    BY <1>2, <2>1 DEF SwitchOnline, Cancel
<1>3. CASE Tick \/ FinalFlush
  <2>1. BeginFlush(Loop)
    BY <1>3 DEF Tick, FinalFlush
  <2>2. \A e \in DueRows : outbox[e.row] = "due" /\ retry[e.row] = e.retry
    BY DEF DueRows
  <2>3. QED
    BY <2>1, <2>2 DEF BeginFlush
<1>4. CASE Flush(Loop)
  <2>1. ASSUME NEW entry \in due[Loop], TakeRow(Loop, entry) PROVE SnapshotInv'
    BY <2>1 DEF TakeRow
  <2>2. CASE \/ ReadBlob(Loop) \/ DraftInvalid(Loop) \/ Accepted(Loop)
             \/ AppendToSent(Loop) \/ EndFlush(Loop)
    BY <2>2 DEF ReadBlob, DraftInvalid, AfterError, Accepted, AppendToSent, EndFlush
  <2>3. CASE MarkSent(Loop) \/ MarkRetry(Loop)
    <3>1. \A e \in due[Loop] : e.row # cur[Loop].row
      BY <2>3 DEF MarkSent, MarkRetry, QueueInv, Sending
    <3>2. QED
      BY <2>3, <3>1 DEF MarkSent, MarkRetry, RowInv, Sending, Entry
  <2>4. CASE SaySent(Loop) \/ SayRetry(Loop) \/ SayFailed(Loop)
    BY <2>4 DEF SaySent, SayRetry, SayFailed, NextRow
  <2>5. QED
    BY <1>4, <2>1, <2>2, <2>3, <2>4 DEF Flush
<1>5. CASE Faults
  <2>1. CASE \/ BlobMissing(Loop) \/ SubmitFails(Loop) \/ ReplyLost(Loop)
             \/ AppendFails(Loop) \/ AppendHangs(Loop) \/ MarkFails(Loop)
             \/ OutboxDueFails
    BY <2>1 DEF Fails, BlobMissing, SubmitFails, ReplyLost, AfterError,
                AppendFails, AppendHangs, MarkFails, OutboxDueFails
  <2>2. CASE Crash
    BY <2>2 DEF Crash
  <2>3. QED
    BY <1>5, <2>1, <2>2 DEF Faults
<1>6. QED
  BY <1>1, <1>2, <1>3, <1>4, <1>5 DEF Next, Host, FlushOnce

LEMMA AloneInvariant ==
    ASSUME Flusher = {Loop}
    PROVE  Spec => [](TypeOK /\ RowInv /\ SnapshotInv)
<1>1. TypeOK /\ RowInv /\ QueueInv /\ [Next]_vars => QueueInv'
  BY QueueInvStep
<1>2. TypeOK /\ RowInv /\ QueueInv /\ SnapshotInv /\ [Next]_vars => SnapshotInv'
  BY SnapshotInvStep
<1>3. QED
  BY <1>1, <1>2, QueueInvInit, SnapshotInvInit, TypeCorrect, PTL DEF Spec

(* When run() is the only task that flushes, a row is never submitted      *)
(* before its backoff has elapsed (outbox_due, flush_once), whatever fails.*)
THEOREM BackoffHonoredAlone ==
    ASSUME Flusher = {Loop} PROVE Spec => BackoffHonored
<1>1. SnapshotInv =>
          [\A f \in Flusher : Submits(f) => outbox[cur[f].row] # "resting"]_vars
  BY DEF SnapshotInv, Unsettled, Submits
<1>2. QED
  BY <1>1, AloneInvariant, PTL DEF BackoffHonored

(* When run() is the only task that flushes, no step sets the retry        *)
(* counter of a row back (flush_once, outbox_mark_retry).                  *)
THEOREM RetryGrowsAlone ==
    ASSUME Flusher = {Loop} PROVE Spec => RetryGrows
<1>1. TypeOK /\ RowInv /\ SnapshotInv /\ [Next]_vars =>
          [\A r \in Row : retry'[r] >= retry[r]]_vars
  <2> SUFFICES ASSUME TypeOK, RowInv, SnapshotInv, Next, NEW r \in Row
      PROVE  retry'[r] >= retry[r]
    OBVIOUS
  <2> USE DEF TypeOK, store
  <2>1. CASE MarkRetry(Loop)
    BY <2>1 DEF MarkRetry, Goto, SnapshotInv, Unsettled, RowInv, Sending, Entry
  <2>2. CASE retry' = retry
    BY <2>2
  <2>3. MarkRetry(Loop) \/ retry' = retry
    BY DEF Next, Host, Enqueue, SwitchOnline, Cancel, FlushOnce, BackoffElapses,
           Tick, FinalFlush, BeginFlush, Flush, TakeRow, ReadBlob, DraftInvalid,
           Accepted, AppendToSent, MarkSent, SaySent, SayRetry, SayFailed, EndFlush,
           Faults, Fails, BlobMissing, SubmitFails, ReplyLost, AppendFails,
           AppendHangs, MarkFails, OutboxDueFails, Crash
  <2>4. QED
    BY <2>1, <2>2, <2>3
<1>2. QED
  BY <1>1, AloneInvariant, PTL DEF Spec, RetryGrows
===============================================================================
