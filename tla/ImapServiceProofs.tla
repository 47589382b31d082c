-------------------------- MODULE ImapServiceProofs ---------------------------
(***************************************************************************)
(* Theorems about SyncService::run (ImapService), for any set of folders,  *)
(* any channel, any delays and any number of faults.                       *)
(***************************************************************************)
EXTENDS ImapService, TLAPS

-------------------------------------------------------------------------------
\* Type correctness.

(* The truth values and the rest of TypeOK, which the provers take apart.  *)
BooleanType ==
    /\ cancelled \in BOOLEAN /\ closed \in BOOLEAN /\ polls \in BOOLEAN
    /\ pushed \in BOOLEAN /\ settled \in BOOLEAN /\ heard \in BOOLEAN

DataType ==
    /\ bus \in 0 .. BusCapacity
    /\ listed \in SUBSET Folder /\ unseen \in SUBSET listed /\ unsynced \in SUBSET listed
    /\ rows \in SUBSET listed /\ todo \in SUBSET rows
    /\ pc \in Steps /\ then \in Steps /\ state \in Connection!ConnectionState
    /\ backoff \in BackoffStart .. BackoffCap
    /\ selected \in Folder \cup {NoFolder}
    /\ phase \in Calls!Phase /\ left \in Calls!Left
    /\ overrun \in 0 .. 2 /\ faults \in 0 .. MaxFaults

LEMMA TypeParts ==
    /\ TypeOK <=> BooleanType /\ DataType
    /\ TypeOK' <=> BooleanType' /\ DataType'
BY Zenon DEF TypeOK, BooleanType, DataType

LEMMA InitType == Init => TypeOK
<1> SUFFICES ASSUME Init PROVE BooleanType /\ DataType
  BY TypeParts
<1>1. BooleanType
  <2>1. polls \in BOOLEAN
    BY Zenon DEF Init, ShouldPoll
  <2>2. QED
    BY <2>1, Zenon DEF Init, BooleanType, Calls!Init
<1>2. DataType
  BY ServiceAssumption
     DEF Init, DataType, Steps, Calls!Init, Calls!Phase, Calls!Left,
         Connection!ConnectionState
<1>3. QED
  BY <1>1, <1>2

LEMMA EnvironmentType ==
    ASSUME TypeOK,
           \/ Cancel \/ Receive \/ DropReceiver
           \/ \E f \in Folder : Deliver(f) \/ CreateFolder(f)
    PROVE  TypeOK'
<1> USE TypeParts DEF host, calls, engine, mail
<1>1. BooleanType'
  BY Zenon DEF BooleanType, Cancel, Receive, DropReceiver, Deliver, CreateFolder
<1>2. DataType'
  <2> USE ServiceAssumption DEF DataType
  <2>1. CASE Cancel
    BY <2>1 DEF Cancel
  <2>2. CASE Receive \/ DropReceiver
    BY <2>2 DEF Receive, DropReceiver
  <2>3. ASSUME NEW f \in Folder, Deliver(f) \/ CreateFolder(f) PROVE DataType'
    BY <2>3 DEF Deliver, CreateFolder
  <2>4. QED
    BY <2>1, <2>2, <2>3
<1>3. QED
  BY <1>1, <1>2

(* The calls of the session keep its types.                                *)
LEMMA CallsType ==
    ASSUME TypeOK, Calls!Next
    PROVE  phase' \in Calls!Phase /\ heard' \in BOOLEAN /\ left' \in Calls!Left
<1> USE TypeParts DEF Calls!Next, Calls!Goto, Calls!Connect, Calls!Close, Calls!Execute,
    Calls!Complete, Calls!TimeOut, Calls!Ask, Calls!Accept, Calls!AcceptLate,
    Calls!Hear, Calls!Expire, Calls!Finish, Calls!GiveUp, Calls!BreakOff
<1>1. phase' \in Calls!Phase /\ left' \in Calls!Left
  BY DEF DataType, Calls!Phase, Calls!Left
<1>2. heard' \in BOOLEAN
  BY Zenon DEF BooleanType
<1>3. QED
  BY <1>1, <1>2

LEMMA SendType ==
    ASSUME TypeOK, Sent \/ UNCHANGED bus PROVE bus' \in 0 .. BusCapacity
BY ServiceAssumption DEF TypeOK, Sent

LEMMA EngineBooleans ==
    ASSUME TypeOK, Engine \/ Faults PROVE BooleanType'
<1> USE TypeParts
    DEF BooleanType, host, calls, session, environment, mail, Goto, EmitState, CloseSession,
        CycleFails, CycleEnds, Calls!Close
<1>1. CASE Top \/ Send \/ Authenticated \/ SyncHierarchy \/ FolderTreeChanged
  BY <1>1, Zenon DEF Top, Send, Authenticated, SyncHierarchy, FolderTreeChanged
<1>2. CASE PassCancelled \/ FetchFolder \/ HeldBack \/ PassDone \/ PollCancelled \/ PollElapses
  BY <1>2, Zenon DEF PassCancelled, FetchFolder, HeldBack, PassDone, PollCancelled, PollElapses
<1>3. CASE \/ ListStoredFolders \/ IdleDeadline \/ Woke \/ Logout \/ WaitCancelled
           \/ BackoffElapses \/ CommandFails \/ RowsMissing
  BY <1>3, Zenon DEF ListStoredFolders, IdleDeadline, Woke, Logout, WaitCancelled,
     BackoffElapses, CommandFails, RowsMissing
<1>4. ASSUME \/ Connect \/ (\E f \in Folder : NextFolder(f)) \/ RestOfFolder \/ EnterIdle
             \/ IdleAccepted \/ HearPush \/ IdleEnds \/ IdleUnanswered
             \/ SelectRefused \/ IdleBroken
      PROVE  BooleanType'
  <2>1. heard' \in BOOLEAN
    <3>1. Calls!Next \/ heard' = heard
      BY <1>4, Zenon DEF Connect, NextFolder, RestOfFolder, EnterIdle, IdleAccepted,
         HearPush, IdleEnds, IdleUnanswered, SelectRefused, IdleBroken, Calls!Next
    <3>2. QED
      BY <3>1, CallsType, Zenon
  <2>2. /\ UNCHANGED <<cancelled, closed, polls, settled>>
        /\ pushed' = pushed \/ pushed' = FALSE
    BY <1>4, Zenon DEF Connect, NextFolder, RestOfFolder, EnterIdle, IdleAccepted,
       HearPush, IdleEnds, IdleUnanswered, SelectRefused, IdleBroken
  <2>3. QED
    BY <2>1, <2>2, Zenon
<1>5. QED
  BY <1>1, <1>2, <1>3, <1>4 DEF Engine, Faults

LEMMA EngineData ==
    ASSUME TypeOK, Engine PROVE DataType'
<1> USE ServiceAssumption, TypeParts
    DEF DataType, host, calls, session, environment, mail, Goto, EmitState, Steps,
        CloseSession, CycleFails, CycleEnds, Calls!Close, Calls!Phase, Calls!Left,
        Connection!ConnectionState
<1>1. CASE \/ Top \/ Authenticated \/ PollCancelled \/ PollElapses \/ ListStoredFolders
           \/ Woke \/ WaitCancelled
  BY <1>1 DEF Top, Authenticated, PollCancelled, PollElapses, ListStoredFolders, Woke,
              WaitCancelled
<1>2. CASE Send
  BY <1>2, SendType DEF Send
<1>3. CASE Connect
  BY <1>3 DEF Connect, Begins, Calls!Connect, Calls!Goto
<1>4. CASE SyncHierarchy
  BY <1>4 DEF SyncHierarchy
<1>5. CASE FolderTreeChanged
  BY <1>5, SendType DEF FolderTreeChanged
<1>6. ASSUME NEW f \in Folder, NextFolder(f) PROVE DataType'
  BY <1>6 DEF NextFolder, SeesMail, Begins, Calls!Execute, Calls!Goto
<1>7. CASE PassCancelled
  BY <1>7 DEF PassCancelled
<1>8. CASE FetchFolder
  BY <1>8 DEF FetchFolder
<1>9. CASE RestOfFolder
  BY <1>9, SendType DEF RestOfFolder, Calls!Complete, Calls!Goto
<1>10. CASE HeldBack \/ IdleDeadline \/ Logout
  BY <1>10 DEF HeldBack, IdleDeadline, Logout
<1>11. CASE PassDone
  BY <1>11 DEF PassDone
<1>12. CASE EnterIdle
  BY <1>12 DEF EnterIdle, Calls!Ask, Calls!Goto
<1>13. CASE IdleAccepted \/ HearPush \/ IdleEnds \/ IdleUnanswered
  BY <1>13 DEF IdleAccepted, HearPush, IdleEnds, IdleUnanswered, Calls!Accept, Calls!Hear,
     Calls!Finish, Calls!GiveUp, Calls!Goto
<1>14. CASE BackoffElapses
  BY <1>14 DEF BackoffElapses, Doubled
<1>15. QED
  BY <1>1, <1>2, <1>3, <1>4, <1>5, <1>6, <1>7, <1>8, <1>9, <1>10, <1>11, <1>12,
     <1>13, <1>14 DEF Engine

LEMMA FaultsData ==
    ASSUME TypeOK, Faults PROVE DataType'
<1> USE ServiceAssumption, TypeParts
    DEF DataType, host, calls, session, environment, mail, Goto, EmitState, Steps, Fault,
        Calls!Phase, Calls!Left, Calls!Goto, Connection!ConnectionState
<1>1. CASE CommandFails
  BY <1>1 DEF CommandFails, CycleFails, CloseSession, Calls!Close
<1>2. CASE SelectRefused
  BY <1>2 DEF SelectRefused, Calls!Complete
<1>3. CASE RowsMissing
  BY <1>3 DEF RowsMissing
<1>4. CASE IdleBroken
  BY <1>4 DEF IdleBroken, Calls!GiveUp, Calls!BreakOff
<1>5. QED
  BY <1>1, <1>2, <1>3, <1>4 DEF Faults

(* Every reachable state of the service is well typed: the delay keeps to  *)
(* its cap (run), and the channel to its capacity (emit_state).            *)
THEOREM TypeCorrect == Spec => []TypeOK
<1>1. TypeOK /\ UNCHANGED vars => TypeOK'
  BY DEF TypeOK, vars, host, mail, session, calls
<1>2. TypeOK /\ [Next]_vars => TypeOK'
  BY <1>1, TypeParts, EnvironmentType, EngineBooleans, EngineData, FaultsData DEF Next
<1>3. QED
  BY <1>2, InitType, PTL DEF Spec

-------------------------------------------------------------------------------
\* Where the loop is, and what it has said.

(* The step the loop is at, or comes to once its event is in the channel.  *)
At == IF pc = "send" THEN then ELSE pc

Announcing == {"connect", "authenticated", "list", "wait", "idleTop", "rows"}

(* The announced state by step.  At the top and at the end it is what it   *)
(* was when the cycle was cancelled, so that only a service that goes on   *)
(* is known to have said Disconnected.                                     *)
StateInv ==
    /\ pc = "send" => then \in Announcing
    /\ At = "connect" => state = "Connecting"
    /\ At = "authenticated" => state = "Authenticating"
    /\ At \in {"list", "tree", "pass", "fetch", "rest", "poll", "rows"} =>
           state = "Syncing"
    /\ At \in {"idleTop", "idle", "woke"} => state = "Idle"
    /\ At = "wait" \/ (At = "top" /\ ~cancelled) => state = "Disconnected"
    /\ At = "logout" => cancelled /\ state \in {"Syncing", "Idle"}

(* The call of the session by step.                                        *)
SessionInv ==
    /\ At \in {"top", "connect", "wait", "returned"} => phase = "closed"
    /\ At \in {"authenticated", "list", "tree", "pass", "poll", "rows", "idleTop",
               "woke", "logout"} => phase = "ready"
    /\ At \in {"fetch", "rest"} => phase = "busy"
    /\ At = "idle" => phase \in {"asked", "idling", "done"}
    /\ selected # NoFolder =>
           At \notin {"top", "connect", "authenticated", "wait", "returned"}

(* A connection is begun at most once after the cancellation, and no folder. *)
BeginInv ==
    /\ ~cancelled \/ At = "connect" => overrun = 0
    /\ CancelBounds

LoopInv == StateInv /\ SessionInv /\ BeginInv

LEMMA LoopInvInit == Init => LoopInv
BY DEF Init, LoopInv, StateInv, SessionInv, BeginInv, CancelBounds, At, Announcing, Calls!Init

LEMMA LoopInvEnvironment ==
    ASSUME LoopInv,
           \/ Cancel \/ Receive \/ DropReceiver
           \/ \E f \in Folder : Deliver(f) \/ CreateFolder(f)
    PROVE  LoopInv'
<1>1. /\ UNCHANGED <<pc, then, state, phase, selected, overrun>>
      /\ cancelled' = cancelled \/ cancelled'
  BY DEF Cancel, Receive, DropReceiver, Deliver, CreateFolder, engine, host, calls
<1>2. QED
  BY <1>1, Zenon
     DEF LoopInv, StateInv, SessionInv, BeginInv, CancelBounds, At, Announcing

(* The cycle is over, with or without an error.                            *)
LEMMA CycleOver ==
    ASSUME TypeOK, LoopInv, pc # "connect" \/ CycleFails,
           CycleFails \/ (cancelled /\ CycleEnds),
           UNCHANGED <<cancelled, overrun>>
    PROVE  LoopInv'
BY DEF CycleFails, CycleEnds, CloseSession, EmitState, Goto, LoopInv, StateInv, SessionInv,
       BeginInv, CancelBounds, At, Announcing, Calls!Close, TypeOK

LEMMA LoopInvEngine ==
    ASSUME TypeOK, LoopInv, Engine PROVE LoopInv'
<1> USE DEF LoopInv, StateInv, SessionInv, BeginInv, CancelBounds, At, Announcing,
            host, calls, session, environment, mail, Goto, EmitState
<1>1. CASE Top \/ Send \/ Authenticated
  BY <1>1 DEF Top, Send, Authenticated
<1>2. CASE Connect
  BY <1>2 DEF Connect, Begins, Calls!Connect, Calls!Goto, TypeOK
<1>3. CASE SyncHierarchy \/ ListStoredFolders \/ FetchFolder
  BY <1>3 DEF SyncHierarchy, ListStoredFolders, FetchFolder
<1>4. CASE FolderTreeChanged
  <2>1. CASE closed
    BY <1>4, <2>1, CycleOver DEF FolderTreeChanged
  <2>2. CASE ~closed
    BY <1>4, <2>2 DEF FolderTreeChanged
  <2>3. QED
    BY <2>1, <2>2
<1>5. ASSUME NEW f \in Folder, NextFolder(f) PROVE LoopInv'
  BY <1>5, ServiceAssumption DEF NextFolder, Begins, Calls!Execute, Calls!Goto
<1>6. CASE PassCancelled
  <2>1. CASE settled
    BY <1>6, <2>1 DEF PassCancelled
  <2>2. CASE ~settled
    BY <1>6, <2>2, CycleOver DEF PassCancelled
  <2>3. QED
    BY <2>1, <2>2
<1>7. CASE RestOfFolder
  BY <1>7 DEF RestOfFolder, Calls!Complete, Calls!Goto
<1>8. CASE HeldBack \/ IdleDeadline
  BY <1>8, CycleOver DEF HeldBack, IdleDeadline
<1>9. CASE PassDone \/ PollCancelled \/ PollElapses \/ Woke
  BY <1>9 DEF PassDone, PollCancelled, PollElapses, Woke
<1>10. CASE EnterIdle
  BY <1>10 DEF EnterIdle, Calls!Ask, Calls!Goto
<1>11. CASE IdleAccepted \/ HearPush
  BY <1>11 DEF IdleAccepted, HearPush, Calls!Accept, Calls!Hear, Calls!Goto
<1>12. CASE IdleEnds \/ IdleUnanswered
  BY <1>12 DEF IdleEnds, IdleUnanswered, Calls!Finish, Calls!GiveUp, Calls!Goto
<1>13. CASE Logout
  BY <1>13, CycleOver DEF Logout
<1>14. CASE WaitCancelled \/ BackoffElapses
  BY <1>14 DEF WaitCancelled, BackoffElapses
<1>15. QED
  BY <1>1, <1>2, <1>3, <1>4, <1>5, <1>6, <1>7, <1>8, <1>9, <1>10, <1>11, <1>12,
     <1>13, <1>14 DEF Engine

LEMMA LoopInvFaults ==
    ASSUME TypeOK, LoopInv, Faults PROVE LoopInv'
<1> USE DEF LoopInv, StateInv, SessionInv, BeginInv, CancelBounds, At, Announcing,
            host, calls, session, environment, mail, Goto, EmitState
<1>1. CASE CommandFails
  BY <1>1, CycleOver DEF CommandFails
<1>2. CASE SelectRefused
  BY <1>2 DEF SelectRefused, Calls!Complete, Calls!Goto
<1>3. CASE RowsMissing
  BY <1>3 DEF RowsMissing
<1>4. CASE IdleBroken
  BY <1>4 DEF IdleBroken, Calls!GiveUp, Calls!BreakOff, Calls!Goto
<1>5. QED
  BY <1>1, <1>2, <1>3, <1>4 DEF Faults

LEMMA LoopInvariant == Spec => [](TypeOK /\ LoopInv)
<1>1. LoopInv /\ UNCHANGED vars => LoopInv'
  BY DEF LoopInv, StateInv, SessionInv, BeginInv, CancelBounds, At, vars, host, session, calls
<1>2. TypeOK /\ LoopInv /\ [Next]_vars => LoopInv'
  BY <1>1, LoopInvEnvironment, LoopInvEngine, LoopInvFaults DEF Next
<1>3. QED
  BY <1>2, LoopInvInit, TypeCorrect, PTL DEF Spec

(* What the host is told is what the loop does: Syncing while folders are  *)
(* synced, Idle while IDLE waits, and no folder selected otherwise         *)
(* (run_one_cycle, emit_state).                                            *)
THEOREM StateHonestHolds == Spec => []StateHonest
<1>1. TypeOK /\ LoopInv => StateHonest
  <2> SUFFICES ASSUME TypeOK, LoopInv PROVE StateHonest
    OBVIOUS
  <2> USE DEF LoopInv, StateInv, SessionInv, At, Announcing
  <2>1. pc \in {"list", "tree", "pass", "fetch", "rest", "rows"} => state = "Syncing"
    OBVIOUS
  <2>2. pc = "idle" => state = "Idle"
    OBVIOUS
  <2>3. selected # NoFolder => state \in {"Syncing", "Idle"}
    BY DEF TypeOK, Steps
  <2>4. QED
    BY <2>1, <2>2, <2>3 DEF StateHonest
<1>2. QED
  BY <1>1, LoopInvariant, PTL

(* After a cancellation at most the connection already announced is made,  *)
(* and no folder's pass is begun (run, run_one_cycle).                     *)
THEOREM CancelBoundsHolds == Spec => []CancelBounds
<1>1. LoopInv => CancelBounds
  BY DEF LoopInv, BeginInv
<1>2. QED
  BY <1>1, LoopInvariant, PTL

-------------------------------------------------------------------------------
\* The lifecycle.

LEMMA LifecycleInit == Init => Connection!Init
<1> SUFFICES ASSUME Init PROVE Connection!Init
  OBVIOUS
<1>1. state = "Disconnected" /\ cancelled = FALSE /\ phase = "closed" /\ pc = "top"
  BY DEF Init, Calls!Init
<1>2. QED
  BY <1>1 DEF Connection!Init

(* A step that says nothing new, keeps or lacks a connection as before, and
   does not return.                                                        *)
LEMMA Stutters ==
    ASSUME UNCHANGED <<state, cancelled>>, phase' = "closed" <=> phase = "closed",
           pc' = "returned" <=> pc = "returned"
    PROVE  UNCHANGED Connection!vars
BY DEF Connection!vars

LEMMA Loses ==
    ASSUME TypeOK, LoopInv, CycleFails, UNCHANGED cancelled,
           pc \in {"connect", "list", "tree", "fetch", "rest", "idle"}
    PROVE  Connection!Lose
<1>1. /\ state \in {"Connecting", "Authenticating", "Syncing", "Idle"}
      /\ state' = "Disconnected" /\ cancelled' = cancelled
      /\ phase' = "closed" /\ pc' = "send" /\ pc # "returned"
  BY DEF CycleFails, CloseSession, Calls!Close, EmitState, LoopInv, StateInv, At
<1>2. QED
  BY <1>1 DEF Connection!Lose

LEMMA Closes ==
    ASSUME LoopInv, CycleEnds, cancelled, UNCHANGED cancelled, pc \in {"pass", "logout"}
    PROVE  Connection!Close
<1>1. /\ state' = state /\ cancelled' = cancelled
      /\ phase # "closed" /\ phase' = "closed" /\ pc' = "top" /\ pc # "returned"
  BY DEF CycleEnds, CloseSession, Calls!Close, Goto, LoopInv, SessionInv, At
<1>2. QED
  BY <1>1 DEF Connection!Close

LEMMA LifecycleStep ==
    ASSUME TypeOK, LoopInv, [Next]_vars
    PROVE  [Connection!Next]_Connection!vars
<1> USE DEF host, calls, session, environment, mail, Goto, EmitState, At
<1>1. CASE UNCHANGED vars
  BY <1>1, Stutters DEF vars
<1>2. CASE Cancel
  <2>1. ~cancelled /\ cancelled' = TRUE /\ UNCHANGED <<state, phase, pc>>
    BY <1>2 DEF Cancel, engine
  <2>2. QED
    BY <2>1 DEF Connection!Cancel, Connection!Next
<1>3. CASE Receive \/ DropReceiver \/ \E f \in Folder : Deliver(f) \/ CreateFolder(f)
  BY <1>3, Stutters DEF Receive, DropReceiver, Deliver, CreateFolder, engine
<1>4. CASE Top
  <2>1. pc = "top" /\ phase = "closed" /\ phase' = "closed" /\ cancelled' = cancelled
    BY <1>4 DEF Top, LoopInv, SessionInv
  <2>2. CASE cancelled
    <3>1. pc' = "returned" /\ state' = state
      BY <1>4, <2>2 DEF Top
    <3>2. QED
      BY <2>1, <2>2, <3>1 DEF Connection!End, Connection!Next
  <2>3. CASE ~cancelled
    <3>1. state = "Disconnected" /\ state' = "Connecting" /\ pc' = "send"
      BY <1>4, <2>1, <2>3 DEF Top, LoopInv, StateInv
    <3>2. QED
      BY <2>1, <2>3, <3>1 DEF Connection!Announce, Connection!Next
  <2>4. QED
    BY <2>2, <2>3
<1>5. CASE Send
  BY <1>5, Stutters DEF Send, LoopInv, StateInv, Announcing
<1>6. CASE Connect
  <2>1. /\ state = "Connecting" /\ state' = "Authenticating" /\ cancelled' = cancelled
        /\ phase' = "ready" /\ pc = "connect" /\ pc' = "send"
    BY <1>6 DEF Connect, Calls!Connect, Calls!Goto, LoopInv, StateInv
  <2>2. QED
    BY <2>1 DEF Connection!Open, Connection!Next
<1>7. CASE Authenticated
  <2>1. /\ state = "Authenticating" /\ state' = "Syncing" /\ cancelled' = cancelled
        /\ phase = "ready" /\ phase' = "ready" /\ pc = "authenticated" /\ pc' = "send"
    BY <1>7 DEF Authenticated, LoopInv, StateInv, SessionInv
  <2>2. QED
    BY <2>1 DEF Connection!Sync, Connection!Next
<1>8. CASE \/ SyncHierarchy \/ FetchFolder \/ PollCancelled \/ ListStoredFolders
           \/ BackoffElapses \/ RowsMissing
  BY <1>8, Stutters DEF SyncHierarchy, FetchFolder, PollCancelled, ListStoredFolders,
     BackoffElapses, RowsMissing
<1>9. CASE FolderTreeChanged
  <2>1. CASE closed
    BY <1>9, <2>1, Loses DEF FolderTreeChanged, Connection!Next
  <2>2. CASE ~closed
    BY <1>9, <2>2, Stutters DEF FolderTreeChanged
  <2>3. QED
    BY <2>1, <2>2
<1>10. CASE (\E f \in Folder : NextFolder(f)) \/ RestOfFolder \/ SelectRefused
  <2>1. /\ UNCHANGED <<state, cancelled>> /\ phase # "closed" /\ phase' # "closed"
        /\ pc # "returned" /\ pc' # "returned"
    BY <1>10 DEF NextFolder, RestOfFolder, SelectRefused, Calls!Execute, Calls!Complete,
       Calls!Goto
  <2>2. QED
    BY <2>1, Stutters
<1>11. CASE PassCancelled
  <2>1. CASE settled
    BY <1>11, <2>1, Stutters DEF PassCancelled
  <2>2. CASE ~settled
    BY <1>11, <2>2, Closes DEF PassCancelled, Connection!Next
  <2>3. QED
    BY <2>1, <2>2
<1>12. CASE HeldBack \/ IdleDeadline \/ CommandFails
  BY <1>12, Loses DEF HeldBack, IdleDeadline, CommandFails, Connection!Next
<1>13. CASE PassDone
  <2>1. /\ state = "Syncing" /\ phase = "ready" /\ phase' = "ready" /\ pc = "pass"
        /\ cancelled' = cancelled
    BY <1>13 DEF PassDone, LoopInv, StateInv, SessionInv
  <2>2. CASE polls
    BY <1>13, <2>1, <2>2, Stutters DEF PassDone
  <2>3. CASE ~polls
    <3>1. state' = "Idle" /\ pc' = "send"
      BY <1>13, <2>3 DEF PassDone
    <3>2. QED
      BY <2>1, <3>1 DEF Connection!Rest, Connection!Next
  <2>4. QED
    BY <2>2, <2>3
<1>14. CASE PollElapses
  BY <1>14, Stutters DEF PollElapses, LoopInv, StateInv
<1>15. CASE EnterIdle
  <2>1. /\ UNCHANGED <<state, cancelled>> /\ phase = "ready"
        /\ phase' \in {"ready", "asked"} /\ pc = "idleTop" /\ pc' \in {"idle", "logout"}
    BY <1>15 DEF EnterIdle, Calls!Ask, Calls!Goto, LoopInv, SessionInv
  <2>2. QED
    BY <2>1, Stutters
<1>16. CASE IdleAccepted \/ HearPush \/ IdleEnds \/ IdleUnanswered \/ IdleBroken
  <2>1. /\ UNCHANGED <<state, cancelled>> /\ phase # "closed" /\ phase' # "closed"
        /\ pc = "idle" /\ pc' \in {"idle", "woke"}
    BY <1>16 DEF IdleAccepted, HearPush, IdleEnds, IdleUnanswered, IdleBroken,
       Calls!Accept, Calls!Hear, Calls!Finish, Calls!GiveUp, Calls!BreakOff, Calls!Goto
  <2>2. QED
    BY <2>1, Stutters
<1>17. CASE Woke
  <2>1. /\ pc = "woke" /\ state = "Idle" /\ phase = "ready" /\ phase' = "ready"
        /\ cancelled' = cancelled
    BY <1>17 DEF Woke, LoopInv, StateInv, SessionInv
  <2>2. CASE ~cancelled /\ heard
    <3>1. state' = "Syncing" /\ pc' = "send"
      BY <1>17, <2>2 DEF Woke
    <3>2. QED
      BY <2>1, <3>1 DEF Connection!Sync, Connection!Next
  <2>3. CASE cancelled \/ ~heard
    BY <1>17, <2>1, <2>3, Stutters DEF Woke
  <2>4. QED
    BY <2>2, <2>3
<1>18. CASE Logout
  BY <1>18, Closes DEF Logout, LoopInv, StateInv, Connection!Next
<1>19. CASE WaitCancelled
  <2>1. /\ cancelled /\ cancelled' = cancelled /\ state' = state
        /\ phase = "closed" /\ phase' = "closed" /\ pc = "wait" /\ pc' = "returned"
    BY <1>19 DEF WaitCancelled, LoopInv, SessionInv
  <2>2. QED
    BY <2>1 DEF Connection!End, Connection!Next
<1>20. QED
  BY <1>1, <1>2, <1>3, <1>4, <1>5, <1>6, <1>7, <1>8, <1>9, <1>10, <1>11, <1>12, <1>13,
     <1>14, <1>15, <1>16, <1>17, <1>18, <1>19 DEF Next, Engine, Faults

(* What the service announces follows ConnectionLifecycle (emit_state),    *)
(* whatever fails and whenever it is cancelled.                            *)
THEOREM ServiceImplementsLifecycle == Spec => ImplementsLifecycle
<1>1. TypeOK /\ LoopInv /\ [Next]_vars => [Connection!Next]_Connection!vars
  BY LifecycleStep
<1>2. QED
  BY <1>1, LifecycleInit, LoopInvariant, PTL DEF Spec, ImplementsLifecycle, Connection!Spec
===============================================================================
