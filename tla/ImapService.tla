------------------------------ MODULE ImapService ------------------------------
(***************************************************************************)
(* SyncService::run and run_one_cycle (src/src/sync.rs): one account's     *)
(* loop of connecting, listing the folders, one pass over each of them,    *)
(* and then IDLE or polling, until the host cancels it.                    *)
(*                                                                         *)
(* One action per await.  A folder's pass (sync_folder) is the subject of  *)
(* ImapFolderSync; here it is the step that makes the folder up to date    *)
(* and the rest of it, whose commands swallow whatever the server pushes.  *)
(* The session's calls are SessionCalls, which ImapSession implements.     *)
(***************************************************************************)
EXTENDS Integers, FiniteSets

CONSTANTS
    Folder,        \* folders the account has or may get
    NoFolder,      \* nothing is selected
    BackoffStart,  \* 250 ms, the first reconnect delay
    BackoffCap,    \* 5 min, the longest
    BusCapacity,   \* capacity of the host's mpsc channel
    MaxFaults      \* bound on failed connects, commands and store calls

ASSUME ServiceAssumption ==
    /\ NoFolder \notin Folder
    /\ BackoffStart \in Nat \ {0} /\ BackoffCap \in Nat /\ BackoffStart <= BackoffCap
    /\ BusCapacity \in Nat \ {0}
    /\ MaxFaults \in Nat

VARIABLES
    \* the host and the server
    cancelled,  \* the CancellationToken
    bus,        \* how many events wait in the channel
    closed,     \* the host dropped the channel's receiver
    listed,     \* the folders the server has
    unseen,     \* those with mail that came after the last SELECT of them
    unsynced,   \* those with mail from before it that the store does not have
    polls,      \* should_poll: poll instead of IDLE
    rows,       \* the folders the store has a row for
    \* the engine
    pc,         \* the await it is at
    then,       \* where it goes on once the event is in the channel
    state,      \* the ConnectionState announced last
    backoff,    \* the next reconnect delay
    todo,       \* the folders left in the pass
    \* the session
    selected,   \* the folder it has selected
    pushed,     \* the server's untagged data has not been read yet
    phase, heard, left,  \* the call under way (SessionCalls)
    settled,    \* the session has been through the first pass
    \* history
    overrun,    \* folder passes and connections begun after the cancellation
    faults

host    == <<cancelled, closed>>
mail    == <<unseen, unsynced>>
calls   == <<phase, heard, left>>
session == <<selected, pushed, calls, settled>>
vars    == <<host, bus, listed, mail, polls, rows, pc, then, state, backoff, todo,
             session, overrun, faults>>

Calls     == INSTANCE SessionCalls
Connection == INSTANCE ConnectionLifecycle
    WITH connected <- phase # "closed", ended <- pc = "returned"

Steps == {"top", "send", "connect", "authenticated", "list", "tree", "pass",
          "fetch", "rest", "poll", "rows", "idleTop", "idle", "woke", "logout",
          "wait", "returned"}

(* should_poll: of the IDLE capability and the host's place on the denylist. *)
ShouldPoll(idleSupported, denied) == ~idleSupported \/ denied

Init ==
    /\ cancelled = FALSE /\ bus = 0 /\ closed = FALSE
    /\ listed \in SUBSET Folder /\ unseen = listed /\ unsynced = {}
    /\ \E idleSupported, denied \in BOOLEAN : polls = ShouldPoll(idleSupported, denied)
    /\ rows = {}
    /\ pc = "top" /\ then = "top" /\ state = "Disconnected"
    /\ backoff = BackoffStart /\ todo = {}
    /\ selected = NoFolder /\ pushed = FALSE /\ settled = FALSE
    /\ Calls!Init
    /\ overrun = 0 /\ faults = 0

-------------------------------------------------------------------------------
\* The host and the server.

engine == <<polls, rows, pc, then, state, backoff, todo, selected, calls, settled,
            overrun, faults>>

Cancel ==
    /\ ~cancelled /\ cancelled' = TRUE
    /\ UNCHANGED <<bus, closed, listed, mail, pushed, engine>>

(* The host takes an event off the channel.                                *)
Receive ==
    /\ bus > 0 /\ ~closed /\ bus' = bus - 1
    /\ UNCHANGED <<host, listed, mail, pushed, engine>>

DropReceiver ==
    /\ ~closed /\ closed' = TRUE /\ bus' = 0
    /\ UNCHANGED <<cancelled, listed, mail, pushed, engine>>

(* Mail arrives in f; only the selected folder's EXISTS is pushed.  Of     *)
(* what comes until the next SELECT of f only the first is a step.         *)
Deliver(f) ==
    /\ f \in listed \ unseen
    /\ unseen' = unseen \cup {f}
    /\ pushed' = (pushed \/ f = selected)
    /\ UNCHANGED <<host, bus, listed, unsynced, engine>>

CreateFolder(f) ==
    /\ f \notin listed /\ listed' = listed \cup {f}
    /\ unseen' = unseen \cup {f}
    /\ UNCHANGED <<host, bus, unsynced, pushed, engine>>

-------------------------------------------------------------------------------
\* Helpers of the engine's steps.

Goto(step) == pc' = step /\ UNCHANGED <<then, state>>

(* emit_state: the store first (an error is ignored), then the channel;    *)
(* then on to step.                                                        *)
EmitState(s, step) == state' = s /\ pc' = "send" /\ then' = step

(* A full channel blocks the sender; without a receiver the send fails.    *)
Sent ==
    IF closed THEN UNCHANGED bus ELSE bus < BusCapacity /\ bus' = bus + 1

CloseSession ==
    /\ selected' = NoFolder /\ pushed' = FALSE
    /\ Calls!Close /\ todo' = {}

(* run waits without saying Disconnected.                                  *)
FaultyCycleFails ==
    /\ CloseSession
    /\ Goto("wait")
    /\ UNCHANGED <<settled, backoff>>

(* run_one_cycle returns Err: run says Disconnected and waits.             *)
CycleFails ==
    /\ CloseSession
    /\ EmitState("Disconnected", "wait")
    /\ UNCHANGED <<settled, backoff>>

(* run_one_cycle returns Ok, which it does only for a cancellation.        *)
CycleEnds ==
    /\ CloseSession
    /\ Goto("top") /\ backoff' = BackoffStart
    /\ UNCHANGED settled

(* A step begun after the cancellation is counted, up to two.              *)
Begins == overrun' = IF cancelled /\ overrun < 2 THEN overrun + 1 ELSE overrun

environment == <<host, listed, mail, polls, rows>>

-------------------------------------------------------------------------------
\* run, and run_one_cycle up to the first pass.

(* The loop goes round without looking at the token.                       *)
FaultyTop ==
    /\ pc = "top"
    /\ EmitState("Connecting", "connect") /\ settled' = FALSE
    /\ UNCHANGED <<environment, bus, backoff, todo, selected, pushed, calls, overrun, faults>>

Top ==
    /\ pc = "top"
    /\ IF cancelled
       THEN Goto("returned") /\ UNCHANGED settled
       ELSE EmitState("Connecting", "connect") /\ settled' = FALSE
    /\ UNCHANGED <<environment, bus, backoff, todo, selected, pushed, calls, overrun, faults>>

(* bus.send of emit_state; its result is ignored.                          *)
Send ==
    /\ pc = "send" /\ Sent
    /\ pc' = then
    /\ UNCHANGED <<environment, then, state, backoff, todo, session, overrun, faults>>

(* connect_and_authenticate, which does not watch the token.               *)
Connect ==
    /\ pc = "connect" /\ Begins
    /\ EmitState("Authenticating", "authenticated") /\ Calls!Connect
    /\ UNCHANGED <<environment, bus, backoff, todo, selected, pushed, settled, faults>>

Authenticated ==
    /\ pc = "authenticated"
    /\ EmitState("Syncing", "list")
    /\ UNCHANGED <<environment, bus, backoff, todo, session, overrun, faults>>

(* sync_hierarchy: LIST, the upserts, and the rows read back.              *)
SyncHierarchy ==
    /\ pc = "list" /\ Goto("tree")
    /\ rows' = rows \cup listed /\ todo' = rows'
    /\ UNCHANGED <<host, listed, mail, polls, bus, backoff, session, overrun, faults>>

(* FolderTreeChanged, the one event whose send may end the cycle.          *)
FolderTreeChanged ==
    /\ pc = "tree"
    /\ IF closed
       THEN CycleFails /\ UNCHANGED bus
       ELSE Sent /\ Goto("pass") /\ UNCHANGED <<backoff, todo, session>>
    /\ UNCHANGED <<environment, overrun, faults>>

-------------------------------------------------------------------------------
\* A pass over the folders in todo; both loops and the first pass share it.

(* SELECT says how far the mailbox goes: what is there now is to be        *)
(* fetched, what comes later is not (sync_folder's info.uid_next).         *)
SeesMail(f) ==
    /\ unseen' = unseen \ {f}
    /\ unsynced' = unsynced \cup (unseen \cap {f})

(* The token is not looked at between two folders.                         *)
FaultyNextFolder(f) ==
    /\ pc = "pass" /\ f \in todo
    /\ Goto("fetch") /\ Begins /\ Calls!Execute
    /\ todo' = todo \ {f} /\ selected' = f /\ pushed' = FALSE
    /\ SeesMail(f)
    /\ UNCHANGED <<host, listed, polls, rows, bus, backoff, settled, faults>>

(* The server answers SELECT f; what it pushed before is dropped.          *)
NextFolder(f) ==
    /\ pc = "pass" /\ f \in todo /\ ~cancelled
    /\ Goto("fetch") /\ Begins /\ Calls!Execute
    /\ todo' = todo \ {f} /\ selected' = f /\ pushed' = FALSE
    /\ SeesMail(f)
    /\ UNCHANGED <<host, listed, polls, rows, bus, backoff, settled, faults>>

(* Only a session past its first pass is logged out.                       *)
PassCancelled ==
    /\ pc = "pass" /\ todo # {} /\ cancelled
    /\ IF settled
       THEN Goto("logout") /\ UNCHANGED <<backoff, todo, session>>
       ELSE CycleEnds
    /\ UNCHANGED <<environment, bus, overrun, faults>>

(* The delta: the store has what the folder had at SELECT (PassCatchesUp   *)
(* of ImapFolderSync), not what came while the pass was going on.          *)
FetchFolder ==
    /\ pc = "fetch" /\ Goto("rest") /\ left # "wedged"
    /\ unsynced' = unsynced \ {selected}
    /\ UNCHANGED <<host, listed, unseen, polls, rows, bus, backoff, todo, session, overrun, faults>>

(* Events, the flag pass, the prefetch: execute() drops what was pushed    *)
(* before its last answer.                                                 *)
RestOfFolder ==
    /\ pc = "rest" /\ Goto("pass") /\ Calls!Complete
    /\ Sent \/ UNCHANGED bus
    /\ pushed' \in {pushed, FALSE}
    /\ UNCHANGED <<environment, backoff, todo, selected, settled, overrun, faults>>

(* An IDLE that was left open holds SELECT back until it times out.        *)
HeldBack ==
    /\ pc = "fetch" /\ left # "no"
    /\ CycleFails
    /\ UNCHANGED <<environment, bus, overrun, faults>>

(* The pass is over: on to polling (the state stays Syncing) or to IDLE.   *)
PassDone ==
    /\ pc = "pass" /\ todo = {}
    /\ settled' = TRUE
    /\ IF polls THEN Goto("poll") ELSE EmitState("Idle", "idleTop")
    /\ UNCHANGED <<environment, bus, backoff, todo, selected, pushed, calls, overrun, faults>>

-------------------------------------------------------------------------------
\* Polling and IDLE.

PollCancelled ==
    /\ pc = "poll" /\ cancelled /\ Goto("logout")
    /\ UNCHANGED <<environment, bus, backoff, todo, session, overrun, faults>>

(* The timer branch of select!: a token cancelled before the wait wins,    *)
(* and one cancelled as the timer fires is as good as cancelled after it.  *)
PollElapses ==
    /\ pc = "poll" /\ ~cancelled
    /\ EmitState("Syncing", "rows")
    /\ UNCHANGED <<environment, bus, backoff, todo, session, overrun, faults>>

ListStoredFolders ==
    /\ pc = "rows" /\ Goto("pass")
    /\ todo' = rows
    /\ UNCHANGED <<environment, bus, backoff, session, overrun, faults>>

EnterIdle ==
    /\ pc = "idleTop"
    /\ IF cancelled THEN Goto("logout") /\ UNCHANGED calls
       ELSE Goto("idle") /\ Calls!Ask
    /\ UNCHANGED <<environment, bus, backoff, todo, selected, pushed, settled, overrun, faults>>

IdleAccepted ==
    /\ pc = "idle" /\ Goto("idle") /\ Calls!Accept
    /\ UNCHANGED <<environment, bus, backoff, todo, selected, pushed, settled, overrun, faults>>

(* A push wakes an accepted IDLE; before that it is only collected.        *)
HearPush ==
    /\ pc = "idle" /\ Goto("idle") /\ Calls!Hear
    /\ pushed /\ pushed' = FALSE
    /\ UNCHANGED <<environment, bus, backoff, todo, selected, settled, overrun, faults>>

IdleEnds ==
    /\ pc = "idle" /\ Goto("woke") /\ Calls!Finish
    /\ UNCHANGED <<environment, bus, backoff, todo, selected, pushed, settled, overrun, faults>>

(* An IDLE behind one that was left open need not be accepted: idle() ends *)
(* at its deadline, and with it all that the service does for the folders. *)
IdleUnanswered ==
    /\ pc = "idle" /\ Goto("woke") /\ left # "no" /\ Calls!GiveUp
    /\ UNCHANGED <<environment, bus, backoff, todo, selected, pushed, settled, overrun, faults>>

(* The deadline only ends the wait.                                        *)
FaultyIdleDeadline ==
    /\ pc = "idle" /\ phase \in {"idling", "done"}
    /\ Goto("woke") /\ phase' = "ready" /\ UNCHANGED <<heard, left>>
    /\ UNCHANGED <<environment, bus, backoff, todo, selected, pushed, settled, overrun, faults>>

(* The deadline: DONE is sent but nothing is left of the time to read the  *)
(* answer in, so idle() returns Err and the session is given up.           *)
IdleDeadline ==
    /\ pc = "idle" /\ phase \in {"idling", "done"}
    /\ CycleFails
    /\ UNCHANGED <<environment, bus, overrun, faults>>

(* Syncing is not announced.                                               *)
FaultyWoke ==
    /\ pc = "woke"
    /\ Goto(IF cancelled THEN "logout" ELSE IF heard THEN "rows" ELSE "idleTop")
    /\ UNCHANGED <<environment, bus, backoff, todo, session, overrun, faults>>

(* Every stored folder is synced again: the push does not say which one.   *)
Woke ==
    /\ pc = "woke"
    /\ IF cancelled THEN Goto("logout")
       ELSE IF heard THEN EmitState("Syncing", "rows")
       ELSE Goto("idleTop")
    /\ UNCHANGED <<environment, bus, backoff, todo, session, overrun, faults>>

(* LOGOUT, answered or not.                                                *)
Logout ==
    /\ pc = "logout"
    /\ CycleEnds
    /\ UNCHANGED <<environment, bus, overrun, faults>>

WaitCancelled ==
    /\ pc = "wait" /\ cancelled /\ Goto("returned")
    /\ UNCHANGED <<environment, bus, backoff, todo, session, overrun, faults>>

FaultyDoubled(wait) == 2 * wait

Doubled(wait) == IF 2 * wait < BackoffCap THEN 2 * wait ELSE BackoffCap

BackoffElapses ==
    /\ pc = "wait" /\ ~cancelled /\ Goto("top")
    /\ backoff' = Doubled(backoff)
    /\ UNCHANGED <<environment, bus, todo, session, overrun, faults>>

Engine ==
    \/ Top \/ Send \/ Connect \/ Authenticated \/ SyncHierarchy \/ FolderTreeChanged
    \/ (\E f \in Folder : NextFolder(f)) \/ PassCancelled
    \/ FetchFolder \/ RestOfFolder \/ HeldBack \/ PassDone
    \/ PollCancelled \/ PollElapses \/ ListStoredFolders
    \/ EnterIdle \/ IdleAccepted \/ HearPush \/ IdleEnds \/ IdleUnanswered \/ IdleDeadline
    \/ Woke \/ Logout \/ WaitCancelled \/ BackoffElapses

-------------------------------------------------------------------------------
\* Faults, each one counted.

Fault == faults < MaxFaults /\ faults' = faults + 1

(* Connecting, LIST, or a command or store call of a folder's pass or of   *)
(* IDLE fails.                                                             *)
CommandFails ==
    /\ Fault
    /\ pc \in {"connect", "list", "fetch", "rest", "idle"}
    /\ CycleFails
    /\ UNCHANGED <<environment, bus, overrun>>

(* SELECT is refused: sync_folder returns Ok, the folder as it was.        *)
SelectRefused ==
    /\ Fault /\ pc = "fetch" /\ Goto("pass") /\ Calls!Complete
    /\ selected' = NoFolder
    /\ UNCHANGED <<environment, bus, backoff, todo, pushed, settled, overrun>>

(* An upsert, list_folders or get_folder fails: rows are missing.          *)
RowsMissing ==
    /\ Fault
    /\ \/ /\ pc = "list" /\ Goto("tree")
          /\ \E S \in SUBSET listed : rows' = rows \cup S
       \/ pc = "rows" /\ Goto("pass") /\ UNCHANGED rows
    /\ todo' \in SUBSET rows'
    /\ UNCHANGED <<host, listed, mail, polls, bus, backoff, session, overrun>>

(* idle() returns Ok although DONE was never sent: not accepted in time,   *)
(* or an untagged status came.                                             *)
IdleBroken ==
    /\ Fault /\ pc = "idle" /\ Goto("woke")
    /\ Calls!GiveUp \/ Calls!BreakOff
    /\ UNCHANGED <<environment, bus, backoff, todo, selected, pushed, settled, overrun>>

Faults == CommandFails \/ SelectRefused \/ RowsMissing \/ IdleBroken

Next ==
    \/ Cancel \/ Receive \/ DropReceiver
    \/ \E f \in Folder : Deliver(f) \/ CreateFolder(f)
    \/ Engine \/ Faults

Spec == Init /\ [][Next]_vars

(* The engine is one task that is polled.  Its commands and waits have     *)
(* timers; connect_and_authenticate has none for the greeting, so it is an *)
(* assumption that the peer, once connected, greets or hangs up.  The host *)
(* reads its channel, as the crate requires of it.                         *)
Fairness == WF_vars(Engine) /\ WF_vars(Receive)

FairSpec == Spec /\ Fairness

-------------------------------------------------------------------------------
\* Properties.

(* Every variable has its type: among them, the backoff keeps to its cap   *)
(* (run) and the channel to its capacity.                                  *)
TypeOK ==
    /\ cancelled \in BOOLEAN /\ closed \in BOOLEAN /\ polls \in BOOLEAN
    /\ bus \in 0 .. BusCapacity
    /\ listed \in SUBSET Folder /\ unseen \in SUBSET listed /\ unsynced \in SUBSET listed
    /\ rows \in SUBSET listed /\ todo \in SUBSET rows
    /\ pc \in Steps /\ then \in Steps /\ state \in Connection!ConnectionState
    /\ backoff \in BackoffStart .. BackoffCap
    /\ selected \in Folder \cup {NoFolder}
    /\ pushed \in BOOLEAN /\ settled \in BOOLEAN
    /\ phase \in Calls!Phase /\ heard \in BOOLEAN /\ left \in Calls!Left
    /\ overrun \in 0 .. 2 /\ faults \in 0 .. MaxFaults

(* What is announced is what is being done (run_one_cycle): Syncing while  *)
(* folders are synced, Idle while IDLE waits, whichever loop, push, error  *)
(* or reconnect led there.                                                 *)
StateHonest ==
    /\ pc \in {"list", "tree", "pass", "fetch", "rest", "rows"} => state = "Syncing"
    /\ pc = "idle" => state = "Idle"
    /\ selected # NoFolder => state \in {"Syncing", "Idle"}

(* The token is looked at before every connection and every folder (run,   *)
(* run_one_cycle): after a cancellation at most the connection already     *)
(* announced is made, and no folder is begun, however the cycle got there. *)
CancelBounds == overrun <= 1

(* The announced states follow ConnectionLifecycle (emit_state), and with  *)
(* them the session: one at a time, and none but an announced one.         *)
ImplementsLifecycle == Connection!Spec

(* "Runs the state machine until cancellation" (run): a cancelled run      *)
(* returns, whichever loop it was in.                                      *)
CancelStops == Connection!CancelStops

(* Mail in any folder the store knows is synced in the end                 *)
(* (run_one_cycle): a pass stores what is there at its SELECT, and for     *)
(* what comes later there is another SELECT.  The pushes name the selected *)
(* folder only, and a push that a command swallowed wakes nobody, so it is *)
(* the deadline of IDLE and the poll timer that keep this.  A folder       *)
(* created, or not upserted, since the session connected waits for the     *)
(* next LIST, which a polling or a busy session never comes to; and a      *)
(* session with an IDLE left open may never sync another folder.           *)
GivenUp(f) == cancelled \/ closed \/ f \notin rows \/ left # "no"

AllFoldersCatchUp ==
    \A f \in Folder :
        /\ f \in unseen ~> f \notin unseen \/ GivenUp(f)
        /\ f \in unsynced ~> f \notin unsynced \/ GivenUp(f)

(* "Exponential backoff (250 ms doubling to 5 min; reset on success)"      *)
(* (run): after a cycle that went through its first pass, the reconnect    *)
(* delay is the first one again.                                           *)
BackoffResets == pc = "wait" /\ settled => backoff = BackoffStart
===============================================================================
