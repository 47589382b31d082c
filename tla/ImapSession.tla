------------------------------ MODULE ImapSession ------------------------------
(***************************************************************************)
(* ImapSession (src/src/session.rs): one connection, from the TCP connect  *)
(* and the greeting over authentication to the commands and IDLEs of its   *)
(* owner, the sync service.                                                *)
(*                                                                         *)
(* The session pumps the imap-next client, which is external and modelled  *)
(* from how session.rs uses it: it sends a command as soon as it is        *)
(* enqueued, unless an IDLE is open; that one holds the later commands     *)
(* back until DONE.  External too are the server, which answers in order   *)
(* and pushes data at any time, and the network, a FIFO either way.        *)
(***************************************************************************)
EXTENDS Integers, Sequences, FiniteSets

CONSTANTS
    Securities,  \* the Security modes to connect with
    MaxTag,      \* bound on the commands of a session
    MaxPushes,   \* bound on the untagged data the server sends of its own
    MaxStrays    \* bound on untagged statuses ("* OK Still here")

ASSUME SessionAssumption ==
    /\ Securities \subseteq {"Tls", "StartTls", "Insecure"}
    /\ MaxTag \in Nat \ {0} /\ MaxPushes \in Nat /\ MaxStrays \in Nat

VARIABLES
    \* the session
    security,   \* ConnectParams.security
    offered,    \* a preferred SASL mechanism has been advertised
    pc,         \* the operation under way
    job,        \* what it executes
    tag,        \* tag_counter: the last tag used
    data,       \* execute: the commands whose data it collected
    accepted,   \* idle: the server took the IDLE
    doneSent,   \* idle: DONE is sent
    heard,      \* idle: it collected something (unsolicited is not empty);
                \* after it, what it returned
    \* the client
    queued,     \* commands held back
    open,       \* the IDLE or AUTHENTICATE it has open, 0 for none
    taken,      \* the open IDLE is accepted
    \* the network and the server
    sent,       \* to the server
    wire,       \* from the server
    serving,    \* the IDLE the server is in, 0 for none
    greeted, pushes, strays,
    \* history
    answered,   \* tags whose status the server has sent
    outcome,    \* the command execute last returned Ok for, and its data
    owed,       \* pushes sent during the IDLE and not yet returned
    abandoned   \* operations returned while the server still owed their status:
                \* "late" ones, and IDLEs left "open" without DONE

driver == <<security, offered, pc, job, tag, data, accepted, doneSent, heard>>
client == <<queued, open, taken>>
server == <<serving, greeted, pushes, strays, answered>>
vars   == <<driver, client, sent, wire, server, outcome, owed, abandoned>>

-------------------------------------------------------------------------------
\* Values.

Kind    == {"STARTTLS", "LOGIN", "CAPABILITY", "AUTHENTICATE", "IDLE", "command"}
Command == [tag: 1 .. MaxTag, kind: Kind \cup {"DONE", "answer"}]
Steps   == {"tcp", "tls", "greeting", "upgrade", "regreet", "authenticate",
            "auth", "refresh", "ready", "execute", "idle", "closed"}

Reply(type, t, ok) == [type |-> type, tag |-> t, ok |-> ok]
NoOutcome          == [tag |-> 0, data |-> {}]

(* The server's answer to a command the client sends.                      *)
Status(t, ok) == Reply("status", t, ok)

Init ==
    /\ security \in Securities /\ offered = FALSE
    /\ pc = "tcp" /\ job = "command" /\ tag = 0
    /\ data = {} /\ accepted = FALSE /\ doneSent = FALSE /\ heard = FALSE
    /\ queued = <<>> /\ open = 0 /\ taken = FALSE
    /\ sent = <<>> /\ wire = <<>>
    /\ serving = 0 /\ greeted = FALSE /\ pushes = 0 /\ strays = 0 /\ answered = {}
    /\ outcome = NoOutcome /\ owed = 0 /\ abandoned = {}

-------------------------------------------------------------------------------
\* The server.

others == <<driver, client, outcome, abandoned>>

Answer(rest, replies) == sent' = rest /\ wire' = wire \o replies

(* The data of a plain command, and its status, or the status alone.       *)
ServeCommand(ok) ==
    /\ sent # <<>> /\ serving = 0
    /\ Head(sent).kind \in {"STARTTLS", "LOGIN", "CAPABILITY", "command"}
    /\ LET t == Head(sent).tag
       IN  /\ Answer(Tail(sent), IF ok THEN <<Reply("data", t, TRUE), Status(t, TRUE)>>
                                 ELSE <<Status(t, FALSE)>>)
           /\ answered' = answered \cup {t}
    /\ UNCHANGED <<others, serving, greeted, pushes, strays, owed>>

(* AUTHENTICATE is answered by a challenge or a status, the client's       *)
(* answer to the challenge by a status.                                    *)
Challenge ==
    /\ sent # <<>> /\ Head(sent).kind = "AUTHENTICATE"
    /\ Answer(Tail(sent), <<Reply("plus", Head(sent).tag, TRUE)>>)
    /\ UNCHANGED <<others, server, owed>>

Decide(ok) ==
    /\ sent # <<>> /\ Head(sent).kind \in {"AUTHENTICATE", "answer"}
    /\ Answer(Tail(sent), <<Status(Head(sent).tag, ok)>>)
    /\ answered' = answered \cup {Head(sent).tag}
    /\ UNCHANGED <<others, serving, greeted, pushes, strays, owed>>

TakeIdle ==
    /\ sent # <<>> /\ serving = 0 /\ Head(sent).kind = "IDLE"
    /\ Answer(Tail(sent), <<Reply("plus", Head(sent).tag, TRUE)>>)
    /\ serving' = Head(sent).tag
    /\ UNCHANGED <<others, greeted, pushes, strays, answered, owed>>

RefuseIdle ==
    /\ sent # <<>> /\ serving = 0 /\ Head(sent).kind = "IDLE"
    /\ Answer(Tail(sent), <<Status(Head(sent).tag, FALSE)>>)
    /\ answered' = answered \cup {Head(sent).tag}
    /\ UNCHANGED <<others, serving, greeted, pushes, strays, owed>>

EndIdle ==
    /\ sent # <<>> /\ serving # 0 /\ Head(sent).kind = "DONE"
    /\ Answer(Tail(sent), <<Status(serving, TRUE)>>)
    /\ serving' = 0 /\ answered' = answered \cup {serving}
    /\ UNCHANGED <<others, greeted, pushes, strays, owed>>

(* EXISTS, EXPUNGE or FETCH for the selected mailbox, during an IDLE or    *)
(* not.  Unsolicited::from_data makes nothing of a FETCH without a UID.    *)
Push(useful) ==
    /\ pc \in {"ready", "execute", "idle"} /\ job \in {"command", "IDLE"}
    /\ pushes < MaxPushes /\ pushes' = pushes + 1
    /\ wire' = Append(wire, Reply("push", serving, useful))
    /\ owed' = IF useful /\ serving # 0 THEN owed + 1 ELSE owed
    /\ UNCHANGED <<others, sent, serving, greeted, strays, answered>>

StillHere ==
    /\ serving # 0 /\ strays < MaxStrays /\ strays' = strays + 1
    /\ wire' = Append(wire, Reply("status", 0, TRUE))
    /\ UNCHANGED <<others, sent, serving, greeted, pushes, answered, owed>>

(* The greeting, with or without a CAPABILITY code.                        *)
Greet ==
    /\ pc = "greeting" /\ ~greeted /\ greeted' = TRUE
    /\ \E caps \in BOOLEAN : wire' = Append(wire, Reply("greeting", 0, caps))
    /\ UNCHANGED <<others, sent, serving, pushes, strays, answered, owed>>

Server ==
    \/ \E ok \in BOOLEAN : ServeCommand(ok) \/ Decide(ok) \/ Push(ok)
    \/ Challenge \/ TakeIdle \/ RefuseIdle \/ EndIdle
    \/ StillHere \/ Greet

-------------------------------------------------------------------------------
\* The client.

IsHead(type) == wire # <<>> /\ Head(wire).type = type

(* A status for the command the client has open ends it there.             *)
EndsOpen == IsHead("status") /\ Head(wire).tag = open /\ open # 0 /\ ~taken

(* enqueue_command, under the next tag.                                    *)
Enqueue(kind) ==
    /\ tag < MaxTag /\ tag' = tag + 1
    /\ IF open # 0
       THEN /\ queued' = Append(queued, [tag |-> tag + 1, kind |-> kind])
            /\ UNCHANGED <<sent, open, taken>>
       ELSE /\ sent' = Append(sent, [tag |-> tag + 1, kind |-> kind])
            /\ open' = IF kind \in {"IDLE", "AUTHENTICATE"} THEN tag + 1 ELSE 0
            /\ taken' = FALSE
            /\ UNCHANGED queued

(* What was held back is sent, up to the next IDLE.                        *)
Idles(q) == {i \in DOMAIN q : q[i].kind = "IDLE"}
Release(first) ==
    LET n == IF Idles(queued) = {} THEN Len(queued)
             ELSE CHOOSE i \in Idles(queued) : \A j \in Idles(queued) : i <= j
    IN  /\ sent' = sent \o first \o SubSeq(queued, 1, n)
        /\ queued' = SubSeq(queued, n + 1, Len(queued))
        /\ open' = IF Idles(queued) = {} THEN 0 ELSE queued[n].tag
        /\ taken' = FALSE

(* set_idle_done: DONE for the open IDLE.                                  *)
SetIdleDone == Release(<<[tag |-> open, kind |-> "DONE"]>>)

-------------------------------------------------------------------------------
\* Connecting.

hidden == <<server, outcome, owed, abandoned>>
locals == <<data, accepted, doneSent, heard>>

Goto(from, to) == pc = from /\ pc' = to

TcpConnected ==
    /\ Goto("tcp", IF security = "Tls" THEN "tls" ELSE "greeting")
    /\ UNCHANGED <<security, offered, job, tag, locals, client, sent, wire, hidden>>

TlsConnected ==
    /\ \/ Goto("tls", "greeting")
       \/ Goto("upgrade", "regreet")
    /\ UNCHANGED <<security, offered, job, tag, locals, client, sent, wire, hidden>>

(* drive_until_greeting: only a greeting with a CAPABILITY code ends it.   *)
ReadGreeting ==
    /\ pc \in {"greeting", "regreet"} /\ IsHead("greeting")
    /\ wire' = Tail(wire)
    /\ IF ~Head(wire).ok
       THEN UNCHANGED <<pc, job, tag, data, offered, client, sent>>
       ELSE /\ offered' \in BOOLEAN
            /\ IF security = "StartTls" /\ pc = "greeting"
               THEN Enqueue("STARTTLS") /\ pc' = "execute" /\ job' = "STARTTLS"
               ELSE pc' = "authenticate" /\ UNCHANGED <<job, tag, client, sent>>
            /\ UNCHANGED data
    /\ UNCHANGED <<security, accepted, doneSent, heard, hidden>>

(* authenticate: the first preferred mechanism offered, or else LOGIN.     *)
Authenticate ==
    /\ pc = "authenticate"
    /\ IF offered
       THEN pc' = "auth" /\ job' = "AUTHENTICATE" /\ Enqueue("AUTHENTICATE")
       ELSE pc' = "execute" /\ job' = "LOGIN" /\ Enqueue("LOGIN")
    /\ UNCHANGED <<security, offered, locals, wire, hidden>>

(* A challenge is answered, unless the SASL session refuses to.            *)
Respond ==
    /\ pc = "auth" /\ IsHead("plus") /\ wire' = Tail(wire)
    /\ \/ sent' = Append(sent, [tag |-> open, kind |-> "answer"]) /\ UNCHANGED pc
       \/ pc' = "closed" /\ UNCHANGED sent
    /\ UNCHANGED <<security, offered, job, tag, locals, client, hidden>>

AuthStatus ==
    /\ pc = "auth" /\ EndsOpen /\ wire' = Tail(wire)
    /\ pc' = IF Head(wire).ok THEN "refresh" ELSE "closed"
    /\ open' = 0
    /\ UNCHANGED <<security, offered, job, tag, locals, queued, taken, sent, hidden>>

RefreshCapabilities ==
    /\ Goto("refresh", "execute") /\ job' = "CAPABILITY"
    /\ Enqueue("CAPABILITY")
    /\ UNCHANGED <<security, offered, locals, wire, hidden>>

-------------------------------------------------------------------------------
\* execute.

(* The owner runs a command: SELECT, UID FETCH, ...                        *)
Execute ==
    /\ Goto("ready", "execute") /\ job' = "command"
    /\ Enqueue("command")
    /\ UNCHANGED <<security, offered, locals, wire, hidden>>

(* Untagged data, a push or another command's late answer, are collected.  *)
CollectData ==
    /\ pc = "execute" /\ (IsHead("data") \/ IsHead("push")) /\ wire' = Tail(wire)
    /\ data' = IF IsHead("data") THEN data \cup {Head(wire).tag} ELSE data
    /\ UNCHANGED <<security, offered, pc, job, tag, accepted, doneSent, heard,
                   client, sent, hidden>>

(* Any tagged status is taken for the command's.                           *)
FaultyIsOwnStatus == IsHead("status") /\ ~EndsOpen /\ Head(wire).tag # 0

(* status.tag() == Some(&expected)                                         *)
IsOwnStatus == IsHead("status") /\ ~EndsOpen /\ Head(wire).tag = tag

(* Where the outcome of the job leads.                                     *)
After(ok) ==
    IF job = "command" THEN "ready"
    ELSE IF ~ok THEN "closed"
    ELSE IF job = "STARTTLS" THEN "upgrade"
    ELSE IF job = "LOGIN" THEN "refresh"
    ELSE "ready"

ReturnOutcome ==
    /\ pc = "execute" /\ IsOwnStatus /\ wire' = Tail(wire)
    /\ pc' = After(Head(wire).ok)
    /\ job' = IF pc' = "ready" THEN "command" ELSE job
    /\ outcome' = [tag |-> tag, data |-> data]
    /\ data' = {}
    /\ UNCHANGED <<security, offered, tag, accepted, doneSent, heard, client, sent,
                   server, owed, abandoned>>

(* Other statuses are kept as untagged ones; the end of an IDLE that was   *)
(* given up is an unexpected event.                                        *)
SkipStatus ==
    /\ pc = "execute" /\ IsHead("status") /\ ~IsOwnStatus /\ wire' = Tail(wire)
    /\ IF EndsOpen THEN Release(<<>>) ELSE UNCHANGED <<client, sent>>
    /\ UNCHANGED <<driver, hidden>>

(* The late acceptance of an IDLE that was given up.                       *)
LateAcceptance ==
    /\ pc = "execute" /\ IsHead("plus") /\ wire' = Tail(wire)
    /\ open # 0 /\ taken' = TRUE
    /\ UNCHANGED <<driver, queued, open, sent, hidden>>

(* The timed-out command is sent again.                                    *)
FaultyCommandTimeout ==
    /\ pc = "execute" /\ Enqueue(job)
    /\ UNCHANGED <<security, offered, pc, job, locals, wire, hidden>>

(* No event within the timeout: execute returns Err.  Most callers drop    *)
(* the session; the body and flag fetches of a pass go on using it.        *)
CommandTimeout ==
    /\ pc = "execute"
    /\ \/ pc' = "ready" /\ job = "command"
       \/ pc' = "closed"
    /\ data' = {} /\ abandoned' = abandoned \cup {"late"}
    /\ UNCHANGED <<security, offered, job, tag, accepted, doneSent, heard, client, sent,
                   wire, server, outcome, owed>>

-------------------------------------------------------------------------------
\* idle.

Idle ==
    /\ Goto("ready", "idle") /\ job' = "IDLE" /\ heard' = FALSE
    /\ Enqueue("IDLE")
    /\ UNCHANGED <<security, offered, data, accepted, doneSent, wire, hidden>>

(* doneSent survives into the next IDLE.                                   *)
FaultyIdleReturns ==
    /\ pc' = "ready" /\ job' = "command"
    /\ accepted' = FALSE /\ UNCHANGED <<heard, doneSent>>

(* idle returns Ok(unsolicited): its locals go out of scope.               *)
IdleReturns ==
    /\ pc' = "ready" /\ job' = "command"
    /\ accepted' = FALSE /\ doneSent' = FALSE /\ UNCHANGED heard

(* It returns Err, and the owner drops the session.                        *)
IdleFails ==
    /\ pc' = "closed" /\ job' = "command"
    /\ accepted' = FALSE /\ doneSent' = FALSE /\ heard' = FALSE

IdleAccepted ==
    /\ pc = "idle" /\ IsHead("plus") /\ wire' = Tail(wire)
    /\ accepted' = TRUE /\ taken' = TRUE
    /\ UNCHANGED <<security, offered, pc, job, tag, data, doneSent, heard,
                   queued, open, sent, hidden>>

(* What arrives after DONE is not collected.                               *)
FaultyCollect ==
    IF (IsHead("push") => Head(wire).ok) /\ ~doneSent
    THEN /\ heard' = TRUE
         /\ owed' = IF IsHead("push") /\ Head(wire).tag # 0 THEN owed - 1 ELSE owed
    ELSE UNCHANGED <<heard, owed>>

(* unsolicited.extend(from_data(..)), before the acceptance and after DONE *)
(* as well; what was pushed during the IDLE is not owed any more.          *)
Collect ==
    IF IsHead("push") => Head(wire).ok
    THEN /\ heard' = TRUE
         /\ owed' = IF IsHead("push") /\ Head(wire).tag # 0 THEN owed - 1 ELSE owed
    ELSE UNCHANGED <<heard, owed>>

(* Once it sent DONE, idle returns without waiting for the status.         *)
FaultyHearData ==
    /\ pc = "idle" /\ (IsHead("data") \/ IsHead("push")) /\ wire' = Tail(wire)
    /\ IF accepted
       THEN SetIdleDone /\ IdleReturns /\ UNCHANGED owed
       ELSE Collect /\ UNCHANGED <<pc, job, accepted, doneSent, client, sent>>
    /\ UNCHANGED <<security, offered, tag, data, server, outcome, abandoned>>

(* Wake immediately: once the IDLE is accepted, collected data send DONE.  *)
HearData ==
    /\ pc = "idle" /\ (IsHead("data") \/ IsHead("push")) /\ wire' = Tail(wire)
    /\ Collect
    /\ IF accepted /\ ~doneSent /\ heard'
       THEN SetIdleDone /\ doneSent' = TRUE
       ELSE UNCHANGED <<doneSent, client, sent>>
    /\ UNCHANGED <<security, offered, pc, job, tag, data, accepted, server, outcome,
                   abandoned>>

(* An accepted IDLE ends with the next status, whosever it is.             *)
IdleStatus ==
    /\ pc = "idle" /\ IsHead("status") /\ ~EndsOpen /\ wire' = Tail(wire)
    /\ IF accepted
       THEN /\ IdleReturns
            /\ abandoned' = IF ~doneSent THEN abandoned \cup {"open"}
                            ELSE IF Head(wire).tag # tag THEN abandoned \cup {"late"}
                            ELSE abandoned
       ELSE UNCHANGED <<pc, job, accepted, doneSent, heard, abandoned>>
    /\ UNCHANGED <<security, offered, tag, data, client, sent, server, outcome, owed>>

IdleRejected ==
    /\ pc = "idle" /\ EndsOpen /\ wire' = Tail(wire)
    /\ IdleFails /\ Release(<<>>)
    /\ UNCHANGED <<security, offered, tag, data, hidden>>

(* The wait does not end.                                                  *)
FaultyIdleDeadline ==
    /\ pc = "idle" /\ accepted /\ ~doneSent
    /\ SetIdleDone /\ doneSent' = TRUE
    /\ UNCHANGED <<security, offered, pc, job, tag, data, accepted, heard, wire, hidden>>

(* Nothing to read, and the deadline is past: Ok before the acceptance,    *)
(* DONE after it, and Err when DONE is sent already.                       *)
IdleDeadline ==
    /\ pc = "idle"
    /\ \/ /\ ~accepted /\ IdleReturns /\ abandoned' = abandoned \cup {"open"}
          /\ UNCHANGED <<client, sent>>
       \/ /\ accepted /\ ~doneSent /\ SetIdleDone /\ doneSent' = TRUE
          /\ UNCHANGED <<pc, job, accepted, heard, abandoned>>
       \/ /\ doneSent /\ IdleFails /\ UNCHANGED <<client, sent, abandoned>>
    /\ UNCHANGED <<security, offered, tag, data, wire, server, outcome, owed>>

-------------------------------------------------------------------------------

(* The peer closes the connection, or the owner drops the session.         *)
Close ==
    /\ pc # "closed" /\ pc' = "closed"
    /\ UNCHANGED <<security, offered, job, tag, locals, client, sent, wire, hidden>>

(* run_authenticate: no event within its 30 s.                             *)
AuthTimeout ==
    /\ Goto("auth", "closed")
    /\ UNCHANGED <<security, offered, job, tag, locals, client, sent, wire, hidden>>

Session ==
    \/ TcpConnected \/ TlsConnected \/ ReadGreeting
    \/ Authenticate \/ Respond \/ AuthStatus \/ AuthTimeout \/ RefreshCapabilities
    \/ CollectData \/ ReturnOutcome \/ SkipStatus \/ LateAcceptance \/ CommandTimeout
    \/ IdleAccepted \/ HearData \/ IdleStatus \/ IdleRejected \/ IdleDeadline

Next == Server \/ Session \/ Execute \/ Idle \/ Close

Spec == Init /\ [][Next]_vars

(* The session is polled and its timers run; the server greets a client.   *)
Fairness == WF_vars(Session) /\ WF_vars(Greet)

FairSpec == Spec /\ Fairness

-------------------------------------------------------------------------------
\* Properties.

(* Every variable has its type; a queue holds no more than the tags.       *)
TypeOK ==
    /\ security \in Securities /\ offered \in BOOLEAN
    /\ pc \in Steps /\ job \in Kind /\ tag \in 0 .. MaxTag
    /\ data \in SUBSET (1 .. MaxTag)
    /\ accepted \in BOOLEAN /\ doneSent \in BOOLEAN
    /\ heard \in BOOLEAN
    /\ queued \in Seq(Command) /\ open \in 0 .. MaxTag /\ taken \in BOOLEAN
    /\ sent \in Seq(Command)
    /\ \A i \in DOMAIN wire : wire[i].tag \in 0 .. MaxTag
    /\ serving \in 0 .. MaxTag
    /\ greeted \in BOOLEAN /\ pushes \in 0 .. MaxPushes /\ strays \in 0 .. MaxStrays
    /\ answered \in SUBSET (1 .. MaxTag)
    /\ outcome \in [tag: 0 .. MaxTag, data: SUBSET (1 .. MaxTag)]
    /\ owed \in 0 .. MaxPushes /\ abandoned \in SUBSET {"late", "open"}
    /\ (doneSent => accepted)

(* "Correlates tagged statuses by tag" (session.rs): what execute returns  *)
(* Ok for, the server has answered - also when an earlier command timed    *)
(* out and its answer came in between.                                     *)
OutcomeAnswered == outcome.tag # 0 => outcome.tag \in answered

(* "Single-flight correlation keeps response attribution unambiguous"      *)
(* (session.rs): as long as no operation was given up, the data execute    *)
(* returns are its own command's.                                          *)
Attributed == abandoned = {} => outcome.data \subseteq {outcome.tag}

(* "Commands execute strictly sequentially" (session.rs): as long as no    *)
(* operation was given up, the server has one command at a time.           *)
SingleFlight ==
    abandoned = {} => Cardinality((1 .. tag) \ answered) <= 1

(* "Returning collected unsolicited data" (idle): an idle that ended with  *)
(* its own status has returned everything the server pushed during it.     *)
PushesReturned == abandoned = {} /\ pc = "ready" => owed = 0

(* What the service relies on (SessionCalls): idle() returns as it says,   *)
(* and once it broke off an accepted IDLE, no later command of the session *)
(* is ever completed and no later IDLE accepted, whatever comes late.      *)
Phase ==
    CASE pc = "ready" -> "ready"
      [] pc = "execute" /\ job = "command" -> "busy"
      [] pc = "idle" -> IF doneSent THEN "done" ELSE IF accepted THEN "idling" ELSE "asked"
      [] OTHER -> "closed"

Left ==
    IF Phase = "closed" \/ "open" \notin abandoned THEN "no"
    ELSE IF open # 0 /\ taken /\ ~accepted THEN "wedged" ELSE "open"

Calls == INSTANCE SessionCalls
    WITH phase <- Phase, heard <- heard /\ Phase # "closed", left <- Left

ImplementsCalls == Calls!Spec

(* "DONE is sent either way" (idle), and a comment in it: "an unexpected   *)
(* status completes the IDLE": the code keeps neither, no run checks this. *)
DoneEitherWay == "open" \notin abandoned

(* Every command, authentication and IDLE comes to its end, whatever the   *)
(* server does: each has a timeout (execute, run_authenticate, idle).      *)
OperationsEnd ==
    \A p \in {"execute", "auth", "idle"} : pc = p ~> pc # p

(* "Connects, consumes the greeting, authenticates, and refreshes          *)
(* capabilities" (connect_and_authenticate): connecting succeeds or fails. *)
ConnectEnds == pc = "tcp" ~> pc \in {"ready", "closed"}
===============================================================================
