------------------------ MODULE ImapSessionCallProofs ------------------------
(***************************************************************************)
(* Theorems about the calls of the session (ImapSession), for any number   *)
(* of commands, pushes and stray statuses: they are those its owner relies *)
(* on (SessionCalls), and until an operation is given up there is one      *)
(* command at a time, with its own data and every push of an IDLE.         *)
(***************************************************************************)
EXTENDS ImapSessionProofs

-------------------------------------------------------------------------------
\* The session implements the calls its owner relies on.

Wedged == open # 0 /\ taken /\ ~accepted

(* How far the call under way is, and what is left of an IDLE.             *)
PhaseIs ==
    /\ pc = "ready" => Phase = "ready"
    /\ pc = "execute" /\ job = "command" => Phase = "busy"
    /\ pc = "execute" /\ job # "command" => Phase = "closed"
    /\ pc = "idle" => Phase = IF doneSent THEN "done" ELSE IF accepted THEN "idling" ELSE "asked"
    /\ pc \notin {"ready", "execute", "idle"} => Phase = "closed"

LeftIs ==
    /\ Phase = "closed" \/ "open" \notin abandoned => Left = "no"
    /\ Phase # "closed" /\ "open" \in abandoned =>
          Left = IF Wedged THEN "wedged" ELSE "open"

LEMMA PhaseOf == PhaseIs /\ PhaseIs' /\ LeftIs /\ LeftIs'
BY DEF PhaseIs, Phase, LeftIs, Left, Wedged

LEMMA SeenAlike ==
    ASSUME Phase' = Phase, Phase # "closed" => heard' = heard,
           Phase # "closed" => (("open" \in abandoned') <=> ("open" \in abandoned)),
           Phase # "closed" => (Wedged' <=> Wedged)
    PROVE  UNCHANGED Calls!vars
<1>1. Left' = Left
  BY PhaseOf DEF LeftIs
<1>2. (heard /\ Phase # "closed")' = (heard /\ Phase # "closed")
  <2>1. CASE Phase = "closed"
    BY <2>1
  <2>2. CASE Phase # "closed"
    BY <2>2
  <2>3. QED
    BY <2>1, <2>2
<1>3. QED
  BY <1>1, <1>2 DEF Calls!vars

(* The same of an operation that goes on to another phase.                 *)
LEMMA LeftAlike ==
    ASSUME Phase # "closed", Phase' # "closed", Wedged' <=> Wedged,
           ("open" \in abandoned') <=> ("open" \in abandoned)
    PROVE  Left' = Left
BY PhaseOf DEF LeftIs

LEMMA CallsClose ==
    ASSUME Phase' = "closed" PROVE Calls!Close
<1>1. Left' = "no"
  BY PhaseOf DEF LeftIs
<1>2. QED
  BY <1>1 DEF Calls!Close

(* Enqueueing leaves what the client has open.                             *)
LEMMA EnqueueWedged ==
    ASSUME Typed, NEW kind \in Kind, Enqueue(kind), accepted' = accepted
    PROVE  Wedged' <=> Wedged
<1>1. /\ open = 0 => taken' = FALSE
      /\ open # 0 => open' = open /\ taken' = taken
  BY Enqueued
<1>2. QED
  BY <1>1 DEF Wedged

(* execute(): the command goes out, or is held back.                       *)
LEMMA CallsExecute ==
    ASSUME SInv, Execute PROVE Calls!Execute
<1>1. /\ pc = "ready" /\ pc' = "execute" /\ job' = "command" /\ Enqueue("command")
      /\ UNCHANGED <<accepted, heard, abandoned>>
  BY Zenon DEF Execute, Goto, locals, hidden
<1>2. Phase = "ready" /\ Phase' = "busy"
  BY <1>1, PhaseOf DEF PhaseIs
<1>3. Wedged' <=> Wedged
  BY <1>1, EnqueueWedged DEF Kind, SInv
<1>4. Left' = Left
  BY <1>1, <1>2, <1>3, LeftAlike
<1>5. QED
  BY <1>1, <1>2, <1>4 DEF Calls!Execute, Calls!Goto

LEMMA CallsAsk ==
    ASSUME SInv, Idle PROVE Calls!Ask
<1>1. /\ pc = "ready" /\ pc' = "idle" /\ heard' = FALSE /\ Enqueue("IDLE")
      /\ UNCHANGED <<accepted, doneSent, abandoned>>
  BY Zenon DEF Idle, Goto, hidden
<1>2. ~accepted /\ ~doneSent /\ ~accepted' /\ ~doneSent'
  BY <1>1 DEF SInv, PhaseInv
<1>3. Phase = "ready" /\ Phase' = "asked"
  BY <1>1, <1>2, PhaseOf DEF PhaseIs
<1>4. Wedged' <=> Wedged
  BY <1>1, EnqueueWedged DEF Kind, SInv
<1>5. Left' = Left
  BY <1>1, <1>3, <1>4, LeftAlike
<1>6. QED
  BY <1>1, <1>3, <1>5 DEF Calls!Ask, Calls!Goto

(* The status of a command that is held back cannot have come: behind a    *)
(* wedged IDLE execute() does not complete.                                *)
LEMMA NotHeldBack ==
    ASSUME SInv, pc = "execute", IsOwnStatus PROVE open = 0
<1> SUFFICES ASSUME open # 0 PROVE FALSE
  BY DEF SInv, Typed
<1>1. PICK j \in 1 .. Len(queued) : queued[j] = [tag |-> tag, kind |-> "command"]
  BY DEF SInv, PhaseInv
<1>2. queued[j].tag = tag
  BY <1>1
<1>3. tag # 0 /\ tag \notin answered
  BY <1>2, TypedLine DEF SInv, LineInv, Unanswered, LineType
<1>4. wire # <<>> /\ Head(wire).type = "status" /\ Head(wire).tag = tag /\ wire \in Seq(ReplyOf)
  BY DEF IsOwnStatus, IsHead, SInv, Typed
<1>5. 1 \in 1 .. Len(wire) /\ Head(wire) = wire[1]
  BY <1>4, TailOf
<1>6. QED
  BY <1>3, <1>4, <1>5 DEF SInv, Inv, StatusInv, StatusesIn

LEMMA CallsReturn ==
    ASSUME SInv, ReturnOutcome PROVE [Calls!Next]_(Calls!vars)
<1>1. /\ pc = "execute" /\ IsOwnStatus /\ pc' = After(Head(wire).ok)
      /\ UNCHANGED <<accepted, heard, open, taken, abandoned>>
  BY Zenon DEF ReturnOutcome, client
<1>2. open = 0 /\ ~Wedged /\ ~Wedged'
  BY <1>1, NotHeldBack DEF Wedged
<1>3. CASE job = "command"
  <2>1. pc' = "ready"
    BY <1>1, <1>3 DEF After
  <2>2. Phase = "busy" /\ Phase' = "ready"
    BY <1>1, <1>3, <2>1, PhaseOf DEF PhaseIs
  <2>3. Left # "wedged"
    BY <1>2, <2>2, PhaseOf DEF LeftIs
  <2>4. Left' = Left
    BY <1>1, <1>2, <2>2, LeftAlike
  <2>5. Calls!Complete
    BY <1>1, <2>2, <2>3, <2>4 DEF Calls!Complete, Calls!Goto
  <2>6. QED
    BY <2>5 DEF Calls!Next
<1>4. CASE job # "command"
  <2>1. pc' \in {"ready", "closed", "upgrade", "refresh"}
    BY <1>1, <1>4 DEF After
  <2>2. Phase = "closed" /\ ~heard /\ abandoned = {}
    BY <1>1, <1>4, PhaseOf DEF PhaseIs, SInv, PhaseInv, Connecting
  <2>3. CASE pc' = "ready"
    <3>1. Phase' = "ready"
      BY <2>3, PhaseOf DEF PhaseIs
    <3>2. Left = "no" /\ Left' = "no"
      BY <1>1, <2>2, PhaseOf DEF LeftIs
    <3>3. Calls!Connect
      BY <1>1, <2>2, <3>1, <3>2 DEF Calls!Connect, Calls!Goto
    <3>4. QED
      BY <3>3 DEF Calls!Next
  <2>4. CASE pc' # "ready"
    <3>1. Phase' = "closed"
      BY <2>1, <2>4, PhaseOf DEF PhaseIs
    <3>2. QED
      BY <3>1, CallsClose DEF Calls!Next
  <2>5. QED
    BY <2>3, <2>4
<1>5. QED
  BY <1>3, <1>4

(* execute() reads on, while the phase stays.                              *)
LEMMA CallsReadOn ==
    ASSUME SInv, CollectData \/ SkipStatus PROVE UNCHANGED Calls!vars
<1>1. UNCHANGED <<pc, job, accepted, doneSent, heard, abandoned>> /\ pc = "execute"
  BY Zenon DEF CollectData, SkipStatus, driver, hidden
<1>2. Phase' = Phase
  BY <1>1, PhaseOf DEF PhaseIs
<1>3. Wedged' <=> Wedged
  <2>1. CASE UNCHANGED <<open, taken>>
    BY <1>1, <2>1 DEF Wedged
  <2>2. CASE EndsOpen /\ Release(<<>>)
    BY <2>2 DEF EndsOpen, Release, Wedged
  <2>3. QED
    BY <2>1, <2>2, Zenon DEF CollectData, SkipStatus, client
<1>4. QED
  BY <1>1, <1>2, <1>3, SeenAlike

LEMMA CallsTimeOut ==
    ASSUME SInv, CommandTimeout PROVE [Calls!Next]_(Calls!vars)
<1>1. CASE pc' = "closed"
  BY <1>1, PhaseOf, CallsClose DEF PhaseIs, Calls!Next
<1>2. CASE pc' # "closed"
  <2>1. /\ pc = "execute" /\ job = "command" /\ pc' = "ready"
        /\ UNCHANGED <<accepted, heard, open, taken>> /\ abandoned' = abandoned \cup {"late"}
    BY <1>2, Zenon DEF CommandTimeout, client
  <2>2. Phase = "busy" /\ Phase' = "ready"
    BY <2>1, PhaseOf DEF PhaseIs
  <2>3. Left' = Left
    BY <2>1, <2>2, LeftAlike DEF Wedged
  <2>4. Calls!TimeOut
    BY <2>1, <2>2, <2>3 DEF Calls!TimeOut, Calls!Goto
  <2>5. QED
    BY <2>4 DEF Calls!Next
<1>3. QED
  BY <1>1, <1>2

(* A late "+": the IDLE it accepts was left open.                          *)
LEMMA PlusBefore ==
    ASSUME SInv, LateAcceptance \/ IdleAccepted
    PROVE  open # 0 /\ ~taken
<1>1. wire \in Seq(ReplyOf) /\ wire # <<>> /\ Head(wire).type = "plus" /\ wire' = Tail(wire)
  BY DEF LateAcceptance, IdleAccepted, IsHead, SInv, Typed
<1>2. QED
  BY <1>1, ReadPlus DEF SInv, LineInv, OneOpen

LEMMA CallsAcceptLate ==
    ASSUME SInv, LateAcceptance PROVE [Calls!Next]_(Calls!vars)
<1>1. /\ pc = "execute" /\ taken' = TRUE /\ open' = open
      /\ UNCHANGED <<pc, job, accepted, doneSent, heard, abandoned>>
  BY Zenon DEF LateAcceptance, driver, hidden
<1>2. open # 0 /\ ~taken /\ ~accepted
  BY <1>1, PlusBefore DEF SInv, PhaseInv
<1>3. "open" \in abandoned
  BY <1>1, <1>2 DEF SInv, LeftOpenInv
<1>4. job = "command"
  BY <1>1, <1>2 DEF SInv, PhaseInv, Connecting
<1>5. Phase = "busy" /\ Phase' = "busy"
  BY <1>1, <1>4, PhaseOf DEF PhaseIs
<1>6. Left = "open" /\ Left' = "wedged"
  BY <1>1, <1>2, <1>3, <1>5, PhaseOf DEF LeftIs, Wedged
<1>7. Calls!AcceptLate
  BY <1>1, <1>5, <1>6 DEF Calls!AcceptLate
<1>8. QED
  BY <1>7 DEF Calls!Next

LEMMA CallsAccept ==
    ASSUME SInv, IdleAccepted PROVE [Calls!Next]_(Calls!vars)
<1>1. /\ pc = "idle" /\ pc' = "idle" /\ accepted' /\ open # 0 /\ ~taken
      /\ UNCHANGED <<doneSent, heard, abandoned>>
  BY PlusBefore, Zenon DEF IdleAccepted, hidden
<1>2. ~Wedged /\ ~Wedged'
  BY <1>1 DEF Wedged
<1>3. CASE ~accepted
  <2>1. ~doneSent
    BY <1>3 DEF SInv, Typed
  <2>2. Phase = "asked" /\ Phase' = "idling"
    BY <1>1, <1>3, <2>1, PhaseOf DEF PhaseIs
  <2>3. Left # "wedged"
    BY <1>2, <2>2, PhaseOf DEF LeftIs
  <2>4. Left' = Left
    BY <1>1, <1>2, <2>2, LeftAlike
  <2>5. Calls!Accept
    BY <1>1, <2>2, <2>3, <2>4 DEF Calls!Accept, Calls!Goto
  <2>6. QED
    BY <2>5 DEF Calls!Next
<1>4. CASE accepted
  <2>1. doneSent
    BY <1>1, <1>4 DEF SInv, PhaseInv
  <2>2. Phase = "done" /\ Phase' = "done"
    BY <1>1, <2>1, PhaseOf DEF PhaseIs
  <2>3. QED
    BY <1>1, <1>2, <2>2, SeenAlike
<1>5. QED
  BY <1>3, <1>4

(* DONE ends the wait, and nothing is left of the accepted IDLE.           *)
LEMMA NotWedged ==
    ASSUME accepted, accepted' PROVE ~Wedged /\ ~Wedged'
BY DEF Wedged

LEMMA CallsHear ==
    ASSUME SInv, HearData PROVE [Calls!Next]_(Calls!vars)
<1>1. /\ pc = "idle" /\ pc' = "idle" /\ UNCHANGED <<accepted, abandoned>>
      /\ heard' = TRUE \/ heard' = heard
  BY DEF HearData, Collect
<1>2. CASE accepted /\ ~doneSent /\ heard'
  <2>1. doneSent' /\ heard' = TRUE
    BY <1>1, <1>2 DEF HearData, SInv, Typed
  <2>2. Phase = "idling" /\ Phase' = "done"
    BY <1>1, <1>2, <2>1, PhaseOf DEF PhaseIs
  <2>3. Left' = Left
    BY <1>1, <1>2, <2>2, LeftAlike, NotWedged
  <2>4. Calls!Hear
    BY <2>1, <2>2, <2>3 DEF Calls!Hear
  <2>5. QED
    BY <2>4 DEF Calls!Next
<1>3. CASE ~(accepted /\ ~doneSent /\ heard')
  <2>1. UNCHANGED <<doneSent, open, taken>>
    BY <1>3, Zenon DEF HearData, client
  <2>2. Phase' = Phase /\ Phase # "closed" /\ (Wedged' <=> Wedged)
    BY <1>1, <2>1, PhaseOf DEF PhaseIs, Wedged
  <2>3. CASE heard' = heard
    BY <1>1, <2>2, <2>3, SeenAlike
  <2>4. CASE heard' = TRUE
    <3>1. ~accepted \/ doneSent
      BY <1>3, <2>4
    <3>2. Phase \in {"asked", "done"}
      <4>1. ~doneSent /\ ~accepted => Phase = "asked"
        BY <1>1, PhaseOf DEF PhaseIs
      <4>2. doneSent => Phase = "done"
        BY <1>1, PhaseOf DEF PhaseIs
      <4>3. QED
        BY <3>1, <4>1, <4>2
    <3>3. Left' = Left
      BY <1>1, <2>2, LeftAlike
    <3>4. Calls!Hear
      BY <2>2, <2>4, <3>2, <3>3 DEF Calls!Hear
    <3>5. QED
      BY <3>4 DEF Calls!Next
  <2>5. QED
    BY <1>1, <2>3, <2>4
<1>4. QED
  BY <1>2, <1>3

(* An accepted IDLE ends with the next status: after DONE, or broken off.  *)
LEMMA CallsStatus ==
    ASSUME SInv, IdleStatus PROVE [Calls!Next]_(Calls!vars)
<1>1. pc = "idle" /\ UNCHANGED <<heard, open, taken>>
  BY Zenon DEF IdleStatus, IdleReturns, client
<1>2. CASE ~accepted
  <2>1. UNCHANGED <<pc, job, accepted, doneSent, abandoned>>
    BY <1>2 DEF IdleStatus
  <2>2. Phase' = Phase /\ (Wedged' <=> Wedged)
    BY <1>1, <2>1, PhaseOf DEF PhaseIs, Wedged
  <2>3. QED
    BY <1>1, <2>1, <2>2, SeenAlike
<1>3. CASE accepted
  <2>1. /\ pc' = "ready" /\ ~accepted'
        /\ IF ~doneSent THEN abandoned' = abandoned \cup {"open"}
           ELSE abandoned' \in {abandoned, abandoned \cup {"late"}}
    BY <1>3 DEF IdleStatus, IdleReturns
  <2>2. Phase' = "ready"
    BY <2>1, PhaseOf DEF PhaseIs
  <2>3. CASE doneSent
    <3>1. Phase = "done"
      BY <1>1, <2>3, PhaseOf DEF PhaseIs
    <3>2. ("open" \in abandoned') <=> ("open" \in abandoned)
      BY <2>1, <2>3
    <3>3. Left' \in IF Left = "no" THEN {"no"} ELSE {"open", "wedged"}
      BY <2>2, <3>1, <3>2, PhaseOf DEF LeftIs
    <3>4. Calls!Finish
      BY <1>1, <2>2, <3>1, <3>3 DEF Calls!Finish, Calls!Goto
    <3>5. QED
      BY <3>4 DEF Calls!Next
  <2>4. CASE ~doneSent
    <3>1. Phase = "idling"
      BY <1>1, <1>3, <2>4, PhaseOf DEF PhaseIs
    <3>2. open # 0 /\ taken
      BY <1>3, <2>4 DEF SInv, PhaseInv
    <3>3. Wedged' /\ "open" \in abandoned'
      BY <1>1, <2>1, <2>4, <3>2 DEF Wedged
    <3>4. Left' = "wedged"
      BY <2>2, <3>3, PhaseOf DEF LeftIs
    <3>5. Calls!BreakOff
      BY <1>1, <2>2, <3>1, <3>4 DEF Calls!BreakOff, Calls!Goto
    <3>6. QED
      BY <3>5 DEF Calls!Next
  <2>5. QED
    BY <2>3, <2>4
<1>4. QED
  BY <1>2, <1>3

(* The deadline: given up before the acceptance, DONE after it, an error   *)
(* when DONE is sent already.                                              *)
LEMMA CallsDeadline ==
    ASSUME SInv, IdleDeadline PROVE [Calls!Next]_(Calls!vars)
<1>1. pc = "idle"
  BY DEF IdleDeadline
<1>2. CASE pc' = "closed"
  BY <1>2, PhaseOf, CallsClose DEF PhaseIs, Calls!Next
<1>3. CASE /\ ~accepted /\ IdleReturns /\ abandoned' = abandoned \cup {"open"}
           /\ UNCHANGED <<client, sent>>
  <2>1. /\ pc' = "ready" /\ ~accepted' /\ "open" \in abandoned'
        /\ UNCHANGED <<heard, open, taken>> /\ ~doneSent
    BY <1>3 DEF IdleReturns, client, SInv, Typed
  <2>2. Phase = "asked" /\ Phase' = "ready" /\ (Wedged' <=> Wedged)
    BY <1>1, <1>3, <2>1, PhaseOf DEF PhaseIs, Wedged
  <2>3. Left' = IF Wedged THEN "wedged" ELSE "open"
    BY <2>1, <2>2, PhaseOf DEF LeftIs
  <2>4. "open" \notin abandoned => ~Wedged
    BY <1>1 DEF Wedged, SInv, LeftOpenInv
  <2>5. Left' = IF Left = "no" THEN "open" ELSE Left
    BY <2>2, <2>3, <2>4, PhaseOf DEF LeftIs
  <2>6. Calls!GiveUp
    BY <2>1, <2>2, <2>5 DEF Calls!GiveUp, Calls!Goto
  <2>7. QED
    BY <2>6 DEF Calls!Next
<1>4. CASE /\ accepted /\ ~doneSent /\ doneSent' = TRUE
           /\ UNCHANGED <<pc, job, accepted, heard, abandoned>>
  <2>1. Phase = "idling" /\ Phase' = "done"
    BY <1>1, <1>4, PhaseOf DEF PhaseIs
  <2>2. Left' = Left
    BY <1>4, <2>1, LeftAlike, NotWedged
  <2>3. Calls!Expire
    BY <1>4, <2>1, <2>2 DEF Calls!Expire, Calls!Goto
  <2>4. QED
    BY <2>3 DEF Calls!Next
<1>5. QED
  BY <1>2, <1>3, <1>4, Zenon DEF IdleDeadline, IdleFails

(* The server and the network are not seen.                                *)
LEMMA CallsServer ==
    ASSUME Typed, Server PROVE UNCHANGED Calls!vars
<1>1. UNCHANGED <<pc, job, accepted, doneSent, heard, open, taken, abandoned>>
  BY ServerLine DEF others, driver, client
<1>2. Phase' = Phase /\ (Wedged' <=> Wedged)
  BY <1>1, PhaseOf DEF PhaseIs, Wedged
<1>3. QED
  BY <1>1, <1>2, SeenAlike

(* Connecting counts as a closed session until it is ready.                *)
LEMMA CallsConnecting ==
    ASSUME \/ TcpConnected \/ TlsConnected \/ ReadGreeting \/ Authenticate \/ Respond
           \/ AuthStatus \/ AuthTimeout \/ RefreshCapabilities \/ Close \/ IdleRejected
    PROVE  Phase' = "closed"
<1>1. pc' \notin {"ready", "execute", "idle"} \/ (pc' = "execute" /\ job' # "command")
  <2>1. CASE TcpConnected \/ TlsConnected
    BY <2>1 DEF TcpConnected, TlsConnected, Goto
  <2>2. CASE ReadGreeting
    BY <2>2 DEF ReadGreeting
  <2>3. CASE Authenticate \/ RefreshCapabilities
    BY <2>3 DEF Authenticate, RefreshCapabilities, Goto
  <2>4. CASE Respond \/ AuthStatus \/ AuthTimeout \/ Close \/ IdleRejected
    BY <2>4 DEF Respond, AuthStatus, AuthTimeout, Close, IdleRejected, IdleFails, Goto
  <2>5. QED
    BY <2>1, <2>2, <2>3, <2>4
<1>2. QED
  BY <1>1, PhaseOf DEF PhaseIs

LEMMA CallsStep ==
    ASSUME SInv, [Next]_vars PROVE [Calls!Next]_(Calls!vars)
<1>1. CASE Server
  BY <1>1, CallsServer DEF SInv
<1>2. CASE \/ TcpConnected \/ TlsConnected \/ ReadGreeting \/ Authenticate \/ Respond
           \/ AuthStatus \/ AuthTimeout \/ RefreshCapabilities \/ Close \/ IdleRejected
  BY <1>2, CallsConnecting, CallsClose DEF Calls!Next
<1>3. CASE Execute \/ Idle
  BY <1>3, CallsExecute, CallsAsk DEF Calls!Next
<1>4. CASE CollectData \/ SkipStatus
  BY <1>4, CallsReadOn
<1>5. CASE \/ ReturnOutcome \/ CommandTimeout \/ LateAcceptance \/ IdleAccepted
           \/ HearData \/ IdleStatus \/ IdleDeadline
  BY <1>5, CallsReturn, CallsTimeOut, CallsAcceptLate, CallsAccept, CallsHear, CallsStatus,
     CallsDeadline
<1>6. CASE UNCHANGED vars
  <2>1. UNCHANGED <<pc, job, accepted, doneSent, heard, open, taken, abandoned>>
    BY <1>6 DEF vars, driver, client
  <2>2. Phase' = Phase /\ (Wedged' <=> Wedged)
    BY <2>1, PhaseOf DEF PhaseIs, Wedged
  <2>3. QED
    BY <2>1, <2>2, SeenAlike
<1>7. QED
  BY <1>1, <1>2, <1>3, <1>4, <1>5, <1>6, Zenon DEF Next, Session

LEMMA CallsInit == Init => Calls!Init
<1> SUFFICES ASSUME Init PROVE Calls!Init
  OBVIOUS
<1>1. Phase = "closed"
  BY PhaseOf DEF PhaseIs, Init
<1>2. Left = "no"
  BY <1>1, PhaseOf DEF LeftIs
<1>3. (heard /\ Phase # "closed") = FALSE
  BY <1>1
<1>4. QED
  BY <1>1, <1>2, <1>3 DEF Calls!Init

(* The session implements the calls its owner, the sync service, is        *)
(* written against (SessionCalls): execute() and idle() return only as     *)
(* promised, and after an idle() broke off an accepted IDLE no later       *)
(* command completes and no later IDLE is accepted, whatever the server    *)
(* sends, and however late (ImapSession.ImplementsCalls).                  *)
THEOREM SessionImplementsCalls == Spec => ImplementsCalls
<1>1. SInv /\ [Next]_vars => SInv'
  BY SInvNext
<1>2. SInv /\ [Next]_vars => [Calls!Next]_(Calls!vars)
  BY CallsStep
<1>3. QED
  BY <1>1, <1>2, SInvInit, CallsInit, PTL DEF Spec, ImplementsCalls, Calls!Spec

-------------------------------------------------------------------------------
\* One command at a time, while no operation was given up.

(* No command is under way.                                                *)
Quiet == pc \in {"tcp", "tls", "greeting", "upgrade", "regreet", "authenticate",
                 "refresh", "ready"}

(* Only the last command is unanswered, its status is the last that comes  *)
(* for it, and an idle() that returns leaves none of its pushes behind.    *)
Clean ==
    /\ (1 .. tag) \ answered \subseteq {tag}
    /\ Quiet => 1 .. tag \subseteq answered
    /\ \A i \in 1 .. Len(wire) : wire[i].tag # 0 => wire[i].tag = tag /\ ~Quiet
    /\ \A i, j \in 1 .. Len(wire) :
          i < j /\ wire[i].type = "status" /\ wire[i].tag # 0 => wire[j].tag = 0
    /\ pc \notin {"idle", "closed"} =>
          serving = 0 /\ \A i \in 1 .. Len(wire) : ~IsOwed(wire[i])
    /\ data \subseteq IF pc \in {"execute", "closed"} THEN {tag} ELSE {}
    /\ outcome.data \subseteq {outcome.tag}
    /\ owed = Cardinality(OwedOn(wire))

CleanInv == abandoned = {} => Clean

(* What the server sends is for the last command, or for none.             *)
LEMMA CleanReplies ==
    ASSUME SInv, Clean, NEW x \in ReplyOf, FromServer(x), x.tag # 0
    PROVE  x.tag = tag /\ ~Quiet /\ tag \notin answered
<1> USE DEF LineType
<1>1. LineType /\ answered \subseteq 1 .. tag /\ serving <= tag /\ serving \notin answered
  BY TypedLine DEF SInv, LineInv, Unanswered
<1>2. CASE x.tag = serving
  <2>1. serving \in (1 .. tag) \ answered
    BY <1>1, <1>2
  <2>2. QED
    BY <1>2, <2>1 DEF Clean
<1>3. CASE sent # <<>> /\ Head(sent).kind # "DONE" /\ x.tag = Head(sent).tag
  <2>1. 1 \in 1 .. Len(sent) /\ Head(sent) = sent[1]
    BY <1>1, <1>3, TailOf
  <2>2. x.tag \in (1 .. tag) \ answered
    BY <1>1, <1>3, <2>1 DEF SInv, LineInv, Unanswered
  <2>3. QED
    BY <2>2 DEF Clean
<1>4. QED
  BY <1>2, <1>3 DEF FromServer

(* An IDLE is taken only by an idle() that is under way.                   *)
LEMMA CleanServing ==
    ASSUME SInv, abandoned = {}, Clean, Server, pc \notin {"idle", "closed"}
    PROVE  serving' = 0
<1> USE DEF LineType
<1>1. LineType /\ serving = 0
  BY TypedLine DEF SInv, Clean
<1>2. ~(sent # <<>> /\ Head(sent).kind = "IDLE")
  <2> SUFFICES ASSUME sent # <<>>, Head(sent).kind = "IDLE" PROVE FALSE
    OBVIOUS
  <2>1. 1 \in 1 .. Len(sent) /\ Head(sent) = sent[1]
    BY <1>1, TailOf
  <2>2. sent[1].tag = open /\ open # 0
    BY <1>1, <2>1 DEF SInv, LineInv, OneOpen, Opening
  <2>3. pc = "auth"
    BY <2>2 DEF SInv, PhaseInv, LeftOpenInv, Connecting, Typed, Steps
  <2>4. QED
    BY <2>1, <2>3 DEF SInv, PhaseInv
<1>3. QED
  BY <1>1, <1>2, ServerLine DEF SInv, Answers

LEMMA CleanServer ==
    ASSUME SInv, abandoned = {}, Clean, Server PROVE Clean'
<1>1. /\ UNCHANGED <<pc, tag, data, outcome>> /\ answered \subseteq answered'
  BY ServerLine DEF SInv, others, driver, Answers
<1>2. PICK r \in Seq(ReplyOf) :
          /\ wire' = wire \o r
          /\ \A i \in 1 .. Len(r) : FromServer(r[i]) /\ (i < Len(r) => r[i].type = "data")
          /\ \/ owed' = owed /\ \A i \in 1 .. Len(r) : ~IsOwed(r[i])
             \/ owed' = owed + 1 /\ Len(r) = 1 /\ IsOwed(r[1]) /\ r[1].tag = serving
  BY ServerSends DEF SInv
<1>3. wire \in Seq(ReplyOf) /\ Len(wire) \in Nat /\ Len(r) \in Nat
  BY DEF SInv, Typed
<1>4. /\ Len(wire') = Len(wire) + Len(r)
      /\ \A i \in 1 .. Len(wire') :
            \/ i \in 1 .. Len(wire) /\ wire'[i] = wire[i]
            \/ i - Len(wire) \in 1 .. Len(r) /\ wire'[i] = r[i - Len(wire)]
  <2> DEFINE w == wire \o r
  <2>1. /\ Len(w) = Len(wire) + Len(r)
        /\ \A i \in 1 .. Len(wire) + Len(r) :
              \/ i \in 1 .. Len(wire) /\ w[i] = wire[i]
              \/ i - Len(wire) \in 1 .. Len(r) /\ w[i] = r[i - Len(wire)]
    BY <1>3, ConcatOf
  <2>2. wire' = w
    BY <1>2
  <2> HIDE DEF w
  <2>3. QED
    BY <2>1, <2>2
<1>5. \A i \in 1 .. Len(r) : r[i].tag # 0 => r[i].tag = tag /\ ~Quiet /\ tag \notin answered
  <2> SUFFICES ASSUME NEW i \in 1 .. Len(r), r[i].tag # 0
               PROVE  r[i].tag = tag /\ ~Quiet /\ tag \notin answered
    OBVIOUS
  <2>1. r[i] \in ReplyOf /\ FromServer(r[i])
    BY <1>2
  <2>2. QED
    BY <2>1, CleanReplies
<1>6. (1 .. tag) \ answered' \subseteq {tag} /\ (Quiet => 1 .. tag \subseteq answered')
  BY <1>1 DEF Clean
<1>7. \A i \in 1 .. Len(wire') : wire'[i].tag # 0 => wire'[i].tag = tag /\ ~Quiet
  BY <1>4, <1>5 DEF Clean
<1>8. \A i, j \in 1 .. Len(wire') :
          i < j /\ wire'[i].type = "status" /\ wire'[i].tag # 0 => wire'[j].tag = 0
  <2> SUFFICES ASSUME NEW i \in 1 .. Len(wire'), NEW j \in 1 .. Len(wire'), i < j,
                      wire'[i].type = "status", wire'[i].tag # 0
               PROVE  wire'[j].tag = 0
    OBVIOUS
  <2>1. CASE i \in 1 .. Len(wire) /\ wire'[i] = wire[i]
    <3>1. CASE j \in 1 .. Len(wire) /\ wire'[j] = wire[j]
      BY <2>1, <3>1 DEF Clean
    <3>2. CASE j - Len(wire) \in 1 .. Len(r) /\ wire'[j] = r[j - Len(wire)]
      <4>1. wire[i].tag \in answered
        BY <2>1 DEF SInv, Inv, StatusInv, StatusesIn
      <4>2. wire[i].tag = tag
        BY <2>1 DEF Clean
      <4>3. QED
        BY <1>5, <3>2, <4>1, <4>2
    <3>3. QED
      BY <1>4, <3>1, <3>2
  <2>2. CASE i - Len(wire) \in 1 .. Len(r) /\ wire'[i] = r[i - Len(wire)]
    <3>1. i - Len(wire) < Len(r)
      BY <1>3, <1>4, <2>2
    <3>2. wire'[i].type = "data"
      BY <1>2, <2>2, <3>1
    <3>3. QED
      BY <3>2
  <2>3. QED
    BY <1>4, <2>1, <2>2
<1>9. ASSUME pc \notin {"idle", "closed"}
      PROVE  serving' = 0 /\ \A i \in 1 .. Len(wire') : ~IsOwed(wire'[i])
  <2>1. serving' = 0
    BY <1>9, CleanServing
  <2>2. serving = 0 /\ \A i \in 1 .. Len(wire) : ~IsOwed(wire[i])
    BY <1>9 DEF Clean
  <2>3. \A i \in 1 .. Len(r) : ~IsOwed(r[i])
    BY <1>2, <2>2 DEF IsOwed
  <2>4. QED
    BY <1>4, <2>1, <2>2, <2>3
<1>10. owed' = Cardinality(OwedOn(wire'))
  <2>1. owed = Cardinality(OwedOn(wire))
    BY DEF Clean
  <2>2. CASE owed' = owed /\ \A i \in 1 .. Len(r) : ~IsOwed(r[i])
    <3>1. OwedOn(wire') = OwedOn(wire)
      BY <1>2, <1>3, <2>2, NoneOwed
    <3>2. QED
      BY <2>1, <2>2, <3>1
  <2>3. CASE owed' = owed + 1 /\ Len(r) = 1 /\ IsOwed(r[1])
    <3>1. Cardinality(OwedOn(wire')) = Cardinality(OwedOn(wire)) + 1
      BY <1>2, <1>3, <2>3, OneOwed
    <3>2. QED
      BY <2>1, <2>3, <3>1
  <2>4. QED
    BY <1>2, <2>2, <2>3
<1>11. /\ data' \subseteq IF pc' \in {"execute", "closed"} THEN {tag'} ELSE {}
       /\ outcome'.data \subseteq {outcome'.tag}
  BY <1>1 DEF Clean
<1>12. (Quiet' <=> Quiet)
  BY <1>1 DEF Quiet
<1>13. QED
  BY <1>1, <1>6, <1>7, <1>8, <1>9, <1>10, <1>11, <1>12 DEF Clean

(* The status that the last command, or the last IDLE, waits for.          *)
OwnEnd ==
    /\ wire # <<>> /\ Head(wire).type = "status" /\ Head(wire).tag = tag
    /\ wire' = Tail(wire)

LEMMA CleanRest ==
    ASSUME SInv, Clean, wire' = wire \/ (wire # <<>> /\ wire' = Tail(wire))
    PROVE  /\ \A i \in 1 .. Len(wire') : wire'[i].tag # 0 => wire'[i].tag = tag /\ ~Quiet
           /\ \A i, j \in 1 .. Len(wire') :
                 i < j /\ wire'[i].type = "status" /\ wire'[i].tag # 0 => wire'[j].tag = 0
           /\ (\A i \in 1 .. Len(wire) : ~IsOwed(wire[i])) =>
                 \A i \in 1 .. Len(wire') : ~IsOwed(wire'[i])
<1>1. CASE wire' = wire
  BY <1>1 DEF Clean
<1>2. CASE wire # <<>> /\ wire' = Tail(wire)
  <2>1. \A i \in 1 .. Len(wire') : i + 1 \in 1 .. Len(wire) /\ wire'[i] = wire[i + 1]
    BY <1>2, TailOf DEF SInv, Typed
  <2>2. \A i, j \in 1 .. Len(wire') : i < j => i + 1 < j + 1
    OBVIOUS
  <2>3. \A i \in 1 .. Len(wire') : wire'[i].tag # 0 => wire'[i].tag = tag /\ ~Quiet
    BY <2>1 DEF Clean
  <2>4. \A i, j \in 1 .. Len(wire') :
            i < j /\ wire'[i].type = "status" /\ wire'[i].tag # 0 => wire'[j].tag = 0
    BY <2>1, <2>2 DEF Clean
  <2>5. QED
    BY <2>1, <2>3, <2>4
<1>3. QED
  BY <1>1, <1>2

(* After its own status nothing is under way, nor on its way.              *)
LEMMA CleanEnd ==
    ASSUME SInv, Clean, OwnEnd
    PROVE  /\ 1 .. tag \subseteq answered /\ serving = 0
           /\ \A i \in 1 .. Len(wire') : wire'[i].tag = 0
<1> USE DEF LineType
<1>1. /\ LineType /\ wire \in Seq(ReplyOf) /\ wire # <<>>
      /\ serving <= tag /\ serving \notin answered
  BY TypedLine DEF SInv, Typed, OwnEnd, LineInv, Unanswered
<1>2. /\ 1 \in 1 .. Len(wire) /\ Head(wire) = wire[1]
      /\ \A i \in 1 .. Len(wire') :
            i + 1 \in 1 .. Len(wire) /\ wire'[i] = wire[i + 1] /\ 1 < i + 1
  BY <1>1, TailOf DEF OwnEnd
<1>3. wire[1].type = "status" /\ wire[1].tag = tag
  BY <1>2 DEF OwnEnd
<1>4. CASE tag = 0
  <2>1. 1 .. tag = {}
    BY <1>4
  <2>2. \A i \in 1 .. Len(wire') : wire'[i].tag = 0
    BY <1>2, <1>4 DEF Clean
  <2>3. serving = 0
    BY <1>1, <1>4
  <2>4. QED
    BY <2>1, <2>2, <2>3
<1>5. CASE tag # 0
  <2>1. tag \in answered
    BY <1>2, <1>3, <1>5 DEF SInv, Inv, StatusInv, StatusesIn
  <2>2. 1 .. tag \subseteq answered
    BY <2>1 DEF Clean
  <2>3. \A i \in 1 .. Len(wire') : wire'[i].tag = 0
    BY <1>2, <1>3, <1>5 DEF Clean
  <2>4. serving = 0
    BY <1>1, <2>2
  <2>5. QED
    BY <2>2, <2>3, <2>4
<1>6. QED
  BY <1>4, <1>5

(* Who reads a push: idle() returns it, execute() drops it.                *)
LEMMA ReadsOwed ==
    ASSUME Caller, wire # <<>>, wire' = Tail(wire), IsOwed(Head(wire))
    PROVE  \/ HearData /\ owed' = owed - 1
           \/ CollectData
           \/ wire' = wire
<1>1. Head(wire).type = "push" /\ Head(wire).ok /\ Head(wire).tag # 0
  BY DEF IsOwed
<1>2. CASE HearData
  <2>1. Collect
    BY <1>2 DEF HearData
  <2>2. IsHead("push") /\ (IsHead("push") => Head(wire).ok)
    BY <1>1 DEF IsHead
  <2>3. owed' = owed - 1
    BY <1>1, <2>1, <2>2 DEF Collect
  <2>4. QED
    BY <1>2, <2>3
<1>3. CASE \/ TcpConnected \/ TlsConnected \/ Authenticate \/ AuthTimeout
           \/ RefreshCapabilities \/ CommandTimeout \/ IdleDeadline \/ Execute \/ Idle \/ Close
  BY <1>3, Zenon DEF TcpConnected, TlsConnected, Authenticate, AuthTimeout,
     RefreshCapabilities, CommandTimeout, IdleDeadline, Execute, Idle, Close
<1>4. CASE \/ ReadGreeting \/ Respond \/ AuthStatus \/ ReturnOutcome \/ SkipStatus
           \/ LateAcceptance \/ IdleAccepted \/ IdleStatus \/ IdleRejected
  <2>1. IsHead("greeting") \/ IsHead("plus") \/ IsHead("status")
    BY <1>4, Zenon DEF ReadGreeting, Respond, AuthStatus, ReturnOutcome, SkipStatus,
       LateAcceptance, IdleAccepted, IdleStatus, IdleRejected, EndsOpen, IsOwnStatus
  <2>2. QED
    BY <1>1, <2>1 DEF IsHead
<1>5. QED
  BY <1>2, <1>3, <1>4 DEF Caller, Session

LEMMA CleanOwed ==
    ASSUME SInv, Clean, Caller PROVE owed' = Cardinality(OwedOn(wire'))
<1>1. /\ owed = Cardinality(OwedOn(wire)) /\ owed \in Nat /\ wire \in Seq(ReplyOf)
      /\ wire' = wire \/ (wire # <<>> /\ wire' = Tail(wire))
  BY SessionReads DEF SInv, Typed, CountInv, Clean
<1>2. CASE wire' = wire
  <2>1. ~(wire # <<>> /\ wire' = Tail(wire))
    <3>1. wire # <<>> => Len(Tail(wire)) = Len(wire) - 1 /\ Len(wire) \in Nat
      BY <1>1, TailOf
    <3>2. QED
      BY <1>2, <3>1
  <2>2. owed' = owed
    BY <2>1, CallerOwes
  <2>3. QED
    BY <1>1, <1>2, <2>2
<1>3. CASE wire # <<>> /\ wire' = Tail(wire) /\ wire' # wire
  <2>1. Cardinality(OwedOn(wire')) = IF IsOwed(Head(wire)) THEN owed - 1 ELSE owed
    BY <1>1, <1>3, OwedTail
  <2>2. CASE IsOwed(Head(wire))
    <3>1. ~CollectData
      <4>1. CollectData => pc = "execute"
        BY DEF CollectData
      <4>2. 1 \in 1 .. Len(wire) /\ Head(wire) = wire[1]
        BY <1>1, <1>3, TailOf
      <4>3. QED
        BY <2>2, <4>1, <4>2 DEF Clean
    <3>2. owed' = owed - 1
      BY <1>3, <2>2, <3>1, ReadsOwed
    <3>3. QED
      BY <2>1, <2>2, <3>2
  <2>3. CASE ~IsOwed(Head(wire))
    BY <2>1, <2>3, CallerOwes
  <2>4. QED
    BY <2>2, <2>3
<1>4. QED
  BY <1>1, <1>2, <1>3

(* The next command goes out when none is under way.                       *)
LEMMA CleanEnqueue ==
    ASSUME SInv, Clean,
           \/ ReadGreeting /\ ~UNCHANGED <<tag, client, sent>>
           \/ Authenticate \/ RefreshCapabilities \/ Execute \/ Idle
    PROVE  Clean'
<1>1. /\ Quiet /\ tag' = tag + 1 /\ pc' \in {"execute", "auth", "idle"}
      /\ UNCHANGED <<data, outcome, owed, serving, answered>>
      /\ tag \in Nat
  <2>1. Caller
    BY DEF Caller, Session
  <2>2. UNCHANGED <<serving, answered>>
    BY <2>1, SessionReads DEF server
  <2>3. UNCHANGED <<data, outcome, owed>>
    BY Zenon DEF ReadGreeting, Authenticate, RefreshCapabilities, Execute, Idle, locals, hidden
  <2>4. pc \in {"greeting", "regreet", "authenticate", "refresh", "ready"}
        /\ pc' \in {"execute", "auth", "idle"} /\ \E kind \in Kind : Enqueue(kind)
    BY DEF ReadGreeting, Authenticate, RefreshCapabilities, Execute, Idle, Goto, client, Kind
  <2>5. tag' = tag + 1
    BY <2>4 DEF Enqueue
  <2>6. tag \in Nat
    BY TypedLine DEF SInv, LineType
  <2>7. QED
    BY <2>2, <2>3, <2>4, <2>5, <2>6 DEF Quiet
<1>2. Caller
  BY DEF Caller, Session
<1>3. ~Quiet'
  BY <1>1 DEF Quiet
<1>4. wire' = wire \/ (wire # <<>> /\ wire' = Tail(wire))
  BY <1>2, SessionReads
<1>5. /\ \A i \in 1 .. Len(wire') : wire'[i].tag = 0
      /\ (\A i \in 1 .. Len(wire) : ~IsOwed(wire[i])) =>
            \A i \in 1 .. Len(wire') : ~IsOwed(wire'[i])
  BY <1>1, <1>4, CleanRest
<1>6. (1 .. tag') \ answered' \subseteq {tag'}
  <2>1. 1 .. tag \subseteq answered
    BY <1>1 DEF Clean
  <2>2. QED
    BY <1>1, <2>1
<1>7. pc' \notin {"idle", "closed"} =>
          serving' = 0 /\ \A i \in 1 .. Len(wire') : ~IsOwed(wire'[i])
  <2>1. pc \notin {"idle", "closed"}
    BY <1>1 DEF Quiet
  <2>2. QED
    BY <1>1, <1>5, <2>1 DEF Clean
<1>8. /\ data' \subseteq IF pc' \in {"execute", "closed"} THEN {tag'} ELSE {}
      /\ outcome'.data \subseteq {outcome'.tag}
  BY <1>1 DEF Clean, Quiet
<1>9. owed' = Cardinality(OwedOn(wire'))
  BY <1>2, CleanOwed
<1>10. QED
  BY <1>3, <1>5, <1>6, <1>7, <1>8, <1>9 DEF Clean

(* Between commands only their own status leads back, unless one is given  *)
(* up.                                                                     *)
LEMMA CleanMoves ==
    ASSUME SInv, abandoned' = {}, Clean, Caller, tag' = tag
    PROVE  /\ Quiet' => Quiet \/ OwnEnd
           /\ pc' \notin {"idle", "closed"} => pc \notin {"idle", "closed"} \/ OwnEnd
           /\ data' \subseteq IF pc' \in {"execute", "closed"} THEN {tag} ELSE {}
           /\ outcome'.data \subseteq {outcome'.tag}
<1> USE DEF locals, hidden
<1>1. CASE \/ TcpConnected \/ TlsConnected \/ Respond \/ AuthTimeout \/ Close
           \/ SkipStatus \/ LateAcceptance \/ IdleAccepted \/ HearData \/ IdleRejected
  <2>1. UNCHANGED <<data, outcome>>
    BY <1>1, Zenon DEF TcpConnected, TlsConnected, Respond, AuthTimeout, Close, SkipStatus,
       LateAcceptance, IdleAccepted, HearData, IdleRejected, driver
  <2>2. \/ pc' = pc \/ pc' = "closed"
        \/ Quiet /\ pc' \notin {"execute", "closed", "idle"}
    <3>1. CASE TcpConnected \/ TlsConnected
      BY <3>1 DEF TcpConnected, TlsConnected, Goto, Quiet
    <3>2. CASE Respond \/ AuthTimeout \/ Close \/ IdleRejected
      BY <3>2 DEF Respond, AuthTimeout, Close, Goto, IdleRejected, IdleFails
    <3>3. CASE SkipStatus \/ LateAcceptance \/ IdleAccepted \/ HearData
      BY <3>3 DEF SkipStatus, LateAcceptance, IdleAccepted, HearData, driver
    <3>4. QED
      BY <1>1, <3>1, <3>2, <3>3
  <2>3. QED
    BY <2>1, <2>2 DEF Clean, Quiet
<1>2. CASE ReadGreeting
  <2>1. UNCHANGED <<data, outcome>> /\ pc \in {"greeting", "regreet"}
    BY <1>2, Zenon DEF ReadGreeting
  <2>2. pc' = pc \/ pc' = "authenticate" \/ Enqueue("STARTTLS")
    BY <1>2, Zenon DEF ReadGreeting
  <2>3. Enqueue("STARTTLS") => tag' = tag + 1
    BY DEF Enqueue
  <2>4. tag \in Nat
    BY TypedLine DEF SInv, LineType
  <2>5. QED
    BY <2>1, <2>2, <2>3, <2>4 DEF Clean, Quiet
<1>3. CASE Authenticate \/ RefreshCapabilities \/ Execute \/ Idle
  <2>1. tag' = tag + 1
    BY <1>3 DEF Authenticate, RefreshCapabilities, Execute, Idle, Enqueue
  <2>2. tag \in Nat
    BY TypedLine DEF SInv, LineType
  <2>3. QED
    BY <2>1, <2>2
<1>4. CASE CollectData
  <2>1. pc = "execute" /\ pc' = "execute" /\ outcome' = outcome
        /\ data' = IF IsHead("data") THEN data \cup {Head(wire).tag} ELSE data
    BY <1>4 DEF CollectData
  <2>2. IsHead("data") => Head(wire).tag = tag
    <3>1. wire # <<>> => 1 \in 1 .. Len(wire) /\ Head(wire) = wire[1]
      BY TailOf DEF SInv, Typed
    <3>2. IsHead("data") => Head(wire).tag # 0
      BY <3>1 DEF IsHead, SInv, Typed
    <3>3. QED
      BY <3>1, <3>2 DEF IsHead, Clean
  <2>3. QED
    BY <2>1, <2>2 DEF Clean, Quiet
<1>5. CASE ReturnOutcome \/ AuthStatus
  <2>1. OwnEnd
    <3>1. CASE ReturnOutcome
      BY <3>1 DEF ReturnOutcome, IsOwnStatus, IsHead, OwnEnd
    <3>2. CASE AuthStatus
      BY <3>2 DEF AuthStatus, EndsOpen, IsHead, OwnEnd, SInv, PhaseInv
    <3>3. QED
      BY <1>5, <3>1, <3>2
  <2>2. data' = {} /\ outcome'.data \subseteq {outcome'.tag}
    <3>1. CASE ReturnOutcome
      <4>1. pc = "execute" /\ data' = {} /\ outcome' = [tag |-> tag, data |-> data]
        BY <3>1 DEF ReturnOutcome
      <4>2. QED
        BY <4>1 DEF Clean
    <3>2. CASE AuthStatus
      BY <3>2 DEF AuthStatus, Clean
    <3>3. QED
      BY <1>5, <3>1, <3>2
  <2>3. QED
    BY <2>1, <2>2
<1>6. CASE CommandTimeout
  BY <1>6 DEF CommandTimeout
<1>7. CASE IdleStatus
  <2>1. pc = "idle" /\ UNCHANGED <<data, outcome>> /\ wire # <<>> /\ wire' = Tail(wire)
        /\ Head(wire).type = "status"
    BY <1>7 DEF IdleStatus, IsHead
  <2>2. data' = {} /\ outcome'.data \subseteq {outcome'.tag}
    BY <2>1 DEF Clean
  <2>3. CASE accepted
    <3>1. doneSent /\ Head(wire).tag = tag
      BY <1>7, <2>3 DEF IdleStatus
    <3>2. OwnEnd
      BY <2>1, <3>1 DEF OwnEnd
    <3>3. QED
      BY <2>2, <3>2
  <2>4. CASE ~accepted
    <3>1. pc' = "idle"
      BY <1>7, <2>1, <2>4 DEF IdleStatus
    <3>2. QED
      BY <2>2, <3>1 DEF Quiet
  <2>5. QED
    BY <2>3, <2>4
<1>8. CASE IdleDeadline
  <2>1. pc = "idle" /\ UNCHANGED <<data, outcome>>
    BY <1>8 DEF IdleDeadline
  <2>2. pc' \in {"idle", "closed"}
    BY <1>8, <2>1 DEF IdleDeadline, IdleFails
  <2>3. QED
    BY <2>1, <2>2 DEF Clean, Quiet
<1>9. QED
  BY <1>1, <1>2, <1>3, <1>4, <1>5, <1>6, <1>7, <1>8 DEF Caller, Session

LEMMA CleanCaller ==
    ASSUME SInv, abandoned' = {}, Clean, Caller PROVE Clean'
<1>1. CASE \/ ReadGreeting /\ ~UNCHANGED <<tag, client, sent>>
           \/ Authenticate \/ RefreshCapabilities \/ Execute \/ Idle
  BY <1>1, CleanEnqueue
<1>2. CASE tag' = tag
  <2>1. /\ Quiet' => Quiet \/ OwnEnd
        /\ pc' \notin {"idle", "closed"} => pc \notin {"idle", "closed"} \/ OwnEnd
        /\ data' \subseteq IF pc' \in {"execute", "closed"} THEN {tag} ELSE {}
        /\ outcome'.data \subseteq {outcome'.tag}
    BY <1>2, CleanMoves
  <2>2. UNCHANGED <<serving, answered>> /\ (wire' = wire \/ (wire # <<>> /\ wire' = Tail(wire)))
    BY SessionReads DEF server
  <2>3. /\ \A i \in 1 .. Len(wire') : wire'[i].tag # 0 => wire'[i].tag = tag /\ ~Quiet
        /\ \A i, j \in 1 .. Len(wire') :
              i < j /\ wire'[i].type = "status" /\ wire'[i].tag # 0 => wire'[j].tag = 0
        /\ (\A i \in 1 .. Len(wire) : ~IsOwed(wire[i])) =>
              \A i \in 1 .. Len(wire') : ~IsOwed(wire'[i])
    BY <2>2, CleanRest
  <2>4. OwnEnd => /\ 1 .. tag \subseteq answered /\ serving = 0
                  /\ \A i \in 1 .. Len(wire') : wire'[i].tag = 0
    BY CleanEnd
  <2>5. \A i \in 1 .. Len(wire') : wire'[i].tag # 0 => wire'[i].tag = tag' /\ ~Quiet'
    BY <1>2, <2>1, <2>3, <2>4
  <2>6. Quiet' => 1 .. tag' \subseteq answered'
    BY <1>2, <2>1, <2>2, <2>4 DEF Clean
  <2>7. pc' \notin {"idle", "closed"} =>
            serving' = 0 /\ \A i \in 1 .. Len(wire') : ~IsOwed(wire'[i])
    <3> SUFFICES ASSUME pc' \notin {"idle", "closed"}
                 PROVE  serving' = 0 /\ \A i \in 1 .. Len(wire') : ~IsOwed(wire'[i])
      OBVIOUS
    <3>1. CASE OwnEnd
      BY <2>2, <2>4, <3>1 DEF IsOwed
    <3>2. CASE pc \notin {"idle", "closed"}
      BY <2>2, <2>3, <3>2 DEF Clean
    <3>3. QED
      BY <2>1, <3>1, <3>2
  <2>8. owed' = Cardinality(OwedOn(wire'))
    BY CleanOwed
  <2>9. (1 .. tag') \ answered' \subseteq {tag'}
    BY <1>2, <2>2 DEF Clean
  <2>10. QED
    BY <1>2, <2>1, <2>3, <2>5, <2>6, <2>7, <2>8, <2>9 DEF Clean
<1>3. \/ ReadGreeting /\ ~UNCHANGED <<tag, client, sent>>
      \/ Authenticate \/ RefreshCapabilities \/ Execute \/ Idle
      \/ tag' = tag
  BY DEF Caller, Session, TcpConnected, TlsConnected, Respond, AuthTimeout, Close, CollectData,
     ReturnOutcome, AuthStatus, CommandTimeout, SkipStatus, LateAcceptance, IdleAccepted,
     HearData, IdleStatus, IdleRejected, IdleDeadline, driver
<1>4. QED
  BY <1>1, <1>2, <1>3

(* What was given up stays given up.                                       *)
LEMMA AbandonedGrows ==
    ASSUME [Next]_vars PROVE abandoned \subseteq abandoned'
<1> USE DEF Caller, Session, hidden, others
<1>1. CASE Server
  BY <1>1 DEF Server, ServeCommand, Decide, Push, Challenge, TakeIdle, RefuseIdle, EndIdle,
     StillHere, Greet
<1>2. CASE CommandTimeout \/ IdleStatus \/ IdleDeadline
  BY <1>2 DEF CommandTimeout, IdleStatus, IdleDeadline
<1>3. CASE Caller /\ ~(CommandTimeout \/ IdleStatus \/ IdleDeadline)
  <2>1. abandoned' = abandoned
    BY <1>3, Zenon DEF TcpConnected, TlsConnected, ReadGreeting, Authenticate, Respond,
       AuthStatus, AuthTimeout, RefreshCapabilities, CollectData, ReturnOutcome, SkipStatus,
       LateAcceptance, IdleAccepted, HearData, IdleRejected, Execute, Idle, Close
  <2>2. QED
    BY <2>1
<1>4. CASE UNCHANGED vars
  BY <1>4 DEF vars
<1>5. QED
  BY <1>1, <1>2, <1>3, <1>4 DEF Next

LEMMA CleanInit == Init => CleanInv
<1> SUFFICES ASSUME Init PROVE Clean
  BY DEF CleanInv
<1>1. wire = <<>> /\ tag = 0 /\ 1 .. 0 = {} /\ Len(<<>>) = 0
  BY DEF Init
<1>2. OwedOn(wire) = {}
  BY <1>1 DEF OwedOn
<1>3. Cardinality(OwedOn(wire)) = 0
  BY <1>2, FS_EmptySet
<1>4. QED
  BY <1>1, <1>3 DEF Init, Clean, NoOutcome

LEMMA CleanNext ==
    ASSUME SInv, CleanInv, [Next]_vars PROVE CleanInv'
<1> SUFFICES ASSUME abandoned' = {} PROVE Clean'
  BY DEF CleanInv
<1>1. abandoned = {} /\ Clean
  BY AbandonedGrows DEF CleanInv
<1>2. CASE Server
  BY <1>1, <1>2, CleanServer
<1>3. CASE Caller
  BY <1>1, <1>3, CleanCaller
<1>4. CASE UNCHANGED vars
  BY <1>1, <1>4 DEF vars, driver, server, Clean, Quiet, OwedOn
<1>5. QED
  BY <1>2, <1>3, <1>4 DEF Next, Caller

LEMMA SessionInv == Spec => [](SInv /\ CleanInv)
<1>1. SInv /\ [Next]_vars => SInv'
  BY SInvNext
<1>2. SInv /\ CleanInv /\ [Next]_vars => CleanInv'
  BY CleanNext
<1>3. QED
  BY <1>1, <1>2, SInvInit, CleanInit, PTL DEF Spec

(* "Commands execute strictly sequentially" (session.rs): until execute()  *)
(* times out, or an idle() returns before its own status, the server owes  *)
(* the session one status at most (ImapSession.SingleFlight).              *)
THEOREM SingleFlightHolds == Spec => []SingleFlight
<1>1. SInv /\ CleanInv => SingleFlight
  <2> SUFFICES ASSUME SInv, Clean PROVE Cardinality((1 .. tag) \ answered) <= 1
    BY DEF CleanInv, SingleFlight
  <2>1. (1 .. tag) \ answered = {} \/ (1 .. tag) \ answered = {tag}
    BY DEF Clean
  <2>2. Cardinality({}) = 0 /\ Cardinality({tag}) = 1
    BY FS_EmptySet, FS_Singleton
  <2>3. QED
    BY <2>1, <2>2
<1>2. QED
  BY <1>1, SessionInv, PTL

(* "Single-flight correlation keeps response attribution unambiguous"      *)
(* (session.rs): until an operation is given up, the data that execute()   *)
(* returns are those of its own command (ImapSession.Attributed).          *)
THEOREM AttributedHolds == Spec => []Attributed
<1>1. CleanInv => Attributed
  BY DEF CleanInv, Clean, Attributed
<1>2. QED
  BY <1>1, SessionInv, PTL

(* idle() "returns collected unsolicited data" (session.rs): when it ended *)
(* with its own status it has returned every push the server sent during   *)
(* the IDLE: none is left on its way, to be dropped by the next execute()  *)
(* (ImapSession.PushesReturned).                                           *)
THEOREM PushesReturnedHolds == Spec => []PushesReturned
<1>1. CleanInv => PushesReturned
  <2> SUFFICES ASSUME Clean, pc = "ready" PROVE owed = 0
    BY DEF CleanInv, PushesReturned
  <2>1. OwedOn(wire) = {}
    BY DEF Clean, OwedOn
  <2>2. QED
    BY <2>1, FS_EmptySet DEF Clean
<1>2. QED
  BY <1>1, SessionInv, PTL

===============================================================================
