-------------------------- MODULE ImapSessionProofs ---------------------------
(***************************************************************************)
(* Theorems about the session (ImapSession), for any number of commands,   *)
(* pushes and stray statuses: what execute() returns has been answered,    *)
(* and the inductive invariant of all that is on its way between the       *)
(* session, its client and the server, from which its types follow.        *)
(***************************************************************************)
EXTENDS ImapSession, WellFoundedInduction, FiniteSetTheorems, TLAPS

-------------------------------------------------------------------------------
\* What is on its way.

Message == [tag: Nat, kind: Kind \cup {"DONE", "answer"}]
ReplyOf == [type: {"data", "status", "plus", "push", "greeting"}, tag: Nat, ok: BOOLEAN]

WireType == wire \in Seq(ReplyOf) /\ sent \in Seq(Message) /\ serving \in Nat

ClientType == tag \in Nat /\ open \in Nat /\ queued \in Seq(Message)

QueueType == WireType /\ ClientType

(* A set of numbers has a least member.                                    *)
LEMMA HasLeast ==
    ASSUME NEW S \in SUBSET Nat, S # {}
    PROVE  \E x \in S : \A y \in S : x <= y
<1> DEFINE R == OpToRel(<, Nat)
<1>1. IsWellFoundedOn(R, Nat)
  BY NatLessThanWellFounded
<1>2. \A x, y \in Nat : y < x => <<y, x>> \in R
  BY DEF OpToRel
<1>3. \E x \in S : \A y \in S : ~(<<y, x>> \in R)
  <2> HIDE DEF R
  <2> QED
    BY <1>1, WFMin
<1> HIDE DEF R
<1>4. PICK x \in S : \A y \in S : ~(<<y, x>> \in R)
  BY <1>3
<1>5. ASSUME NEW y \in S PROVE x <= y
  <2>1. x \in Nat /\ y \in Nat
    OBVIOUS
  <2>2. ~(y < x)
    BY <1>2, <1>4, <2>1
  <2>3. QED
    BY <2>1, <2>2
<1>6. QED
  BY <1>5

(* Up to where the commands held back are sent.                            *)
LEMMA ReleasedType ==
    ASSUME QueueType, NEW first \in Seq(Message), Release(first)
    PROVE  sent' \in Seq(Message) /\ queued' \in Seq(Message) /\ open' \in Nat
<1> DEFINE n == IF Idles(queued) = {} THEN Len(queued)
                ELSE CHOOSE i \in Idles(queued) : \A j \in Idles(queued) : i <= j
<1>1. /\ sent' = sent \o first \o SubSeq(queued, 1, n)
      /\ queued' = SubSeq(queued, n + 1, Len(queued))
      /\ open' = IF Idles(queued) = {} THEN 0 ELSE queued[n].tag
  BY DEF Release
<1>2. /\ queued \in Seq(Message) /\ sent \in Seq(Message) /\ Len(queued) \in Nat
      /\ Idles(queued) \subseteq 1 .. Len(queued)
  BY DEF QueueType, WireType, ClientType, Idles
<1>3. n \in 0 .. Len(queued) /\ (Idles(queued) # {} => n \in 1 .. Len(queued))
  <2>1. CASE Idles(queued) = {}
    BY <1>2, <2>1
  <2>2. CASE Idles(queued) # {}
    <3>1. \E i \in Idles(queued) : \A j \in Idles(queued) : i <= j
      <4>1. Idles(queued) \in SUBSET Nat
        BY <1>2
      <4>2. QED
        BY <2>2, <4>1, HasLeast
    <3>2. n \in Idles(queued)
      BY <2>2, <3>1
    <3> HIDE DEF n
    <3>3. QED
      BY <1>2, <3>2
  <2>3. QED
    BY <2>1, <2>2
<1> HIDE DEF n
<1>4. SubSeq(queued, 1, n) \in Seq(Message) /\ queued' \in Seq(Message)
  BY <1>1, <1>2, <1>3
<1>5. open' \in Nat
  <2>1. \A i \in 1 .. Len(queued) : queued[i] \in Message
    BY <1>2
  <2>2. \A i \in 1 .. Len(queued) : queued[i].tag \in Nat
    BY <2>1 DEF Message
  <2>3. QED
    BY <1>1, <1>3, <2>2
<1>6. QED
  BY <1>1, <1>2, <1>4, <1>5

LEMMA EnqueuedType ==
    ASSUME QueueType, NEW kind \in Kind, Enqueue(kind)
    PROVE  sent' \in Seq(Message) /\ ClientType'
<1> DEFINE c == [tag |-> tag + 1, kind |-> kind]
<1>1. c \in Message /\ tag' \in Nat /\ tag + 1 \in Nat
  BY DEF Enqueue, QueueType, ClientType, Message
<1>2. CASE open # 0
  <2>1. sent' = sent /\ open' = open /\ queued' = Append(queued, c)
    BY <1>2 DEF Enqueue
  <2> HIDE DEF c
  <2>2. QED
    BY <1>1, <2>1 DEF QueueType, ClientType, WireType
<1>3. CASE open = 0
  <2>1. sent' = Append(sent, c) /\ open' \in {0, tag + 1} /\ queued' = queued
    BY <1>3 DEF Enqueue
  <2> HIDE DEF c
  <2>2. QED
    BY <1>1, <2>1 DEF QueueType, ClientType, WireType
<1>4. QED
  BY <1>2, <1>3

-------------------------------------------------------------------------------
\* Every status that arrives is one that the server has sent.

StatusesIn(w, tags) ==
    \A i \in 1 .. Len(w) : w[i].type = "status" /\ w[i].tag # 0 => w[i].tag \in tags

StatusInv == StatusesIn(wire, answered) /\ OutcomeAnswered

Inv == QueueType /\ StatusInv

LEMMA MoreReplies ==
    ASSUME NEW w \in Seq(ReplyOf), NEW r \in Seq(ReplyOf), NEW old, NEW new,
           old \subseteq new, StatusesIn(w, old), StatusesIn(r, new)
    PROVE  w \o r \in Seq(ReplyOf) /\ StatusesIn(w \o r, new)
<1>1. ASSUME NEW i \in 1 .. Len(w \o r)
      PROVE  \/ i \in 1 .. Len(w) /\ (w \o r)[i] = w[i]
             \/ i - Len(w) \in 1 .. Len(r) /\ (w \o r)[i] = r[i - Len(w)]
  OBVIOUS
<1>2. QED
  BY <1>1 DEF StatusesIn

LEMMA OneReply ==
    ASSUME NEW x \in ReplyOf, NEW tags, x.type = "status" /\ x.tag # 0 => x.tag \in tags
    PROVE  <<x>> \in Seq(ReplyOf) /\ StatusesIn(<<x>>, tags)
BY DEF StatusesIn

LEMMA TwoReplies ==
    ASSUME NEW x \in ReplyOf, NEW y \in ReplyOf, NEW tags, x.type # "status", y.tag \in tags
    PROVE  <<x, y>> \in Seq(ReplyOf) /\ StatusesIn(<<x, y>>, tags)
BY DEF StatusesIn

LEMMA ReplyType ==
    ASSUME NEW type \in {"data", "status", "plus", "push", "greeting"}, NEW t \in Nat,
           NEW ok \in BOOLEAN
    PROVE  /\ Reply(type, t, ok) \in ReplyOf
           /\ Reply(type, t, ok).type = type /\ Reply(type, t, ok).tag = t
BY DEF Reply, ReplyOf

(* What the session reads off the wire leaves statuses the server has sent.*)
LEMMA RestOfWire ==
    ASSUME Inv, wire # <<>>
    PROVE  Tail(wire) \in Seq(ReplyOf) /\ StatusesIn(Tail(wire), answered)
<1>1. wire \in Seq(ReplyOf) /\ Len(wire) \in Nat /\ Len(wire) > 0
  BY DEF Inv, QueueType, WireType
<1>2. \A i \in 1 .. Len(Tail(wire)) : i + 1 \in 1 .. Len(wire) /\ Tail(wire)[i] = wire[i + 1]
  BY <1>1
<1>3. QED
  BY <1>1, <1>2 DEF Inv, StatusInv, StatusesIn

(* Every action of the server sends replies after those on the wire, and   *)
(* counts the tag of a status as answered.                                 *)
LEMMA ServerReplies ==
    ASSUME Inv, Server
    PROVE  \E r \in Seq(ReplyOf) :
               /\ wire' = wire \o r /\ StatusesIn(r, answered')
               /\ answered \subseteq answered' /\ UNCHANGED <<driver, client, outcome>>
               /\ sent' \in Seq(Message) /\ serving' \in Nat
<1> USE DEF others, server, Answer, Status
<1>1. /\ serving \in Nat /\ sent \in Seq(Message) /\ wire \in Seq(ReplyOf)
      /\ sent # <<>> => Head(sent).tag \in Nat /\ Tail(sent) \in Seq(Message)
  <2>1. sent \in Seq(Message) /\ (sent # <<>> => Head(sent) \in Message)
    BY DEF Inv, QueueType, WireType
  <2>2. QED
    BY <2>1 DEF Inv, QueueType, WireType, Message
<1>2. ASSUME NEW ok \in BOOLEAN, ServeCommand(ok)
      PROVE  \E r \in Seq(ReplyOf) :
                 wire' = wire \o r /\ StatusesIn(r, answered') /\ answered \subseteq answered'
  <2> DEFINE t == Head(sent).tag
  <2>1. /\ t \in Nat /\ t \in answered' /\ answered \subseteq answered'
        /\ wire' = wire \o IF ok THEN <<Reply("data", t, TRUE), Reply("status", t, TRUE)>>
                           ELSE <<Reply("status", t, FALSE)>>
    BY <1>1, <1>2 DEF ServeCommand
  <2> HIDE DEF t
  <2>2. CASE ok
    <3> DEFINE x == Reply("data", t, TRUE)
               y == Reply("status", t, TRUE)
    <3>1. x \in ReplyOf /\ x.type # "status" /\ y \in ReplyOf /\ y.tag \in answered'
      BY <2>1, ReplyType
    <3>2. wire' = wire \o <<x, y>>
      BY <2>1, <2>2
    <3> HIDE DEF x, y
    <3>3. QED
      BY <2>1, <3>1, <3>2, TwoReplies
  <2>3. CASE ~ok
    <3> DEFINE x == Reply("status", t, FALSE)
    <3>1. x \in ReplyOf /\ x.tag \in answered'
      BY <2>1, ReplyType
    <3>2. wire' = wire \o <<x>>
      BY <2>1, <2>3
    <3> HIDE DEF x
    <3>3. QED
      BY <2>1, <3>1, <3>2, OneReply
  <2>4. QED
    BY <2>2, <2>3
<1>3. ASSUME \/ \E ok \in BOOLEAN : Decide(ok) \/ Push(ok)
             \/ Challenge \/ TakeIdle \/ RefuseIdle \/ EndIdle \/ StillHere \/ Greet
      PROVE  \E x \in ReplyOf :
                 /\ wire' = wire \o <<x>> \/ wire' = Append(wire, x)
                 /\ answered \subseteq answered'
                 /\ x.type = "status" /\ x.tag # 0 => x.tag \in answered'
  <2>1. CASE Challenge \/ TakeIdle
    <3>1. /\ wire' = wire \o <<Reply("plus", Head(sent).tag, TRUE)>> /\ answered' = answered
          /\ Head(sent).tag \in Nat
      BY <1>1, <2>1 DEF Challenge, TakeIdle
    <3>2. QED
      BY <3>1, ReplyType
  <2>2. ASSUME NEW ok \in BOOLEAN, Decide(ok) \/ (RefuseIdle /\ ~ok) \/ (EndIdle /\ ok)
        PROVE  \E x \in ReplyOf :
                   /\ wire' = wire \o <<x>> /\ answered \subseteq answered'
                   /\ x.type = "status" /\ x.tag # 0 => x.tag \in answered'
    <3>1. PICK t \in Nat : wire' = wire \o <<Reply("status", t, ok)>>
                           /\ answered' = answered \cup {t}
      BY <1>1, <2>2 DEF Decide, RefuseIdle, EndIdle
    <3> DEFINE x == Reply("status", t, ok)
    <3>2. x \in ReplyOf /\ x.tag = t
      BY ReplyType
    <3> HIDE DEF x
    <3>3. QED
      BY <3>1, <3>2 DEF x
  <2>3. CASE (\E ok \in BOOLEAN : Push(ok)) \/ StillHere \/ Greet
    <3>1. PICK type \in {"push", "status", "greeting"}, t \in Nat, ok \in BOOLEAN :
              /\ wire' = Append(wire, Reply(type, t, ok)) /\ answered' = answered
              /\ type = "status" => t = 0
      BY <1>1, <2>3 DEF Push, StillHere, Greet
    <3> DEFINE x == Reply(type, t, ok)
    <3>2. x \in ReplyOf /\ x.tag = t /\ x.type = type
      BY ReplyType
    <3> HIDE DEF x
    <3>3. QED
      BY <3>1, <3>2 DEF x
  <2>4. CASE (\E ok \in BOOLEAN : Decide(ok)) \/ RefuseIdle \/ EndIdle
    <3>1. PICK ok \in BOOLEAN : Decide(ok) \/ (RefuseIdle /\ ~ok) \/ (EndIdle /\ ok)
      BY <2>4
    <3>2. QED
      BY <2>2, <3>1
  <2>5. QED
    BY <1>3, <2>1, <2>3, <2>4
<1>4. UNCHANGED <<driver, client, outcome>>
  BY Zenon DEF Server, ServeCommand, Decide, Push, Challenge, TakeIdle, RefuseIdle,
     EndIdle, StillHere, Greet
<1>5. sent' \in Seq(Message) /\ serving' \in Nat
  <2>1. sent' = sent \/ (sent # <<>> /\ sent' = Tail(sent))
    BY Zenon DEF Server, ServeCommand, Decide, Push, Challenge, TakeIdle, RefuseIdle,
       EndIdle, StillHere, Greet
  <2>2. serving' \in {serving, 0} \/ (sent # <<>> /\ serving' = Head(sent).tag)
    BY Zenon DEF Server, ServeCommand, Decide, Push, Challenge, TakeIdle, RefuseIdle,
       EndIdle, StillHere, Greet
  <2>3. QED
    BY <1>1, <2>1, <2>2
<1>6. \E r \in Seq(ReplyOf) :
          wire' = wire \o r /\ StatusesIn(r, answered') /\ answered \subseteq answered'
  <2>1. CASE \E ok \in BOOLEAN : ServeCommand(ok)
    BY <1>2, <2>1
  <2>2. CASE ~ \E ok \in BOOLEAN : ServeCommand(ok)
    <3>1. PICK x \in ReplyOf :
              /\ wire' = wire \o <<x>> \/ wire' = Append(wire, x)
              /\ answered \subseteq answered'
              /\ x.type = "status" /\ x.tag # 0 => x.tag \in answered'
      BY <1>3, <2>2 DEF Server
    <3>2. Append(wire, x) = wire \o <<x>>
      BY <1>1
    <3>3. QED
      BY <3>1, <3>2, OneReply
  <2>3. QED
    BY <2>1, <2>2
<1>7. QED
  BY <1>4, <1>5, <1>6

Caller == Session \/ Execute \/ Idle \/ Close

(* The session takes one reply off the wire at a time, and an outcome only *)
(* from a status that carries the tag it waits for (execute).              *)
LEMMA SessionReads ==
    ASSUME Caller
    PROVE  /\ UNCHANGED server
           /\ wire' = wire \/ (wire # <<>> /\ wire' = Tail(wire))
           /\ \/ outcome' = outcome
              \/ /\ wire # <<>> /\ Head(wire).type = "status" /\ Head(wire).tag = tag
                 /\ outcome'.tag = tag
<1> USE DEF Caller, Session, IsHead, hidden
<1>1. CASE ReturnOutcome
  <2>1. /\ wire # <<>> /\ Head(wire).type = "status" /\ Head(wire).tag = tag
        /\ outcome' = [tag |-> tag, data |-> data] /\ wire' = Tail(wire) /\ UNCHANGED server
    BY <1>1, Zenon DEF ReturnOutcome, IsOwnStatus
  <2>2. QED
    BY <2>1
<1>2. CASE \/ TcpConnected \/ TlsConnected \/ Authenticate \/ AuthTimeout
           \/ RefreshCapabilities \/ CommandTimeout \/ IdleDeadline \/ Execute \/ Idle \/ Close
  BY <1>2, Zenon DEF TcpConnected, TlsConnected, Authenticate, AuthTimeout,
     RefreshCapabilities, CommandTimeout, IdleDeadline, Execute, Idle, Close, server
<1>3. CASE \/ ReadGreeting \/ Respond \/ AuthStatus \/ CollectData \/ SkipStatus
           \/ LateAcceptance \/ IdleAccepted \/ HearData \/ IdleStatus \/ IdleRejected
  BY <1>3, Zenon DEF ReadGreeting, Respond, AuthStatus, CollectData, SkipStatus,
     LateAcceptance, IdleAccepted, HearData, IdleStatus, IdleRejected, EndsOpen, server
<1>4. QED
  BY <1>1, <1>2, <1>3

(* It keeps what it sends and holds back well formed.                      *)
LEMMA CallerType ==
    ASSUME QueueType, Caller PROVE sent' \in Seq(Message) /\ ClientType'
<1> USE DEF Caller, Session, client, driver, hidden
<1>1. QueueType => sent \in Seq(Message) /\ ClientType
  BY DEF QueueType, WireType
<1>2. CASE UNCHANGED <<tag, client, sent>>
  BY <1>1, <1>2 DEF ClientType
<1>3. CASE \E kind \in Kind : Enqueue(kind)
  BY <1>3, EnqueuedType
<1>4. CASE tag' = tag /\ \E first \in Seq(Message) : Release(first)
  BY <1>1, <1>4, ReleasedType DEF ClientType
<1>5. CASE /\ tag' = tag /\ queued' = queued
           /\ open' \in {open, 0} /\ sent' = sent
  BY <1>1, <1>5 DEF ClientType
<1>6. CASE Respond
  <2>1. sent' = sent \/ sent' = Append(sent, [tag |-> open, kind |-> "answer"])
    BY <1>6 DEF Respond
  <2>2. [tag |-> open, kind |-> "answer"] \in Message
    BY <1>1 DEF ClientType, Message
  <2>3. UNCHANGED <<tag, client>>
    BY <1>6 DEF Respond
  <2>4. QED
    BY <1>1, <2>1, <2>2, <2>3 DEF ClientType
<1>7. CASE \/ TcpConnected \/ TlsConnected \/ AuthTimeout \/ CollectData \/ ReturnOutcome
           \/ CommandTimeout \/ IdleStatus \/ Close
  BY <1>2, <1>7, Zenon DEF TcpConnected, TlsConnected, AuthTimeout, CollectData,
     ReturnOutcome, CommandTimeout, IdleStatus, Close
<1>8. CASE AuthStatus \/ LateAcceptance \/ IdleAccepted
  BY <1>5, <1>8 DEF AuthStatus, LateAcceptance, IdleAccepted
<1>9. CASE ReadGreeting \/ Authenticate \/ RefreshCapabilities \/ Execute \/ Idle
  BY <1>2, <1>3, <1>9 DEF ReadGreeting, Authenticate, RefreshCapabilities, Execute, Idle, Kind
<1>10. SetIdleDone => \E first \in Seq(Message) : Release(first)
  <2>1. <<[tag |-> open, kind |-> "DONE"]>> \in Seq(Message)
    <3>1. [tag |-> open, kind |-> "DONE"] \in Message
      BY <1>1 DEF ClientType, Message
    <3>2. QED
      BY <3>1
  <2>2. QED
    BY <2>1, Zenon DEF SetIdleDone
<1>11. Release(<<>>) => \E first \in Seq(Message) : Release(first)
  <2>1. <<>> \in Seq(Message)
    OBVIOUS
  <2>2. QED
    BY <2>1, Zenon
<1>12. CASE SkipStatus \/ HearData \/ IdleRejected \/ IdleDeadline
  BY <1>2, <1>4, <1>10, <1>11, <1>12, Zenon
     DEF SkipStatus, HearData, IdleRejected, IdleDeadline
<1>13. QED
  BY <1>6, <1>7, <1>8, <1>9, <1>12

LEMMA InvInit == Init => Inv
BY DEF Init, Inv, QueueType, WireType, ClientType, StatusInv, StatusesIn, OutcomeAnswered,
   NoOutcome

LEMMA InvServer ==
    ASSUME Inv, Server PROVE Inv'
<1>1. PICK r \in Seq(ReplyOf) :
          /\ wire' = wire \o r /\ StatusesIn(r, answered')
          /\ answered \subseteq answered' /\ UNCHANGED <<driver, client, outcome>>
          /\ sent' \in Seq(Message) /\ serving' \in Nat
  BY ServerReplies
<1>2. wire' \in Seq(ReplyOf) /\ StatusesIn(wire', answered')
  BY <1>1, MoreReplies DEF Inv, QueueType, WireType, StatusInv
<1>3. QueueType'
  BY <1>1, <1>2 DEF Inv, QueueType, WireType, ClientType, driver, client
<1>4. StatusInv'
  BY <1>1, <1>2 DEF Inv, StatusInv, StatusesIn, OutcomeAnswered
<1>5. QED
  BY <1>3, <1>4 DEF Inv

LEMMA InvCaller ==
    ASSUME Inv, Caller PROVE Inv'
<1>1. sent' \in Seq(Message) /\ ClientType'
  BY CallerType DEF Inv
<1>2. /\ UNCHANGED <<serving, answered>>
      /\ wire' = wire \/ (wire # <<>> /\ wire' = Tail(wire))
  BY SessionReads DEF server
<1>3. wire' \in Seq(ReplyOf) /\ StatusesIn(wire', answered')
  BY <1>2, RestOfWire DEF Inv, QueueType, WireType, StatusInv
<1>4. OutcomeAnswered'
  <2>1. CASE outcome' = outcome
    BY <1>2, <2>1 DEF Inv, StatusInv, OutcomeAnswered
  <2>2. CASE /\ wire # <<>> /\ Head(wire).type = "status" /\ Head(wire).tag = tag
             /\ outcome'.tag = tag
    <3>1. wire[1] = Head(wire) /\ 1 \in 1 .. Len(wire)
      BY <2>2 DEF Inv, QueueType, WireType
    <3>2. tag # 0 => tag \in answered
      BY <2>2, <3>1 DEF Inv, StatusInv, StatusesIn
    <3>3. QED
      BY <1>2, <2>2, <3>2 DEF OutcomeAnswered
  <2>3. QED
    BY <2>1, <2>2, SessionReads
<1>5. QED
  BY <1>1, <1>2, <1>3, <1>4 DEF Inv, QueueType, WireType, StatusInv, StatusesIn

(* What execute returns Ok for, the server has answered (execute), however *)
(* many commands and IDLEs were given up before and whatever came late.    *)
THEOREM OutcomeAnsweredHolds == Spec => []OutcomeAnswered
<1>1. Inv /\ UNCHANGED vars => Inv'
  BY DEF Inv, QueueType, WireType, ClientType, StatusInv, StatusesIn, OutcomeAnswered, vars,
     driver, client, server
<1>2. Inv /\ [Next]_vars => Inv'
  BY <1>1, InvServer, InvCaller DEF Next, Caller
<1>3. Inv => OutcomeAnswered
  BY DEF Inv, StatusInv
<1>4. QED
  BY <1>2, <1>3, InvInit, PTL DEF Spec

-------------------------------------------------------------------------------
\* The inductive invariant: what is on its way, in which order, and what the
\* client has open.

(* What opens an exchange that holds later commands back.                  *)
Opening == {"IDLE", "AUTHENTICATE", "answer"}

PlusComes == \E i \in 1 .. Len(wire) : wire[i].type = "plus"

OnePlus ==
    \A i, j \in 1 .. Len(wire) : wire[i].type = "plus" /\ wire[j].type = "plus" => i = j

(* The type invariant, but for the count of the pushes owed.               *)
Typed ==
    /\ security \in Securities /\ offered \in BOOLEAN
    /\ pc \in Steps /\ job \in Kind /\ tag \in 0 .. MaxTag
    /\ data \in SUBSET (1 .. MaxTag)
    /\ accepted \in BOOLEAN /\ doneSent \in BOOLEAN
    /\ heard \in BOOLEAN
    /\ queued \in Seq(Command) /\ open \in 0 .. MaxTag /\ taken \in BOOLEAN
    /\ sent \in Seq(Command)
    /\ wire \in Seq(ReplyOf)
    /\ \A i \in 1 .. Len(wire) :
          wire[i].tag <= MaxTag /\ (wire[i].type = "data" => wire[i].tag # 0)
    /\ serving \in 0 .. MaxTag
    /\ greeted \in BOOLEAN /\ pushes \in 0 .. MaxPushes /\ strays \in 0 .. MaxStrays
    /\ answered \in SUBSET (1 .. MaxTag)
    /\ outcome \in [tag: 0 .. MaxTag, data: SUBSET (1 .. MaxTag)]
    /\ abandoned \in SUBSET {"late", "open"}
    /\ (doneSent => accepted)

(* The pushes that idle() has still to return are counted in owed.         *)
IsOwed(x) == x.type = "push" /\ x.ok /\ x.tag # 0

OwedOn(w) == {i \in 1 .. Len(w) : IsOwed(w[i])}

CountInv ==
    owed \in Nat /\ owed <= pushes /\ Cardinality(OwedOn(wire)) <= owed

(* Commands are sent, held back and answered in the order of their tags.   *)
InOrder ==
    /\ \A i, j \in 1 .. Len(sent) :
          i < j /\ sent[i].kind # "DONE" /\ sent[j].kind # "DONE"
          => sent[i].tag < sent[j].tag
    /\ \A i, j \in 1 .. Len(queued) : i < j => queued[i].tag < queued[j].tag
    /\ \A i \in 1 .. Len(sent), j \in 1 .. Len(queued) :
          sent[i].kind # "DONE" => sent[i].tag < queued[j].tag
    /\ open = 0 => queued = <<>>

(* The server has answered none of them, and no later tag than the last.   *)
Unanswered ==
    /\ \A i \in 1 .. Len(sent) :
          sent[i].kind # "DONE" =>
          sent[i].tag <= tag /\ sent[i].tag \notin answered /\ serving < sent[i].tag
    /\ \A j \in 1 .. Len(queued) :
          /\ queued[j].kind \in {"command", "IDLE"}
          /\ queued[j].tag <= tag /\ queued[j].tag \notin answered
          /\ serving < queued[j].tag /\ open < queued[j].tag
    /\ open <= tag /\ serving <= tag /\ serving \notin answered /\ answered \subseteq 1 .. tag

(* The server knows of what the client has open by one message: the        *)
(* command, or its "+", or DONE, or it serves the IDLE.                    *)
OneOpen ==
    /\ \A i \in 1 .. Len(sent) :
          sent[i].kind \in Opening =>
          sent[i].tag = open /\ ~taken /\ open \notin answered /\ ~PlusComes
    /\ \A i \in 1 .. Len(sent) :
          sent[i].kind \notin Opening \cup {"DONE"} => sent[i].tag # open
    /\ PlusComes => open # 0 /\ ~taken /\ open \notin answered
    /\ OnePlus
    /\ \A i \in 1 .. Len(sent) : sent[i].kind = "DONE" => serving # 0 /\ serving # open
    /\ \A i, j \in 1 .. Len(sent) : sent[i].kind = "DONE" /\ sent[j].kind = "DONE" => i = j
    /\ open # 0 /\ taken => serving = open

LineInv == InOrder /\ Unanswered /\ OneOpen

Connecting ==
    \/ pc \in {"tcp", "tls", "greeting", "upgrade", "regreet", "authenticate", "refresh"}
    \/ pc = "execute" /\ job # "command"

(* How far the session is and what the client has open.                    *)
PhaseInv ==
    /\ Connecting \/ pc = "auth" =>
          abandoned = {} /\ ~heard /\ queued = <<>> /\ serving = 0
    /\ Connecting => open = 0
    /\ pc = "auth" => open = tag
    /\ pc \notin {"idle", "closed"} => ~accepted /\ ~doneSent
    /\ \A i \in 1 .. Len(sent) :
          /\ sent[i].kind \in {"AUTHENTICATE", "answer"} => pc \in {"auth", "closed"}
          /\ sent[i].kind = "IDLE" => pc # "auth"
    /\ PlusComes /\ pc \notin {"auth", "closed"} => serving = open
    /\ accepted /\ ~doneSent => open # 0 /\ taken
    /\ pc = "execute" /\ open # 0 =>
          \E j \in 1 .. Len(queued) : queued[j] = [tag |-> tag, kind |-> "command"]

(* Something is open before a new command, or outlives its idle(), only    *)
(* when an idle() returned without DONE.                                   *)
LeftOpenInv ==
    /\ queued # <<>> => "open" \in abandoned
    /\ open # 0 /\ pc \in {"ready", "execute"} => "open" \in abandoned
    /\ pc = "idle" /\ open # 0 /\ taken /\ ~accepted => "open" \in abandoned
    /\ pc = "idle" /\ open # 0 /\ doneSent => "open" \in abandoned

-------------------------------------------------------------------------------
\* What a step does to the queues.

LineType ==
    /\ sent \in Seq(Command) /\ queued \in Seq(Command) /\ Len(sent) \in Nat
    /\ Len(queued) \in Nat /\ serving \in Nat /\ open \in Nat /\ tag \in Nat
    /\ \A i \in 1 .. Len(sent) : sent[i].tag \in Nat /\ sent[i].tag # 0
    /\ \A i \in 1 .. Len(queued) : queued[i].tag \in Nat /\ queued[i].tag # 0

LEMMA TypedLine ==
    ASSUME Typed PROVE LineType
<1>1. MaxTag \in Nat
  BY SessionAssumption
<1>2. /\ \A i \in 1 .. Len(sent) : sent[i] \in Command
      /\ \A i \in 1 .. Len(queued) : queued[i] \in Command
  BY DEF Typed
<1>3. QED
  BY <1>1, <1>2 DEF Typed, Command, LineType

LEMMA TailOf ==
    ASSUME NEW S, NEW s \in Seq(S), s # <<>>
    PROVE  /\ Tail(s) \in Seq(S) /\ Len(Tail(s)) = Len(s) - 1 /\ Len(s) \in Nat \ {0}
           /\ 1 \in 1 .. Len(s) /\ Head(s) = s[1] /\ s[1] \in S
           /\ \A i \in 1 .. Len(Tail(s)) : i + 1 \in 1 .. Len(s) /\ Tail(s)[i] = s[i + 1]
OBVIOUS

LEMMA AppendOf ==
    ASSUME NEW S, NEW s \in Seq(S), NEW x \in S
    PROVE  /\ Append(s, x) \in Seq(S) /\ Len(Append(s, x)) = Len(s) + 1 /\ Len(s) \in Nat
           /\ Append(s, x) = s \o <<x>>
           /\ Append(s, x)[Len(s) + 1] = x
           /\ \A i \in 1 .. Len(s) : Append(s, x)[i] = s[i]
           /\ \A i \in 1 .. Len(s) + 1 : i \in 1 .. Len(s) \/ i = Len(s) + 1
OBVIOUS

(* Replies without a "+" leave the one that is on its way.                 *)
LEMMA NoOtherPlus ==
    ASSUME wire \in Seq(ReplyOf), NEW r \in Seq(ReplyOf), wire' = wire \o r,
           \A i \in 1 .. Len(r) : r[i].type # "plus"
    PROVE  (PlusComes' => PlusComes) /\ (OnePlus => OnePlus')
<1>1. \A i \in 1 .. Len(wire') :
          \/ i \in 1 .. Len(wire) /\ wire'[i] = wire[i]
          \/ i - Len(wire) \in 1 .. Len(r) /\ wire'[i] = r[i - Len(wire)]
  OBVIOUS
<1>2. \A i \in 1 .. Len(wire') :
          wire'[i].type = "plus" => i \in 1 .. Len(wire) /\ wire'[i] = wire[i]
  BY <1>1
<1>3. QED
  BY <1>2 DEF PlusComes, OnePlus

(* A "+" is sent when none is on its way.                                  *)
LEMMA FirstPlus ==
    ASSUME wire \in Seq(ReplyOf), NEW x \in ReplyOf, wire' = wire \o <<x>>, ~PlusComes
    PROVE  OnePlus'
<1>1. \A i \in 1 .. Len(wire') :
          \/ i \in 1 .. Len(wire) /\ wire'[i] = wire[i]
          \/ i = Len(wire) + 1
  OBVIOUS
<1>2. \A i \in 1 .. Len(wire') : wire'[i].type = "plus" => i = Len(wire) + 1
  BY <1>1 DEF PlusComes
<1>3. QED
  BY <1>2 DEF OnePlus

(* The session reads the "+" that is on its way.                           *)
LEMMA ReadPlus ==
    ASSUME wire \in Seq(ReplyOf), wire # <<>>, wire' = Tail(wire)
    PROVE  /\ PlusComes' => PlusComes
           /\ OnePlus => OnePlus'
           /\ OnePlus /\ Head(wire).type = "plus" => PlusComes /\ ~PlusComes'
<1>1. /\ Len(wire) \in Nat \ {0} /\ 1 \in 1 .. Len(wire) /\ Head(wire) = wire[1]
      /\ Len(wire') = Len(wire) - 1
      /\ \A i \in 1 .. Len(wire') : i + 1 \in 1 .. Len(wire) /\ wire'[i] = wire[i + 1]
  BY TailOf
<1>2. PlusComes' => PlusComes
  BY <1>1 DEF PlusComes
<1>3. OnePlus => OnePlus'
  BY <1>1 DEF OnePlus
<1>4. OnePlus /\ Head(wire).type = "plus" => PlusComes /\ ~PlusComes'
  BY <1>1 DEF PlusComes, OnePlus
<1>5. QED
  BY <1>2, <1>3, <1>4

-------------------------------------------------------------------------------
\* The server keeps the order.

(* What the server answers, and whom it serves after it.                   *)
Answers(t) ==
    /\ answered' = answered \cup {t} /\ serving' = serving
    /\ t = Head(sent).tag /\ Head(sent).kind # "DONE" /\ sent # <<>> /\ sent' = Tail(sent)

(* It answers a command other than the one the client has open, or that    *)
(* one, sends a "+" for the latter, or ends the IDLE it serves.            *)
LEMMA ServerLine ==
    ASSUME Typed, Server
    PROVE  /\ UNCHANGED others
           /\ \/ /\ \E t \in 1 .. MaxTag : Answers(t)
                 /\ (PlusComes' => PlusComes) /\ (OnePlus => OnePlus')
              \/ /\ sent # <<>> /\ Head(sent).kind \in {"AUTHENTICATE", "IDLE"} /\ sent' = Tail(sent)
                 /\ answered' = answered /\ (OnePlus /\ ~PlusComes => OnePlus')
                 /\ \/ serving' = serving /\ Head(sent).kind = "AUTHENTICATE"
                    \/ serving = 0 /\ serving' = Head(sent).tag /\ Head(sent).kind = "IDLE"
              \/ /\ sent # <<>> /\ Head(sent).kind = "DONE" /\ sent' = Tail(sent)
                 /\ serving # 0 /\ serving' = 0 /\ answered' = answered \cup {serving}
                 /\ (PlusComes' => PlusComes) /\ (OnePlus => OnePlus')
              \/ /\ UNCHANGED <<sent, serving, answered>>
                 /\ (PlusComes' => PlusComes) /\ (OnePlus => OnePlus')
<1> USE DEF others, server, Answer, Status
<1>1. /\ wire \in Seq(ReplyOf) /\ serving \in Nat
      /\ sent # <<>> => Head(sent).tag \in 1 .. MaxTag /\ Head(sent).tag \in Nat
  <2>1. sent # <<>> => Head(sent) \in Command
    BY TailOf DEF Typed
  <2>2. MaxTag \in Nat
    BY SessionAssumption
  <2>3. QED
    BY <2>1, <2>2 DEF Typed, Command
<1>2. UNCHANGED others
  BY Zenon DEF Server, ServeCommand, Decide, Push, Challenge, TakeIdle, RefuseIdle,
     EndIdle, StillHere, Greet
<1>3. ASSUME NEW x \in ReplyOf, x.type # "plus", wire' = wire \o <<x>>
      PROVE  (PlusComes' => PlusComes) /\ (OnePlus => OnePlus')
  <2>1. <<x>> \in Seq(ReplyOf) /\ \A i \in 1 .. Len(<<x>>) : <<x>>[i].type # "plus"
    BY <1>3
  <2>2. QED
    BY <1>1, <1>3, <2>1, NoOtherPlus
<1>4. ASSUME NEW ok \in BOOLEAN, ServeCommand(ok)
      PROVE  /\ \E t \in 1 .. MaxTag : Answers(t)
             /\ (PlusComes' => PlusComes) /\ (OnePlus => OnePlus')
  <2> DEFINE t == Head(sent).tag
             x == Reply("data", t, TRUE)
             y == Reply("status", t, ok)
  <2>1. /\ sent # <<>> /\ serving' = serving /\ answered' = answered \cup {t}
        /\ sent' = Tail(sent) /\ Head(sent).kind # "DONE"
        /\ wire' = wire \o IF ok THEN <<Reply("data", t, TRUE), Reply("status", t, TRUE)>>
                           ELSE <<Reply("status", t, FALSE)>>
    BY <1>4 DEF ServeCommand
  <2>2. t \in 1 .. MaxTag /\ Answers(t)
    BY <1>1, <2>1 DEF Answers
  <2>3. x \in ReplyOf /\ y \in ReplyOf /\ x.type = "data" /\ y.type = "status"
    <3>1. t \in Nat
      BY <1>1, <2>1
    <3> HIDE DEF t
    <3>2. x \in ReplyOf /\ x.type = "data"
      BY <3>1, ReplyType
    <3>3. y \in ReplyOf /\ y.type = "status"
      BY <1>4, <3>1, ReplyType
    <3>4. QED
      BY <3>2, <3>3
  <2>4. wire' = wire \o <<x, y>> \/ wire' = wire \o <<y>>
    BY <2>1
  <2>5. <<x, y>> \in Seq(ReplyOf) /\ \A i \in 1 .. Len(<<x, y>>) : <<x, y>>[i].type # "plus"
    <3> HIDE DEF x, y
    <3>1. QED
      BY <2>3
  <2>6. CASE wire' = wire \o <<x, y>>
    <3> HIDE DEF x, y, t
    <3>1. (PlusComes' => PlusComes) /\ (OnePlus => OnePlus')
      BY <1>1, <2>5, <2>6, NoOtherPlus
    <3>2. QED
      BY <2>2, <3>1
  <2>7. CASE wire' = wire \o <<y>>
    <3> HIDE DEF x, y, t
    <3>1. (PlusComes' => PlusComes) /\ (OnePlus => OnePlus')
      BY <1>3, <2>3, <2>7
    <3>2. QED
      BY <2>2, <3>1
  <2>8. QED
    BY <2>4, <2>6, <2>7
<1>5. ASSUME NEW t \in Nat, NEW ok \in BOOLEAN, wire' = wire \o <<Reply("status", t, ok)>>
      PROVE  (PlusComes' => PlusComes) /\ (OnePlus => OnePlus')
  <2> DEFINE x == Reply("status", t, ok)
  <2>1. x \in ReplyOf /\ x.type = "status" /\ wire' = wire \o <<x>>
    BY <1>5, ReplyType
  <2> HIDE DEF x
  <2>2. QED
    BY <1>3, <2>1
<1>6. ASSUME NEW ok \in BOOLEAN, Decide(ok) \/ (RefuseIdle /\ ~ok)
      PROVE  /\ \E t \in 1 .. MaxTag : Answers(t)
             /\ (PlusComes' => PlusComes) /\ (OnePlus => OnePlus')
  <2> DEFINE t == Head(sent).tag
  <2>1. /\ sent # <<>> /\ serving' = serving /\ answered' = answered \cup {t}
        /\ sent' = Tail(sent) /\ Head(sent).kind # "DONE"
        /\ wire' = wire \o <<Reply("status", t, ok)>>
    BY <1>6 DEF Decide, RefuseIdle
  <2>2. t \in 1 .. MaxTag /\ t \in Nat /\ Answers(t)
    BY <1>1, <2>1 DEF Answers
  <2>3. (PlusComes' => PlusComes) /\ (OnePlus => OnePlus')
    <3> HIDE DEF t
    <3>1. QED
      BY <1>5, <2>1, <2>2
  <2>4. QED
    BY <2>2, <2>3
<1>7. ASSUME Challenge \/ TakeIdle
      PROVE  /\ sent # <<>> /\ Head(sent).kind \in {"AUTHENTICATE", "IDLE"} /\ sent' = Tail(sent)
             /\ answered' = answered /\ (OnePlus /\ ~PlusComes => OnePlus')
             /\ \/ serving' = serving /\ Head(sent).kind = "AUTHENTICATE"
                \/ serving = 0 /\ serving' = Head(sent).tag /\ Head(sent).kind = "IDLE"
  <2> DEFINE x == Reply("plus", Head(sent).tag, TRUE)
  <2>1. /\ sent # <<>> /\ Head(sent).kind \in {"AUTHENTICATE", "IDLE"} /\ sent' = Tail(sent)
        /\ answered' = answered
        /\ \/ serving' = serving /\ Head(sent).kind = "AUTHENTICATE"
           \/ serving = 0 /\ serving' = Head(sent).tag /\ Head(sent).kind = "IDLE"
        /\ wire' = wire \o <<x>>
    BY <1>7 DEF Challenge, TakeIdle
  <2>2. x \in ReplyOf
    BY <1>1, <2>1, ReplyType
  <2>3. OnePlus /\ ~PlusComes => OnePlus'
    <3> HIDE DEF x
    <3>1. QED
      BY <1>1, <2>1, <2>2, FirstPlus
  <2>4. QED
    BY <2>1, <2>3
<1>8. ASSUME EndIdle
      PROVE  /\ sent # <<>> /\ Head(sent).kind = "DONE" /\ sent' = Tail(sent)
             /\ serving # 0 /\ serving' = 0 /\ answered' = answered \cup {serving}
             /\ (PlusComes' => PlusComes) /\ (OnePlus => OnePlus')
  <2>1. wire' = wire \o <<Reply("status", serving, TRUE)>>
    BY <1>8 DEF EndIdle
  <2>2. QED
    BY <1>1, <1>5, <1>8, <2>1 DEF EndIdle
<1>9. ASSUME (\E ok \in BOOLEAN : Push(ok)) \/ StillHere \/ Greet
      PROVE  /\ UNCHANGED <<sent, serving, answered>>
             /\ (PlusComes' => PlusComes) /\ (OnePlus => OnePlus')
  <2>1. PICK type \in {"push", "status", "greeting"}, t \in Nat, ok \in BOOLEAN :
            wire' = Append(wire, Reply(type, t, ok))
    BY <1>1, <1>9 DEF Push, StillHere, Greet
  <2> DEFINE x == Reply(type, t, ok)
  <2>2. x \in ReplyOf /\ x.type = type /\ wire' = Append(wire, x)
    BY <2>1, ReplyType
  <2> HIDE DEF x
  <2>3. wire' = wire \o <<x>>
    BY <1>1, <2>2
  <2>4. (PlusComes' => PlusComes) /\ (OnePlus => OnePlus')
    BY <1>3, <2>2, <2>3
  <2>5. UNCHANGED <<sent, serving, answered>>
    BY <1>9 DEF Push, StillHere, Greet
  <2>6. QED
    BY <2>4, <2>5
<1>10. CASE \E ok \in BOOLEAN : ServeCommand(ok)
  BY <1>2, <1>4, <1>10
<1>11. CASE (\E ok \in BOOLEAN : Decide(ok)) \/ RefuseIdle
  <2>1. \E ok \in BOOLEAN : Decide(ok) \/ (RefuseIdle /\ ~ok)
    BY <1>11
  <2>2. QED
    BY <1>2, <1>6, <2>1
<1>12. CASE Challenge \/ TakeIdle
  BY <1>2, <1>7, <1>12
<1>13. CASE EndIdle
  BY <1>2, <1>8, <1>13
<1>14. CASE (\E ok \in BOOLEAN : Push(ok)) \/ StillHere \/ Greet
  BY <1>2, <1>9, <1>14
<1>15. QED
  BY <1>10, <1>11, <1>12, <1>13, <1>14 DEF Server

(* In which order it answers.                                              *)
LEMMA LineServer ==
    ASSUME Typed, LineInv, Server PROVE LineInv'
<1> USE DEF LineType
<1>1. LineType
  BY TypedLine
<1>2. UNCHANGED <<tag, queued, open, taken>>
  BY ServerLine DEF client, others, driver
<1>3. ASSUME sent # <<>>, sent' = Tail(sent)
      PROVE  /\ Len(sent') \in Nat /\ 1 \in 1 .. Len(sent) /\ Head(sent) = sent[1]
             /\ \A i \in 1 .. Len(sent') :
                    i + 1 \in 1 .. Len(sent) /\ 1 < i + 1 /\ sent'[i] = sent[i + 1]
  <2>1. /\ Len(sent) \in Nat \ {0} /\ Len(sent') = Len(sent) - 1
        /\ 1 \in 1 .. Len(sent) /\ Head(sent) = sent[1]
        /\ \A i \in 1 .. Len(sent') : i + 1 \in 1 .. Len(sent) /\ sent'[i] = sent[i + 1]
    BY <1>1, <1>3, TailOf
  <2>2. QED
    BY <2>1
<1>4. InOrder'
  <2>1. CASE sent # <<>> /\ sent' = Tail(sent)
    BY <1>1, <1>2, <1>3, <2>1 DEF LineInv, InOrder
  <2>2. CASE sent' = sent
    BY <1>2, <2>2 DEF LineInv, InOrder
  <2>3. QED
    BY <2>1, <2>2, ServerLine DEF Answers
<1>5. CASE \E t \in 1 .. MaxTag : Answers(t) /\ (PlusComes' => PlusComes) /\ (OnePlus => OnePlus')
  <2>1. PICK t \in 1 .. MaxTag : Answers(t) /\ (PlusComes' => PlusComes) /\ (OnePlus => OnePlus')
    BY <1>5
  <2>2. /\ t = sent[1].tag /\ sent[1].kind # "DONE" /\ answered' = answered \cup {t}
        /\ serving' = serving /\ sent # <<>> /\ sent' = Tail(sent) /\ t \in Nat
    BY <1>1, <1>3, <2>1 DEF Answers
  <2>3. /\ t <= tag /\ t # 0 /\ serving < t
        /\ \A i \in 1 .. Len(sent') : sent'[i].kind # "DONE" => t < sent'[i].tag
        /\ \A j \in 1 .. Len(queued) : t < queued[j].tag
    BY <1>1, <1>3, <2>2 DEF LineInv, InOrder, Unanswered
  <2>4. Unanswered'
    <3>1. \A i \in 1 .. Len(sent') :
              sent'[i].kind # "DONE" => sent'[i].tag <= tag /\ sent'[i].tag \notin answered
                                        /\ serving < sent'[i].tag
      BY <1>1, <1>3, <2>2 DEF LineInv, Unanswered
    <3>2. \A i \in 1 .. Len(sent') : sent'[i].kind # "DONE" => sent'[i].tag # t
      BY <1>1, <1>3, <2>2, <2>3
    <3>3. \A j \in 1 .. Len(queued) : queued[j].tag # t
      BY <1>1, <2>2, <2>3
    <3>4. answered \subseteq 1 .. tag => answered \cup {t} \subseteq 1 .. tag
      <4>1. t \in 1 .. tag
        BY <1>1, <2>2, <2>3
      <4>2. QED
        BY <4>1
    <3>5. serving # t
      BY <1>1, <2>2, <2>3
    <3>6. QED
      BY <1>2, <2>2, <3>1, <3>2, <3>3, <3>4, <3>5 DEF LineInv, Unanswered
  <2>5. sent[1].kind \notin Opening => t # open
    BY <1>1, <1>3, <2>2 DEF LineInv, OneOpen
  <2>6. sent[1].kind \in Opening => t = open /\ ~PlusComes
    BY <1>1, <1>3, <2>2 DEF LineInv, OneOpen
  <2>7. OneOpen'
    <3>1. \A i \in 1 .. Len(sent') :
              sent'[i].kind \in Opening =>
              sent'[i].tag = open /\ ~taken /\ open \notin answered /\ ~PlusComes
      BY <1>1, <1>3, <2>2 DEF LineInv, OneOpen
    <3>2. \A i \in 1 .. Len(sent') : sent'[i].kind \in Opening => open # t
      <4>1. "DONE" \notin Opening
        BY DEF Opening
      <4>2. QED
        BY <1>1, <1>3, <2>2, <2>3, <3>1, <4>1
    <3>3. PlusComes => open # t
      BY <2>5, <2>6
    <3>4. \A i \in 1 .. Len(sent') :
              /\ sent'[i].kind \notin Opening \cup {"DONE"} => sent'[i].tag # open
              /\ sent'[i].kind = "DONE" => serving # 0 /\ serving # open
      BY <1>1, <1>3, <2>2 DEF LineInv, OneOpen
    <3>5. \A i, j \in 1 .. Len(sent') :
              sent'[i].kind = "DONE" /\ sent'[j].kind = "DONE" => i = j
      BY <1>1, <1>3, <2>2 DEF LineInv, OneOpen
    <3>6. QED
      BY <1>2, <2>1, <2>2, <3>1, <3>2, <3>3, <3>4, <3>5 DEF LineInv, OneOpen
  <2>8. QED
    BY <1>4, <2>4, <2>7 DEF LineInv
<1>6. CASE /\ sent # <<>> /\ Head(sent).kind \in {"AUTHENTICATE", "IDLE"} /\ sent' = Tail(sent)
           /\ answered' = answered /\ (OnePlus /\ ~PlusComes => OnePlus')
           /\ \/ serving' = serving /\ Head(sent).kind = "AUTHENTICATE"
              \/ serving = 0 /\ serving' = Head(sent).tag /\ Head(sent).kind = "IDLE"
  <2>1. /\ sent[1].tag = open /\ open # 0 /\ ~taken /\ open \notin answered /\ OnePlus'
        /\ serving' \in {serving, open} /\ (serving' # serving => serving = 0)
    BY <1>1, <1>3, <1>6 DEF LineInv, OneOpen, Opening
  <2>2. /\ \A i \in 1 .. Len(sent') : sent'[i].kind # "DONE" => open < sent'[i].tag
        /\ \A j \in 1 .. Len(queued) : open < queued[j].tag
    BY <1>1, <1>3, <1>6, <2>1 DEF LineInv, InOrder
  <2>3. Unanswered'
    BY <1>1, <1>2, <1>3, <1>6, <2>1, <2>2 DEF LineInv, Unanswered
  <2>4. \A i \in 1 .. Len(sent') : sent'[i].kind \notin Opening
    <3>1. \A i \in 1 .. Len(sent') : sent'[i].kind \in Opening => sent'[i].tag = open
      BY <1>1, <1>3, <1>6 DEF LineInv, OneOpen
    <3>2. \A i \in 1 .. Len(sent') :
              sent'[i].tag \in Nat /\ (sent'[i].kind # "DONE" => sent'[i].tag # open)
      BY <1>1, <1>3, <1>6, <2>2
    <3>3. QED
      BY <3>1, <3>2 DEF Opening
  <2>5. OneOpen'
    BY <1>1, <1>2, <1>3, <1>6, <2>1, <2>4 DEF LineInv, OneOpen
  <2>6. QED
    BY <1>4, <2>3, <2>5 DEF LineInv
<1>7. CASE /\ sent # <<>> /\ Head(sent).kind = "DONE" /\ sent' = Tail(sent)
           /\ serving # 0 /\ serving' = 0 /\ answered' = answered \cup {serving}
           /\ (PlusComes' => PlusComes) /\ (OnePlus => OnePlus')
  <2>1. serving # open /\ \A i \in 1 .. Len(sent') : sent'[i].kind # "DONE"
    BY <1>1, <1>3, <1>7 DEF LineInv, OneOpen
  <2>2. Unanswered'
    <3>1. \A i \in 1 .. Len(sent') :
              sent'[i].kind # "DONE" => sent'[i].tag <= tag /\ sent'[i].tag \notin answered
                                        /\ serving < sent'[i].tag
      BY <1>1, <1>3, <1>7 DEF LineInv, Unanswered
    <3>2. \A i \in 1 .. Len(sent') : sent'[i].tag \in Nat /\ sent'[i].tag # 0
      BY <1>1, <1>3, <1>7
    <3>3. \A i \in 1 .. Len(sent') :
              sent'[i].kind # "DONE" => 0 < sent'[i].tag /\ sent'[i].tag # serving
      BY <1>1, <3>1, <3>2
    <3>4. \A j \in 1 .. Len(queued) :
              queued[j].tag # serving /\ 0 < queued[j].tag /\ open < queued[j].tag
      BY <1>1 DEF LineInv, Unanswered
    <3>5. /\ answered \cup {serving} \subseteq 1 .. tag /\ 0 \notin answered \cup {serving}
          /\ 0 <= tag
      BY <1>1, <1>7 DEF LineInv, Unanswered
    <3>6. QED
      BY <1>2, <1>7, <3>1, <3>3, <3>4, <3>5 DEF LineInv, Unanswered
  <2>3. OneOpen'
    BY <1>1, <1>2, <1>3, <1>7, <2>1 DEF LineInv, OneOpen
  <2>4. QED
    BY <1>4, <2>2, <2>3 DEF LineInv
<1>8. CASE /\ UNCHANGED <<sent, serving, answered>>
           /\ (PlusComes' => PlusComes) /\ (OnePlus => OnePlus')
  BY <1>2, <1>8 DEF LineInv, InOrder, Unanswered, OneOpen
<1>9. QED
  BY <1>5, <1>6, <1>7, <1>8, ServerLine

-------------------------------------------------------------------------------
\* The session keeps it too.

LEMMA ConcatOf ==
    ASSUME NEW S, NEW s \in Seq(S), NEW r \in Seq(S)
    PROVE  /\ s \o r \in Seq(S) /\ Len(s \o r) = Len(s) + Len(r)
           /\ Len(s) \in Nat /\ Len(r) \in Nat
           /\ \A i \in 1 .. Len(s) + Len(r) :
                 \/ i \in 1 .. Len(s) /\ (s \o r)[i] = s[i]
                 \/ i - Len(s) \in 1 .. Len(r) /\ (s \o r)[i] = r[i - Len(s)]
OBVIOUS

(* The commands held back that a release sends are the first n.            *)
Sends(n, first) ==
    /\ sent' \in Seq(Command) /\ queued' \in Seq(Command) /\ taken' = FALSE
    /\ n \in 0 .. Len(queued)
    /\ \A i \in 1 .. Len(sent') :
          \/ i \in 1 .. Len(sent) /\ sent'[i] = sent[i]
          \/ i - Len(sent) \in 1 .. Len(first) /\ sent'[i] = first[i - Len(sent)]
          \/ /\ i - (Len(sent) + Len(first)) \in 1 .. n
             /\ sent'[i] = queued[i - (Len(sent) + Len(first))]
    /\ \A j \in 1 .. Len(queued') : n + j \in 1 .. Len(queued) /\ queued'[j] = queued[n + j]
    /\ Len(queued') = Len(queued) - n
    /\ \A j \in 1 .. n : queued[j].kind = "IDLE" => j = n
    /\ \/ open' = 0 /\ n = Len(queued) /\ \A j \in 1 .. Len(queued) : queued[j].kind # "IDLE"
       \/ n \in 1 .. Len(queued) /\ queued[n].kind = "IDLE" /\ open' = queued[n].tag

LEMMA ReleaseSends ==
    ASSUME Typed, NEW first \in Seq(Command), Release(first)
    PROVE  \E n \in Nat : Sends(n, first)
<1> DEFINE n == IF Idles(queued) = {} THEN Len(queued)
                ELSE CHOOSE i \in Idles(queued) : \A j \in Idles(queued) : i <= j
           more == SubSeq(queued, 1, n)
<1>1. /\ sent' = sent \o first \o more
      /\ queued' = SubSeq(queued, n + 1, Len(queued))
      /\ open' = IF Idles(queued) = {} THEN 0 ELSE queued[n].tag
      /\ taken' = FALSE
  BY DEF Release
<1>2. /\ queued \in Seq(Command) /\ sent \in Seq(Command) /\ Len(queued) \in Nat
      /\ Idles(queued) = {i \in 1 .. Len(queued) : queued[i].kind = "IDLE"}
  BY DEF Typed, Idles
<1>3. /\ n \in 0 .. Len(queued)
      /\ \A j \in 1 .. n : queued[j].kind = "IDLE" => j = n
      /\ \/ open' = 0 /\ n = Len(queued) /\ \A j \in 1 .. Len(queued) : queued[j].kind # "IDLE"
         \/ n \in 1 .. Len(queued) /\ queued[n].kind = "IDLE" /\ open' = queued[n].tag
  <2>1. CASE Idles(queued) = {}
    <3>1. n = Len(queued) /\ open' = 0
      BY <1>1, <2>1
    <3>2. \A j \in 1 .. Len(queued) : queued[j].kind # "IDLE"
      BY <1>2, <2>1
    <3> HIDE DEF n
    <3>3. QED
      BY <1>2, <3>1, <3>2
  <2>2. CASE Idles(queued) # {}
    <3>1. \E i \in Idles(queued) : \A j \in Idles(queued) : i <= j
      <4>1. Idles(queued) \in SUBSET Nat
        BY <1>2
      <4>2. QED
        BY <2>2, <4>1, HasLeast
    <3>2. n \in Idles(queued) /\ \A j \in Idles(queued) : n <= j
      BY <2>2, <3>1
    <3>3. open' = queued[n].tag
      BY <1>1, <2>2
    <3> HIDE DEF n
    <3>4. n \in 1 .. Len(queued) /\ queued[n].kind = "IDLE"
      BY <1>2, <3>2
    <3>5. \A j \in 1 .. n : queued[j].kind = "IDLE" => j = n
      BY <1>2, <3>2, <3>4
    <3>6. QED
      BY <1>2, <3>3, <3>4, <3>5
  <2>3. QED
    BY <2>1, <2>2
<1> HIDE DEF n
<1>4. more \in Seq(Command) /\ Len(more) = n /\ \A i \in 1 .. n : more[i] = queued[i]
  BY <1>2, <1>3
<1>5. /\ queued' \in Seq(Command) /\ Len(queued') = Len(queued) - n /\ n \in Nat
      /\ \A j \in 1 .. Len(queued') : n + j \in 1 .. Len(queued) /\ queued'[j] = queued[n + j]
  BY <1>1, <1>2, <1>3
<1> HIDE DEF more
<1> DEFINE a == sent \o first
<1>6. /\ a \in Seq(Command) /\ Len(a) = Len(sent) + Len(first)
      /\ Len(sent) \in Nat /\ Len(first) \in Nat
      /\ \A i \in 1 .. Len(sent) + Len(first) :
            \/ i \in 1 .. Len(sent) /\ a[i] = sent[i]
            \/ i - Len(sent) \in 1 .. Len(first) /\ a[i] = first[i - Len(sent)]
  BY <1>2, ConcatOf
<1>7. sent' = a \o more
  BY <1>1
<1> HIDE DEF a
<1>8. /\ sent' \in Seq(Command) /\ Len(sent') = Len(a) + n
      /\ \A i \in 1 .. Len(sent') :
            \/ i \in 1 .. Len(a) /\ sent'[i] = a[i]
            \/ i - Len(a) \in 1 .. n /\ sent'[i] = more[i - Len(a)]
  <2>1. /\ a \o more \in Seq(Command) /\ Len(a \o more) = Len(a) + Len(more)
        /\ \A i \in 1 .. Len(a) + Len(more) :
              \/ i \in 1 .. Len(a) /\ (a \o more)[i] = a[i]
              \/ i - Len(a) \in 1 .. Len(more) /\ (a \o more)[i] = more[i - Len(a)]
    <3>1. a \in Seq(Command) /\ more \in Seq(Command)
      BY <1>4, <1>6
    <3>2. QED
      BY <3>1, ConcatOf
  <2>2. QED
    BY <1>4, <1>7, <2>1
<1>9. \A i \in 1 .. Len(sent') :
          \/ i \in 1 .. Len(sent) /\ sent'[i] = sent[i]
          \/ i - Len(sent) \in 1 .. Len(first) /\ sent'[i] = first[i - Len(sent)]
          \/ /\ i - (Len(sent) + Len(first)) \in 1 .. n
             /\ sent'[i] = queued[i - (Len(sent) + Len(first))]
  BY <1>4, <1>6, <1>8
<1>10. Sends(n, first)
  BY <1>1, <1>3, <1>5, <1>8, <1>9 DEF Sends
<1>11. QED
  BY <1>5, <1>10

(* A command under the next tag, sent or held back.                        *)
LEMMA LineEnqueue ==
    ASSUME Typed, LineInv, NEW kind \in Kind, Enqueue(kind),
           open # 0 => kind \in {"command", "IDLE"}, UNCHANGED <<serving, answered>>,
           PlusComes' => PlusComes, OnePlus => OnePlus'
    PROVE  LineInv'
<1> DEFINE c == [tag |-> tag + 1, kind |-> kind]
<1> USE DEF LineType
<1>1. LineType /\ tag < MaxTag /\ tag' = tag + 1
  BY TypedLine DEF Enqueue
<1>2. c.tag = tag + 1 /\ c.kind = kind /\ c \in Command /\ kind # "DONE" /\ kind # "answer"
  <2>1. tag + 1 \in 1 .. MaxTag
    BY <1>1, SessionAssumption
  <2>2. QED
    BY <2>1 DEF Command, Kind
<1>3. CASE open # 0
  <2>1. queued' = Append(queued, c) /\ UNCHANGED <<sent, open, taken>>
    BY <1>3 DEF Enqueue
  <2> HIDE DEF c
  <2>2. /\ Len(queued') = Len(queued) + 1 /\ queued'[Len(queued) + 1] = c
        /\ \A i \in 1 .. Len(queued) : queued'[i] = queued[i]
        /\ \A i \in 1 .. Len(queued) + 1 : i \in 1 .. Len(queued) \/ i = Len(queued) + 1
    BY <1>1, <1>2, <2>1, AppendOf
  <2>3. /\ \A i \in 1 .. Len(sent) : sent[i].kind # "DONE" => sent[i].tag < tag + 1
        /\ \A j \in 1 .. Len(queued) : queued[j].tag < tag + 1
        /\ serving < tag + 1 /\ open < tag + 1 /\ tag + 1 \notin answered
    <3>1. serving <= tag /\ open <= tag /\ answered \subseteq 1 .. tag
      BY DEF LineInv, Unanswered
    <3>2. serving < tag + 1 /\ open < tag + 1 /\ tag + 1 \notin answered
      BY <1>1, <3>1
    <3>3. QED
      BY <1>1, <3>2 DEF LineInv, Unanswered
  <2>4. InOrder'
    BY <1>1, <1>2, <1>3, <2>1, <2>2, <2>3 DEF LineInv, InOrder
  <2>5. Unanswered'
    <3>1. \A j \in 1 .. Len(queued') :
              /\ queued'[j].kind \in {"command", "IDLE"}
              /\ queued'[j].tag <= tag + 1 /\ queued'[j].tag \notin answered
              /\ serving < queued'[j].tag /\ open < queued'[j].tag
      BY <1>1, <1>2, <1>3, <2>2, <2>3 DEF LineInv, Unanswered
    <3>2. answered \subseteq 1 .. tag + 1
      BY <1>1 DEF LineInv, Unanswered
    <3>3. \A i \in 1 .. Len(sent) : sent[i].kind # "DONE" => sent[i].tag <= tag + 1
      BY <1>1, <2>3
    <3>4. QED
      BY <1>1, <2>1, <2>3, <3>1, <3>2, <3>3 DEF LineInv, Unanswered
  <2>6. OneOpen'
    BY <2>1 DEF LineInv, OneOpen
  <2>7. QED
    BY <2>4, <2>5, <2>6 DEF LineInv
<1>4. CASE open = 0
  <2>1. /\ sent' = Append(sent, c) /\ queued' = queued /\ taken' = FALSE
        /\ open' = IF kind \in {"IDLE", "AUTHENTICATE"} THEN tag + 1 ELSE 0
    BY <1>4 DEF Enqueue
  <2> HIDE DEF c
  <2>2. /\ Len(sent') = Len(sent) + 1 /\ sent'[Len(sent) + 1] = c
        /\ \A i \in 1 .. Len(sent) : sent'[i] = sent[i]
        /\ \A i \in 1 .. Len(sent) + 1 : i \in 1 .. Len(sent) \/ i = Len(sent) + 1
    BY <1>1, <1>2, <2>1, AppendOf
  <2>3. queued = <<>> /\ Len(queued) = 0
    BY <1>1, <1>4 DEF LineInv, InOrder
  <2>4. /\ \A i \in 1 .. Len(sent) :
              sent[i].kind # "DONE" => sent[i].tag < tag + 1 /\ sent[i].tag <= tag + 1
        /\ serving < tag + 1 /\ tag + 1 \notin answered
    BY <1>1 DEF LineInv, Unanswered
  <2>5. InOrder'
    BY <1>1, <1>2, <2>1, <2>2, <2>3, <2>4 DEF LineInv, InOrder
  <2>6. Unanswered'
    <3>1. \A i \in 1 .. Len(sent') :
              sent'[i].kind # "DONE" => sent'[i].tag <= tag + 1 /\ sent'[i].tag \notin answered
                                        /\ serving < sent'[i].tag
      BY <1>1, <1>2, <2>2, <2>4 DEF LineInv, Unanswered
    <3>2. answered \subseteq 1 .. tag + 1 /\ open' <= tag + 1
      BY <1>1, <2>1 DEF LineInv, Unanswered
    <3>3. QED
      BY <1>1, <2>1, <2>3, <2>4, <3>1, <3>2 DEF LineInv, Unanswered
  <2>7. OneOpen'
    <3>1. ~PlusComes /\ ~PlusComes' /\ OnePlus'
      BY <1>4 DEF LineInv, OneOpen
    <3>2. \A i \in 1 .. Len(sent) : sent[i].kind \notin Opening
      BY <1>1, <1>4 DEF LineInv, OneOpen
    <3>3. \A i \in 1 .. Len(sent') :
              /\ sent'[i].kind \in Opening => sent'[i].tag = open' /\ open' \notin answered
              /\ sent'[i].kind \notin Opening \cup {"DONE"} => sent'[i].tag # open'
      <4>1. sent'[Len(sent) + 1].kind \in Opening =>
                sent'[Len(sent) + 1].tag = open' /\ open' \notin answered
        BY <1>2, <2>1, <2>2, <2>4 DEF Opening
      <4>2. sent'[Len(sent) + 1].kind \notin Opening => sent'[Len(sent) + 1].tag # open'
        BY <1>1, <1>2, <2>1, <2>2 DEF Opening
      <4>3. \A i \in 1 .. Len(sent) : sent[i].kind # "DONE" => sent[i].tag # open'
        BY <1>1, <2>1, <2>4
      <4>4. QED
        BY <2>2, <3>2, <4>1, <4>2, <4>3
    <3>4. \A i \in 1 .. Len(sent') :
              sent'[i].kind = "DONE" => i \in 1 .. Len(sent) /\ sent'[i] = sent[i]
      BY <1>2, <2>2
    <3>5. /\ \A i \in 1 .. Len(sent') : sent'[i].kind = "DONE" => serving # 0 /\ serving # open'
          /\ \A i, j \in 1 .. Len(sent') :
                sent'[i].kind = "DONE" /\ sent'[j].kind = "DONE" => i = j
      BY <1>1, <2>1, <2>4, <3>4 DEF LineInv, OneOpen
    <3>6. QED
      BY <2>1, <3>1, <3>3, <3>5 DEF OneOpen
  <2>8. QED
    BY <2>5, <2>6, <2>7 DEF LineInv
<1>5. QED
  BY <1>3, <1>4

(* What was held back is sent once the server knows of nothing the client  *)
(* has open, or serves that IDLE and is sent DONE.                         *)
LEMMA LineRelease ==
    ASSUME Typed, LineInv, NEW n \in Nat, NEW first \in Seq(Command), Sends(n, first),
           \/ first = <<>>
           \/ first = <<[tag |-> open, kind |-> "DONE"]>> /\ open # 0 /\ serving = open,
           \A i \in 1 .. Len(sent) : sent[i].kind \notin Opening,
           ~PlusComes, ~PlusComes', OnePlus', UNCHANGED <<tag, serving, answered>>
    PROVE  LineInv'
<1> DEFINE m == Len(sent) + Len(first)
<1> USE DEF LineType
<1>1. LineType /\ Len(first) \in Nat /\ m \in Nat /\ Len(sent) <= m
      /\ (first = <<>> => Len(first) = 0)
  BY TypedLine
<1>2. \A i \in 1 .. Len(first) :
          i = 1 /\ first[i].kind = "DONE" /\ open # 0 /\ serving = open /\ first # <<>>
  <2>1. CASE first = <<>>
    BY <1>1, <2>1
  <2>2. CASE first = <<[tag |-> open, kind |-> "DONE"]>> /\ open # 0 /\ serving = open
    <3> DEFINE d == [tag |-> open, kind |-> "DONE"]
    <3>1. d.kind = "DONE"
      OBVIOUS
    <3> HIDE DEF d
    <3>2. first = <<d>>
      BY <2>2 DEF d
    <3>3. Len(first) = 1 /\ first[1] = d /\ first # <<>>
      BY <3>2
    <3>4. QED
      BY <2>2, <3>1, <3>3
  <2>3. QED
    BY <2>1, <2>2
<1> HIDE DEF m
<1>3. \A i \in 1 .. Len(sent') :
          \/ i \in 1 .. Len(sent) /\ sent'[i] = sent[i]
          \/ /\ i = Len(sent) + 1 /\ i <= m /\ sent'[i].kind = "DONE"
             /\ open # 0 /\ serving = open /\ first # <<>>
          \/ \E k \in 1 .. n : i = m + k /\ sent'[i] = queued[k] /\ k \in 1 .. Len(queued)
  <2>1. \A i \in 1 .. Len(sent') :
            i - Len(sent) \in 1 .. Len(first) /\ sent'[i] = first[i - Len(sent)] =>
            /\ i = Len(sent) + 1 /\ i <= m /\ sent'[i].kind = "DONE"
            /\ open # 0 /\ serving = open /\ first # <<>>
    BY <1>1, <1>2 DEF m
  <2>2. n \in 0 .. Len(queued)
    BY DEF Sends
  <2>3. \A i \in 1 .. Len(sent') :
            (i - m \in 1 .. n /\ sent'[i] = queued[i - m]) =>
            \E k \in 1 .. n : i = m + k /\ sent'[i] = queued[k] /\ k \in 1 .. Len(queued)
    BY <1>1, <2>2
  <2>4. QED
    BY <2>1, <2>3 DEF Sends, m
<1>4. /\ \A j \in 1 .. Len(queued') : n + j \in 1 .. Len(queued) /\ queued'[j] = queued[n + j]
      /\ Len(queued') = Len(queued) - n /\ n \in 0 .. Len(queued) /\ queued' \in Seq(Command)
  BY DEF Sends
<1>5. /\ \A k \in 1 .. n : queued[k].kind = "IDLE" => k = n
      /\ \/ open' = 0 /\ n = Len(queued) /\ \A j \in 1 .. Len(queued) : queued[j].kind # "IDLE"
         \/ n \in 1 .. Len(queued) /\ queued[n].kind = "IDLE" /\ open' = queued[n].tag
      /\ taken' = FALSE
  BY DEF Sends
<1>6. /\ \A j \in 1 .. Len(queued) :
            /\ queued[j].kind \in {"command", "IDLE"}
            /\ queued[j].tag <= tag /\ queued[j].tag \notin answered
            /\ serving < queued[j].tag /\ open < queued[j].tag
      /\ \A i, j \in 1 .. Len(queued) : i < j => queued[i].tag < queued[j].tag
      /\ \A i \in 1 .. Len(sent), j \in 1 .. Len(queued) :
            sent[i].kind # "DONE" => sent[i].tag < queued[j].tag
  BY DEF LineInv, InOrder, Unanswered
<1>7. InOrder'
  <2>1. \A i, j \in 1 .. Len(sent') :
            i < j /\ sent'[i].kind # "DONE" /\ sent'[j].kind # "DONE"
            => sent'[i].tag < sent'[j].tag
    <3> SUFFICES ASSUME NEW i \in 1 .. Len(sent'), NEW j \in 1 .. Len(sent'),
                        i < j, sent'[i].kind # "DONE", sent'[j].kind # "DONE"
                 PROVE  sent'[i].tag < sent'[j].tag
      OBVIOUS
    <3>1. CASE i \in 1 .. Len(sent) /\ sent'[i] = sent[i]
      <4>1. CASE j \in 1 .. Len(sent) /\ sent'[j] = sent[j]
        BY <3>1, <4>1 DEF LineInv, InOrder
      <4>2. CASE \E k \in 1 .. n : j = m + k /\ sent'[j] = queued[k] /\ k \in 1 .. Len(queued)
        <5>1. PICK k \in 1 .. n : j = m + k /\ sent'[j] = queued[k]
          BY <4>2
        <5>2. k \in 1 .. Len(queued)
          BY <1>1, <1>4
        <5>3. QED
          BY <1>6, <3>1, <5>1, <5>2
      <4>3. QED
        BY <1>3, <4>1, <4>2
    <3>2. CASE \E k \in 1 .. n : i = m + k /\ sent'[i] = queued[k] /\ k \in 1 .. Len(queued)
      <4>1. PICK k \in 1 .. n : i = m + k /\ sent'[i] = queued[k]
        BY <3>2
      <4>2. PICK l \in 1 .. n : j = m + l /\ sent'[j] = queued[l]
        BY <1>1, <1>3, <4>1
      <4>3. k \in 1 .. Len(queued) /\ l \in 1 .. Len(queued) /\ k < l
        BY <1>1, <1>4, <4>1, <4>2
      <4>4. QED
        BY <1>6, <4>1, <4>2, <4>3
    <3>3. QED
      BY <1>3, <3>1, <3>2
  <2>2. \A i, j \in 1 .. Len(queued') : i < j => queued'[i].tag < queued'[j].tag
    <3> SUFFICES ASSUME NEW i \in 1 .. Len(queued'), NEW j \in 1 .. Len(queued'), i < j
                 PROVE  queued'[i].tag < queued'[j].tag
      OBVIOUS
    <3>1. n + i < n + j
      BY <1>1
    <3>2. QED
      BY <1>4, <1>6, <3>1
  <2>3. \A i \in 1 .. Len(sent'), j \in 1 .. Len(queued') :
            sent'[i].kind # "DONE" => sent'[i].tag < queued'[j].tag
    <3> SUFFICES ASSUME NEW i \in 1 .. Len(sent'), NEW j \in 1 .. Len(queued'),
                        sent'[i].kind # "DONE"
                 PROVE  sent'[i].tag < queued'[j].tag
      OBVIOUS
    <3>1. n + j \in 1 .. Len(queued) /\ queued'[j] = queued[n + j]
      BY <1>4
    <3>2. CASE i \in 1 .. Len(sent) /\ sent'[i] = sent[i]
      BY <1>6, <3>1, <3>2
    <3>3. CASE \E k \in 1 .. n : i = m + k /\ sent'[i] = queued[k] /\ k \in 1 .. Len(queued)
      <4>1. PICK k \in 1 .. n : sent'[i] = queued[k] /\ k \in 1 .. Len(queued)
        BY <3>3
      <4>2. k < n + j
        BY <1>1, <1>4
      <4>3. QED
        BY <1>6, <3>1, <4>1, <4>2
    <3>4. QED
      BY <1>3, <3>2, <3>3
  <2>4. open' = 0 => queued' = <<>>
    <3>1. open' = 0 => n = Len(queued)
      BY <1>1, <1>5
    <3>2. QED
      BY <1>1, <1>4, <3>1
  <2>5. QED
    BY <2>1, <2>2, <2>3, <2>4 DEF InOrder
<1>8. Unanswered'
  <2>1. \A i \in 1 .. Len(sent') :
            sent'[i].kind # "DONE" => sent'[i].tag <= tag /\ sent'[i].tag \notin answered
                                      /\ serving < sent'[i].tag
    <3>1. \A i \in 1 .. Len(sent) :
              sent[i].kind # "DONE" => sent[i].tag <= tag /\ sent[i].tag \notin answered
                                       /\ serving < sent[i].tag
      BY DEF LineInv, Unanswered
    <3>2. QED
      BY <1>3, <1>6, <3>1
  <2>2. open' <= tag /\ (\A j \in 1 .. Len(queued') : open' < queued'[j].tag)
    <3>1. CASE open' = 0
      BY <1>1, <1>4, <3>1
    <3>2. CASE n \in 1 .. Len(queued) /\ open' = queued[n].tag
      <4>1. \A j \in 1 .. Len(queued') : n < n + j
        BY <1>1, <1>4
      <4>2. QED
        BY <1>4, <1>6, <3>2, <4>1
    <3>3. QED
      BY <1>5, <3>1, <3>2
  <2>3. \A j \in 1 .. Len(queued') :
            /\ queued'[j].kind \in {"command", "IDLE"}
            /\ queued'[j].tag <= tag /\ queued'[j].tag \notin answered
            /\ serving < queued'[j].tag
    BY <1>4, <1>6
  <2>4. QED
    BY <2>1, <2>2, <2>3 DEF LineInv, Unanswered
<1>9. OneOpen'
  <2>1. \A k \in 1 .. n :
            /\ queued[k].kind \in Opening => queued[k].tag = open' /\ open' \notin answered
            /\ queued[k].kind \notin Opening => queued[k].tag # open'
    <3>1. \A k \in 1 .. n : k \in 1 .. Len(queued)
      BY <1>1, <1>4
    <3>2. \A k \in 1 .. n : queued[k].kind \in Opening => queued[k].kind = "IDLE"
      BY <1>6, <3>1 DEF Opening
    <3>3. CASE open' = 0 /\ \A j \in 1 .. Len(queued) : queued[j].kind # "IDLE"
      BY <1>1, <3>1, <3>2, <3>3
    <3>4. CASE n \in 1 .. Len(queued) /\ queued[n].kind = "IDLE" /\ open' = queued[n].tag
      <4>1. \A k \in 1 .. n : queued[k].kind \in Opening => k = n
        BY <1>5, <3>2
      <4>2. \A k \in 1 .. n : queued[k].kind \notin Opening => k < n
        BY <1>1, <3>4 DEF Opening
      <4>3. \A k \in 1 .. n : k < n => queued[k].tag < queued[n].tag
        BY <1>6, <3>1, <3>4
      <4>4. \A k \in 1 .. n : queued[k].tag \in Nat
        BY <1>1, <3>1
      <4>5. QED
        BY <1>6, <3>1, <3>4, <4>1, <4>2, <4>3, <4>4
    <3>5. QED
      BY <1>5, <3>3, <3>4
  <2>2. \A i \in 1 .. Len(sent) : sent[i].kind # "DONE" => sent[i].tag # open'
    <3>1. CASE open' = 0
      BY <1>1, <3>1
    <3>2. CASE n \in 1 .. Len(queued) /\ open' = queued[n].tag
      <4>1. \A i \in 1 .. Len(sent) : sent[i].kind # "DONE" => sent[i].tag < open'
        BY <1>6, <3>2
      <4>2. QED
        BY <1>1, <3>2, <4>1
    <3>3. QED
      BY <1>5, <3>1, <3>2
  <2>3. \A i \in 1 .. Len(sent') :
            /\ sent'[i].kind \in Opening => sent'[i].tag = open' /\ open' \notin answered
            /\ sent'[i].kind \notin Opening \cup {"DONE"} => sent'[i].tag # open'
    <3>1. "DONE" \notin Opening
      BY DEF Opening
    <3>2. QED
      BY <1>3, <2>1, <2>2, <3>1
  <2>4. serving # 0 => serving # open'
    BY <1>1, <1>5, <1>6
  <2>5. \A i \in 1 .. Len(sent') :
            sent'[i].kind = "DONE" =>
            \/ i \in 1 .. Len(sent) /\ sent'[i] = sent[i]
            \/ i = Len(sent) + 1 /\ open # 0 /\ serving = open
    BY <1>3, <1>6
  <2>6. \A i \in 1 .. Len(sent) : sent[i].kind = "DONE" => serving # 0 /\ serving # open
    BY DEF LineInv, OneOpen
  <2>7. \A i \in 1 .. Len(sent') : sent'[i].kind = "DONE" => serving # 0 /\ serving # open'
    BY <2>4, <2>5, <2>6
  <2>8. \A i, j \in 1 .. Len(sent') :
            sent'[i].kind = "DONE" /\ sent'[j].kind = "DONE" => i = j
    <3>1. \A i, j \in 1 .. Len(sent) :
              sent[i].kind = "DONE" /\ sent[j].kind = "DONE" => i = j
      BY DEF LineInv, OneOpen
    <3>2. QED
      BY <2>5, <2>6, <3>1
  <2>9. QED
    BY <1>5, <2>3, <2>7, <2>8 DEF OneOpen
<1>10. QED
  BY <1>7, <1>8, <1>9 DEF LineInv

LEMMA CallerWire ==
    ASSUME wire \in Seq(ReplyOf), Caller
    PROVE  /\ UNCHANGED <<serving, answered>>
           /\ PlusComes' => PlusComes
           /\ OnePlus => OnePlus'
<1>1. UNCHANGED <<serving, answered>> /\ (wire' = wire \/ (wire # <<>> /\ wire' = Tail(wire)))
  BY SessionReads DEF server
<1>2. CASE wire' = wire
  BY <1>1, <1>2 DEF PlusComes, OnePlus
<1>3. CASE wire # <<>> /\ wire' = Tail(wire)
  BY <1>1, <1>3, ReadPlus
<1>4. QED
  BY <1>1, <1>2, <1>3

(* When its status comes, nothing else is on its way for the command the   *)
(* client has open.                                                        *)
LEMMA EndOfOpen ==
    ASSUME Typed, LineInv, StatusInv, EndsOpen
    PROVE  /\ \A i \in 1 .. Len(sent) : sent[i].kind \notin Opening
           /\ ~PlusComes /\ open \in answered /\ wire # <<>>
<1>1. /\ wire # <<>> /\ Head(wire).type = "status" /\ Head(wire).tag = open /\ open # 0
      /\ wire \in Seq(ReplyOf)
  BY DEF EndsOpen, IsHead, Typed
<1>2. 1 \in 1 .. Len(wire) /\ Head(wire) = wire[1]
  BY <1>1, TailOf
<1>3. open \in answered
  BY <1>1, <1>2 DEF StatusInv, StatusesIn
<1>4. QED
  BY <1>1, <1>3 DEF LineInv, OneOpen

(* The answer to a challenge.                                              *)
LEMMA LineRespond ==
    ASSUME Typed, LineInv, PhaseInv, Respond PROVE LineInv'
<1> USE DEF LineType
<1>1. /\ LineType /\ pc = "auth" /\ wire # <<>> /\ Head(wire).type = "plus"
      /\ wire' = Tail(wire) /\ wire \in Seq(ReplyOf)
      /\ UNCHANGED <<tag, queued, open, taken, serving, answered>>
  BY TypedLine, Zenon DEF Respond, IsHead, client, hidden, server, Typed
<1>2. PlusComes /\ ~PlusComes' /\ OnePlus'
  BY <1>1, ReadPlus DEF LineInv, OneOpen
<1>3. /\ open = tag /\ queued = <<>> /\ serving = 0 /\ open # 0 /\ ~taken
      /\ open \notin answered
      /\ \A i \in 1 .. Len(sent) : sent[i].kind \notin Opening
  BY <1>1, <1>2 DEF PhaseInv, LineInv, OneOpen
<1>4. CASE sent' = sent
  BY <1>1, <1>2, <1>3, <1>4 DEF LineInv, InOrder, Unanswered, OneOpen
<1>5. CASE sent' = Append(sent, [tag |-> open, kind |-> "answer"])
  <2> DEFINE c == [tag |-> open, kind |-> "answer"]
  <2>1. c.tag = open /\ c.kind = "answer" /\ c \in Command
    BY <1>3 DEF Command, Typed
  <2> HIDE DEF c
  <2>2. sent' = Append(sent, c)
    BY <1>5 DEF c
  <2>3. /\ Len(sent') = Len(sent) + 1 /\ sent'[Len(sent) + 1] = c
        /\ \A i \in 1 .. Len(sent) : sent'[i] = sent[i]
        /\ \A i \in 1 .. Len(sent) + 1 : i \in 1 .. Len(sent) \/ i = Len(sent) + 1
    BY <1>1, <2>1, <2>2, AppendOf
  <2>4. \A i \in 1 .. Len(sent) : sent[i].kind # "DONE" => sent[i].tag < open
    <3>1. \A i \in 1 .. Len(sent) :
              sent[i].kind # "DONE" => sent[i].tag <= open /\ sent[i].tag # open
      BY <1>3 DEF LineInv, Unanswered, OneOpen
    <3>2. QED
      BY <1>1, <3>1
  <2>5. InOrder'
    BY <1>1, <1>3, <2>1, <2>3, <2>4 DEF LineInv, InOrder
  <2>6. Unanswered'
    BY <1>1, <1>3, <2>1, <2>3 DEF LineInv, Unanswered
  <2>7. OneOpen'
    BY <1>1, <1>2, <1>3, <2>1, <2>3 DEF LineInv, OneOpen, Opening
  <2>8. QED
    BY <2>5, <2>6, <2>7 DEF LineInv
<1>6. QED
  BY <1>4, <1>5 DEF Respond

(* The IDLE the client has open is accepted.                               *)
LEMMA LineAccepted ==
    ASSUME Typed, LineInv, PhaseInv, LateAcceptance \/ IdleAccepted PROVE LineInv'
<1>1. /\ pc \in {"execute", "idle"} /\ wire # <<>> /\ Head(wire).type = "plus"
      /\ wire' = Tail(wire) /\ wire \in Seq(ReplyOf) /\ taken' = TRUE
      /\ UNCHANGED <<tag, queued, open, sent, serving, answered>>
  BY Zenon DEF LateAcceptance, IdleAccepted, IsHead, hidden, server, Typed, driver
<1>2. PlusComes /\ ~PlusComes' /\ OnePlus'
  BY <1>1, ReadPlus DEF LineInv, OneOpen
<1>3. serving = open /\ \A i \in 1 .. Len(sent) : sent[i].kind \notin Opening
  BY <1>1, <1>2 DEF PhaseInv, LineInv, OneOpen
<1>4. QED
  BY <1>1, <1>2, <1>3 DEF LineInv, InOrder, Unanswered, OneOpen

LEMMA LineKept ==
    ASSUME LineInv, UNCHANGED <<tag, client, sent, serving, answered>>,
           PlusComes' => PlusComes, OnePlus => OnePlus'
    PROVE  LineInv'
BY DEF LineInv, InOrder, Unanswered, OneOpen, client

(* What a status ends, or DONE does, lets the client send what it held     *)
(* back (SkipStatus, IdleRejected, and HearData, IdleDeadline).            *)
LEMMA LineEnded ==
    ASSUME Typed, LineInv, StatusInv, EndsOpen, Release(<<>>), tag' = tag, Caller
    PROVE  LineInv' /\ \E n \in Nat : Sends(n, <<>>)
<1>1. <<>> \in Seq(Command)
  OBVIOUS
<1>2. PICK n \in Nat : Sends(n, <<>>)
  BY <1>1, ReleaseSends
<1>3. /\ UNCHANGED <<serving, answered>> /\ (PlusComes' => PlusComes) /\ (OnePlus => OnePlus')
  BY CallerWire DEF Typed
<1>4. /\ \A i \in 1 .. Len(sent) : sent[i].kind \notin Opening
      /\ ~PlusComes /\ OnePlus
  BY EndOfOpen DEF LineInv, OneOpen
<1>5. LineInv'
  BY <1>1, <1>2, <1>3, <1>4, LineRelease
<1>6. QED
  BY <1>2, <1>5

LEMMA LineDone ==
    ASSUME Typed, LineInv, PhaseInv, accepted, ~doneSent, SetIdleDone, tag' = tag, Caller
    PROVE  /\ LineInv'
           /\ \E n \in Nat : Sends(n, <<[tag |-> open, kind |-> "DONE"]>>)
<1> DEFINE first == <<[tag |-> open, kind |-> "DONE"]>>
<1>1. open # 0 /\ taken /\ serving = open
  BY DEF PhaseInv, LineInv, OneOpen
<1>2. first \in Seq(Command)
  <2>1. [tag |-> open, kind |-> "DONE"] \in Command
    BY <1>1 DEF Command, Typed
  <2>2. QED
    BY <2>1
<1>3. Release(first)
  BY Zenon DEF SetIdleDone
<1>4. first = <<[tag |-> open, kind |-> "DONE"]>>
  OBVIOUS
<1> HIDE DEF first
<1>5. PICK n \in Nat : Sends(n, first)
  BY <1>2, <1>3, ReleaseSends
<1>6. UNCHANGED <<serving, answered>> /\ (PlusComes' => PlusComes) /\ (OnePlus => OnePlus')
  BY CallerWire DEF Typed
<1>7. /\ \A i \in 1 .. Len(sent) : sent[i].kind \notin Opening
      /\ ~PlusComes /\ OnePlus
  BY <1>1 DEF LineInv, OneOpen
<1>8. LineInv'
  BY <1>1, <1>2, <1>4, <1>5, <1>6, <1>7, LineRelease
<1>9. QED
  BY <1>4, <1>5, <1>8

LEMMA LineCaller ==
    ASSUME Typed, LineInv, PhaseInv, StatusInv, Caller PROVE LineInv'
<1> USE DEF hidden
<1>1. UNCHANGED <<serving, answered>> /\ (PlusComes' => PlusComes) /\ (OnePlus => OnePlus')
  BY CallerWire DEF Typed
<1>2. UNCHANGED <<tag, client, sent>> => LineInv'
  BY <1>1, LineKept
<1>3. ASSUME NEW kind \in Kind, Enqueue(kind), open = 0 \/ kind \in {"command", "IDLE"}
      PROVE  LineInv'
  BY <1>1, <1>3, LineEnqueue
<1>4. CASE \/ TcpConnected \/ TlsConnected \/ AuthTimeout \/ CollectData \/ ReturnOutcome
           \/ CommandTimeout \/ IdleStatus \/ Close
  <2>1. UNCHANGED <<tag, client, sent>>
    BY <1>4, Zenon DEF TcpConnected, TlsConnected, AuthTimeout, CollectData,
       ReturnOutcome, CommandTimeout, IdleStatus, Close
  <2>2. QED
    BY <1>2, <2>1
<1>5. CASE ReadGreeting \/ Authenticate \/ RefreshCapabilities
  <2>1. open = 0
    BY <1>5 DEF ReadGreeting, Authenticate, RefreshCapabilities, Goto, PhaseInv, Connecting
  <2>2. UNCHANGED <<tag, client, sent>> \/ \E kind \in Kind : Enqueue(kind)
    BY <1>5, Zenon DEF ReadGreeting, Authenticate, RefreshCapabilities, Kind
  <2>3. QED
    BY <1>2, <1>3, <2>1, <2>2
<1>6. CASE Execute \/ Idle
  <2>1. \E kind \in {"command", "IDLE"} : Enqueue(kind)
    BY <1>6 DEF Execute, Idle
  <2>2. {"command", "IDLE"} \subseteq Kind
    BY DEF Kind
  <2>3. QED
    BY <1>3, <2>1, <2>2
<1>7. CASE AuthStatus
  <2>1. /\ \A i \in 1 .. Len(sent) : sent[i].kind \notin Opening
        /\ ~PlusComes /\ ~PlusComes' /\ OnePlus'
    BY <1>1, <1>7, EndOfOpen DEF AuthStatus, LineInv, OneOpen
  <2>2. /\ UNCHANGED <<tag, queued, taken, sent>> /\ open' = 0 /\ pc = "auth"
    BY <1>7 DEF AuthStatus
  <2>3. queued = <<>> /\ Len(queued) = 0 /\ serving = 0
    BY <2>2 DEF PhaseInv
  <2>4. LineType
    BY TypedLine
  <2>5. InOrder'
    BY <2>2, <2>3 DEF LineInv, InOrder
  <2>6. Unanswered'
    BY <1>1, <2>2, <2>3, <2>4 DEF LineInv, Unanswered, LineType
  <2>7. OneOpen'
    BY <1>1, <2>1, <2>2, <2>3, <2>4 DEF LineInv, OneOpen, LineType
  <2>8. QED
    BY <2>5, <2>6, <2>7 DEF LineInv
<1>8. CASE Respond
  BY <1>8, LineRespond
<1>9. CASE LateAcceptance \/ IdleAccepted
  BY <1>9, LineAccepted
<1>10. CASE SkipStatus \/ IdleRejected
  <2>1. tag' = tag
    BY <1>10 DEF SkipStatus, IdleRejected, driver
  <2>2. UNCHANGED <<client, sent>> \/ (EndsOpen /\ Release(<<>>))
    BY <1>10, Zenon DEF SkipStatus, IdleRejected
  <2>3. QED
    BY <1>2, <2>1, <2>2, LineEnded
<1>11. CASE HearData \/ IdleDeadline
  <2>1. tag' = tag
    BY <1>11 DEF HearData, IdleDeadline
  <2>2. UNCHANGED <<client, sent>> \/ (accepted /\ ~doneSent /\ SetIdleDone)
    BY <1>11, Zenon DEF HearData, IdleDeadline
  <2>3. QED
    BY <1>2, <2>1, <2>2, LineDone
<1>12. QED
  BY <1>4, <1>5, <1>6, <1>7, <1>8, <1>9, <1>10, <1>11 DEF Caller, Session

-------------------------------------------------------------------------------
\* What is open in which phase.

LEMMA PhaseServer ==
    ASSUME Typed, LineInv, PhaseInv, Server PROVE PhaseInv'
<1> USE DEF LineType
<1>1. LineType
  BY TypedLine
<1>2. UNCHANGED <<pc, job, tag, queued, open, taken, accepted, doneSent, heard, abandoned>>
  BY ServerLine DEF client, others, driver
<1>3. \A i \in 1 .. Len(sent') :
          /\ sent'[i].kind \in {"AUTHENTICATE", "answer"} => pc \in {"auth", "closed"}
          /\ sent'[i].kind = "IDLE" => pc # "auth"
  <2>1. CASE sent # <<>> /\ sent' = Tail(sent)
    <3>1. \A i \in 1 .. Len(sent') : i + 1 \in 1 .. Len(sent) /\ sent'[i] = sent[i + 1]
      BY <1>1, <2>1, TailOf
    <3>2. QED
      BY <3>1 DEF PhaseInv
  <2>2. CASE sent' = sent
    BY <2>2 DEF PhaseInv
  <2>3. QED
    BY <2>1, <2>2, ServerLine DEF Answers
<1>4. /\ sent # <<>> => 1 \in 1 .. Len(sent) /\ Head(sent) = sent[1]
  BY <1>1, TailOf
<1>5. Connecting \/ pc = "auth" => serving' = 0
  <2>1. CASE serving' = serving \/ serving' = 0
    BY <2>1 DEF PhaseInv
  <2>2. CASE sent # <<>> /\ serving = 0 /\ Head(sent).kind = "IDLE"
    <3>1. sent[1].tag = open /\ open # 0 /\ sent[1].kind = "IDLE" /\ 1 \in 1 .. Len(sent)
      BY <1>1, <1>4, <2>2 DEF LineInv, OneOpen, Opening
    <3>2. QED
      BY <3>1 DEF PhaseInv
  <2>3. QED
    BY <2>1, <2>2, ServerLine DEF Answers
<1>6. PlusComes' /\ pc \notin {"auth", "closed"} => serving' = open
  <2>1. CASE sent # <<>> /\ Head(sent).kind \in {"AUTHENTICATE", "IDLE"}
             /\ (serving' = Head(sent).tag \/ Head(sent).kind = "AUTHENTICATE")
    <3>1. sent[1].tag = open /\ 1 \in 1 .. Len(sent)
      BY <1>4, <2>1 DEF LineInv, OneOpen, Opening
    <3>2. QED
      BY <1>4, <2>1, <3>1 DEF PhaseInv
  <2>2. CASE (PlusComes' => PlusComes) /\ serving' = serving
    BY <2>2 DEF PhaseInv
  <2>3. CASE /\ (PlusComes' => PlusComes) /\ sent # <<>> /\ Head(sent).kind = "DONE"
    <3>1. serving # open
      BY <1>4, <2>3 DEF LineInv, OneOpen
    <3>2. QED
      BY <2>3, <3>1 DEF PhaseInv
  <2>4. QED
    BY <2>1, <2>2, <2>3, ServerLine DEF Answers
<1>7. QED
  BY <1>2, <1>3, <1>5, <1>6 DEF PhaseInv, Connecting

(* The phase moves, and nothing is sent.                                   *)
LEMMA PhaseKept ==
    ASSUME Typed, PhaseInv, PlusComes' => PlusComes, UNCHANGED <<tag, client, sent, serving>>,
           \/ TcpConnected \/ TlsConnected \/ ReadGreeting \/ AuthTimeout \/ CollectData
           \/ ReturnOutcome \/ SkipStatus \/ CommandTimeout \/ Close
           \/ HearData \/ IdleStatus \/ IdleDeadline
    PROVE  PhaseInv'
<1> USE DEF PhaseInv, Connecting, client, locals, hidden, server, driver
<1>1. CASE TcpConnected
  BY <1>1 DEF TcpConnected, Goto
<1>2. CASE TlsConnected
  BY <1>2 DEF TlsConnected, Goto
<1>3. CASE ReadGreeting
  BY <1>3 DEF ReadGreeting, Enqueue, Typed
<1>4. CASE AuthTimeout \/ Close
  BY <1>4 DEF AuthTimeout, Close, Goto
<1>5. CASE CollectData \/ SkipStatus
  BY <1>5 DEF CollectData, SkipStatus
<1>6. CASE ReturnOutcome
  BY <1>6 DEF ReturnOutcome, After
<1>7. CASE CommandTimeout
  BY <1>7 DEF CommandTimeout
<1>8. CASE HearData
  BY <1>8 DEF HearData
<1>9. CASE IdleStatus
  BY <1>9 DEF IdleStatus, IdleReturns
<1>10. CASE IdleDeadline
  BY <1>10 DEF IdleDeadline, IdleReturns, IdleFails
<1>11. QED
  BY <1>1, <1>2, <1>3, <1>4, <1>5, <1>6, <1>7, <1>8, <1>9, <1>10

LEMMA Enqueued ==
    ASSUME Typed, NEW kind \in Kind, Enqueue(kind)
    PROVE  /\ tag' = tag + 1 /\ tag + 1 \in 1 .. MaxTag
           /\ sent' \in Seq(Command) /\ queued' \in Seq(Command)
           /\ \A i \in 1 .. Len(sent') :
                 (i \in 1 .. Len(sent) /\ sent'[i] = sent[i]) \/ sent'[i].kind = kind
           /\ open = 0 =>
                 /\ queued' = queued /\ taken' = FALSE
                 /\ open' = IF kind \in {"IDLE", "AUTHENTICATE"} THEN tag + 1 ELSE 0
           /\ open # 0 =>
                 /\ sent' = sent /\ open' = open /\ taken' = taken /\ queued' # <<>>
                 /\ \E j \in 1 .. Len(queued') : queued'[j] = [tag |-> tag + 1, kind |-> kind]
<1> DEFINE c == [tag |-> tag + 1, kind |-> kind]
<1>1. /\ tag' = tag + 1 /\ tag + 1 \in 1 .. MaxTag /\ Len(queued) \in Nat
      /\ sent \in Seq(Command) /\ queued \in Seq(Command)
  <2>1. tag \in 0 .. MaxTag /\ tag < MaxTag /\ tag' = tag + 1
    BY DEF Enqueue, Typed
  <2>2. QED
    BY <2>1, SessionAssumption DEF Typed
<1>2. c \in Command /\ c.kind = kind
  BY <1>1 DEF Command
<1>3. CASE open # 0
  <2>1. queued' = Append(queued, c) /\ UNCHANGED <<sent, open, taken>>
    BY <1>3 DEF Enqueue
  <2>2. c = [tag |-> tag + 1, kind |-> kind]
    OBVIOUS
  <2> HIDE DEF c
  <2>3. /\ queued' \in Seq(Command) /\ Len(queued') = Len(queued) + 1
        /\ queued'[Len(queued) + 1] = c
    BY <1>1, <1>2, <2>1, AppendOf
  <2>4. Len(queued) + 1 \in 1 .. Len(queued') /\ queued' # <<>>
    BY <1>1, <2>3
  <2>5. QED
    BY <1>1, <1>3, <2>1, <2>2, <2>3, <2>4
<1>4. CASE open = 0
  <2>1. /\ sent' = Append(sent, c) /\ queued' = queued /\ taken' = FALSE
        /\ open' = IF kind \in {"IDLE", "AUTHENTICATE"} THEN tag + 1 ELSE 0
    BY <1>4 DEF Enqueue
  <2> HIDE DEF c
  <2>2. /\ sent' \in Seq(Command) /\ Len(sent') = Len(sent) + 1 /\ sent'[Len(sent) + 1] = c
        /\ \A i \in 1 .. Len(sent) : sent'[i] = sent[i]
        /\ \A i \in 1 .. Len(sent) + 1 : i \in 1 .. Len(sent) \/ i = Len(sent) + 1
    BY <1>1, <1>2, <2>1, AppendOf
  <2>3. QED
    BY <1>1, <1>2, <1>4, <2>1, <2>2
<1>5. QED
  BY <1>3, <1>4

(* A command or an IDLE goes out, in the phase for it.                     *)
LEMMA PhaseEnqueue ==
    ASSUME Typed, LineInv, PhaseInv, PlusComes' => PlusComes, serving' = serving,
           \/ ReadGreeting /\ ~UNCHANGED <<tag, client, sent>>
           \/ Authenticate \/ RefreshCapabilities \/ Execute \/ Idle
    PROVE  PhaseInv'
<1> USE DEF LineType
<1>1. LineType
  BY TypedLine
<1>2. PICK kind \in {"STARTTLS", "AUTHENTICATE", "LOGIN", "CAPABILITY", "command", "IDLE"} :
          /\ Enqueue(kind)
          /\ pc' = IF kind = "AUTHENTICATE" THEN "auth" ELSE IF kind = "IDLE" THEN "idle" ELSE "execute"
          /\ job' = kind
          /\ IF kind \in {"command", "IDLE"} THEN pc = "ready" ELSE Connecting
  BY Zenon DEF ReadGreeting, Authenticate, RefreshCapabilities, Execute, Idle, Goto, client,
     Connecting
<1>3. kind \in Kind
  BY DEF Kind
<1>4. /\ UNCHANGED <<accepted, doneSent, abandoned>> /\ (kind # "IDLE" => heard' = heard)
      /\ ~accepted /\ ~doneSent /\ pc \notin {"auth", "closed", "idle"}
  <2>1. UNCHANGED <<accepted, doneSent, abandoned>>
    BY DEF ReadGreeting, Authenticate, RefreshCapabilities, Execute, Idle, locals, hidden
  <2>2. heard' = heard \/ job' = "IDLE"
    BY DEF ReadGreeting, Authenticate, RefreshCapabilities, Execute, Idle, locals
  <2>3. pc \notin {"auth", "closed", "idle"}
    BY <1>2 DEF Connecting
  <2>4. ~accepted /\ ~doneSent
    BY <2>3 DEF PhaseInv
  <2>5. kind # "IDLE" => heard' = heard
    BY <1>2, <2>2
  <2>6. QED
    BY <2>1, <2>3, <2>4, <2>5
<1>5. /\ tag' = tag + 1
      /\ \A i \in 1 .. Len(sent') :
            (i \in 1 .. Len(sent) /\ sent'[i] = sent[i]) \/ sent'[i].kind = kind
      /\ open = 0 =>
            /\ queued' = queued /\ taken' = FALSE
            /\ open' = IF kind \in {"IDLE", "AUTHENTICATE"} THEN tag + 1 ELSE 0
      /\ open # 0 =>
            /\ sent' = sent /\ open' = open /\ taken' = taken
            /\ \E j \in 1 .. Len(queued') : queued'[j] = [tag |-> tag + 1, kind |-> kind]
  BY <1>2, <1>3, Enqueued
<1>6. CASE kind \notin {"command", "IDLE"}
  <2>1. Connecting /\ open = 0
    BY <1>2, <1>6 DEF PhaseInv
  <2>2. \A i \in 1 .. Len(sent) : sent[i].kind \notin Opening
    BY <1>1, <2>1 DEF LineInv, OneOpen
  <2>3. \A i \in 1 .. Len(sent') : sent'[i].kind \in Opening => kind = "AUTHENTICATE" /\ sent'[i].kind = kind
    BY <1>5, <1>6, <2>2 DEF Opening
  <2>4. ~PlusComes'
    BY <2>1 DEF LineInv, OneOpen
  <2>5. /\ abandoned' = {} /\ ~heard' /\ queued' = <<>> /\ serving' = 0
        /\ ~accepted' /\ ~doneSent'
    BY <1>4, <1>5, <1>6, <2>1 DEF PhaseInv
  <2>6. IF kind = "AUTHENTICATE" THEN pc' = "auth" /\ open' = tag' ELSE pc' = "execute" /\ open' = 0
    BY <1>2, <1>5, <1>6, <2>1
  <2>7. \A i \in 1 .. Len(sent') :
            /\ sent'[i].kind \in {"AUTHENTICATE", "answer"} => pc' \in {"auth", "closed"}
            /\ sent'[i].kind = "IDLE" => pc' # "auth"
    BY <2>3, <2>6 DEF Opening
  <2>8. QED
    BY <1>1, <1>2, <2>4, <2>5, <2>6, <2>7 DEF PhaseInv, Connecting
<1>7. CASE kind \in {"command", "IDLE"}
  <2>1. /\ pc = "ready" /\ pc' \in {"execute", "idle"} /\ ~Connecting' /\ pc' # "auth"
        /\ (pc' = "execute" => kind = "command")
    BY <1>2, <1>7 DEF Connecting
  <2>2. \A i \in 1 .. Len(sent') : sent'[i].kind \notin {"AUTHENTICATE", "answer"}
    BY <1>5, <1>7, <2>1 DEF PhaseInv
  <2>3. PlusComes' => serving' = open'
    BY <1>5, <2>1 DEF PhaseInv, LineInv, OneOpen
  <2>4. pc' = "execute" /\ open' # 0 =>
            \E j \in 1 .. Len(queued') : queued'[j] = [tag |-> tag', kind |-> "command"]
    BY <1>5, <2>1
  <2>5. ~accepted' /\ ~doneSent'
    BY <1>4
  <2>6. QED
    BY <2>1, <2>2, <2>3, <2>4, <2>5 DEF PhaseInv
<1>8. QED
  BY <1>6, <1>7

LEMMA PhaseAuth ==
    ASSUME Typed, LineInv, PhaseInv, StatusInv, PlusComes' => PlusComes,
           serving' = serving, Respond \/ AuthStatus
    PROVE  PhaseInv'
<1> USE DEF client, locals, hidden
<1>1. /\ pc = "auth" /\ abandoned = {} /\ ~heard /\ queued = <<>> /\ serving = 0 /\ open = tag
      /\ ~accepted /\ ~doneSent
  BY DEF Respond, AuthStatus, PhaseInv
<1>2. UNCHANGED <<job, tag, accepted, doneSent, heard, queued, taken, abandoned>>
  BY DEF Respond, AuthStatus
<1>3. CASE Respond
  <2>1. pc' \in {"auth", "closed"} /\ open' = open
    BY <1>1, <1>3 DEF Respond
  <2>2. \A i \in 1 .. Len(sent') : sent'[i].kind = "IDLE" => pc' # "auth"
    <3>1. CASE sent' = sent
      BY <1>1, <3>1 DEF PhaseInv
    <3>2. CASE sent' = Append(sent, [tag |-> open, kind |-> "answer"])
      <4>1. \A i \in 1 .. Len(sent') :
                (i \in 1 .. Len(sent) /\ sent'[i] = sent[i]) \/ sent'[i].kind = "answer"
        <5>1. [tag |-> open, kind |-> "answer"].kind = "answer"
          OBVIOUS
        <5>2. sent \in Seq(Command)
          BY DEF Typed
        <5>3. QED
          BY <3>2, <5>1, <5>2
      <4>2. QED
        BY <1>1, <4>1 DEF PhaseInv
    <3>3. QED
      BY <1>3, <3>1, <3>2 DEF Respond
  <2>3. QED
    BY <1>1, <1>2, <2>1, <2>2 DEF PhaseInv, Connecting
<1>4. CASE AuthStatus
  <2>1. /\ \A i \in 1 .. Len(sent) : sent[i].kind \notin Opening
        /\ ~PlusComes
    BY <1>4, EndOfOpen DEF AuthStatus
  <2>2. pc' \in {"refresh", "closed"} /\ open' = 0 /\ sent' = sent
    BY <1>4 DEF AuthStatus
  <2>3. QED
    BY <1>1, <1>2, <2>1, <2>2 DEF PhaseInv, Connecting, Opening
<1>5. QED
  BY <1>3, <1>4

LEMMA PhaseAccepted ==
    ASSUME Typed, LineInv, PhaseInv, serving' = serving, LateAcceptance \/ IdleAccepted
    PROVE  PhaseInv'
<1>1. /\ pc \in {"execute", "idle"} /\ wire # <<>> /\ Head(wire).type = "plus"
      /\ wire' = Tail(wire) /\ wire \in Seq(ReplyOf) /\ taken' = TRUE
      /\ UNCHANGED <<pc, job, tag, queued, open, sent, heard, doneSent, abandoned>>
      /\ (accepted' = accepted \/ pc = "idle")
  BY Zenon DEF LateAcceptance, IdleAccepted, IsHead, hidden, Typed, driver
<1>2. PlusComes /\ ~PlusComes'
  BY <1>1, ReadPlus DEF LineInv, OneOpen
<1>3. open # 0
  BY <1>2 DEF LineInv, OneOpen
<1>4. QED
  BY <1>1, <1>2, <1>3 DEF PhaseInv, Connecting

(* What was held back goes out, and the current command stays behind an    *)
(* IDLE if one is opened.                                                  *)
LEMMA PhaseReleased ==
    ASSUME Typed, LineInv, PhaseInv, NEW n \in Nat, NEW first \in Seq(Command), Sends(n, first),
           \A i \in 1 .. Len(first) : first[i].kind = "DONE", open # 0,
           ~PlusComes', serving' = serving, UNCHANGED <<tag, abandoned>>,
           \/ pc = "execute" /\ UNCHANGED <<pc, job, accepted, doneSent>>
           \/ pc = "idle" /\ pc' = "idle" /\ doneSent'
           \/ pc = "idle" /\ pc' = "closed" /\ ~accepted' /\ ~doneSent'
    PROVE  PhaseInv'
<1> USE DEF LineType
<1>1. LineType
  BY TypedLine
<1>2. ~Connecting' /\ pc' \notin {"auth", "ready"} /\ pc \notin {"auth", "closed"}
  BY DEF PhaseInv, Connecting
<1>3. \A i \in 1 .. Len(sent') : sent'[i].kind \notin {"AUTHENTICATE", "answer"}
  <2>1. n \in 0 .. Len(queued)
    BY DEF Sends
  <2>2. \A k \in 1 .. n : queued[k].kind \in {"command", "IDLE"}
    BY <1>1, <2>1 DEF LineInv, Unanswered
  <2>3. \A i \in 1 .. Len(sent) : sent[i].kind \notin {"AUTHENTICATE", "answer"}
    BY <1>2 DEF PhaseInv
  <2>4. \A i \in 1 .. Len(sent') :
            \/ i \in 1 .. Len(sent) /\ sent'[i] = sent[i]
            \/ i - Len(sent) \in 1 .. Len(first) /\ sent'[i] = first[i - Len(sent)]
            \/ /\ i - (Len(sent) + Len(first)) \in 1 .. n
               /\ sent'[i] = queued[i - (Len(sent) + Len(first))]
    BY DEF Sends
  <2>5. QED
    BY <2>2, <2>3, <2>4
<1>4. accepted' /\ ~doneSent' => open' # 0 /\ taken'
  BY DEF PhaseInv
<1>5. pc' # "closed" /\ pc' # "idle" => ~accepted' /\ ~doneSent'
  BY DEF PhaseInv
<1>6. pc' = "execute" /\ open' # 0 =>
          \E j \in 1 .. Len(queued') : queued'[j] = [tag |-> tag', kind |-> "command"]
  <2> SUFFICES ASSUME pc' = "execute", open' # 0
               PROVE  \E j \in 1 .. Len(queued') : queued'[j] = [tag |-> tag, kind |-> "command"]
    OBVIOUS
  <2>1. PICK j \in 1 .. Len(queued) : queued[j] = [tag |-> tag, kind |-> "command"]
    BY DEF PhaseInv
  <2>2. queued[j].tag = tag /\ queued[j].kind = "command"
    BY <2>1
  <2>3. /\ n \in 1 .. Len(queued) /\ queued[n].kind = "IDLE" /\ Len(queued') = Len(queued) - n
        /\ \A k \in 1 .. Len(queued') : n + k \in 1 .. Len(queued) /\ queued'[k] = queued[n + k]
    BY DEF Sends
  <2>4. queued[n].tag <= tag
    BY <2>3 DEF LineInv, Unanswered
  <2>5. ~(j < n)
    <3>1. j < n => queued[j].tag < queued[n].tag
      BY <2>3 DEF LineInv, InOrder
    <3>2. QED
      BY <1>1, <2>2, <2>3, <2>4, <3>1
  <2>6. j # n
    BY <2>2, <2>3
  <2>7. j - n \in 1 .. Len(queued') /\ n + (j - n) = j
    BY <1>1, <2>3, <2>5, <2>6
  <2>8. QED
    BY <2>1, <2>3, <2>7
<1>7. QED
  BY <1>2, <1>3, <1>4, <1>5, <1>6 DEF PhaseInv

LEMMA PhaseCaller ==
    ASSUME Typed, LineInv, PhaseInv, StatusInv, Caller PROVE PhaseInv'
<1> USE DEF hidden
<1>1. (PlusComes' => PlusComes) /\ serving' = serving
  BY CallerWire DEF Typed
<1>2. CASE /\ UNCHANGED <<tag, client, sent>>
           /\ \/ TcpConnected \/ TlsConnected \/ ReadGreeting \/ AuthTimeout \/ CollectData
              \/ ReturnOutcome \/ SkipStatus \/ CommandTimeout \/ Close
              \/ HearData \/ IdleStatus \/ IdleDeadline
  BY <1>1, <1>2, PhaseKept
<1>3. CASE \/ ReadGreeting /\ ~UNCHANGED <<tag, client, sent>>
           \/ Authenticate \/ RefreshCapabilities \/ Execute \/ Idle
  BY <1>1, <1>3, PhaseEnqueue
<1>4. CASE Respond \/ AuthStatus
  BY <1>1, <1>4, PhaseAuth
<1>5. CASE LateAcceptance \/ IdleAccepted
  BY <1>1, <1>5, PhaseAccepted
<1>6. CASE (SkipStatus /\ EndsOpen) \/ IdleRejected
  <2>1. /\ EndsOpen /\ Release(<<>>) /\ UNCHANGED <<tag, abandoned>> /\ open # 0
        /\ \/ pc = "execute" /\ UNCHANGED <<pc, job, accepted, doneSent>>
           \/ pc = "idle" /\ pc' = "closed" /\ ~accepted' /\ ~doneSent'
    BY <1>6, Zenon DEF SkipStatus, IdleRejected, IdleFails, EndsOpen, driver
  <2>2. PICK n \in Nat : Sends(n, <<>>)
    BY <2>1, LineEnded
  <2>3. ~PlusComes'
    BY <1>1, <2>1, EndOfOpen
  <2>4. <<>> \in Seq(Command) /\ \A i \in 1 .. Len(<<>>) : <<>>[i].kind = "DONE"
    OBVIOUS
  <2>5. QED
    BY <1>1, <2>1, <2>2, <2>3, <2>4, PhaseReleased
<1>7. CASE (HearData \/ IdleDeadline) /\ ~UNCHANGED <<client, sent>>
  <2> DEFINE d == [tag |-> open, kind |-> "DONE"]
             first == <<d>>
  <2>1. /\ accepted /\ ~doneSent /\ SetIdleDone /\ UNCHANGED <<tag, abandoned>>
        /\ pc = "idle" /\ pc' = "idle" /\ doneSent'
    BY <1>7, Zenon DEF HearData, IdleDeadline
  <2>2. open # 0 /\ taken
    BY <2>1 DEF PhaseInv
  <2>3. d \in Command /\ d.kind = "DONE"
    BY <2>2 DEF Command, Typed
  <2>4. PICK n \in Nat : Sends(n, first)
    BY <2>1, LineDone
  <2>5. ~PlusComes'
    BY <1>1, <2>2 DEF LineInv, OneOpen
  <2>6. first \in Seq(Command) /\ \A i \in 1 .. Len(first) : first[i].kind = "DONE"
    <3> HIDE DEF d
    <3>1. QED
      BY <2>3
  <2> HIDE DEF first
  <2>7. QED
    BY <1>1, <2>1, <2>2, <2>4, <2>5, <2>6, PhaseReleased
<1>8. (SkipStatus => EndsOpen \/ UNCHANGED <<tag, client, sent>>)
  BY Zenon DEF SkipStatus, driver
<1>9. (HearData \/ IdleDeadline) => tag' = tag
  BY DEF HearData, IdleDeadline
<1>10. TcpConnected \/ TlsConnected \/ AuthTimeout \/ CollectData \/ ReturnOutcome
       \/ CommandTimeout \/ Close \/ IdleStatus => UNCHANGED <<tag, client, sent>>
  BY Zenon DEF TcpConnected, TlsConnected, AuthTimeout, CollectData, ReturnOutcome,
     CommandTimeout, Close, IdleStatus
<1>11. QED
  BY <1>2, <1>3, <1>4, <1>5, <1>6, <1>7, <1>8, <1>9, <1>10, Zenon DEF Caller, Session

(* An IDLE is left open only by an idle() that returned without DONE.      *)
LEMMA LeftOpenServer ==
    ASSUME Typed, LeftOpenInv, Server PROVE LeftOpenInv'
BY ServerLine DEF LeftOpenInv, others, driver, client

LEMMA LeftOpenEnqueue ==
    ASSUME Typed, PhaseInv, LeftOpenInv,
           \/ ReadGreeting /\ ~UNCHANGED <<tag, client, sent>>
           \/ Authenticate \/ RefreshCapabilities \/ Execute \/ Idle
    PROVE  LeftOpenInv'
<1>1. PICK kind \in {"STARTTLS", "AUTHENTICATE", "LOGIN", "CAPABILITY", "command", "IDLE"} :
          /\ Enqueue(kind)
          /\ pc' = IF kind = "AUTHENTICATE" THEN "auth" ELSE IF kind = "IDLE" THEN "idle" ELSE "execute"
          /\ IF kind \in {"command", "IDLE"} THEN pc = "ready" ELSE Connecting
  BY Zenon DEF ReadGreeting, Authenticate, RefreshCapabilities, Execute, Idle, Goto, client,
     Connecting
<1>2. kind \in Kind
  BY DEF Kind
<1>3. /\ UNCHANGED <<accepted, doneSent, abandoned>> /\ ~accepted /\ ~doneSent
  <2>1. UNCHANGED <<accepted, doneSent, abandoned>>
    BY DEF ReadGreeting, Authenticate, RefreshCapabilities, Execute, Idle, locals, hidden
  <2>2. pc \notin {"closed", "idle"}
    BY <1>1 DEF Connecting
  <2>3. QED
    BY <2>1, <2>2 DEF PhaseInv
<1>4. /\ open = 0 =>
            /\ queued' = queued /\ taken' = FALSE
            /\ open' = IF kind \in {"IDLE", "AUTHENTICATE"} THEN tag + 1 ELSE 0
      /\ open # 0 => /\ open' = open /\ taken' = taken
  BY <1>1, <1>2, Enqueued
<1>5. CASE open = 0
  BY <1>1, <1>3, <1>4, <1>5 DEF LeftOpenInv
<1>6. CASE open # 0
  <2>1. pc = "ready"
    BY <1>1, <1>6 DEF PhaseInv
  <2>2. "open" \in abandoned'
    BY <1>3, <1>6, <2>1 DEF LeftOpenInv
  <2>3. QED
    BY <2>2 DEF LeftOpenInv
<1>7. QED
  BY <1>5, <1>6

LEMMA LeftOpenCaller ==
    ASSUME Typed, LineInv, PhaseInv, LeftOpenInv, StatusInv, Caller PROVE LeftOpenInv'
<1> USE DEF hidden
<1>1. CASE TcpConnected \/ TlsConnected \/ AuthTimeout \/ Close
  BY <1>1 DEF TcpConnected, TlsConnected, AuthTimeout, Close, Goto, LeftOpenInv, client
<1>2. CASE ReadGreeting /\ UNCHANGED <<tag, client, sent>>
  BY <1>2 DEF ReadGreeting, Enqueue, LeftOpenInv, client, Typed
<1>3. CASE \/ ReadGreeting /\ ~UNCHANGED <<tag, client, sent>>
           \/ Authenticate \/ RefreshCapabilities \/ Execute \/ Idle
  BY <1>3, LeftOpenEnqueue
<1>4. CASE Respond \/ AuthStatus
  BY <1>4 DEF Respond, AuthStatus, PhaseInv, LeftOpenInv, client
<1>5. CASE CollectData
  BY <1>5 DEF CollectData, LeftOpenInv, client
<1>6. CASE ReturnOutcome
  BY <1>6 DEF ReturnOutcome, LeftOpenInv, PhaseInv, Connecting, After, client
<1>7. CASE CommandTimeout
  BY <1>7 DEF CommandTimeout, LeftOpenInv, client
<1>8. CASE LateAcceptance \/ IdleAccepted
  BY <1>8 DEF LateAcceptance, IdleAccepted, LeftOpenInv, driver
<1>9. CASE IdleStatus
  BY <1>9 DEF IdleStatus, IdleReturns, LeftOpenInv, PhaseInv, client, Typed
<1>10. CASE SkipStatus /\ ~EndsOpen
  BY <1>10 DEF SkipStatus, LeftOpenInv, driver, client
<1>11. ASSUME NEW n \in Nat, NEW first, Sends(n, first), queued \in Seq(Command)
       PROVE  queued' # <<>> \/ open' # 0 => queued # <<>>
  <2>1. Len(queued) \in Nat /\ (queued = <<>> => Len(queued) = 0)
    BY <1>11
  <2>2. /\ n \in 0 .. Len(queued) /\ Len(queued') = Len(queued) - n /\ queued' \in Seq(Command)
        /\ open' = 0 \/ n \in 1 .. Len(queued)
    BY <1>11 DEF Sends
  <2>3. QED
    BY <2>1, <2>2
<1>12. CASE (SkipStatus /\ EndsOpen) \/ IdleRejected
  <2>1. /\ EndsOpen /\ Release(<<>>) /\ UNCHANGED <<tag, abandoned>> /\ pc' # "idle"
    BY <1>12, Zenon DEF SkipStatus, IdleRejected, IdleFails, EndsOpen, driver
  <2>2. PICK n \in Nat : Sends(n, <<>>)
    BY <2>1, LineEnded
  <2>3. queued' # <<>> \/ open' # 0 => queued # <<>>
    BY <1>11, <2>2 DEF Typed
  <2>4. QED
    BY <2>1, <2>3 DEF LeftOpenInv
<1>13. CASE (HearData \/ IdleDeadline) /\ ~UNCHANGED <<client, sent>>
  <2>1. /\ accepted /\ ~doneSent /\ SetIdleDone /\ UNCHANGED <<tag, abandoned>>
        /\ pc = "idle" /\ pc' = "idle"
    BY <1>13, Zenon DEF HearData, IdleDeadline
  <2>2. PICK n \in Nat : Sends(n, <<[tag |-> open, kind |-> "DONE"]>>)
    BY <2>1, LineDone
  <2>3. queued' # <<>> \/ open' # 0 => queued # <<>>
    BY <1>11, <2>2 DEF Typed
  <2>4. QED
    BY <2>1, <2>3 DEF LeftOpenInv
<1>14. accepted /\ ~doneSent /\ SetIdleDone => ~UNCHANGED <<client, sent>>
  <2>1. SetIdleDone => taken' = FALSE
    BY DEF SetIdleDone, Release
  <2>2. accepted /\ ~doneSent => taken
    BY DEF PhaseInv
  <2>3. UNCHANGED <<client, sent>> => taken' = taken
    BY DEF client
  <2>4. QED
    BY <2>1, <2>2, <2>3, Zenon
<1>15. CASE (HearData \/ IdleDeadline) /\ UNCHANGED <<client, sent>>
  <2>1. CASE HearData
    <3>1. UNCHANGED <<pc, accepted, doneSent, abandoned>>
      BY <1>14, <1>15, <2>1, Zenon DEF HearData
    <3>2. QED
      BY <1>15, <3>1 DEF LeftOpenInv, client
  <2>2. CASE IdleDeadline
    BY <1>14, <1>15, <2>2 DEF IdleDeadline, IdleReturns, IdleFails, LeftOpenInv, client, Typed
  <2>3. QED
    BY <1>15, <2>1, <2>2
<1>16. QED
  BY <1>1, <1>2, <1>3, <1>4, <1>5, <1>6, <1>7, <1>8, <1>9, <1>10, <1>12, <1>13, <1>15, Zenon
     DEF Caller, Session

-------------------------------------------------------------------------------
\* What the server sends, and the types.

(* The server answers the next command, or speaks of the IDLE it serves.   *)
FromServer(x) ==
    /\ x.tag <= MaxTag /\ (x.type = "data" => x.tag # 0)
    /\ \/ x.tag \in {0, serving}
       \/ sent # <<>> /\ Head(sent).kind # "DONE" /\ x.tag = Head(sent).tag

LEMMA ServerSends ==
    ASSUME Typed, Server
    PROVE  \E r \in Seq(ReplyOf) :
               /\ wire' = wire \o r
               /\ \A i \in 1 .. Len(r) :
                     FromServer(r[i]) /\ (i < Len(r) => r[i].type = "data")
               /\ \/ owed' = owed /\ \A i \in 1 .. Len(r) : ~IsOwed(r[i])
                  \/ /\ owed' = owed + 1 /\ pushes' = pushes + 1
                     /\ Len(r) = 1 /\ IsOwed(r[1]) /\ r[1].tag = serving
<1> USE DEF others, server, Answer, Status
<1>1. /\ wire \in Seq(ReplyOf) /\ serving \in Nat /\ serving <= MaxTag /\ MaxTag \in Nat
      /\ sent # <<>> => /\ Head(sent).tag \in Nat /\ Head(sent).tag # 0
                         /\ Head(sent).tag <= MaxTag
  <2>1. sent # <<>> => Head(sent) \in Command
    BY TailOf DEF Typed
  <2>2. MaxTag \in Nat
    BY SessionAssumption
  <2>3. QED
    BY <2>1, <2>2 DEF Typed, Command
<1> DEFINE Sent(r) ==
               /\ wire' = wire \o r
               /\ \A i \in 1 .. Len(r) :
                     FromServer(r[i]) /\ (i < Len(r) => r[i].type = "data")
               /\ \/ owed' = owed /\ \A i \in 1 .. Len(r) : ~IsOwed(r[i])
                  \/ /\ owed' = owed + 1 /\ pushes' = pushes + 1
                     /\ Len(r) = 1 /\ IsOwed(r[1]) /\ r[1].tag = serving
<1>2. ASSUME NEW x \in ReplyOf, FromServer(x), wire' = wire \o <<x>>,
             IF IsOwed(x) THEN owed' = owed + 1 /\ pushes' = pushes + 1 /\ x.tag = serving
             ELSE owed' = owed
      PROVE  \E r \in Seq(ReplyOf) : Sent(r)
  <2>1. <<x>> \in Seq(ReplyOf) /\ Len(<<x>>) = 1 /\ <<x>>[1] = x
    OBVIOUS
  <2>2. Sent(<<x>>)
    BY <1>2, <2>1
  <2>3. QED
    BY <2>1, <2>2
<1>3. ASSUME NEW ok \in BOOLEAN, NEW t \in Nat, wire' = wire \o <<Reply("status", t, ok)>>,
             owed' = owed,
             \/ t \in {0, serving}
             \/ sent # <<>> /\ Head(sent).kind # "DONE" /\ t = Head(sent).tag
      PROVE  \E r \in Seq(ReplyOf) : Sent(r)
  <2> DEFINE x == Reply("status", t, ok)
  <2>1. x \in ReplyOf /\ x.type = "status" /\ x.tag = t
    BY ReplyType
  <2>2. wire' = wire \o <<x>>
    BY <1>3
  <2> HIDE DEF x, Sent
  <2>3. FromServer(x) /\ ~IsOwed(x)
    BY <1>1, <1>3, <2>1 DEF FromServer, IsOwed
  <2>4. QED
    BY <1>2, <1>3, <2>1, <2>2, <2>3
<1>4. ASSUME NEW ok \in BOOLEAN, ServeCommand(ok)
      PROVE  \E r \in Seq(ReplyOf) : Sent(r)
  <2> DEFINE t == Head(sent).tag
             x == Reply("data", t, TRUE)
             y == Reply("status", t, TRUE)
  <2>1. /\ sent # <<>> /\ owed' = owed /\ Head(sent).kind # "DONE"
        /\ wire' = wire \o IF ok THEN <<Reply("data", t, TRUE), Reply("status", t, TRUE)>>
                           ELSE <<Reply("status", t, FALSE)>>
    BY <1>4 DEF ServeCommand
  <2>2. t \in Nat /\ t # 0 /\ t <= MaxTag
    BY <1>1, <2>1
  <2>3. CASE ~ok
    <3>1. wire' = wire \o <<Reply("status", t, FALSE)>> /\ t = Head(sent).tag
      BY <2>1, <2>3
    <3> HIDE DEF t, Sent
    <3>2. QED
      BY <1>3, <2>1, <2>2, <3>1
  <2>4. CASE ok
    <3>1. wire' = wire \o <<x, y>> /\ t = Head(sent).tag
      BY <2>1, <2>4
    <3>2. /\ x \in ReplyOf /\ x.type = "data" /\ x.tag = t
          /\ y \in ReplyOf /\ y.type = "status" /\ y.tag = t
      <4> HIDE DEF t
      <4>1. x \in ReplyOf /\ x.type = "data" /\ x.tag = t
        BY <2>2, ReplyType
      <4>2. y \in ReplyOf /\ y.type = "status" /\ y.tag = t
        BY <2>2, ReplyType
      <4>3. QED
        BY <4>1, <4>2
    <3> HIDE DEF t, x, y
    <3>3. FromServer(x) /\ FromServer(y) /\ ~IsOwed(x) /\ ~IsOwed(y)
      BY <2>1, <2>2, <3>1, <3>2 DEF FromServer, IsOwed
    <3>4. /\ <<x, y>> \in Seq(ReplyOf) /\ Len(<<x, y>>) = 2
          /\ <<x, y>>[1] = x /\ <<x, y>>[2] = y
      BY <3>2
    <3>5. Sent(<<x, y>>)
      <4> DEFINE r == <<x, y>>
      <4>1. Len(r) = 2 /\ r[1] = x /\ r[2] = y /\ wire' = wire \o r
        BY <3>1, <3>4
      <4> HIDE DEF r
      <4>2. \A i \in 1 .. Len(r) :
                FromServer(r[i]) /\ (i < Len(r) => r[i].type = "data") /\ ~IsOwed(r[i])
        BY <3>2, <3>3, <4>1
      <4>3. Sent(r)
        BY <2>1, <4>1, <4>2
      <4>4. QED
        BY <4>3 DEF r
    <3> HIDE DEF Sent
    <3>6. QED
      BY <3>4, <3>5
  <2>5. QED
    BY <2>3, <2>4
<1>5. ASSUME NEW ok \in BOOLEAN, Decide(ok) \/ (RefuseIdle /\ ~ok)
      PROVE  \E r \in Seq(ReplyOf) : Sent(r)
  <2>1. /\ sent # <<>> /\ owed' = owed /\ Head(sent).kind # "DONE"
        /\ wire' = wire \o <<Reply("status", Head(sent).tag, ok)>>
    BY <1>5 DEF Decide, RefuseIdle
  <2> HIDE DEF Sent
  <2>2. QED
    BY <1>1, <1>3, <2>1
<1>6. CASE EndIdle
  <2>1. owed' = owed /\ wire' = wire \o <<Reply("status", serving, TRUE)>>
    BY <1>6 DEF EndIdle
  <2> HIDE DEF Sent
  <2>2. \E r \in Seq(ReplyOf) : Sent(r)
    BY <1>1, <1>3, <2>1
  <2>3. QED
    BY <2>2 DEF Sent
<1>7. CASE Challenge \/ TakeIdle
  <2> DEFINE x == Reply("plus", Head(sent).tag, TRUE)
  <2>1. /\ sent # <<>> /\ owed' = owed /\ Head(sent).kind # "DONE" /\ wire' = wire \o <<x>>
    BY <1>7 DEF Challenge, TakeIdle
  <2>2. x \in ReplyOf /\ x.type = "plus" /\ x.tag = Head(sent).tag
    BY <1>1, <2>1, ReplyType
  <2> HIDE DEF x, Sent
  <2>3. FromServer(x) /\ ~IsOwed(x)
    BY <1>1, <2>1, <2>2 DEF FromServer, IsOwed
  <2>4. \E r \in Seq(ReplyOf) : Sent(r)
    BY <1>2, <2>1, <2>2, <2>3
  <2>5. QED
    BY <2>4 DEF Sent
<1>8. ASSUME NEW ok \in BOOLEAN, Push(ok)
      PROVE  \E r \in Seq(ReplyOf) : Sent(r)
  <2> DEFINE x == Reply("push", serving, ok)
  <2>1. /\ wire' = Append(wire, x) /\ pushes' = pushes + 1
        /\ owed' = IF ok /\ serving # 0 THEN owed + 1 ELSE owed
    BY <1>8 DEF Push
  <2>2. x \in ReplyOf /\ x.type = "push" /\ x.tag = serving /\ x.ok = ok
    BY <1>1, ReplyType DEF Reply
  <2> HIDE DEF x, Sent
  <2>3. FromServer(x) /\ (IsOwed(x) <=> ok /\ serving # 0)
    BY <1>1, <2>2 DEF FromServer, IsOwed
  <2>4. wire' = wire \o <<x>>
    BY <1>1, <2>1, <2>2, AppendOf
  <2>5. QED
    BY <1>2, <2>1, <2>2, <2>3, <2>4
<1>9. CASE StillHere
  <2>1. owed' = owed /\ wire' = Append(wire, Reply("status", 0, TRUE))
    BY <1>9 DEF StillHere
  <2>2. wire' = wire \o <<Reply("status", 0, TRUE)>>
    <3> DEFINE x == Reply("status", 0, TRUE)
    <3>1. x \in ReplyOf
      BY ReplyType
    <3> HIDE DEF x
    <3>2. wire' = wire \o <<x>>
      BY <1>1, <2>1, <3>1, AppendOf DEF x
    <3>3. QED
      BY <3>2 DEF x
  <2> HIDE DEF Sent
  <2>3. \E r \in Seq(ReplyOf) : Sent(r)
    BY <1>1, <1>3, <2>1, <2>2
  <2>4. QED
    BY <2>3 DEF Sent
<1>10. CASE Greet
  <2>1. PICK caps \in BOOLEAN : owed' = owed /\ wire' = Append(wire, Reply("greeting", 0, caps))
    BY <1>10 DEF Greet
  <2> DEFINE x == Reply("greeting", 0, caps)
  <2>2. x \in ReplyOf /\ x.type = "greeting" /\ x.tag = 0
    BY ReplyType
  <2>3. wire' = Append(wire, x)
    BY <2>1
  <2> HIDE DEF x, Sent
  <2>4. FromServer(x) /\ ~IsOwed(x) /\ wire' = wire \o <<x>>
    BY <1>1, <2>2, <2>3, AppendOf DEF FromServer, IsOwed
  <2>5. \E r \in Seq(ReplyOf) : Sent(r)
    BY <1>2, <2>1, <2>2, <2>4
  <2>6. QED
    BY <2>5 DEF Sent
<1>11. (\E ok \in BOOLEAN : Decide(ok)) \/ RefuseIdle =>
           \E ok \in BOOLEAN : Decide(ok) \/ (RefuseIdle /\ ~ok)
  OBVIOUS
<1>12. QED
  BY <1>4, <1>5, <1>6, <1>7, <1>8, <1>9, <1>10, <1>11 DEF Server

-------------------------------------------------------------------------------
\* The count of the pushes owed.

LEMMA OwedFinite ==
    ASSUME NEW w \in Seq(ReplyOf)
    PROVE  IsFiniteSet(OwedOn(w)) /\ Cardinality(OwedOn(w)) \in Nat
<1>1. IsFiniteSet(1 .. Len(w))
  BY FS_Interval
<1>2. OwedOn(w) \subseteq 1 .. Len(w)
  BY DEF OwedOn
<1>3. QED
  BY <1>1, <1>2, FS_Subset, FS_CardinalityType

LEMMA NoneOwed ==
    ASSUME NEW w \in Seq(ReplyOf), NEW r \in Seq(ReplyOf),
           \A i \in 1 .. Len(r) : ~IsOwed(r[i])
    PROVE  OwedOn(w \o r) = OwedOn(w)
<1>1. /\ Len(w \o r) = Len(w) + Len(r) /\ Len(w) \in Nat /\ Len(r) \in Nat
      /\ \A i \in 1 .. Len(w) : (w \o r)[i] = w[i]
      /\ \A i \in 1 .. Len(w) + Len(r) :
            i \in 1 .. Len(w) \/ (i - Len(w) \in 1 .. Len(r) /\ (w \o r)[i] = r[i - Len(w)])
  OBVIOUS
<1>2. QED
  BY <1>1 DEF OwedOn

LEMMA OneOwed ==
    ASSUME NEW w \in Seq(ReplyOf), NEW r \in Seq(ReplyOf), Len(r) = 1, IsOwed(r[1])
    PROVE  Cardinality(OwedOn(w \o r)) = Cardinality(OwedOn(w)) + 1
<1>1. /\ Len(w \o r) = Len(w) + 1 /\ Len(w) \in Nat
      /\ \A i \in 1 .. Len(w) : (w \o r)[i] = w[i]
      /\ (w \o r)[Len(w) + 1] = r[1]
  <2>1. /\ Len(w \o r) = Len(w) + 1 /\ Len(w) \in Nat
        /\ \A i \in 1 .. Len(w) : (w \o r)[i] = w[i]
    <3>1. /\ Len(w \o r) = Len(w) + Len(r) /\ Len(w) \in Nat
          /\ \A i \in 1 .. Len(w) + Len(r) :
                \/ i \in 1 .. Len(w) /\ (w \o r)[i] = w[i]
                \/ i - Len(w) \in 1 .. Len(r)
      BY ConcatOf
    <3>2. QED
      BY <3>1
  <2>2. Len(w) + 1 \in 1 .. Len(w) + Len(r) /\ Len(w) + 1 \notin 1 .. Len(w)
    BY <2>1
  <2>3. (w \o r)[Len(w) + 1] = r[(Len(w) + 1) - Len(w)]
    BY <2>2, ConcatOf
  <2>4. QED
    BY <2>1, <2>3
<1>2. OwedOn(w \o r) = OwedOn(w) \cup {Len(w) + 1} /\ Len(w) + 1 \notin OwedOn(w)
  BY <1>1 DEF OwedOn
<1>3. QED
  BY <1>2, OwedFinite, FS_AddElement

LEMMA OwedTail ==
    ASSUME NEW w \in Seq(ReplyOf), w # <<>>
    PROVE  Cardinality(OwedOn(Tail(w))) =
               IF IsOwed(Head(w)) THEN Cardinality(OwedOn(w)) - 1 ELSE Cardinality(OwedOn(w))
<1> DEFINE S == OwedOn(Tail(w))
           T == OwedOn(w) \ {1}
           f == [i \in S |-> i + 1]
<1>1. /\ Len(Tail(w)) = Len(w) - 1 /\ Len(w) \in Nat \ {0} /\ Head(w) = w[1]
      /\ \A i \in 1 .. Len(Tail(w)) : Tail(w)[i] = w[i + 1]
  BY TailOf
<1>2. /\ \A i \in S : i \in Nat /\ i + 1 \in T
      /\ \A k \in T : k \in Nat /\ k - 1 \in S
      /\ 1 \in OwedOn(w) <=> IsOwed(Head(w))
  <2>1. \A i \in S : i \in Nat /\ i + 1 \in T
    BY <1>1 DEF OwedOn
  <2>2. \A k \in T : k \in Nat /\ k - 1 \in S
    <3> SUFFICES ASSUME NEW k \in T PROVE k \in Nat /\ k - 1 \in S
      OBVIOUS
    <3>1. k \in 1 .. Len(w) /\ k # 1 /\ IsOwed(w[k])
      BY DEF OwedOn
    <3>2. k - 1 \in 1 .. Len(Tail(w)) /\ (k - 1) + 1 = k
      BY <1>1, <3>1
    <3>3. QED
      BY <1>1, <3>1, <3>2 DEF OwedOn
  <2>3. 1 \in OwedOn(w) <=> IsOwed(Head(w))
    BY <1>1 DEF OwedOn
  <2>4. QED
    BY <2>1, <2>2, <2>3
<1>3. IsFiniteSet(S) /\ IsFiniteSet(OwedOn(w)) /\ Cardinality(OwedOn(w)) \in Nat
  BY TailOf, OwedFinite
<1> HIDE DEF S, T
<1>4. f \in Bijection(S, T)
  <2>1. f \in [S -> T]
    BY <1>2
  <2>2. \A i, j \in S : f[i] = f[j] => i = j
    BY <1>2
  <2>3. \A k \in T : \E i \in S : f[i] = k
    <3> SUFFICES ASSUME NEW k \in T PROVE \E i \in S : f[i] = k
      OBVIOUS
    <3>1. k - 1 \in S /\ f[k - 1] = (k - 1) + 1 /\ (k - 1) + 1 = k
      BY <1>2
    <3>2. QED
      BY <3>1
  <2>4. QED
    BY <2>1, <2>2, <2>3 DEF Bijection, Injection, Surjection, IsInjective
<1>5. Cardinality(T) = Cardinality(S)
  BY <1>3, <1>4, FS_Bijection DEF ExistsBijection
<1>6. Cardinality(T) = IF 1 \in OwedOn(w) THEN Cardinality(OwedOn(w)) - 1
                       ELSE Cardinality(OwedOn(w))
  BY <1>3, FS_RemoveElement DEF T
<1>7. QED
  BY <1>2, <1>5, <1>6 DEF S

-------------------------------------------------------------------------------
\* Types.

LEMMA TypedServer ==
    ASSUME Typed, LineInv, Server PROVE Typed'
<1>1. UNCHANGED <<driver, client, outcome, abandoned>>
  BY ServerLine DEF others
<1>2. /\ wire' \in Seq(ReplyOf)
      /\ \A i \in 1 .. Len(wire') :
            wire'[i].tag <= MaxTag /\ (wire'[i].type = "data" => wire'[i].tag # 0)
  <2>1. PICK r \in Seq(ReplyOf) : wire' = wire \o r /\ \A i \in 1 .. Len(r) : FromServer(r[i])
    BY ServerSends
  <2>2. wire \in Seq(ReplyOf)
    BY DEF Typed
  <2>3. /\ wire' \in Seq(ReplyOf) /\ Len(wire') = Len(wire) + Len(r)
        /\ \A i \in 1 .. Len(wire') :
              \/ i \in 1 .. Len(wire) /\ wire'[i] = wire[i]
              \/ i - Len(wire) \in 1 .. Len(r) /\ wire'[i] = r[i - Len(wire)]
    <3> DEFINE w == wire \o r
    <3>1. /\ w \in Seq(ReplyOf) /\ Len(w) = Len(wire) + Len(r)
          /\ \A i \in 1 .. Len(wire) + Len(r) :
                \/ i \in 1 .. Len(wire) /\ w[i] = wire[i]
                \/ i - Len(wire) \in 1 .. Len(r) /\ w[i] = r[i - Len(wire)]
      BY <2>2, ConcatOf
    <3>2. wire' = w
      BY <2>1
    <3> HIDE DEF w
    <3>3. QED
      BY <3>1, <3>2
  <2>4. QED
    BY <2>1, <2>3 DEF FromServer, Typed
<1>3. sent' \in Seq(Command) /\ serving' \in 0 .. MaxTag /\ answered' \in SUBSET (1 .. MaxTag)
  <2>1. sent # <<>> => Tail(sent) \in Seq(Command) /\ Head(sent) \in Command
    BY TailOf DEF Typed
  <2>2. sent # <<>> => Head(sent).tag \in 1 .. MaxTag
    BY <2>1 DEF Command
  <2>3. MaxTag \in Nat /\ 0 \in 0 .. MaxTag /\ 1 .. MaxTag \subseteq 0 .. MaxTag
    BY SessionAssumption
  <2>4. /\ serving \in 0 .. MaxTag /\ (serving # 0 => serving \in 1 .. MaxTag)
        /\ sent \in Seq(Command) /\ answered \subseteq 1 .. MaxTag
    BY <2>3 DEF Typed
  <2>5. sent' = sent \/ (sent # <<>> /\ sent' = Tail(sent))
    BY ServerLine DEF Answers
  <2>6. serving' \in {serving, 0} \/ (sent # <<>> /\ serving' = Head(sent).tag)
    BY ServerLine DEF Answers
  <2>7. \/ answered' = answered
        \/ \E t \in 1 .. MaxTag : answered' = answered \cup {t}
        \/ serving # 0 /\ answered' = answered \cup {serving}
    BY ServerLine DEF Answers
  <2>8. answered' \subseteq 1 .. MaxTag
    BY <2>4, <2>7
  <2>9. QED
    BY <2>1, <2>2, <2>3, <2>4, <2>5, <2>6, <2>8
<1>4. greeted' \in BOOLEAN /\ pushes' \in 0 .. MaxPushes /\ strays' \in 0 .. MaxStrays
  <2>1. /\ greeted' = greeted \/ greeted' = TRUE
        /\ pushes' = pushes \/ (pushes < MaxPushes /\ pushes' = pushes + 1)
        /\ strays' = strays \/ (strays < MaxStrays /\ strays' = strays + 1)
    BY Zenon DEF Server, ServeCommand, Decide, Push, Challenge, TakeIdle, RefuseIdle, EndIdle,
       StillHere, Greet, server
  <2>2. MaxPushes \in Nat /\ MaxStrays \in Nat
    BY SessionAssumption
  <2>3. greeted \in BOOLEAN /\ pushes \in 0 .. MaxPushes /\ strays \in 0 .. MaxStrays
    BY DEF Typed
  <2>4. greeted' \in BOOLEAN
    BY <2>1, <2>3
  <2>5. pushes' \in 0 .. MaxPushes
    BY <2>1, <2>2, <2>3
  <2>6. strays' \in 0 .. MaxStrays
    BY <2>1, <2>2, <2>3
  <2>7. QED
    BY <2>4, <2>5, <2>6
<1>5. QED
  BY <1>1, <1>2, <1>3, <1>4 DEF Typed, driver, client

LEMMA CountServer ==
    ASSUME Typed, CountInv, Server PROVE CountInv'
<1>1. PICK r \in Seq(ReplyOf) :
          /\ wire' = wire \o r
          /\ \/ owed' = owed /\ \A i \in 1 .. Len(r) : ~IsOwed(r[i])
             \/ owed' = owed + 1 /\ pushes' = pushes + 1 /\ Len(r) = 1 /\ IsOwed(r[1])
  BY ServerSends
<1>2. wire \in Seq(ReplyOf) /\ Cardinality(OwedOn(wire)) \in Nat /\ pushes \in Nat
  <2>1. MaxPushes \in Nat
    BY SessionAssumption
  <2>2. QED
    BY <2>1, OwedFinite DEF Typed
<1>3. pushes' = pushes \/ pushes' = pushes + 1
  BY DEF Server, ServeCommand, Decide, Push, Challenge, TakeIdle, RefuseIdle, EndIdle,
     StillHere, Greet, server
<1>4. CASE owed' = owed /\ \A i \in 1 .. Len(r) : ~IsOwed(r[i])
  <2>1. OwedOn(wire') = OwedOn(wire)
    BY <1>1, <1>2, <1>4, NoneOwed
  <2>2. Cardinality(OwedOn(wire')) = Cardinality(OwedOn(wire))
    BY <2>1
  <2>3. QED
    BY <1>2, <1>3, <1>4, <2>2 DEF CountInv
<1>5. CASE owed' = owed + 1 /\ pushes' = pushes + 1 /\ Len(r) = 1 /\ IsOwed(r[1])
  <2>1. Cardinality(OwedOn(wire')) = Cardinality(OwedOn(wire)) + 1
    BY <1>1, <1>2, <1>5, OneOwed
  <2>2. QED
    BY <1>2, <1>5, <2>1 DEF CountInv
<1>6. QED
  BY <1>1, <1>4, <1>5

(* What idle() collects is not owed any more (HearData).                   *)
LEMMA CallerOwes ==
    ASSUME Caller
    PROVE  \/ owed' = owed
           \/ /\ HearData /\ wire # <<>> /\ IsOwed(Head(wire)) /\ wire' = Tail(wire)
              /\ owed' = owed - 1
<1> USE DEF Caller, Session, hidden
<1>1. CASE HearData
  <2>1. wire # <<>> /\ wire' = Tail(wire) /\ Collect
    BY <1>1 DEF HearData, IsHead
  <2>2. CASE ~(IsHead("push") => Head(wire).ok)
    BY <2>1, <2>2 DEF Collect
  <2>3. CASE (IsHead("push") => Head(wire).ok)
    <3>1. owed' = IF IsHead("push") /\ Head(wire).tag # 0 THEN owed - 1 ELSE owed
      BY <2>1, <2>3 DEF Collect
    <3>2. QED
      BY <1>1, <2>1, <2>3, <3>1 DEF IsHead, IsOwed
  <2>4. QED
    BY <2>2, <2>3
<1>2. CASE ~HearData
  BY <1>2, Zenon DEF TcpConnected, TlsConnected, ReadGreeting, Authenticate, Respond, AuthStatus,
     AuthTimeout, RefreshCapabilities, CollectData, ReturnOutcome, SkipStatus, LateAcceptance,
     CommandTimeout, IdleAccepted, IdleStatus, IdleRejected, IdleDeadline, Execute, Idle, Close
<1>3. QED
  BY <1>1, <1>2

LEMMA CountCaller ==
    ASSUME Typed, CountInv, Caller PROVE CountInv'
<1>1. pushes' = pushes /\ (wire' = wire \/ (wire # <<>> /\ wire' = Tail(wire)))
  BY SessionReads DEF server
<1>2. wire \in Seq(ReplyOf) /\ Cardinality(OwedOn(wire)) \in Nat /\ pushes \in Nat
  <2>1. MaxPushes \in Nat
    BY SessionAssumption
  <2>2. QED
    BY <2>1, OwedFinite DEF Typed
<1>3. CASE wire' = wire /\ owed' = owed
  BY <1>1, <1>3 DEF CountInv
<1>4. CASE wire # <<>> /\ wire' = Tail(wire)
  <2>1. Cardinality(OwedOn(wire')) =
            IF IsOwed(Head(wire)) THEN Cardinality(OwedOn(wire)) - 1 ELSE Cardinality(OwedOn(wire))
    BY <1>2, <1>4, OwedTail
  <2>2. Cardinality(OwedOn(wire')) \in Nat
    BY <1>2, <1>4, TailOf, OwedFinite
  <2>3. owed' = owed \/ (IsOwed(Head(wire)) /\ owed' = owed - 1)
    BY CallerOwes
  <2>4. QED
    BY <1>1, <1>2, <2>1, <2>2, <2>3 DEF CountInv
<1>5. QED
  BY <1>1, <1>3, <1>4, CallerOwes

(* What the session sends and holds back.                                  *)
LEMMA TypedSending ==
    ASSUME Typed, LineInv, PhaseInv, StatusInv, Caller
    PROVE  /\ sent' \in Seq(Command) /\ queued' \in Seq(Command)
           /\ tag' \in 0 .. MaxTag /\ open' \in 0 .. MaxTag /\ taken' \in BOOLEAN
<1> DEFINE G == /\ sent' \in Seq(Command) /\ queued' \in Seq(Command)
                /\ tag' \in 0 .. MaxTag /\ open' \in 0 .. MaxTag /\ taken' \in BOOLEAN
<1>1. /\ sent \in Seq(Command) /\ queued \in Seq(Command)
      /\ tag \in 0 .. MaxTag /\ open \in 0 .. MaxTag /\ taken \in BOOLEAN
      /\ MaxTag \in Nat /\ 0 \in 0 .. MaxTag /\ 1 .. MaxTag \subseteq 0 .. MaxTag
  BY SessionAssumption DEF Typed
<1>2. CASE /\ UNCHANGED <<tag, queued>> /\ open' \in {open, 0}
           /\ taken' \in {taken, TRUE} /\ sent' = sent
  BY <1>1, <1>2
<1>3. UNCHANGED <<tag, client, sent>> => G
  BY <1>1 DEF client
<1>4. ASSUME NEW kind \in Kind, Enqueue(kind) PROVE G
  <2>1. /\ tag' = tag + 1 /\ tag + 1 \in 1 .. MaxTag
        /\ sent' \in Seq(Command) /\ queued' \in Seq(Command)
        /\ open' \in {open, 0, tag + 1} /\ (taken' = taken \/ taken' = FALSE)
    BY <1>4, Enqueued
  <2>2. QED
    BY <1>1, <2>1
<1>5. ASSUME NEW n \in Nat, NEW first, Sends(n, first), tag' = tag PROVE G
  <2>1. /\ sent' \in Seq(Command) /\ queued' \in Seq(Command) /\ taken' = FALSE
        /\ open' = 0 \/ (n \in 1 .. Len(queued) /\ open' = queued[n].tag)
    BY <1>5 DEF Sends
  <2>2. n \in 1 .. Len(queued) => queued[n].tag \in 1 .. MaxTag
    <3>1. n \in 1 .. Len(queued) => queued[n] \in Command
      BY <1>1
    <3>2. QED
      BY <3>1 DEF Command
  <2>3. QED
    BY <1>1, <1>5, <2>1, <2>2
<1>6. CASE \/ TcpConnected \/ TlsConnected \/ AuthTimeout \/ CollectData \/ ReturnOutcome
           \/ CommandTimeout \/ IdleStatus \/ Close
  <2>1. UNCHANGED <<tag, client, sent>>
    BY <1>6, Zenon DEF TcpConnected, TlsConnected, AuthTimeout, CollectData,
       ReturnOutcome, CommandTimeout, IdleStatus, Close
  <2>2. QED
    BY <1>3, <2>1
<1>7. CASE ReadGreeting \/ Authenticate \/ RefreshCapabilities \/ Execute \/ Idle
  <2>1. UNCHANGED <<tag, client, sent>> \/ \E kind \in Kind : Enqueue(kind)
    BY <1>7, Zenon DEF ReadGreeting, Authenticate, RefreshCapabilities, Execute, Idle, Kind
  <2>2. QED
    BY <1>3, <1>4, <2>1
<1>8. CASE AuthStatus \/ LateAcceptance \/ IdleAccepted
  BY <1>2, <1>8 DEF AuthStatus, LateAcceptance, IdleAccepted, driver
<1>9. CASE Respond
  <2> DEFINE c == [tag |-> open, kind |-> "answer"]
  <2>1. /\ UNCHANGED <<tag, client>> /\ (sent' = sent \/ sent' = Append(sent, c))
        /\ wire # <<>> /\ Head(wire).type = "plus" /\ wire' = Tail(wire)
    BY <1>9 DEF Respond, IsHead
  <2>2. PlusComes
    BY <2>1, ReadPlus DEF LineInv, OneOpen, Typed
  <2>3. open \in 1 .. MaxTag
    BY <1>1, <2>2 DEF LineInv, OneOpen
  <2>4. c \in Command
    BY <2>3 DEF Command
  <2> HIDE DEF c
  <2>5. sent' \in Seq(Command)
    BY <1>1, <2>1, <2>4
  <2>6. QED
    BY <1>1, <2>1, <2>5 DEF client
<1>10. CASE SkipStatus \/ IdleRejected
  <2>1. tag' = tag
    BY <1>10 DEF SkipStatus, IdleRejected, driver
  <2>2. UNCHANGED <<client, sent>> \/ (EndsOpen /\ Release(<<>>))
    BY <1>10, Zenon DEF SkipStatus, IdleRejected
  <2> HIDE DEF G
  <2>3. G
    BY <1>3, <1>5, <2>1, <2>2, LineEnded
  <2>4. QED
    BY <2>3 DEF G
<1>11. CASE HearData \/ IdleDeadline
  <2>1. tag' = tag
    BY <1>11 DEF HearData, IdleDeadline
  <2>2. UNCHANGED <<client, sent>> \/ (accepted /\ ~doneSent /\ SetIdleDone)
    BY <1>11, Zenon DEF HearData, IdleDeadline
  <2> HIDE DEF G
  <2>3. G
    BY <1>3, <1>5, <2>1, <2>2, LineDone
  <2>4. QED
    BY <2>3 DEF G
<1>12. QED
  BY <1>6, <1>7, <1>8, <1>9, <1>10, <1>11 DEF Caller, Session

(* The session's own variables.                                            *)
LEMMA TypedSession ==
    ASSUME Typed, Caller
    PROVE  /\ security' \in Securities /\ offered' \in BOOLEAN
           /\ pc' \in Steps /\ job' \in Kind
           /\ data' \in SUBSET (1 .. MaxTag)
           /\ accepted' \in BOOLEAN /\ doneSent' \in BOOLEAN /\ heard' \in BOOLEAN
           /\ outcome' \in [tag: 0 .. MaxTag, data: SUBSET (1 .. MaxTag)]
           /\ abandoned' \in SUBSET {"late", "open"}
           /\ (doneSent' => accepted')
<1> USE DEF Typed, hidden, locals, driver
<1>1. CASE \/ TcpConnected \/ TlsConnected \/ AuthTimeout \/ Close
           \/ ReadGreeting \/ Authenticate \/ RefreshCapabilities \/ Execute \/ Idle
           \/ Respond \/ AuthStatus \/ SkipStatus \/ LateAcceptance
  <2>1. UNCHANGED <<security, data, accepted, doneSent, outcome, abandoned>>
    BY <1>1, Zenon DEF TcpConnected, TlsConnected, AuthTimeout, Close, ReadGreeting, Authenticate,
       RefreshCapabilities, Execute, Idle, Respond, AuthStatus, SkipStatus, LateAcceptance
  <2>2. heard' = heard \/ heard' = FALSE
    BY <1>1, Zenon DEF TcpConnected, TlsConnected, AuthTimeout, Close, ReadGreeting, Authenticate,
       RefreshCapabilities, Execute, Idle, Respond, AuthStatus, SkipStatus, LateAcceptance
  <2>3. offered' = offered \/ offered' \in BOOLEAN
    BY <1>1, Zenon DEF TcpConnected, TlsConnected, AuthTimeout, Close, ReadGreeting, Authenticate,
       RefreshCapabilities, Execute, Idle, Respond, AuthStatus, SkipStatus, LateAcceptance
  <2>4. job' = job \/ job' \in {"STARTTLS", "AUTHENTICATE", "LOGIN", "CAPABILITY", "command", "IDLE"}
    BY <1>1, Zenon DEF TcpConnected, TlsConnected, AuthTimeout, Close, ReadGreeting, Authenticate,
       RefreshCapabilities, Execute, Idle, Respond, AuthStatus, SkipStatus, LateAcceptance
  <2>5. pc' = pc \/ pc' \in Steps
    BY <1>1 DEF TcpConnected, TlsConnected, AuthTimeout, Close, ReadGreeting, Authenticate,
       RefreshCapabilities, Execute, Idle, Respond, AuthStatus, SkipStatus, LateAcceptance,
       Goto, Steps
  <2>6. job' \in Kind /\ pc' \in Steps
    BY <2>4, <2>5 DEF Kind
  <2>7. heard' \in BOOLEAN /\ offered' \in BOOLEAN
    BY <2>2, <2>3
  <2>8. QED
    BY <2>1, <2>6, <2>7
<1>2. CASE CollectData
  <2>1. IsHead("data") => Head(wire).tag \in 1 .. MaxTag
    <3>1. wire # <<>> => 1 \in 1 .. Len(wire) /\ Head(wire) = wire[1] /\ wire[1] \in ReplyOf
      BY TailOf
    <3>2. IsHead("data") => Head(wire).tag \in Nat /\ Head(wire).tag # 0 /\ Head(wire).tag <= MaxTag
      BY <3>1 DEF IsHead, ReplyOf
    <3>3. QED
      BY <3>2, SessionAssumption
  <2>2. data' \in SUBSET (1 .. MaxTag)
    BY <1>2, <2>1 DEF CollectData
  <2>3. UNCHANGED <<security, offered, pc, job, accepted, doneSent, heard, outcome, abandoned>>
    BY <1>2 DEF CollectData
  <2>4. QED
    BY <2>2, <2>3
<1>3. CASE ReturnOutcome
  <2>1. /\ pc' = After(Head(wire).ok) /\ job' \in {"command", job} /\ data' = {}
        /\ outcome' = [tag |-> tag, data |-> data]
        /\ UNCHANGED <<security, offered, accepted, doneSent, heard, abandoned>>
    BY <1>3 DEF ReturnOutcome
  <2>2. pc' \in Steps
    BY <2>1 DEF After, Steps
  <2>3. QED
    BY <2>1, <2>2 DEF Kind
<1>4. CASE CommandTimeout
  BY <1>4 DEF CommandTimeout, Steps
<1>5. CASE IdleAccepted
  BY <1>5 DEF IdleAccepted
<1>6. CASE HearData
  <2>1. heard' \in {heard, TRUE} /\ (doneSent' = doneSent \/ (accepted /\ doneSent' = TRUE))
        /\ UNCHANGED <<security, offered, pc, job, data, accepted, outcome, abandoned>>
    BY <1>6 DEF HearData, Collect
  <2>2. heard' \in BOOLEAN
    BY <2>1
  <2>3. doneSent' \in BOOLEAN
    BY <2>1
  <2>4. doneSent' => accepted
    <3>1. CASE doneSent' = doneSent
      <4>1. doneSent => accepted
        OBVIOUS
      <4>2. QED
        BY <3>1, <4>1, Zenon
    <3>2. CASE accepted
      BY <3>2
    <3>3. QED
      BY <2>1, <3>1, <3>2
  <2>5. accepted' = accepted
    BY <2>1
  <2>6. doneSent' => accepted'
    BY <2>4, <2>5, Zenon
  <2>7. QED
    BY <2>1, <2>2, <2>3, <2>6
<1>7. CASE IdleStatus
  BY <1>7 DEF IdleStatus, IdleReturns, Steps, Kind
<1>8. CASE IdleRejected
  BY <1>8 DEF IdleRejected, IdleFails, Steps, Kind
<1>9. CASE IdleDeadline
  BY <1>9 DEF IdleDeadline, IdleReturns, IdleFails, Steps, Kind
<1>10. QED
  BY <1>1, <1>2, <1>3, <1>4, <1>5, <1>6, <1>7, <1>8, <1>9
     DEF Caller, Session

LEMMA TypedCaller ==
    ASSUME Typed, LineInv, PhaseInv, StatusInv, Caller PROVE Typed'
<1>1. /\ sent' \in Seq(Command) /\ queued' \in Seq(Command)
      /\ tag' \in 0 .. MaxTag /\ open' \in 0 .. MaxTag /\ taken' \in BOOLEAN
  BY TypedSending
<1>2. /\ security' \in Securities /\ offered' \in BOOLEAN
      /\ pc' \in Steps /\ job' \in Kind
      /\ data' \in SUBSET (1 .. MaxTag)
      /\ accepted' \in BOOLEAN /\ doneSent' \in BOOLEAN /\ heard' \in BOOLEAN
      /\ outcome' \in [tag: 0 .. MaxTag, data: SUBSET (1 .. MaxTag)]
      /\ abandoned' \in SUBSET {"late", "open"}
      /\ (doneSent' => accepted')
  BY TypedSession
<1>3. UNCHANGED server /\ (wire' = wire \/ (wire # <<>> /\ wire' = Tail(wire)))
  BY SessionReads
<1>4. /\ wire' \in Seq(ReplyOf)
      /\ \A i \in 1 .. Len(wire') :
            wire'[i].tag <= MaxTag /\ (wire'[i].type = "data" => wire'[i].tag # 0)
  <2>1. CASE wire' = wire
    BY <2>1 DEF Typed
  <2>2. CASE wire # <<>> /\ wire' = Tail(wire)
    <3>1. /\ wire' \in Seq(ReplyOf)
          /\ \A i \in 1 .. Len(wire') : i + 1 \in 1 .. Len(wire) /\ wire'[i] = wire[i + 1]
      BY <2>2, TailOf DEF Typed
    <3>2. QED
      BY <3>1 DEF Typed
  <2>3. QED
    BY <1>3, <2>1, <2>2
<1>5. /\ serving' \in 0 .. MaxTag
      /\ greeted' \in BOOLEAN /\ pushes' \in 0 .. MaxPushes /\ strays' \in 0 .. MaxStrays
      /\ answered' \in SUBSET (1 .. MaxTag)
  BY <1>3 DEF Typed, server
<1>6. QED
  BY <1>1, <1>2, <1>4, <1>5 DEF Typed

-------------------------------------------------------------------------------
\* The invariant and what it implies.

SInv == Inv /\ Typed /\ LineInv /\ PhaseInv /\ LeftOpenInv /\ CountInv

LEMMA SInvInit == Init => SInv
<1> SUFFICES ASSUME Init PROVE SInv
  OBVIOUS
<1>1. Inv
  BY InvInit
<1>2. Typed
  <2>1. /\ MaxTag \in Nat /\ MaxPushes \in Nat /\ MaxStrays \in Nat
        /\ 0 \in 0 .. MaxTag /\ 0 \in 0 .. MaxPushes /\ 0 \in 0 .. MaxStrays
    BY SessionAssumption
  <2>2. /\ security \in Securities /\ offered \in BOOLEAN /\ pc \in Steps /\ job \in Kind
        /\ queued \in Seq(Command) /\ sent \in Seq(Command) /\ wire \in Seq(ReplyOf)
        /\ Len(wire) = 0
    <3>1. pc \in Steps /\ job \in Kind
      BY DEF Init, Steps, Kind
    <3>2. queued = <<>> /\ sent = <<>> /\ wire = <<>>
      BY DEF Init
    <3>3. security \in Securities /\ offered \in BOOLEAN
      BY DEF Init
    <3>4. QED
      BY <3>1, <3>2, <3>3
  <2>3. outcome \in [tag: 0 .. MaxTag, data: SUBSET (1 .. MaxTag)]
    BY <2>1 DEF Init, NoOutcome
  <2>4. /\ data = {} /\ ~accepted /\ ~doneSent /\ ~heard /\ ~taken /\ ~greeted
        /\ tag = 0 /\ open = 0 /\ serving = 0 /\ pushes = 0 /\ strays = 0
        /\ answered = {} /\ abandoned = {}
        /\ accepted \in BOOLEAN /\ doneSent \in BOOLEAN /\ heard \in BOOLEAN
        /\ taken \in BOOLEAN /\ greeted \in BOOLEAN
    BY DEF Init
  <2>5. QED
    BY <2>1, <2>2, <2>3, <2>4 DEF Typed
<1>3. sent = <<>> /\ queued = <<>> /\ wire = <<>> /\ Len(<<>>) = 0 /\ 1 .. 0 = {}
  BY DEF Init
<1>4. LineInv
  BY <1>3 DEF Init, LineInv, InOrder, Unanswered, OneOpen, PlusComes, OnePlus
<1>5. PhaseInv /\ LeftOpenInv
  BY <1>3 DEF Init, PhaseInv, Connecting, LeftOpenInv, PlusComes
<1>6. CountInv
  <2>1. OwedOn(wire) = {}
    BY <1>3 DEF OwedOn
  <2>2. Cardinality(OwedOn(wire)) = 0
    BY <2>1, FS_EmptySet
  <2>3. owed = 0 /\ pushes = 0
    BY DEF Init
  <2>4. QED
    BY <2>2, <2>3 DEF CountInv
<1>7. QED
  BY <1>1, <1>2, <1>4, <1>5, <1>6 DEF SInv

LEMMA SInvNext ==
    ASSUME SInv, [Next]_vars PROVE SInv'
<1> USE DEF SInv
<1>1. StatusInv
  BY DEF Inv
<1>2. CASE Server
  BY <1>2, InvServer, TypedServer, LineServer, PhaseServer, LeftOpenServer, CountServer
<1>3. CASE Caller
  BY <1>1, <1>3, InvCaller, TypedCaller, LineCaller, PhaseCaller, LeftOpenCaller, CountCaller
<1>4. CASE UNCHANGED vars
  <2> USE <1>4 DEF vars, driver, client, server
  <2>1. Inv'
    BY DEF Inv, QueueType, WireType, ClientType, StatusInv, StatusesIn, OutcomeAnswered
  <2>2. Typed'
    BY DEF Typed
  <2>3. LineInv'
    BY DEF LineInv, InOrder, Unanswered, OneOpen, PlusComes, OnePlus
  <2>4. PhaseInv' /\ LeftOpenInv'
    BY DEF PhaseInv, Connecting, LeftOpenInv, PlusComes
  <2>5. CountInv'
    BY DEF CountInv, OwedOn
  <2>6. QED
    BY <2>1, <2>2, <2>3, <2>4, <2>5
<1>5. QED
  BY <1>2, <1>3, <1>4 DEF Next, Caller

(* Every variable of the session, of the imap-next client and of the       *)
(* server keeps its type (ImapSession.TypeOK), whatever comes late: the    *)
(* commands held back behind an IDLE are what is left of their queue, the  *)
(* challenge that authenticate() answers is its own, and idle() collects   *)
(* no more pushes than the server has sent.                                *)
THEOREM TypeCorrect == Spec => []TypeOK
<1>1. SInv => TypeOK
  <2> SUFFICES ASSUME SInv PROVE TypeOK
    OBVIOUS
  <2>1. Typed /\ CountInv
    BY DEF SInv
  <2>2. \A i \in DOMAIN wire : wire[i].tag \in 0 .. MaxTag
    <3>1. DOMAIN wire = 1 .. Len(wire) /\ \A i \in 1 .. Len(wire) : wire[i] \in ReplyOf
      BY <2>1 DEF Typed
    <3>2. \A i \in 1 .. Len(wire) : wire[i].tag \in Nat /\ wire[i].tag <= MaxTag
      BY <2>1, <3>1 DEF Typed, ReplyOf
    <3>3. QED
      BY <3>1, <3>2, SessionAssumption
  <2>3. owed \in 0 .. MaxPushes
    BY <2>1, SessionAssumption DEF Typed, CountInv
  <2>4. QED
    BY <2>1, <2>2, <2>3 DEF Typed, TypeOK
<1>2. SInv /\ [Next]_vars => SInv'
  BY SInvNext
<1>3. QED
  BY <1>1, <1>2, SInvInit, PTL DEF Spec

===============================================================================
