----------------------------- MODULE SessionCalls -----------------------------
(***************************************************************************)
(* The calls of an ImapSession (src/src/session.rs) as its owner sees      *)
(* them: execute() and idle(), what idle() returns, and what is left of an *)
(* IDLE that idle() did not wait for.  ImapService is written with these   *)
(* actions, and ImapSession implements them.                               *)
(***************************************************************************)

VARIABLES
    phase,   \* the call under way, and how far idle() has come
    heard,   \* idle() has collected something; after it, what it returned
    left     \* an idle() returned without DONE: "open", or "wedged" when the
             \* server has accepted that IDLE: nothing will end it any more

vars == <<phase, heard, left>>

Phase == {"closed", "ready", "busy", "asked", "idling", "done"}
Left  == {"no", "open", "wedged"}

Init == phase = "closed" /\ heard = FALSE /\ left = "no"

Goto(from, to) == phase = from /\ phase' = to

Connect == Goto("closed", "ready") /\ UNCHANGED <<heard, left>>

(* The session is dropped.                                                 *)
Close == phase' = "closed" /\ heard' = FALSE /\ left' = "no"

Execute == Goto("ready", "busy") /\ UNCHANGED <<heard, left>>

(* The commands behind a wedged IDLE are not sent.                         *)
Complete == Goto("busy", "ready") /\ left # "wedged" /\ UNCHANGED <<heard, left>>

(* The caller goes on with the session, or closes it.                      *)
TimeOut == Goto("busy", "ready") /\ UNCHANGED <<heard, left>>

Ask == Goto("ready", "asked") /\ heard' = FALSE /\ UNCHANGED left

(* Of the IDLE asked for, or of one left open.                             *)
Accept == Goto("asked", "idling") /\ left # "wedged" /\ UNCHANGED <<heard, left>>

AcceptLate ==
    /\ phase = "busy" /\ left = "open" /\ left' = "wedged"
    /\ UNCHANGED <<phase, heard>>

(* Before the acceptance and after DONE data are only collected.           *)
Hear ==
    /\ phase \in {"asked", "idling", "done"}
    /\ phase' = IF phase = "asked" THEN "asked" ELSE "done"
    /\ heard' = TRUE
    /\ UNCHANGED left

(* DONE at the deadline.                                                   *)
Expire == Goto("idling", "done") /\ UNCHANGED <<heard, left>>

(* A status after DONE.                                                    *)
Finish ==
    /\ Goto("done", "ready")
    /\ left' \in IF left = "no" THEN {"no"} ELSE {"open", "wedged"}
    /\ UNCHANGED heard

(* The deadline before the acceptance: Ok, and the IDLE is left open.      *)
GiveUp ==
    /\ Goto("asked", "ready")
    /\ left' = IF left = "no" THEN "open" ELSE left
    /\ UNCHANGED heard

(* A status after the acceptance and before DONE.                          *)
BreakOff == Goto("idling", "ready") /\ left' = "wedged" /\ UNCHANGED heard

Next ==
    \/ Connect \/ Close \/ Execute \/ Complete \/ TimeOut
    \/ Ask \/ Accept \/ AcceptLate \/ Hear \/ Expire \/ Finish \/ GiveUp \/ BreakOff

Spec == Init /\ [][Next]_vars
===============================================================================
