---------------------------- MODULE MailboxMirror -----------------------------
(***************************************************************************)
(* What the delta sync promises of a folder: the store holds a copy of the *)
(* server's mailbox that grows from the first UID up.  A catch-up copies   *)
(* everything there is up to some UID, never leaving a hole behind it; the *)
(* copy is thrown away only as a whole, and only when the mailbox it was   *)
(* made of no longer exists.  ImapFolderSync implements this.              *)
(*                                                                         *)
(* The promise says nothing of expunged messages, which stay in the copy:  *)
(* the engine ignores EXPUNGE and VANISHED.                                *)
(***************************************************************************)
EXTENDS Integers

CONSTANTS MaxUid, MaxValidity

VARIABLES
    generation,  \* the mailbox's UIDVALIDITY
    next,        \* its next UID
    present,     \* the UIDs of its messages
    copy         \* for each UID, the generation its copy is of; 0 for none

mirrorVars == <<generation, next, present, copy>>

Copied == {u \in 1 .. MaxUid : copy[u] # 0}

Init ==
    /\ generation = 1 /\ next = 1 /\ present = {}
    /\ copy = [u \in 1 .. MaxUid |-> 0]

Deliver ==
    /\ next <= MaxUid
    /\ present' = present \cup {next}
    /\ next' = next + 1
    /\ UNCHANGED <<generation, copy>>

Remove ==
    /\ \E u \in present : present' = present \ {u}
    /\ UNCHANGED <<generation, next, copy>>

Recreate ==
    /\ generation < MaxValidity
    /\ generation' = generation + 1
    /\ next' = 1 /\ present' = {}
    /\ UNCHANGED copy

(* Everything present up to hi is in the copy now; some of the messages    *)
(* copied may have been removed since they were read.                      *)
CatchUp(hi, S) ==
    /\ \A u \in Copied : copy[u] = generation
    /\ S \subseteq 1 .. hi
    /\ \A u \in present : u <= hi => u \in S \cup Copied
    /\ copy' = [u \in 1 .. MaxUid |-> IF u \in S THEN generation ELSE copy[u]]
    /\ UNCHANGED <<generation, next, present>>

Forget ==
    /\ \A u \in Copied : copy[u] # generation
    /\ copy' = [u \in 1 .. MaxUid |-> 0]
    /\ UNCHANGED <<generation, next, present>>

Next ==
    \/ Deliver \/ Remove \/ Recreate \/ Forget
    \/ \E hi \in 1 .. next - 1 : \E S \in SUBSET (1 .. hi) : CatchUp(hi, S)

Spec == Init /\ [][Next]_mirrorVars
===============================================================================
