------------------------- MODULE ConnectionLifecycle --------------------------
(***************************************************************************)
(* What the host is told of an account's connection (ConnectionState in    *)
(* src/src/model.rs, EngineEvent::AccountConnection in event.rs), whichever*)
(* service serves it: the README's diagram "Disconnected -> Connecting ->  *)
(* Authenticating -> Syncing -> Idle" and the ways back.  ImapService and  *)
(* JmapSync implement it.                                                  *)
(*                                                                         *)
(* The announcements of one process: a service says Disconnected when it   *)
(* gives a connection up, but nothing at all when it is cancelled, and     *)
(* nothing more once it has returned.                                      *)
(***************************************************************************)

VARIABLES
    state,      \* the state announced last, Disconnected before the first
    connected,  \* there is a connection
    cancelled,  \* the host's token
    ended       \* the service has returned

vars == <<state, connected, cancelled, ended>>

ConnectionState == {"Disconnected", "Connecting", "Authenticating", "Syncing", "Idle"}

Init ==
    /\ state = "Disconnected" /\ ~connected
    /\ cancelled = FALSE /\ ~ended

(* A service cancelled before says nothing and does not connect.           *)
Announce ==
    /\ state = "Disconnected" /\ ~ended /\ ~cancelled
    /\ state' = "Connecting"
    /\ UNCHANGED <<connected, cancelled, ended>>

(* The peer is there and has accepted the credentials.                     *)
Open ==
    /\ state = "Connecting" /\ ~ended
    /\ state' = "Authenticating" /\ connected' = TRUE
    /\ UNCHANGED <<cancelled, ended>>

(* The first pass, or one that a push or a timer asked for.                *)
Sync ==
    /\ connected /\ state \in {"Authenticating", "Idle"} /\ ~ended
    /\ state' = "Syncing"
    /\ UNCHANGED <<connected, cancelled, ended>>

Rest ==
    /\ connected /\ state = "Syncing" /\ ~ended
    /\ state' = "Idle"
    /\ UNCHANGED <<connected, cancelled, ended>>

(* The attempt or the connection is given up, or the process crashes.      *)
Lose ==
    /\ state \in {"Connecting", "Authenticating", "Syncing", "Idle"} /\ ~ended
    /\ state' = "Disconnected" /\ connected' = FALSE
    /\ UNCHANGED <<cancelled, ended>>

Cancel ==
    /\ ~cancelled /\ cancelled' = TRUE
    /\ UNCHANGED <<state, connected, ended>>

(* The connection is closed for the cancellation; what was announced last  *)
(* stands.                                                                 *)
Close ==
    /\ cancelled /\ connected /\ connected' = FALSE
    /\ UNCHANGED <<state, cancelled, ended>>

End ==
    /\ cancelled /\ ~connected /\ ~ended /\ ended' = TRUE
    /\ UNCHANGED <<state, connected, cancelled>>

Next == Announce \/ Open \/ Sync \/ Rest \/ Lose \/ Cancel \/ Close \/ End

Spec == Init /\ [][Next]_vars

(* "Runs the state machine until cancellation" (run, in sync.rs and        *)
(* jmap_sync.rs): a cancelled service returns.                             *)
CancelStops == cancelled ~> ended
===============================================================================
