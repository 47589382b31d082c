------------------------------ MODULE MCJmapSync ------------------------------
(* JmapSync with two mailboxes, for TLC.                                   *)
EXTENDS JmapSync, TLC

CONSTANTS inbox, sent

BothMailboxes == {inbox, sent}
OnlyInbox     == {inbox}
NoneNamed     == {}

(* Emails 2 and 3 have the same hash.                                      *)
Collision == 1 :> 1 @@ 2 :> 2 @@ 3 :> 2
NoCollision == 1 :> 1
===============================================================================
