------------------------------- MODULE MCOutbox -------------------------------
(* Outbox with few rows and flushes, for TLC.                              *)
EXTENDS Outbox, OutboxBackoff

CONSTANTS r1, r2, loop, sendNow

OneRow   == {r1}
TwoRows  == {r1, r2}
OneTask  == {loop}
TwoTasks == {loop, sendNow}
===============================================================================
