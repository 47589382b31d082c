-------------------------------- MODULE Outbox --------------------------------
(***************************************************************************)
(* OutboxService (src/src/outbox_service.rs): the flush loop run() and the *)
(* flush_once() calls a host makes itself, draining the store's outbox     *)
(* through an SMTP server and filing what was sent with IMAP APPEND.       *)
(*                                                                         *)
(* Every flush works on the rows outbox_due() returned when it began; one  *)
(* action per await after that.  The process may crash between any two of  *)
(* them: the store's rows and what the SMTP server took remain.            *)
(*                                                                         *)
(* External: the SMTP server, the IMAP server's Sent folder, the host      *)
(* (enqueueing, the online gate, cancellation) and the MailStore, modelled *)
(* from its use here and from tests/common/mod.rs.  next_attempt_at is not *)
(* a number: a row marked for retry rests until its backoff has elapsed    *)
(* (OutboxBackoff has the delays).  Events the host's bus refuses are      *)
(* dropped by the code and count as emitted here.                          *)
(***************************************************************************)
EXTENDS Integers, FiniteSets

CONSTANTS
    Row,               \* outbox entries
    Flusher,           \* the tasks that run flush_once
    Loop,              \* the one of them that is run()
    NoRow,             \* not a row
    MaxRetryAttempts,  \* MAX_RETRY_ATTEMPTS
    MaxFaults,         \* bound on errors, refusals and crashes
    MaxFlushes,        \* bound on the flushes each host task asks for
    RepliesLost,       \* a connection may break after the server took the mail
    StoreFails,        \* store calls may return an error
    Mute               \* the IMAP server may take a connection and never greet

ASSUME OutboxAssumption ==
    /\ Loop \in Flusher
    /\ NoRow \notin Row
    /\ MaxRetryAttempts \in Nat \ {0}
    /\ MaxFaults \in Nat
    /\ MaxFlushes \in Nat
    /\ RepliesLost \in BOOLEAN
    /\ StoreFails \in BOOLEAN
    /\ Mute \in BOOLEAN

VARIABLES
    \* the store's outbox
    outbox,     \* where each row is: "new", "due", "resting" or "gone"
    retry,      \* OutboxRow.retry_count
    invalid,    \* rows whose sender, or every recipient, does not parse
    \* the servers
    accepted,   \* how often the SMTP server took the row's message
    filed,      \* how often it was APPENDed to the Sent folder
    \* the host
    online,     \* the offline gate
    cancelled,  \* run()'s CancellationToken
    sent,       \* rows a MailSent was emitted for
    failed,     \* rows a MailFailed { permanent: true } was emitted for
    \* the tasks
    pc,         \* the await each one is at
    due,        \* what is left of the rows its outbox_due() returned
    cur,        \* the row it is sending, as it was then
    final,      \* run() is in the flush it makes when cancelled
    flushes,    \* how many flushes each host task asked for
    faults      \* how many faults there were

store == <<outbox, retry, invalid>>
remote == <<accepted, filed>>
host == <<online, cancelled, sent, failed>>
tasks == <<pc, due, cur, final, flushes>>
vars == <<store, remote, host, tasks, faults>>

(* A row as outbox_due returned it.                                        *)
Entry   == [row: Row, retry: Nat]
NoEntry == [row |-> NoRow, retry |-> 0]

Steps == {"idle", "next", "load", "submit", "append", "markSent", "saySent",
          "markRetry", "sayRetry", "sayFailed", "hung", "stopped"}

Init ==
    /\ outbox = [r \in Row |-> "new"]
    /\ retry = [r \in Row |-> 0]
    /\ invalid \in SUBSET Row
    /\ accepted = [r \in Row |-> 0]
    /\ filed = [r \in Row |-> 0]
    /\ online \in BOOLEAN
    /\ cancelled = FALSE
    /\ sent = {} /\ failed = {}
    /\ pc = [f \in Flusher |-> "idle"]
    /\ due = [f \in Flusher |-> {}]
    /\ cur = [f \in Flusher |-> NoEntry]
    /\ final = FALSE
    /\ flushes = [f \in Flusher |-> 0]
    /\ faults = 0

-------------------------------------------------------------------------------
\* The host and time.

Enqueue(r) ==
    /\ outbox[r] = "new"
    /\ outbox' = [outbox EXCEPT ![r] = "due"]
    /\ UNCHANGED <<retry, invalid, remote, host, tasks, faults>>

SwitchOnline ==
    /\ online' = ~online
    /\ UNCHANGED <<store, remote, cancelled, sent, failed, tasks, faults>>

Cancel ==
    /\ ~cancelled /\ cancelled' = TRUE
    /\ UNCHANGED <<store, remote, online, sent, failed, tasks, faults>>

(* Operators named Faulty... are the mutations the checks are tried on;    *)
(* nothing uses them.  This one starts every backoff from the beginning.   *)
FaultyBackoffElapses(r) ==
    /\ outbox[r] = "resting"
    /\ outbox' = [outbox EXCEPT ![r] = "due"]
    /\ retry' = [retry EXCEPT ![r] = 0]
    /\ UNCHANGED <<invalid, remote, host, tasks, faults>>

(* next_attempt_at has come.                                               *)
BackoffElapses(r) ==
    /\ outbox[r] = "resting"
    /\ outbox' = [outbox EXCEPT ![r] = "due"]
    /\ UNCHANGED <<retry, invalid, remote, host, tasks, faults>>

-------------------------------------------------------------------------------
\* A flush.

(* Every unsent row, as if all of them were due.                           *)
FaultyDueRows ==
    {[row |-> r, retry |-> retry[r]] :
        r \in {s \in Row : outbox[s] \in {"due", "resting"}}}

DueRows == {[row |-> r, retry |-> retry[r]] : r \in {s \in Row : outbox[s] = "due"}}

(* flush_once: the due rows, once.                                         *)
BeginFlush(f) ==
    /\ pc[f] = "idle"
    /\ pc' = [pc EXCEPT ![f] = "next"]
    /\ due' = [due EXCEPT ![f] = DueRows]
    /\ UNCHANGED <<store, remote, host, cur, faults>>

(* The gate is not looked at.                                              *)
FaultyTick ==
    /\ BeginFlush(Loop)
    /\ UNCHANGED <<final, flushes>>

(* run's ticker branch: the gate is looked at once, here.                  *)
Tick ==
    /\ online
    /\ BeginFlush(Loop)
    /\ UNCHANGED <<final, flushes>>

(* run's cancellation branch: one final flush.                             *)
FinalFlush ==
    /\ cancelled
    /\ BeginFlush(Loop)
    /\ final' = TRUE
    /\ UNCHANGED flushes

(* A host calls flush_once itself ("send now").                            *)
FlushOnce(f) ==
    /\ f # Loop /\ flushes[f] < MaxFlushes
    /\ BeginFlush(f)
    /\ flushes' = [flushes EXCEPT ![f] = @ + 1]
    /\ UNCHANGED final

Goto(f, from, to) == pc[f] = from /\ pc' = [pc EXCEPT ![f] = to]

TakeRow(f, entry) ==
    /\ Goto(f, "next", "load") /\ entry \in due[f]
    /\ cur' = [cur EXCEPT ![f] = entry]
    /\ due' = [due EXCEPT ![f] = @ \ {entry}]
    /\ UNCHANGED <<store, remote, host, final, flushes, faults>>

ReadBlob(f) ==
    /\ Goto(f, "load", "submit")
    /\ UNCHANGED <<store, remote, host, due, cur, final, flushes, faults>>

(* What try_send makes of the errors of submit_envelope: the connection's  *)
(* failures and 4xx replies are retried, everything else is for good.      *)
AfterError(error) ==
    IF error \in {"SmtpTransient", "Transport", "Tls"} THEN "markRetry" ELSE "sayFailed"

(* submit_envelope finds no sender or no recipient in the envelope, before *)
(* it opens a connection; recipients that do not parse are left out.       *)
DraftInvalid(f) ==
    /\ cur[f].row \in invalid
    /\ Goto(f, "submit", AfterError("DraftInvalid"))
    /\ UNCHANGED <<store, remote, host, due, cur, final, flushes, faults>>

(* The message is not filed.                                               *)
FaultyAccepted(f) ==
    /\ cur[f].row \notin invalid
    /\ Goto(f, "submit", "markSent")
    /\ accepted' = [accepted EXCEPT ![cur[f].row] = @ + 1]
    /\ UNCHANGED <<store, filed, host, due, cur, final, flushes, faults>>

(* submit_envelope returns Ok.                                             *)
Accepted(f) ==
    /\ cur[f].row \notin invalid
    /\ Goto(f, "submit", "append")
    /\ accepted' = [accepted EXCEPT ![cur[f].row] = @ + 1]
    /\ UNCHANGED <<store, filed, host, due, cur, final, flushes, faults>>

(* append_to_sent, whose result is dropped.                                *)
AppendToSent(f) ==
    /\ Goto(f, "append", "markSent")
    /\ filed' = [filed EXCEPT ![cur[f].row] = @ + 1]
    /\ UNCHANGED <<store, accepted, host, due, cur, final, flushes, faults>>

(* The row stays.                                                          *)
FaultyMarkSent(f) ==
    /\ Goto(f, "markSent", "saySent")
    /\ UNCHANGED <<store, remote, host, due, cur, final, flushes, faults>>

MarkSent(f) ==
    /\ Goto(f, "markSent", "saySent")
    /\ outbox' = [outbox EXCEPT ![cur[f].row] = "gone"]
    /\ UNCHANGED <<retry, invalid, remote, host, due, cur, final, flushes, faults>>

(* The row is done with: on to the next one.                               *)
NextRow(f, from) ==
    /\ Goto(f, from, "next")
    /\ cur' = [cur EXCEPT ![f] = NoEntry]

SaySent(f) ==
    /\ NextRow(f, "saySent")
    /\ sent' = sent \cup {cur[f].row}
    /\ UNCHANGED <<store, remote, online, cancelled, failed, due, final, flushes, faults>>

(* The row is dropped one attempt before the budget is spent.              *)
FaultyMarkRetry(f) ==
    /\ Goto(f, "markRetry", "sayRetry")
    /\ outbox' = [outbox EXCEPT ![cur[f].row] =
                     IF cur[f].retry + 2 >= MaxRetryAttempts THEN "gone" ELSE "resting"]
    /\ retry' = [retry EXCEPT ![cur[f].row] = cur[f].retry + 1]
    /\ UNCHANGED <<invalid, remote, host, due, cur, final, flushes, faults>>

(* outbox_mark_retry with the count read when the flush began; a row that  *)
(* another flush has removed since is NotFound, an error like any other.   *)
MarkRetry(f) ==
    /\ Goto(f, "markRetry", "sayRetry")
    /\ IF outbox[cur[f].row] = "gone"
       THEN UNCHANGED store
       ELSE /\ outbox' = [outbox EXCEPT ![cur[f].row] = "resting"]
            /\ retry' = [retry EXCEPT ![cur[f].row] = cur[f].retry + 1]
            /\ UNCHANGED invalid
    /\ UNCHANGED <<remote, host, due, cur, final, flushes, faults>>

(* OutboxRetry, and MailFailed too once the budget is spent.               *)
SayRetry(f) ==
    /\ NextRow(f, "sayRetry")
    /\ failed' = IF cur[f].retry + 1 >= MaxRetryAttempts
                 THEN failed \cup {cur[f].row} ELSE failed
    /\ UNCHANGED <<store, remote, online, cancelled, sent, due, final, flushes, faults>>

(* The entry is reported instead of its row.                               *)
FaultySayFailed(f) ==
    /\ NextRow(f, "sayFailed")
    /\ failed' = failed \cup {cur[f]}
    /\ UNCHANGED <<store, remote, online, cancelled, sent, due, final, flushes, faults>>

(* MailFailed; the row stays as it is.                                     *)
SayFailed(f) ==
    /\ NextRow(f, "sayFailed")
    /\ failed' = failed \cup {cur[f].row}
    /\ UNCHANGED <<store, remote, online, cancelled, sent, due, final, flushes, faults>>

(* run() forgets that the flush was the final one.                         *)
FaultyEndFlush(f) ==
    /\ due[f] = {}
    /\ Goto(f, "next", "idle")
    /\ UNCHANGED <<store, remote, host, due, cur, final, flushes, faults>>

(* The flush is over.  run() looks at its token and its ticker again, and  *)
(* returns when the flush was the final one.                               *)
EndFlush(f) ==
    /\ due[f] = {}
    /\ Goto(f, "next", IF f = Loop /\ final THEN "stopped" ELSE "idle")
    /\ UNCHANGED <<store, remote, host, due, cur, final, flushes, faults>>

Flush(f) ==
    \/ \E entry \in due[f] : TakeRow(f, entry)
    \/ ReadBlob(f) \/ DraftInvalid(f) \/ Accepted(f) \/ AppendToSent(f) \/ MarkSent(f) \/ SaySent(f)
    \/ MarkRetry(f) \/ SayRetry(f) \/ SayFailed(f) \/ EndFlush(f)

-------------------------------------------------------------------------------
\* Faults, each one counted.

Fault == faults < MaxFaults /\ faults' = faults + 1

Fails(f, from, to) ==
    /\ Fault /\ Goto(f, from, to)
    /\ UNCHANGED <<store, remote, host, due, cur, final, flushes>>

(* read_blob fails: SendOutcome::Permanent.                                *)
BlobMissing(f) == Fails(f, "load", "sayFailed")

(* The TLS set-up fails, before the envelope is looked at; or the server   *)
(* cannot be reached, or replies with a 4xx or 5xx code (map_smtp_error).  *)
SubmitFails(f) ==
    \/ Fails(f, "submit", AfterError("Tls"))
    \/ /\ cur[f].row \notin invalid
       /\ \E error \in {"Transport", "SmtpTransient", "MessageRejected"} :
              Fails(f, "submit", AfterError(error))

(* The connection breaks after the server took the message and before its  *)
(* reply.                                                                  *)
ReplyLost(f) ==
    /\ RepliesLost /\ Fault
    /\ cur[f].row \notin invalid
    /\ Goto(f, "submit", AfterError("Transport"))
    /\ accepted' = [accepted EXCEPT ![cur[f].row] = @ + 1]
    /\ UNCHANGED <<store, filed, host, due, cur, final, flushes>>

AppendFails(f) == Fails(f, "append", "markSent")

(* append_to_sent connects, and waits for a greeting without a timeout.    *)
AppendHangs(f) == Mute /\ Fails(f, "append", "hung")

(* outbox_mark_sent or outbox_mark_retry returns an error: `let _ =`.      *)
MarkFails(f) ==
    /\ StoreFails
    /\ Fails(f, "markSent", "saySent") \/ Fails(f, "markRetry", "sayRetry")

(* outbox_due fails: flush_once returns Err.  run() logs it and goes on,   *)
(* or returns, when the flush was the final one.                           *)
OutboxDueFails ==
    /\ StoreFails /\ cancelled
    /\ Fails(Loop, "idle", "stopped")

(* The process dies and is started again, with a new token.                *)
Crash ==
    /\ Fault
    /\ pc' = [f \in Flusher |-> "idle"]
    /\ due' = [f \in Flusher |-> {}]
    /\ cur' = [f \in Flusher |-> NoEntry]
    /\ final' = FALSE /\ cancelled' = FALSE
    /\ UNCHANGED <<store, remote, online, sent, failed, flushes>>

Faults ==
    \/ \E f \in Flusher :
          \/ BlobMissing(f) \/ SubmitFails(f) \/ ReplyLost(f)
          \/ AppendFails(f) \/ AppendHangs(f) \/ MarkFails(f)
    \/ OutboxDueFails \/ Crash

Host ==
    \/ \E r \in Row : Enqueue(r)
    \/ SwitchOnline \/ Cancel
    \/ \E f \in Flusher : FlushOnce(f)

Next ==
    \/ Host
    \/ \E r \in Row : BackoffElapses(r)
    \/ Tick \/ FinalFlush
    \/ \E f \in Flusher : Flush(f)
    \/ Faults

Spec == Init /\ [][Next]_vars

(* Time passes, every task is polled, and an await of a flush ends: the    *)
(* SMTP transport and the IMAP commands have timeouts, the wait for a      *)
(* greeting has none (AppendHangs), the bus has room once the host reads   *)
(* it.  Tick and the token are two branches of one select!, which picks at *)
(* random among the branches that are ready: the token's branch cannot     *)
(* lose for ever, and the ticker's cannot miss the gate for ever.          *)
Fairness ==
    /\ \A r \in Row : WF_vars(BackoffElapses(r))
    /\ \A f \in Flusher : WF_vars(Flush(f))
    /\ SF_vars(FinalFlush)
    /\ WF_vars(Tick)

FairSpec == Spec /\ Fairness

-------------------------------------------------------------------------------
\* Properties.

(* Every variable has its type.                                            *)
TypeOK ==
    /\ outbox \in [Row -> {"new", "due", "resting", "gone"}]
    /\ retry \in [Row -> Nat]
    /\ invalid \in SUBSET Row
    /\ accepted \in [Row -> Nat]
    /\ filed \in [Row -> Nat]
    /\ online \in BOOLEAN /\ cancelled \in BOOLEAN /\ final \in BOOLEAN
    /\ sent \in SUBSET Row /\ failed \in SUBSET Row
    /\ pc \in [Flusher -> Steps]
    /\ due \in [Flusher -> SUBSET Entry]
    /\ cur \in [Flusher -> Entry \cup {NoEntry}]
    /\ flushes \in [Flusher -> 0 .. MaxFlushes]
    /\ faults \in 0 .. MaxFaults

(* No mail is lost: a row leaves the outbox, or MailSent is emitted for it,
   only once the SMTP server has taken its message (flush_once).           *)
NothingLost == \A r \in Row : outbox[r] = "gone" \/ r \in sent => accepted[r] > 0

(* Duplicates need a reason: a message is delivered again only by a flush  *)
(* running at the same time or after a fault (try_send, flush_once).       *)
DeliveriesBounded ==
    \A r \in Row : accepted[r] <= Cardinality(Flusher) * (1 + faults)

(* What was delivered is in the Sent folder as often, but for one copy per *)
(* task that is filing it and per fault (try_send, append_to_sent).        *)
Filing(r) == {f \in Flusher : pc[f] = "append" /\ cur[f].row = r}
FiledUnlessFault ==
    \A r \in Row :
        /\ filed[r] <= accepted[r]
        /\ accepted[r] <= filed[r] + Cardinality(Filing(r)) + Cardinality(Flusher) * faults

(* With one flush at a time the retry counter of a row never goes back, so *)
(* its backoff never does (flush_once, outbox_mark_retry).                 *)
RetryGrows == [][\A r \in Row : retry'[r] >= retry[r]]_vars

(* A row whose backoff has not elapsed is not sent (outbox_due, flush_once). *)
Submits(f) == pc[f] = "submit" /\ pc'[f] \in {"append", "markRetry", "sayFailed"}
BackoffHonored ==
    [][\A f \in Flusher : Submits(f) => outbox[cur[f].row] # "resting"]_vars

(* A row in the outbox is sent, or reported as failed, once the host stays *)
(* online and does not stop the service (run).                             *)
EventuallySent ==
    <>[](online /\ ~cancelled) =>
        \A r \in Row : outbox[r] = "due" ~> accepted[r] > 0 \/ r \in failed

(* Once the host goes offline for good, run() sends what its last flush    *)
(* had found and then nothing more (run).                                  *)
OfflineQuiets == <>[](~online /\ ~cancelled) => <>[](pc[Loop] # "submit")

(* run() comes to its end once it is cancelled, unless the process dies.   *)
Stops == cancelled ~> pc[Loop] = "stopped" \/ ~cancelled

(* MailFailed: "`true` = will not be retried" (event.rs).                  *)
PermanentIsFinal ==
    [][\A f \in Flusher : Submits(f) => cur[f].row \notin failed]_vars

-------------------------------------------------------------------------------
\* What the code's docs promise and it does not keep: no run checks these.

(* "Retry budget: after this many attempts the entry is failed             *)
(* permanently" (MAX_RETRY_ATTEMPTS): no attempt beyond it.                *)
BudgetRespected ==
    [][\A f \in Flusher : Submits(f) => cur[f].retry < MaxRetryAttempts]_vars

(* "Offline mode defers flushing entirely" (outbox_service.rs).            *)
OfflineDefers == [][\A f \in Flusher : Submits(f) => online]_vars

(* MailSent: "Message sent and filed to Sent" (event.rs).                  *)
SentIsFiled == \A r \in sent : filed[r] > 0
===============================================================================
