# mail-sync-kit: a verification development in TLA+

TLA+ models of the engines of mail-sync-kit (`src/src/*.rs`), the TLC runs that
check them on small instances, and proofs, checked by TLAPS, of the central
results for every value of the constants. `PROJECT.json` lists the runs, the
mutations each property is known to catch, the lines each definition stands
for, the hazards of the code and the theorems.

## 1. Inventory

The crate is a set of engines that a host embeds. Every engine is one tokio
task; the host owns the `MailStore`, reads the `mpsc` channel of events, holds
the `CancellationToken` and flips the online gate.

| part | state it keeps | operations | what is hard about it | what makes it correct |
|---|---|---|---|---|
| `sync.rs` `sync_folder` | nothing across passes: the store's folder row (UIDVALIDITY, HIGHESTMODSEQ) and messages; within a pass `SelectInfo`, the row snapshot | SELECT, reconciliation, delta, flag pass, prefetch | the server changes between any two awaits; a pass can break off at each of them; store errors are mostly ignored; `max_uid` is the only delta cursor | generations never mix, the delta leaves no gap and a pass no mail behind, only stale mail is purged, cursors are not ahead, mail arrives |
| `sync.rs` `run`, `run_one_cycle` | reconnect delay, announced state, selected folder | connect, LIST, passes, IDLE or polling, backoff, cancellation | pushes that wake nobody, a bounded event channel, cancellation at any await | announced states are true, cancellation is bounded and ends, every folder catches up |
| `session.rs` `ImapSession` | tag counter, capabilities, the imap-next client's queue and open IDLE | connect, STARTTLS, AUTHENTICATE/LOGIN, `execute`, `idle`, `logout` | timeouts whose answers arrive later, pushes around IDLE's acceptance and DONE, greetings | outcomes belong to their commands, one command in flight, no push lost, every operation ends |
| `outbox_service.rs` | nothing of its own: the store's outbox rows; the rows a flush took | `run` (tick, final flush), `flush_once` from the host | crash between acceptance and bookkeeping, lost replies, two flushes at once, stale retry counters | nothing is lost, duplicates have a cause, backoff is honoured, a due row is attempted, `run` stops |
| `jmap_sync.rs`, `jmap.rs` | the store's rows; the state token stored as `highest_modseq` | discover, Mailbox/get, Email/query + Email/get, ingest, cursor, poll | the server changes between answer and cursor, the 256 limit, hashed ids, failing calls | the cursor covers what it passed, rows are real, new mail arrives |
| `smtp.rs` | none | `submit_envelope` | which failure is final; a bad envelope is found before the connection; the reply lost after acceptance | its checks, their order and their errors are Outbox's submit step |
| `store.rs` | the host's | 14 calls | partial failure | modelled by its calls, after its doc and the mock in `tests/common/mod.rs` |
| `sasl.rs` | the mechanism's | initial response, answers to challenges | - | one step each in ImapSession |
| `model.rs`, `event.rs` | plain data | - | - | the fields the properties need |
| `error.rs` | none | the variants of `SyncError` | a caller must tell the final ones from the passing ones | Outbox's `AfterError`; every other engine treats all variants alike |
| `config.rs`, `clock.rs`, `secrets.rs`, `sanitize.rs`, `tls.rs`, `lib.rs` | none | pure helpers, constants | - | not modelled |

Interaction: `SyncService` calls `ImapSession` sequentially and writes to the
store; `OutboxService` opens an SMTP connection and an `ImapSession` (for
APPEND) per message and writes to the store's outbox; all of them send events
to the host's channel. The engines share nothing but the store, and in it touch
disjoint rows: messages and folders on one side, the outbox on the other. The
outbox services of two accounts are an exception, if the host gives them one
store: `outbox_due` has no account argument, so each drains the other's rows.

## 2. Modules

| module | models | state and actions |
|---|---|---|
| `MailboxMirror` | the promise of a folder's delta sync, abstractly | a mailbox and a copy of it; Deliver, Remove, Recreate, CatchUp, Forget |
| `ConnectionLifecycle` | what a host is told of a connection, whichever service serves it, abstractly | the announced state and whether there is a connection; Announce, Open, Sync, Rest, Lose, Close, End |
| `SessionCalls` | the calls of a session as its owner sees them, abstractly | the call under way, what `idle` heard, what is left of an IDLE not waited for |
| `ImapFolderSync` | `sync_folder` and its store calls, against a server with UIDs, UIDVALIDITY and mod-sequences | one action per await, in the order of the code: Connect, ReadRow, Select, PurgeFolder, ResetCursors, AdvanceCursors, FindDelta, FetchEnvelopes, IngestBatch, FetchFlags or SkipFlags, FlagCursor, ListRecent, FetchRaw, IngestBody, PassDone; Environment is the server, HostMark the host setting a flag in the store, Faults what fails (LookupFails: a message is left out of FlagsChanged) |
| `Outbox` | `run`, `flush_once`, `try_send`, `append_to_sent`, and the errors of `submit_envelope` | one action per await of each task that flushes; a row is new, due, resting (its backoff runs) or gone. A submission is taken, fails (SubmitFails, DraftInvalid, ReplyLost) or finds no blob; filing succeeds, fails (AppendFails) or never ends (AppendHangs) |
| `OutboxBackoff` | `backoff_for` | the delay in milliseconds as a function of the attempt, with the truncation of the float product |
| `ImapService` | `run`, `run_one_cycle`, `sync_hierarchy`, `emit_state` | one action per await; a folder's pass is three steps here (SELECT, delta, the rest); the session is SessionCalls, whose actions are conjuncts of the service's |
| `ImapSession` | `session.rs` over the imap-next client (external) | the session's operations, FIFO channels to and from the server, the server's answers, pushes and strays |
| `JmapSync` | `jmap_sync.rs`, `jmap.rs` | `run` with its reconnect delay, discovery, hierarchy, the cycle and the polling, the announced states; a server with states, mailboxes and emails that change, move and are destroyed |
| `MC...` | model values and small sets for TLC | - |
| `ImapFolderSyncProofs`, `ImapFlagProofs`, `OutboxProofs`, `ImapServiceProofs`, `ImapSessionProofs`, `ImapSessionCallProofs`, `JmapSyncProofs` | theorems (OutboxBackoff holds its own) | - |

Operators named `Faulty...` stand before the definition they mutate. They are
bugs the code might have had; no specification uses them, and each property is
known to fail when its mutation is put in place.

Conventions. An await is a step, because the server, the host and other tasks
may act there and the task may die there; code between two awaits is atomic.
Data are reduced to what the properties distinguish: a message is its UID, one
flag (for all flags), its version and whose bytes its body has. History
variables (the generation a stored message came from, `owed`, `answered`,
`overrun`, `truncated`, `accepted`) are read by properties and never by guards.
A fault is a step of its own and counted, so that a liveness property speaks of
what happens after the last fault.

Where the models meet, each an abstract specification that one side is written
with and the other implements, or that both implement:

* `SessionCalls` is the seam between the service and its session. `ImapService`
  takes every session step from it (Execute, Complete, TimeOut, Ask, Accept,
  Hear, Expire, Finish, GiveUp, BreakOff), and SessionDriver checks that
  `ImapSession` implements it. What the service may count on is thus what the
  driver does, the bad part included: an IDLE broken off after its acceptance wedges the session, and
  no later command of it completes.
* `ConnectionLifecycle` is the seam between the engines and the host. ServiceLoop and
  JmapPolling check that both services implement it. A cancellation is announced
  by neither: the state said last stands.
* `MailboxMirror` is the promise of a folder's pass, and `ImapFolderSync`
  implements it.
* `ImapFolderSync!PassCatchesUp` is what the loop takes from the pass: what SELECT found is
  stored once the pass is past its delta. `ImapService.FetchFolder` says no more
  than that: mail that comes between SELECT and FETCH stays in `unseen` and waits for
  another SELECT.

Two correspondences are by reading: `ImapService`'s `NextFolder`, `FetchFolder` and
`RestOfFolder` are `ImapFolderSync`'s Select, delta and the steps after it, seen
from the loop; and `ImapFolderSync`'s `late` is what `ImapSession` does after a `CommandTimeout` whose caller keeps the
session.

## 3. Runs

| run | question | bounds | distinct states |
|---|---|---|---|
| SyncRecreate | Does the pass implement the mirror; are generations, bodies and purges right; does a pass leave nothing behind; does mail arrive? | 3 UIDs, 3 generations, 4 mod-sequences, a prefetch of 2, 2 faults | 201 729 |
| SyncFaulty | With everything failing and the host setting flags: does the cursor stay behind the server, is every flag change told, does only a re-ingest overwrite a flag? | 2 UIDs, 2 generations, 4 mod-sequences, a prefetch of 1, 2 faults, store errors, late answers, CONDSTORE | 6 356 488 |
| OutboxLoop | Is anything duplicated or left out of Sent without cause, retried early, sent for long while offline, or stuck? | 2 rows, `run` alone, 2 faults, budget 2 | 91 806 |
| OutboxSendNow | Is anything lost, or duplicated without cause, when the host flushes too and the IMAP server may never greet? | 1 row, 2 tasks, 2 host flushes, 2 faults | 121 130 |
| ServiceLoop | Are states true and in the order of the lifecycle, cancellations bounded and final, folders caught up? | 2 folders, channel of 1, delays 1, 2, 4, 5, 2 faults | 200 965 |
| SessionDriver | Are outcomes, attribution, single flight and pushes right; are the calls those the service is written with; does every operation end? | all Security modes, 5 commands, 2 pushes, 1 stray status | 414 526 |
| JmapPolling | Does a cursor pass what is not stored; does new mail arrive; do the states follow the lifecycle, and does a cancelled service return? | 2 mailboxes, 3 emails (2 share a hash), limit 2, 4 states, delays 1, 2, 3, 2 faults | 486 951 |
| FlagCursorRewindsValidity, OutboxPermanentRetried, BackoffNeverResets, ConnectHangs, JmapNameAsId | one disagreement each between the code and what its docs say | smallest that shows it | - |

Why the bounds are enough to be interesting. A gap needs a stored message above
a missing one (3 UIDs let the delta start in the middle); a broken
reconciliation needs two re-creations, one during the recovery from the other (3
generations); a crash needs a second fault to hit the recovery. Two outbox rows
let one starve behind the other; two tasks are what a host can have without
asking for trouble. A prefetch of two bodies is the least in which one message's late answer could meet another's request. Two folders let a push name one while mail waits in the
other; a channel of one blocks at once. Five commands leave room for the CAPABILITY
or LOGIN of the connect, an IDLE, and two commands after it. With a limit of two
and three emails an answer is cut; two of them with one hash collide. At the
bound `MaxModseq` the server's changes stop; so do, in SyncFaulty, the `\Seen` flags set by
the prefetch. SyncFaulty needs four mod-sequences for a change right after the cursor, which the flag pass skips, and one after that,
which it must tell. The delays are the doublings up to a cap that is no power of the first one. Deadlock checking is off for ImapService, ImapSession and JmapSync only: a
cancelled service has returned, a closed session is gone.

### Fairness

* `ImapFolderSync`, `JmapSync`: weak fairness of the engine. It is one
  task that its executor polls; its commands have timeouts (60 s, `CMD_TIMEOUT`,
  HTTP 30 s), whose expiry is a fault here; and the poll timer or a re-sent IDLE begins the next
  pass. Nothing is assumed of the server's clients.
* `ImapService`: the engine, and the host reading its channel. The crate
  requires that of the host: a full channel blocks `emit_state`, which does not
  look at the token. That a connection attempt ends assumes that the server greets
  or hangs up (ConnectHangs shows what happens otherwise). `AllFoldersCatchUp`
  gives up when the host cancels or drops the channel, when the folder has no row yet, or when an
  IDLE of the session was left open (`left # "no"`).
* `Outbox`: time passes (backoffs elapse), each task is polled, the ticker
  ticks, and an await of a flush ends: the SMTP transport and the IMAP commands
  have timeouts, the host empties its channel, and the IMAP server greets. The last
  is an assumption, as the wait for a greeting has no timeout; it is the constant `Mute`,
  FALSE in OutboxLoop. `FinalFlush` has strong fairness: it is one branch of a `select!` that
  picks at random among the ready branches, and it is disabled while a flush that
  the other branch began is running.
* `ImapSession`: the session is polled and its timers run, so that every wait
  but that for the greeting ends; and the server greets. The server need not
  answer anything else. Timeouts of `execute` are per event, so that a server
  that pushes for ever keeps a command waiting for ever; `MaxPushes` leaves this
  out.

## 4. Divergences between the code and its docs

Five disagreements between the code and its own documentation have a run whose
counterexample shows them; `PROJECT.json` quotes the lines:

1. `flag_pass` writes UIDVALIDITY 0 (`sync.rs:522`); the next re-creation of the
   mailbox is then not noticed and old and new mail mix (FlagCursorRewindsValidity).
2. A permanent SMTP failure is reported as "will not be retried" and the row
   stays due (OutboxPermanentRetried).
3. The reconnect delay is reset only when a cycle returns `Ok`, that is, upon
   cancellation; a session that worked for hours doubles it (BackoffNeverResets).
4. A greeting without a CAPABILITY code is dropped and the wait for another has
   no timeout (ConnectHangs).
5. The JMAP folder name stands in for the mailbox id (JmapNameAsId).

More of them have a formula but no run. To see one fail, give the named cfg
the change and the property:

| property | change | what it shows |
|---|---|---|
| `FlagCursorCovers` (ImapFolderSync) | SyncRecreate with `Condstore = TRUE` | `CHANGEDSINCE highest_modseq + 1` is one too high (`sync.rs:492`), and the cursor advances before the flags are read (`sync.rs:347`) |
| `FlagsCatchUp` | SyncRecreate | without CONDSTORE no pass reads the flags of a stored message again (`sync.rs:471-479`) |
| `PrefetchPeeks` | SyncRecreate | the prefetch fetches `RFC822` and sets `\Seen` (`session.rs:523`) |
| `HostMarkKept` | SyncFaulty | the prefetch stores the flag listed before the body was fetched, over the one the host set meanwhile (`sync.rs:609`) |
| `BodyMatches` | SyncRecreate with `LateAnswers = TRUE` | the late answer of a timed-out `fetch_raw` becomes the next message's body (`sync.rs:585`) |
| `OneGeneration` | SyncRecreate with `StoreFails = TRUE` | a failed purge is ignored and the cursors advance (`sync.rs:329`) |
| `AllMailArrives` | SyncRecreate with `Codes <- NoUidNext` | without UIDNEXT the delta asks for UID 1 only (`sync.rs:623`) |
| `BudgetRespected` (Outbox) | OutboxLoop | the retry budget is reported and not enforced (`outbox_service.rs:26`) |
| `OfflineDefers` | OutboxLoop | the gate is read once per flush and not by the final one (`outbox_service.rs:80`) |
| `SentIsFiled` | OutboxLoop | `MailSent` says "filed" when APPEND failed (`event.rs:60`) |
| `EventuallySent`, `Stops` | OutboxLoop with `Mute = TRUE` | filing waits for the IMAP greeting without a timeout, and a cancelled `run` with it (`outbox_service.rs:192`) |
| `BackoffHonored` | OutboxSendNow | of two overlapping flushes one sends a row that the other has just put to rest |
| `RetryGrows` | OutboxSendNow with `MaxFaults = 3` | a slower flush writes the counter of its older snapshot back |
| `ConnectEnds` (ImapSession) | ConnectHangs with `Securities = {"StartTls"}` | a second greeting is awaited after STARTTLS |
| `DoneEitherWay` | SessionDriver, as an INVARIANT | `idle` returns without having sent DONE (`session.rs:613-614`) |

Behaviour worth knowing:

* `idle()` returns `Ok` without having sent DONE when IDLE was not accepted in
  time or an untagged status came. This leaves the IDLE open, and the next command
  is held back behind it (`Attributed`, `SingleFlight` and `PushesReturned` are
  therefore claimed until an operation is given up). A wedged session keeps all
  folders of the account from syncing until a command times out and the cycle breaks off.
* The announced state stays what it was after a cancellation; Authenticating is
  announced when the authentication is over (`model.rs:161-162` says that they are being exchanged).
* The backoff schedule is wrapped, not held at its end: the thirteenth attempt waits 27.6 s
  again, where a test's comment speaks of six hours for ever.
* `recipients.dedup()` (`outbox_service.rs:172`) drops neighbouring duplicates only.
* A crash after an ingest loses its MailArrived: the next pass finds the
  message stored and says nothing.
* Folders created during a polling session are seen at the next reconnect only;
  JMAP results beyond 256 are not paged; expunged and destroyed mail stays.

## 5. Proofs

TLAPS proves, for every number of UIDs, generations, mod-sequences, rows, tasks,
folders, commands, emails and faults:

* `ImapFolderSyncProofs!TypeCorrect`: TypeOK is an invariant. The work is in
  `SelectAnswerType` and in the counters that never pass the server's.
* `PurgesAreStale`: with `~StoreFails`, a purge removes only messages of
  generations that are gone, with or without CONDSTORE and whatever crashes. `PurgeOnlyStale` follows from
  two invariants. `PassInv`: between SELECT and purge the row snapshot is the row, and
  `info` names the server's generation, because a selected mailbox is not
  re-created. `RowInv`: while something of the current generation is stored,
  the row names that generation or 0. A purge needs both validities nonzero and
  different, so what it removes is stale.
* `OneGenerationHolds`, `NoGapHolds`, `SyncImplementsMirror`: under
  `Noticed \/ MaxValidity = 1`. `Noticed` says the server reports UIDVALIDITY, has
  no CONDSTORE and the store does not fail; the second case is a mailbox that is
  never re-created, and then CONDSTORE, store errors and late answers are all
  allowed. Each part of `Noticed` is needed: a run or a row of the table above
  violates OneGeneration without it. `GenerationInv` ties every stored message to the row's
  UIDVALIDITY, and `GapInv` adds to NoGap that UIDs are below UIDNEXT
  (`UidInv`) and that the batch being ingested holds every living message of the
  range that begins right above the store (`DeltaInv`). NoGap alone is not
  inductive: nothing in it says what a batch in flight contains. The refinement
  uses all of these: an ingest is the mirror's CatchUp up to
  `NextBound(info.uidNext)`, a purge is its Forget, every other engine step
  stutters.
* `OutboxProofs!TypeCorrect`, `NothingLostHolds`: no row leaves the outbox, and no
  `MailSent` is emitted, before the SMTP server took the message, for any
  number of tasks flushing at once, store errors and crashes. `TakenInv`
  strengthens it with what a task between acceptance and bookkeeping knows.
* `DuplicatesNeedReasons`: with N tasks flushing, a message is delivered at most
  N times plus N times per fault, so that with `run` alone a second delivery needs a
  fault. `CountInv` adds to what was delivered the number of tasks that
  can still deliver the row (`Able`: they hold it and have not submitted it, or could
  take it while it is there), and bounds the sum. A delivery takes its task out
  of `Able`, and only a fault puts tasks back.
  `QueueInv` says the rows a flush still holds are distinct. The set of tasks must
  be finite, or there is nothing to count.
* `FiledUnlessFaultHolds`: likewise, Sent lacks at most the copies being filed
  and N per fault.
* `BackoffHonoredAlone`, `RetryGrowsAlone`: when `run` is the only flusher
  (`Flusher = {Loop}`). `SnapshotInv`: a row that a flush took and
  has not handled yet is due and as it was taken. With a second flusher both
  fail (section 4).
* `PassCatchesUpHolds`: under the same assumption. `CatchInv` adds that a mailbox that SELECT
  found empty has had only later messages since. The three ways past the delta (nothing to fetch, nothing
  fetched, an ingest) each rest on `BelowStart`: below a delta that starts next to a
  stored message nothing is missing, by NoGap.
* `ImapFlagProofs!CursorNotAheadHolds`, `FlagsToldHolds`, `FlagsLeftAloneHolds`:
  without any assumption, store errors and late answers included. `CursorInv`
  adds what the pass in progress holds (`info`), which a later write of the cursor copies.
* `BodiesMatch`: under `~LateAnswers`, the assumption without which section 4 has its
  counterexample. `BodyInv` follows a body from the answer to the store.
* `ImapServiceProofs!TypeCorrect`, `StateHonestHolds`, `CancelBoundsHolds`. A blocked send
  separates what is announced from where the loop is, so the invariant
  (`LoopInv`) speaks of `At`, the step the loop comes to once its event is in the channel: it
  gives the announced state, the phase of the session and the use of the
  cancellation's allowance (`overrun`) for each value of `At`.
* `ImapServiceProofs!ServiceImplementsLifecycle` and
  `JmapSyncProofs!ServiceImplementsLifecycle`: every step of either service is a step of
  ConnectionLifecycle or a stutter, from the same invariants.
* `ImapSessionProofs!OutcomeAnsweredHolds`: every status on the wire carries the
  tag of a command the server has answered (`StatusInv`), whatever was given up before.
* `ImapSessionProofs!TypeCorrect`: the bounds of TypeOK are those of counters,
  and that `owed`, the pushes an IDLE has still to return, stays a natural number needs to know where
  each push is. The inductive invariant `SInv` says it: commands are sent, held back and answered in the
  order of their tags (`InOrder`), none that is under way has been answered
  (`Unanswered`), and what the client has open (an IDLE or an AUTHENTICATE) is known
  to the server by one message at most - the command itself, its "+", a DONE - or
  because it serves it (`OneOpen`). `PhaseInv` ties this to the step the caller is at,
  `LeftOpenInv` says that something is open outside its own call only after an `idle`
  that returned without DONE, and `CountInv` that no more owed pushes are on the wire than
  `owed` counts.
* `ImapSessionCallProofs!SessionImplementsCalls`: from `SInv` every step of the session is a
  step of SessionCalls or a stutter. The mapping is `Phase` and `Left`. The heart of it is
  that a wedged session stays wedged: while the client holds an IDLE open that
  the server took and its caller abandoned (`Wedged`), no DONE will be sent, so the server answers
  nothing and `queued` is never released.
* `SingleFlightHolds`, `AttributedHolds`, `PushesReturnedHolds`: all three speak of a session none
  of whose operations was given up, and `CleanInv` describes it: only the last command is
  unanswered, what is on the wire with a tag is the last command's, nothing follows its status, and
  `owed` is exactly the number of owed pushes on the wire. Any of the three alone is not
  inductive.
* `JmapSyncProofs!TypeCorrect`, `RowsAreRealHolds`, `CursorCoversHolds`, for any
  hash. What an ingest leaves of a row is
  `IngestedRow`, which needs that a batch has a first and a last email. CursorCovers is not inductive:
  `DeltaInv` says that the answer being ingested has what lies between the
  cursor and `newState`, and nothing the cursor has passed; `StoredInv` that all of it is in the
  rows before the cursor moves; `StatesInv` that no state is ahead of the server's, so
  that any change goes past every cursor.
* `OutboxBackoff!DelaysBounded`: for every counter the delay is at least 24 s and within a
  fifth of its entry of the schedule, which the index never leaves
  (`BaseInSchedule`). The ASSUME `FirstDelays` compares the first thirteen delays with
  their values in the program.

The assumptions are those of the modules' ASSUMEs and those each theorem
states. Every safety invariant, action property and refinement of the passing runs
is stated by a theorem, for the assumptions given above. Only model-checked is liveness, because TLAPS
does not do fairness: AllMailArrives, StaleMailGoes, EventuallySent, OfflineQuiets, Stops,
CancelStops, AllFoldersCatchUp, OperationsEnd and NewMailArrives.

## 6. What is not modelled

* Parsing and wording of IMAP, JMAP and MIME; `role_from`, RFC 3339 dates, header
  reconstruction: pure conversions that no property is about.
* In Outbox time is not a number: a row rests until its backoff elapses
  (OutboxBackoff says how long that is). Which relay a row goes through, and which of
  its recipients parse: only whether any is left (`smtp.rs:97`).
* Of the host's own writes to the store only flags; that it deletes or moves
  messages during a pass.
* `message_by_uid` is one look-up, where the code pages through the folder.
* The event channel is bounded in ImapService only; in JmapSync an announcement is
  part of the step it belongs to.
* SASL mechanisms, TLS set-up and the SMTP exchange, which are the host's, rustls's and lettre's.
* The parts of the table in section 1 without state.

## 7. Plan

Done, in the order of importance: the folder pass with its mirror and the host's
writes, the outbox with its errors and its backoff, the service loop over
SessionCalls, the session, JMAP, the lifecycle both services implement, and
the proofs of section 5.

Next:

1. Composition: an abstract pass that `ImapService` is written with and
   `ImapFolderSync` implements, in place of the reading of PassCatchesUp in section 2.
2. The recipients of an envelope, of which some do not parse, in Outbox.
