---------------------------- MODULE ImapFolderSync ----------------------------
(***************************************************************************)
(* SyncService::sync_folder (src/src/sync.rs): one pass over one folder,   *)
(* against the IMAP server that owns the mailbox and the host's MailStore. *)
(*                                                                         *)
(* A pass is a sequence of awaits - one IMAP command or one store call     *)
(* each - and the model has one action per await.  Between two of them     *)
(* the server's mailbox may change, the connection may die (run_one_cycle  *)
(* then returns Err and run() reconnects) or the process may crash; what   *)
(* survives is the store.  A pass on a live session starts from the row    *)
(* read by list_stored_folders, and every later step reads that snapshot.  *)
(*                                                                         *)
(* External parts, modelled from how sync.rs uses them: the IMAP server    *)
(* (actions Append, SetFlag, Expunge, Recreate and the answers), the       *)
(* MailStore, whose reference implementation is tests/common/mod.rs, and   *)
(* the host, which sets flags in its store while a pass runs (HostMark).   *)
(***************************************************************************)
EXTENDS Integers, FiniteSets

CONSTANTS
    MaxUid,          \* bound on the UIDs the server assigns per generation
    MaxValidity,     \* bound on UIDVALIDITY: how often the mailbox is re-created
    MaxModseq,       \* bound on the server's mod-sequence
    MaxFaults,       \* bound on failed commands, lost connections, store errors
    PrefetchLimit,   \* SyncConfig.body_prefetch_recent
    Codes,           \* the response codes the server's SELECT reports
    Condstore,       \* the server has the CONDSTORE capability
    StoreFails,      \* store calls may return an error
    HostMarks,       \* the host sets flags of stored messages
    LateAnswers      \* an answer may arrive after its command timed out

ASSUME BoundsAssumption ==
    /\ MaxUid \in Nat \ {0}
    /\ MaxValidity \in Nat \ {0}
    /\ MaxModseq \in Nat \ {0}
    /\ MaxFaults \in Nat
    /\ PrefetchLimit \in Nat

ASSUME ServerAssumption ==
    /\ Codes \subseteq {"UIDVALIDITY", "UIDNEXT"}
    /\ Condstore \in BOOLEAN
    /\ StoreFails \in BOOLEAN
    /\ HostMarks \in BOOLEAN
    /\ LateAnswers \in BOOLEAN

Uid == 1 .. MaxUid

VARIABLES
    \* the server's mailbox
    validity,   \* its UIDVALIDITY: the generation of the mailbox
    uidNext,    \* the UID the next message will get
    modseq,     \* HIGHESTMODSEQ
    mail,       \* its messages, by UID
    \* the store: all that survives a crash
    row,        \* the folder row's cursors: FolderRow.uid_validity, highest_modseq
    stored,     \* the folder's messages, by UID
    \* the engine: the pass in progress
    pc,         \* the await it is at
    folder,     \* the FolderRow snapshot the pass started from
    info,       \* SelectInfo
    start,      \* first UID of the delta
    batch,      \* the fetched messages, before they are ingested
    page,       \* listed messages whose body is still to be prefetched
    raw,        \* the one fetch_raw asked for and the UID whose bytes it got
    late,       \* oldest fetch_raw timed out and not answered yet; 0 for none
    faults      \* how many faults there were

server == <<validity, uidNext, modseq, mail>>
store  == <<row, stored>>
pass   == <<folder, info, start, batch, page, raw>>
vars   == <<server, store, pc, pass, late, faults>>

-------------------------------------------------------------------------------
\* Values.

(* A message on the server: its \Seen flag stands for all flags.           *)
ServerMessage == [live: BOOLEAN, flag: BOOLEAN, modseq: 0 .. MaxModseq]
Gone          == [live |-> FALSE, flag |-> FALSE, modseq |-> 0]

(* A stored message.  uid and flag are the store's; gen and modseq are     *)
(* history: the generation the message was fetched from and the version    *)
(* of it the host was last told of.  body is the UID whose bytes the blob  *)
(* holds, 0 while only the header is there.  gen = 0: no such message.     *)
StoredMessage == [gen: 0 .. MaxValidity, flag: BOOLEAN,
                  modseq: 0 .. MaxModseq, body: 0 .. MaxUid]
Absent        == [gen |-> 0, flag |-> FALSE, modseq |-> 0, body |-> 0]

Cursors    == [validity: 0 .. MaxValidity, modseq: 0 .. MaxModseq]
NoCursors  == [validity |-> 0, modseq |-> 0]
SelectInfo == [validity: 0 .. MaxValidity, uidNext: 0 .. MaxUid + 1,
               exists: BOOLEAN, modseq: 0 .. MaxModseq]
NoInfo     == [validity |-> 0, uidNext |-> 0, exists |-> FALSE, modseq |-> 0]

(* A message as list_messages returned it, and the answer to its fetch_raw. *)
Listed    == [uid: Uid, flag: BOOLEAN]
RawAnswer == [uid: 0 .. MaxUid, flag: BOOLEAN, of: 0 .. MaxUid]
NoRaw     == [uid |-> 0, flag |-> FALSE, of |-> 0]

NoMail   == [u \in Uid |-> Gone]
NoStored == [u \in Uid |-> Absent]

Kept(messages) == {u \in Uid : messages[u].gen # 0}
Live           == {u \in Uid : mail[u].live}

(* The steps of a pass, and of those the ones after SELECT answered: while *)
(* the mailbox is selected the server does not re-create it.               *)
Selected == {"purge", "reset", "advance", "delta", "fetch", "ingest",
             "flags", "flagCursor", "list", "raw", "body"}
Steps    == {"off", "ready", "select"} \cup Selected

(* select_info: a code the server does not send leaves its field 0.        *)
Reported(code, value) == IF code \in Codes THEN value ELSE 0

SelectAnswer ==
    [validity |-> Reported("UIDVALIDITY", validity),
     uidNext  |-> Reported("UIDNEXT", uidNext),
     exists   |-> \E u \in Uid : mail[u].live,
     modseq   |-> IF Condstore THEN modseq ELSE 0]

(* Operators named Faulty... are the mutations the checks are tried on;    *)
(* nothing uses them.                                                      *)
FaultyNextBound(next) == IF next > 3 THEN next - 2 ELSE 1

(* next_bound: uid_next.saturating_sub(1).max(1)                           *)
NextBound(next) == IF next > 2 THEN next - 1 ELSE 1

FaultyIsDeltaStart(s) ==
    /\ \A u \in Kept(stored) : u < s
    /\ s = 1 \/ s - 2 \in Kept(stored)

(* max_uid + 1, or 1 when nothing is stored.                               *)
IsDeltaStart(s) ==
    /\ \A u \in Kept(stored) : u < s
    /\ s = 1 \/ s - 1 \in Kept(stored)

(* folder.uid_validity != 0 && info.uid_validity != 0 && they differ.      *)
Recreated(seen, answer) ==
    seen.validity # 0 /\ answer.validity # 0 /\ seen.validity # answer.validity

Init ==
    /\ validity = 1 /\ uidNext = 1 /\ modseq = 1 /\ mail = NoMail
    /\ row = NoCursors /\ stored = NoStored
    /\ pc = "off"
    /\ folder = NoCursors /\ info = NoInfo /\ start = 0
    /\ batch = NoMail /\ page = {} /\ raw = NoRaw
    /\ late = 0 /\ faults = 0

-------------------------------------------------------------------------------
\* The server's side of the mailbox: other clients and deliveries.

engine == <<store, pc, pass, late, faults>>

Append ==
    /\ uidNext <= MaxUid /\ modseq < MaxModseq
    /\ mail' = [mail EXCEPT ![uidNext] =
                  [live |-> TRUE, flag |-> FALSE, modseq |-> modseq + 1]]
    /\ uidNext' = uidNext + 1
    /\ modseq' = modseq + 1
    /\ UNCHANGED <<validity, engine>>

SetFlag(u) ==
    /\ mail[u].live /\ modseq < MaxModseq
    /\ mail' = [mail EXCEPT ![u] =
                  [live |-> TRUE, flag |-> ~mail[u].flag, modseq |-> modseq + 1]]
    /\ modseq' = modseq + 1
    /\ UNCHANGED <<validity, uidNext, engine>>

Expunge(u) ==
    /\ mail[u].live
    /\ mail' = [mail EXCEPT ![u] = Gone]
    /\ UNCHANGED <<validity, uidNext, modseq, engine>>

(* The mailbox is deleted and re-created (or restored): a new UIDVALIDITY, *)
(* UIDs from 1 again.                                                      *)
Recreate ==
    /\ validity < MaxValidity /\ pc \notin Selected
    /\ validity' = validity + 1
    /\ uidNext' = 1 /\ modseq' = 1 /\ mail' = NoMail
    /\ UNCHANGED engine

(* The host, or its user, sets or clears a flag of a stored message.       *)
HostMark(u) ==
    /\ HostMarks /\ stored[u].gen # 0
    /\ stored' = [stored EXCEPT ![u] =
                    [gen |-> stored[u].gen, flag |-> ~stored[u].flag,
                     modseq |-> stored[u].modseq, body |-> stored[u].body]]
    /\ UNCHANGED <<server, row, pc, pass, late, faults>>

Environment ==
    \/ Append
    \/ \E u \in Uid : SetFlag(u) \/ Expunge(u) \/ HostMark(u)
    \/ Recreate

-------------------------------------------------------------------------------
\* The pass.

Goto(from, to) == pc = from /\ pc' = to

(* The pass is over: its locals go out of scope.                           *)
EndPass ==
    /\ folder' = NoCursors /\ info' = NoInfo /\ start' = 0
    /\ batch' = NoMail /\ page' = {} /\ raw' = NoRaw

(* connect_and_authenticate succeeded.                                     *)
Connect ==
    /\ Goto("off", "ready")
    /\ UNCHANGED <<server, store, pass, late, faults>>

(* The upserted row is used instead of the one read back.                  *)
FaultyReadRow ==
    /\ Goto("ready", "select")
    /\ folder' = NoCursors
    /\ UNCHANGED <<server, store, info, start, batch, page, raw, late, faults>>

(* sync_hierarchy or list_stored_folders read the row.                     *)
ReadRow ==
    /\ Goto("ready", "select")
    /\ folder' = row
    /\ UNCHANGED <<server, store, info, start, batch, page, raw, late, faults>>

(* SELECT; whatever raw answer was still under way lands in its outcome,   *)
(* where select_info does not look at it.                                  *)
Select ==
    /\ pc = "select"
    /\ info' = SelectAnswer
    /\ pc' = IF Recreated(folder, info') THEN "purge"
             ELSE IF info'.validity # 0 THEN "advance" ELSE "delta"
    /\ late' = 0
    /\ UNCHANGED <<server, store, folder, start, batch, page, raw, faults>>

PurgeFolder ==
    /\ Goto("purge", "reset")
    /\ stored' = NoStored
    /\ UNCHANGED <<server, row, pass, late, faults>>

FaultyUpdateSyncCursors(v, m) == row' = [validity |-> m, modseq |-> v]

(* MailStore::update_sync_cursors writes the validity it is given, 0 or not. *)
UpdateSyncCursors(v, m) == row' = [validity |-> v, modseq |-> m]

(* The mod-sequence is left alone.                                         *)
FaultyResetCursors ==
    /\ Goto("reset", "advance")
    /\ UpdateSyncCursors(info.validity, row.modseq)
    /\ UNCHANGED <<server, stored, pass, late, faults>>

ResetCursors ==
    /\ Goto("reset", "advance")
    /\ UpdateSyncCursors(info.validity, 0)
    /\ UNCHANGED <<server, stored, pass, late, faults>>

(* The row keeps the UIDVALIDITY the pass started from.                    *)
FaultyAdvanceCursors ==
    /\ Goto("advance", "delta")
    /\ UpdateSyncCursors(IF folder.validity = 0 THEN info.validity ELSE folder.validity,
                         info.modseq)
    /\ UNCHANGED <<server, stored, pass, late, faults>>

AdvanceCursors ==
    /\ Goto("advance", "delta")
    /\ UpdateSyncCursors(info.validity, info.modseq)
    /\ UNCHANGED <<server, stored, pass, late, faults>>

(* The delta starts at s, if the SELECT left anything to fetch.            *)
DeltaFrom(s) ==
    IF info.exists /\ s <= NextBound(info.uidNext)
    THEN pc' = "fetch" /\ start' = s
    ELSE pc' = "flags" /\ UNCHANGED start

FindDelta ==
    /\ pc = "delta"
    /\ \E s \in 1 .. MaxUid + 1 : IsDeltaStart(s) /\ DeltaFrom(s)
    /\ UNCHANGED <<server, store, folder, info, batch, page, raw, late, faults>>

(* UID FETCH start:end: the messages there are when the server answers.    *)
FetchEnvelopes ==
    /\ pc = "fetch"
    /\ batch' = [u \in Uid |-> IF u \in start .. NextBound(info.uidNext)
                               THEN mail[u] ELSE Gone]
    /\ pc' = IF \E u \in Uid : batch'[u].live THEN "ingest" ELSE "flags"
    /\ UNCHANGED <<server, store, folder, info, start, page, raw, late, faults>>

(* ingest_batch: one transaction, an upsert by UID; stored bodies stay.    *)
Ingested(u) ==
    [gen |-> validity, flag |-> batch[u].flag, modseq |-> batch[u].modseq,
     body |-> stored[u].body]

(* Not one transaction: an error half way leaves some of the batch in.     *)
FaultyIngestBatch ==
    /\ Goto("ingest", "flags")
    /\ \E S \in SUBSET {u \in Uid : batch[u].live} :
          stored' = [u \in Uid |-> IF u \in S THEN Ingested(u) ELSE stored[u]]
    /\ batch' = NoMail
    /\ UNCHANGED <<server, row, folder, info, start, page, raw, late, faults>>

IngestBatch ==
    /\ Goto("ingest", "flags")
    /\ stored' = [u \in Uid |-> IF batch[u].live THEN Ingested(u) ELSE stored[u]]
    /\ batch' = NoMail
    /\ UNCHANGED <<server, row, folder, info, start, page, raw, late, faults>>

(* flag_pass: UID FETCH 1:* (FLAGS) (CHANGEDSINCE highest_modseq + 1),     *)
(* which answers the messages whose mod-sequence is greater still.  What   *)
(* it answers is announced (FlagsChanged), not stored.                     *)
AsksForFlags == Condstore /\ folder.modseq > 0

(* Inclusive.                                                              *)
FaultyChangedSince(m) == {u \in Uid : mail[u].live /\ mail[u].modseq > m + 1}

ChangedSince(m) == {u \in Uid : mail[u].live /\ mail[u].modseq > m}

(* What the host announces as changed it stores as changed.                *)
FaultyAnnounced(u) ==
    [gen |-> stored[u].gen, flag |-> mail[u].flag, modseq |-> mail[u].modseq,
     body |-> stored[u].body]

Announced(u) ==
    [gen |-> stored[u].gen, flag |-> stored[u].flag, modseq |-> mail[u].modseq,
     body |-> stored[u].body]

ChangedFlags == ChangedSince(folder.modseq + 1) \cap Kept(stored)

(* FlagsChanged with the messages whose rows were found.                   *)
AnnounceFlags(found) ==
    /\ pc = "flags" /\ AsksForFlags
    /\ stored' = [u \in Uid |-> IF u \in found THEN Announced(u) ELSE stored[u]]
    /\ pc' = IF info.modseq > folder.modseq THEN "flagCursor" ELSE "list"
    /\ UNCHANGED <<server, row, pass, late>>

FetchFlags == AnnounceFlags(ChangedFlags) /\ UNCHANGED faults

SkipFlags ==
    /\ Goto("flags", "list") /\ ~AsksForFlags
    /\ UNCHANGED <<server, store, pass, late, faults>>

(* update_sync_cursors(folder.id, 0, Some(info.highest_modseq))            *)
FlagCursor ==
    /\ Goto("flagCursor", "list")
    /\ UpdateSyncCursors(0, info.modseq)
    /\ UNCHANGED <<server, stored, pass, late, faults>>

(* prefetch_recent: list the newest PrefetchLimit messages by date, which  *)
(* says nothing about their UIDs, and fetch each one's body.               *)
Newest(P) ==
    LET size == Cardinality(Kept(stored))
    IN  Cardinality(P) = IF size < PrefetchLimit THEN size ELSE PrefetchLimit

ListRecent ==
    /\ Goto("list", "raw")
    /\ \E P \in SUBSET Kept(stored) :
          Newest(P) /\ page' = {[uid |-> u, flag |-> stored[u].flag] : u \in P}
    /\ UNCHANGED <<server, store, folder, info, start, batch, raw, late, faults>>

(* fetch_raw asks for RFC822, not for BODY.PEEK[]: the server sets \Seen.  *)
(* At the bound MaxModseq the change is left out.                          *)
MarkSeen(u) ==
    IF mail[u].live /\ ~mail[u].flag /\ modseq < MaxModseq
    THEN /\ mail' = [mail EXCEPT ![u] =
                       [live |-> TRUE, flag |-> TRUE, modseq |-> modseq + 1]]
         /\ modseq' = modseq + 1
         /\ UNCHANGED <<validity, uidNext>>
    ELSE UNCHANGED server

(* UID FETCH u:*, which answers the last message when u is not there.      *)
FaultyFetchRaw(m) ==
    LET u  == m.uid
        of == IF mail[u].live \/ Live = {} THEN u ELSE CHOOSE v \in Live : \A w \in Live : v >= w
    IN  /\ pc = "raw"
        /\ page' = page \ {m}
        /\ pc' = "body" /\ raw' = [uid |-> u, flag |-> m.flag, of |-> of]
        /\ MarkSeen(u)
        /\ late' = 0
        /\ UNCHANGED <<store, folder, info, start, batch, faults>>

(* fetch_raw of a listed message: the first FETCH data with a body that    *)
(* arrives while the command runs, whatever UID it names.                  *)
FetchRaw(m) ==
    LET u  == m.uid
        of == IF late # 0 THEN late ELSE IF mail[u].live THEN u ELSE 0
    IN  /\ pc = "raw"
        /\ page' = page \ {m}
        /\ IF of # 0
           THEN pc' = "body" /\ raw' = [uid |-> u, flag |-> m.flag, of |-> of]
           ELSE UNCHANGED <<pc, raw>>
        /\ MarkSeen(u)
        /\ late' = 0
        /\ UNCHANGED <<store, folder, info, start, batch, faults>>

(* write_blob, then the re-ingest: an upsert of the message as listed.     *)
WithBody(answer) ==
    [gen |-> stored[answer.uid].gen, flag |-> answer.flag,
     modseq |-> stored[answer.uid].modseq, body |-> answer.of]

IngestBody ==
    /\ Goto("body", "raw")
    /\ stored' = [stored EXCEPT ![raw.uid] = WithBody(raw)]
    /\ raw' = NoRaw
    /\ UNCHANGED <<server, row, folder, info, start, batch, page, late, faults>>

PassDone ==
    /\ Goto("raw", "ready") /\ page = {}
    /\ EndPass
    /\ UNCHANGED <<server, store, late, faults>>

Engine ==
    \/ Connect \/ ReadRow \/ Select
    \/ PurgeFolder \/ ResetCursors \/ AdvanceCursors
    \/ FindDelta \/ FetchEnvelopes \/ IngestBatch
    \/ FetchFlags \/ SkipFlags \/ FlagCursor
    \/ ListRecent \/ (\E m \in page : FetchRaw(m)) \/ IngestBody \/ PassDone

-------------------------------------------------------------------------------
\* Faults, each one counted.

Fault == faults < MaxFaults /\ faults' = faults + 1

(* The server answers SELECT with NO: sync_folder returns Ok.              *)
SelectRefused ==
    /\ Fault /\ Goto("select", "ready")
    /\ EndPass /\ late' = 0
    /\ UNCHANGED <<server, store>>

(* The CHANGEDSINCE fetch fails: flag_pass swallows it.                    *)
FlagFetchFails ==
    /\ Fault /\ Goto("flags", "list") /\ AsksForFlags
    /\ UNCHANGED <<server, store, pass, late>>

(* message_by_uid fails for some of the changed messages: they are left    *)
(* out of FlagsChanged, and the cursor goes on.                            *)
LookupFails ==
    /\ StoreFails
    /\ \E lost \in SUBSET ChangedFlags \ {{}} :
          /\ faults + Cardinality(lost) <= MaxFaults
          /\ faults' = faults + Cardinality(lost)
          /\ AnnounceFlags(ChangedFlags \ lost)

(* A fetch_raw fails: prefetch_recent goes on to the next message.  After  *)
(* a timeout the server may have run the command, its answer may still be  *)
(* on its way, and it may also have brought an older one in.               *)
RawFails(m) ==
    /\ Fault /\ pc = "raw"
    /\ page' = page \ {m}
    /\ \/ UNCHANGED <<server, late>>
       \/ /\ LateAnswers /\ late' \in {late, IF mail[m.uid].live THEN m.uid ELSE 0}
          /\ MarkSeen(m.uid)
    /\ UNCHANGED <<store, pc, folder, info, start, batch, raw>>

(* A store call returns an error the pass ignores: `let _ =` for the       *)
(* cursors and the body, unwrap_or(0) for the purge, unwrap_or_default()   *)
(* for the listing.                                                        *)
StoreErrorIgnored ==
    /\ Fault /\ StoreFails
    /\ \/ Goto("purge", "reset") \/ Goto("reset", "advance")
       \/ Goto("advance", "delta") \/ Goto("flagCursor", "list")
       \/ Goto("list", "raw") \/ Goto("body", "raw")
    /\ raw' = NoRaw
    /\ UNCHANGED <<server, store, folder, info, start, batch, page, late>>

(* max_uid fails: unwrap_or(None), and the delta starts from the first UID. *)
MaxUidFails ==
    /\ Fault /\ StoreFails /\ pc = "delta"
    /\ DeltaFrom(1)
    /\ UNCHANGED <<server, store, folder, info, batch, page, raw, late>>

(* A command or ingest_batch fails and run_one_cycle returns Err, or the   *)
(* process crashes and restarts: the session and the pass are gone.        *)
Drop ==
    /\ Fault /\ pc # "off" /\ pc' = "off"
    /\ EndPass /\ late' = 0
    /\ UNCHANGED <<server, store>>

Faults ==
    \/ SelectRefused \/ FlagFetchFails \/ LookupFails
    \/ (\E m \in page : RawFails(m))
    \/ StoreErrorIgnored \/ MaxUidFails \/ Drop

Next == Environment \/ Engine \/ Faults

Spec == Init /\ [][Next]_vars

(* The engine is one task that its executor keeps polling, every command   *)
(* of it has a timeout, and the poll timer (or a re-sent IDLE) starts the  *)
(* next pass; nothing makes the server's clients act.                      *)
Fairness == WF_vars(Engine)

FairSpec == Spec /\ Fairness

-------------------------------------------------------------------------------
\* Properties.

(* Every variable has its type.                                            *)
TypeOK ==
    /\ validity \in 1 .. MaxValidity
    /\ uidNext \in 1 .. MaxUid + 1
    /\ modseq \in 1 .. MaxModseq
    /\ mail \in [Uid -> ServerMessage]
    /\ row \in Cursors
    /\ stored \in [Uid -> StoredMessage]
    /\ pc \in Steps
    /\ folder \in Cursors
    /\ info \in SelectInfo
    /\ start \in 0 .. MaxUid + 1
    /\ batch \in [Uid -> ServerMessage]
    /\ page \in SUBSET Listed
    /\ raw \in RawAnswer
    /\ late \in 0 .. MaxUid
    /\ faults \in 0 .. MaxFaults

(* "A changed UIDVALIDITY invalidates all stored UIDs; purge and reset     *)
(* cursors, then re-fetch from scratch" (sync.rs, sync_folder): once a     *)
(* pass is past the reconciliation, everything stored is from the mailbox  *)
(* it has selected, whatever crashed between the purge and the cursors.    *)
Reconciled == {"delta", "fetch", "ingest", "flags", "flagCursor", "list", "raw", "body"}

OneGeneration ==
    pc \in Reconciled => \A u \in Kept(stored) : stored[u].gen = validity

(* max_uid is the delta's only cursor (sync_folder: "fetch envelopes for   *)
(* UIDs beyond the stored maximum"), so a message below it is never        *)
(* fetched again: below a stored message of the current generation, no     *)
(* message of the server may be missing.  ImplementsMirror implies it.     *)
NoGap ==
    \A u \in Live : \A v \in Kept(stored) :
        stored[v].gen = validity /\ u <= v => stored[u].gen = validity

(* A pass that came past its delta without an error leaves no mail behind: *)
(* what was there at SELECT (and is still there) is stored, although the   *)
(* bounds of the fetch are max_uid before it and UIDNEXT as of SELECT      *)
(* (sync_folder, fetch_and_ingest).  The service loop takes the folder as  *)
(* synced from there on (ImapService, FetchFolder).                        *)
DeltaPassed == {"flags", "flagCursor", "list", "raw", "body"}

PassCatchesUp ==
    pc \in DeltaPassed => \A u \in Live : u < info.uidNext => stored[u].gen = validity

(* The cursor may not be ahead of the server, or the flag pass would wait  *)
(* for changes that were there already - also when the mailbox was re-     *)
(* created with lower mod-sequences and the pass broke off (sync_folder).  *)
CursorNotAhead == row.validity = validity => row.modseq <= modseq

(* When the flag pass is about to move the cursor, the host has been told  *)
(* of every change after the old one up to SELECT (flag_pass), but for the *)
(* first mod-sequence after it, which the request skips, and for one       *)
(* message per failed look-up (message_by_uid).                            *)
Untold ==
    {u \in Live \cap Kept(stored) :
        /\ stored[u].gen = validity
        /\ folder.modseq + 1 < mail[u].modseq /\ mail[u].modseq <= info.modseq
        /\ stored[u].modseq < mail[u].modseq}
FlagsTold == pc = "flagCursor" => Cardinality(Untold) <= faults

(* The flags of a stored message are the host's: a pass announces what     *)
(* changed (flag_pass) and overwrites a flag only where it stores the      *)
(* message again - with its body (prefetch_recent), or in a delta that     *)
(* starts over because max_uid failed (sync_folder).                       *)
FlagsLeftAlone ==
    [][\A u \in Kept(stored) :
         stored'[u].gen # 0 /\ stored'[u].flag # stored[u].flag
             => \/ HostMark(u)
                \/ pc = "body" /\ raw.uid = u
                \/ pc = "ingest" /\ start <= u]_vars

(* A prefetched body is the body of the message it is stored for           *)
(* (prefetch_recent), unless an answer comes after its command timed out.  *)
BodyMatches == \A u \in Kept(stored) : stored[u].body \in {0, u}

(* purge_folder throws away what the reconciliation calls invalid, and     *)
(* only that: no step removes a message fetched from the mailbox as it is. *)
PurgeOnlyStale ==
    [][\A u \in Uid : stored[u].gen # 0 /\ stored'[u].gen = 0
          => stored[u].gen # validity]_vars

(* The delta sync catches up: a message on the server is stored in the end,
   unless it is expunged or its mailbox re-created first.                  *)
Arrived(u, g)  == stored[u].gen = g \/ validity # g \/ ~mail[u].live
AllMailArrives ==
    \A u \in Uid : \A g \in 1 .. MaxValidity :
        validity = g /\ mail[u].live ~> Arrived(u, g)

(* What a re-creation invalidated is gone in the end (sync_folder's purge). *)
StaleMailGoes ==
    (\E u \in Kept(stored) : stored[u].gen # validity)
        ~> (\A u \in Kept(stored) : stored[u].gen = validity)

(* The store's copy of the folder is a mirror of the mailbox: the abstract *)
(* specification, with the messages' generations as the copy.              *)
Mirror == INSTANCE MailboxMirror WITH
    generation <- validity, next <- uidNext, present <- Live,
    copy <- [u \in Uid |-> stored[u].gen]

(* sync_folder implements the mirror: every ingest is a catch-up without   *)
(* holes and every purge drops a copy of a mailbox that is gone.           *)
ImplementsMirror == Mirror!Spec

-------------------------------------------------------------------------------
\* What the code's docs promise and it does not keep: no run checks these.

(* The flag pass asks for the changes after the stored HIGHESTMODSEQ only: *)
(* between passes, the cursor must not have passed a change of a stored    *)
(* message that the host was not told of (flag_pass).                      *)
FlagCursorCovers ==
    pc \in {"off", "ready"} =>
        \A u \in Live \cap Kept(stored) :
            stored[u].gen = validity /\ mail[u].modseq <= row.modseq
                => mail[u].modseq <= stored[u].modseq

(* "Item name choice (peek or not) is the caller's" (session.rs,           *)
(* fetch_raw): the background prefetch, which no user asked for, does not  *)
(* mark mail as read.                                                      *)
PrefetchPeeks ==
    [][\A u \in Uid : pc = "raw" /\ pc' # "raw" => mail'[u].flag = mail[u].flag]_vars

(* A flag the host sets while a body is being fetched is still set after   *)
(* it was stored (prefetch_recent); the re-ingest writes the listed one.   *)
HostMarkKept ==
    [][\A u \in Kept(stored) : pc = "body" /\ pc' = "raw" =>
         stored'[u].flag = stored[u].flag]_vars

(* "No-op otherwise (the next full delta pass catches up)" (flag_pass):    *)
(* a stored message's flag is the server's in the end, if it stays as it is. *)
SameFlag(u) == stored[u].flag = mail[u].flag
FlagsCatchUp ==
    \A u \in Uid :
        <>[](mail[u].live /\ stored[u].gen = validity) => []<>SameFlag(u)
===============================================================================
