------------------------------- MODULE JmapSync -------------------------------
(***************************************************************************)
(* JmapSyncService (src/src/jmap_sync.rs) over JmapClient (jmap.rs): one   *)
(* account's mailboxes, polled with Email/query + Email/get and ingested   *)
(* into the store under a hash of the email id.                            *)
(*                                                                         *)
(* A server may or may not honour the sinceState a request carries at its  *)
(* top level and return a numeric newState there; one that does not gets   *)
(* the same query every time.  The event channel is that of ImapService    *)
(* and is left out: an announcement is made in the step it belongs to.     *)
(***************************************************************************)
EXTENDS Integers, FiniteSets

CONSTANTS
    Mailbox,    \* the account's mailboxes
    NoMailbox,  \* where an email is before it arrives and after it is destroyed
    NamedById,  \* the mailboxes whose JMAP id is their name
    MaxEmail,   \* emails are numbered by receivedAt
    Hash,       \* jmap_id_hash: the UID an email is stored under
    Limit,      \* 256, the limit of Email/query
    BackoffStart, BackoffCap,  \* 250 ms, the first reconnect delay, and 5 min, the longest
    MaxState,   \* bound on the server's state, one step per change
    MaxFaults   \* bound on failed requests and store calls and on crashes

Email == 1 .. MaxEmail

ASSUME JmapAssumption ==
    /\ NoMailbox \notin Mailbox
    /\ NamedById \subseteq Mailbox
    /\ MaxEmail \in Nat \ {0}
    /\ Hash \in [Email -> Nat]
    /\ Limit \in Nat \ {0}
    /\ BackoffStart \in Nat \ {0} /\ BackoffCap \in Nat /\ BackoffStart <= BackoffCap
    /\ MaxState \in Nat \ {0} /\ MaxFaults \in Nat

VARIABLES
    \* the server
    state,      \* its state
    mail,       \* where each email is, and the state of its last change
    honours,    \* it honours sinceState and returns newState
    \* the host and the store
    cancelled,
    rows,       \* the mailboxes with a folder row
    cursor,     \* FolderRow.highest_modseq: the state token
    stored,     \* by mailbox and UID, what the row holds; email 0 for no row
    \* the engine
    pc,
    announced,  \* the ConnectionState this process announced last
    backoff,    \* the next reconnect delay
    todo,       \* the folders left in the pass
    folder,     \* the one being synced
    answer,     \* the emails of the response
    newState,   \* its newState, 0 for none or one that is not a number
    \* history
    truncated,  \* an answer was cut at the limit
    faults

server  == <<state, mail, honours>>
store   == <<rows, cursor, stored>>
pass    == <<todo, folder, answer, newState>>
service == <<announced, backoff>>
vars    == <<server, cancelled, store, pc, service, pass, truncated, faults>>

UID      == {Hash[e] : e \in Email}
Version  == [email: 0 .. MaxEmail, state: 0 .. MaxState]
Absent   == [email |-> 0, state |-> 0]
Steps    == {"top", "discover", "discovered", "hierarchy", "tree", "pass", "query",
             "ingest", "cursor", "poll", "wait", "returned"}

ConnectionState == {"Disconnected", "Connecting", "Authenticating", "Syncing"}

Init ==
    /\ state = 1 /\ mail = [e \in Email |-> [box |-> NoMailbox, state |-> 0]]
    /\ honours \in BOOLEAN
    /\ cancelled = FALSE
    /\ rows = {} /\ cursor = [m \in Mailbox |-> 0]
    /\ stored = [m \in Mailbox |-> [u \in UID |-> Absent]]
    /\ pc = "top" /\ announced = "Disconnected" /\ backoff = BackoffStart
    /\ todo = {} /\ folder = NoMailbox
    /\ answer = {} /\ newState = 0
    /\ truncated = FALSE /\ faults = 0

-------------------------------------------------------------------------------
\* The server's side: deliveries, other clients; and the host.

engine == <<cancelled, store, pc, service, pass, truncated, faults>>

(* An email arrives, changes its keywords, moves, or is destroyed.         *)
Change(e, box) ==
    /\ state < MaxState /\ state' = state + 1
    /\ mail[e].box = NoMailbox => mail[e].state = 0 /\ box # NoMailbox
    /\ mail' = [mail EXCEPT ![e] = [box |-> box, state |-> state + 1]]
    /\ UNCHANGED <<honours, engine>>

Cancel ==
    /\ ~cancelled /\ cancelled' = TRUE
    /\ UNCHANGED <<server, store, pc, service, pass, truncated, faults>>

-------------------------------------------------------------------------------
\* The service.

Goto(from, to) == pc = from /\ pc' = to

EndFolder == folder' = NoMailbox /\ answer' = {} /\ newState' = 0

(* run: a look at the token, and run_one_cycle says Connecting.            *)
Top ==
    /\ pc = "top"
    /\ IF cancelled THEN pc' = "returned" /\ UNCHANGED announced
       ELSE pc' = "discover" /\ announced' = "Connecting"
    /\ UNCHANGED <<server, cancelled, store, backoff, pass, truncated, faults>>

(* JmapClient::discover has answered; Authenticating, then Syncing.        *)
Discover ==
    /\ Goto("discover", "discovered") /\ announced' = "Authenticating"
    /\ UNCHANGED <<server, cancelled, store, backoff, pass, truncated, faults>>

Discovered ==
    /\ Goto("discovered", "hierarchy") /\ announced' = "Syncing"
    /\ UNCHANGED <<server, cancelled, store, backoff, pass, truncated, faults>>

(* Mailbox/get and an upsert by name for each mailbox; a row that exists   *)
(* keeps its cursor.                                                       *)
SyncHierarchy ==
    /\ Goto("hierarchy", "tree")
    /\ rows' = Mailbox /\ todo' = rows'
    /\ UNCHANGED <<server, cancelled, service, cursor, stored, folder, answer, newState,
                   truncated, faults>>

FolderTreeChanged ==
    /\ Goto("tree", "pass")
    /\ UNCHANGED <<server, cancelled, service, store, pass, truncated, faults>>

NextFolder(m) ==
    /\ Goto("pass", "query") /\ m \in todo /\ ~cancelled
    /\ todo' = todo \ {m} /\ folder' = m
    /\ UNCHANGED <<server, cancelled, service, store, answer, newState, truncated, faults>>

(* The change right after the cursor is skipped.                           *)
FaultyMatches(m) ==
    {e \in Email : /\ mail[e].box = m /\ m \in NamedById
                   /\ honours /\ cursor[m] > 0 => mail[e].state > cursor[m] + 1}

(* The filter is { inMailbox: <the folder's name> }; sinceState is sent    *)
(* when the cursor is not 0.                                               *)
Matches(m) ==
    {e \in Email : /\ mail[e].box = m /\ m \in NamedById
                   /\ honours /\ cursor[m] > 0 => mail[e].state > cursor[m]}

(* The newest ones by receivedAt, up to the limit.                         *)
Newest(S) == {e \in S : Cardinality({d \in S : d > e}) < Limit}

(* Email/query and Email/get in one request; without emails in the         *)
(* response sync_folder is done, and the cursor stays.                     *)
QueryEmails ==
    /\ pc = "query"
    /\ LET found == Matches(folder)
       IN  IF found = {}
           THEN pc' = "pass" /\ EndFolder /\ UNCHANGED truncated
           ELSE /\ pc' = "ingest"
                /\ answer' = {[email |-> e, state |-> mail[e].state] : e \in Newest(found)}
                /\ newState' = IF honours THEN state ELSE 0
                /\ truncated' = (truncated \/ Newest(found) # found)
                /\ UNCHANGED folder
    /\ UNCHANGED <<server, cancelled, service, store, todo, faults>>

(* ingest_batch, newest first: an upsert by UID.  A row that is there, or  *)
(* that a newer email of the batch made, keeps its message and takes the   *)
(* flags of the last email with its UID.                                   *)
Ingested(m, u) ==
    LET same   == {a \in answer : Hash[a.email] = u}
        first  == CHOOSE a \in same : \A b \in same : a.email >= b.email
        last   == CHOOSE a \in same : \A b \in same : a.email <= b.email
    IN  IF same = {} THEN stored[m][u]
        ELSE [email |-> IF stored[m][u] = Absent THEN first.email ELSE stored[m][u].email,
              state |-> last.state]

(* The batch is stored in every folder.                                    *)
FaultyIngestBatch ==
    /\ Goto("ingest", "cursor")
    /\ stored' = [m \in Mailbox |-> [u \in UID |-> Ingested(m, u)]]
    /\ UNCHANGED <<server, cancelled, service, rows, cursor, pass, truncated, faults>>

IngestBatch ==
    /\ Goto("ingest", "cursor")
    /\ stored' = [stored EXCEPT ![folder] = [u \in UID |-> Ingested(folder, u)]]
    /\ UNCHANGED <<server, cancelled, service, rows, cursor, pass, truncated, faults>>

(* The server's state at the time of the write.                            *)
FaultyUpdateCursor ==
    /\ Goto("cursor", "pass") /\ EndFolder
    /\ cursor' = IF newState > 0 THEN [cursor EXCEPT ![folder] = state] ELSE cursor
    /\ UNCHANGED <<server, cancelled, service, rows, stored, todo, truncated, faults>>

(* MailArrived, and the cursor if newState is there and a number.          *)
UpdateCursor ==
    /\ Goto("cursor", "pass") /\ EndFolder
    /\ cursor' = IF newState > 0 THEN [cursor EXCEPT ![folder] = newState] ELSE cursor
    /\ UNCHANGED <<server, cancelled, service, rows, stored, todo, truncated, faults>>

PassDone ==
    /\ Goto("pass", "poll") /\ todo = {}
    /\ UNCHANGED <<server, cancelled, service, store, pass, truncated, faults>>

(* Every mailbox of the server is polled, with a row or not.               *)
FaultyPoll ==
    /\ Goto("poll", "pass") /\ ~cancelled
    /\ todo' = Mailbox /\ announced' = "Syncing"
    /\ UNCHANGED <<server, cancelled, backoff, store, folder, answer, newState, truncated, faults>>

(* 300 s later: the timer branch of select!, not taken by a service that   *)
(* was cancelled before.                                                   *)
Poll ==
    /\ Goto("poll", "pass") /\ ~cancelled
    /\ todo' = rows /\ announced' = "Syncing"
    /\ UNCHANGED <<server, cancelled, backoff, store, folder, answer, newState, truncated, faults>>

(* The polling goes on.                                                    *)
FaultyCycleEnds ==
    /\ cancelled /\ Goto("pass", "top") /\ todo # {} /\ todo' = {}
    /\ backoff' = BackoffStart
    /\ UNCHANGED <<server, cancelled, announced, store, folder, answer, newState,
                   truncated, faults>>

(* run_one_cycle returns Ok, which it does only for a cancellation: between*)
(* folders or in the poll's wait.                                          *)
CycleEnds ==
    /\ cancelled /\ (Goto("poll", "top") \/ (Goto("pass", "top") /\ todo # {}))
    /\ todo' = {} /\ backoff' = BackoffStart
    /\ UNCHANGED <<server, cancelled, announced, store, folder, answer, newState,
                   truncated, faults>>

(* The wait before the next connection.                                    *)
WaitCancelled ==
    /\ Goto("wait", "returned") /\ cancelled
    /\ UNCHANGED <<server, cancelled, service, store, pass, truncated, faults>>

BackoffElapses ==
    /\ Goto("wait", "top") /\ ~cancelled
    /\ backoff' = IF 2 * backoff < BackoffCap THEN 2 * backoff ELSE BackoffCap
    /\ UNCHANGED <<server, cancelled, announced, store, pass, truncated, faults>>

Engine ==
    \/ Top \/ Discover \/ Discovered \/ SyncHierarchy \/ FolderTreeChanged
    \/ (\E m \in Mailbox : NextFolder(m)) \/ QueryEmails \/ IngestBatch \/ UpdateCursor
    \/ PassDone \/ Poll \/ CycleEnds \/ WaitCancelled \/ BackoffElapses

-------------------------------------------------------------------------------
\* Faults, each one counted.

Fault == faults < MaxFaults /\ faults' = faults + 1

(* The error is dropped where the state should be said.                    *)
FaultyCycleErr ==
    /\ Fault /\ pc' = "wait" /\ UNCHANGED announced
    /\ todo' = {} /\ EndFolder
    /\ UNCHANGED <<server, cancelled, backoff, store, truncated>>

(* run_one_cycle returns Err: run says Disconnected and waits.             *)
CycleErr ==
    /\ Fault /\ pc' = "wait" /\ announced' = "Disconnected"
    /\ todo' = {} /\ EndFolder
    /\ UNCHANGED <<server, cancelled, backoff, store, truncated>>

(* No answer, an HTTP status that is not a success, or a body that does    *)
(* not parse.                                                              *)
RequestFails == pc \in {"discover", "hierarchy", "query"} /\ CycleErr

BusClosed == pc = "tree" /\ CycleErr

IngestFails == pc = "ingest" /\ CycleErr

(* The process crashes and is started again.                               *)
Crash ==
    /\ Fault /\ pc \notin {"top", "returned"} /\ ~cancelled /\ pc' = "top"
    /\ announced' = "Disconnected" /\ backoff' = BackoffStart
    /\ todo' = {} /\ EndFolder
    /\ UNCHANGED <<server, cancelled, store, truncated>>

(* An error method response: parse_email_get finds no Email/get and        *)
(* returns an empty list.                                                  *)
MethodError ==
    /\ Fault /\ Goto("query", "pass") /\ EndFolder
    /\ UNCHANGED <<server, cancelled, service, store, todo, truncated>>

(* update_sync_cursors fails: `let _ =`.                                   *)
CursorFails ==
    /\ Fault /\ Goto("cursor", "pass") /\ EndFolder
    /\ UNCHANGED <<server, cancelled, service, store, todo, truncated>>

(* An upsert, list_folders or get_folder fails: folders are left out.      *)
RowsMissing ==
    /\ Fault
    /\ \/ /\ Goto("hierarchy", "tree")
          /\ rows' \in {S \in SUBSET Mailbox : rows \subseteq S}
       \/ Goto("poll", "pass") /\ ~cancelled /\ UNCHANGED rows
    /\ todo' \in SUBSET rows'
    /\ UNCHANGED <<server, cancelled, service, cursor, stored, folder, answer, newState, truncated>>

Next ==
    \/ \E e \in Email : \E box \in Mailbox \cup {NoMailbox} : Change(e, box)
    \/ Cancel
    \/ Engine
    \/ RequestFails \/ BusClosed \/ IngestFails \/ Crash
    \/ MethodError \/ CursorFails \/ RowsMissing

Spec == Init /\ [][Next]_vars

(* The service is one task that is polled; its requests have the HTTP      *)
(* client's 30 s timeout and its waits are timers.                         *)
Fairness == WF_vars(Engine)

FairSpec == Spec /\ Fairness

-------------------------------------------------------------------------------
\* Properties.

(* Every variable has its type.                                            *)
TypeOK ==
    /\ state \in 1 .. MaxState /\ honours \in BOOLEAN /\ cancelled \in BOOLEAN
    /\ mail \in [Email -> [box: Mailbox \cup {NoMailbox}, state: 0 .. MaxState]]
    /\ rows \in SUBSET Mailbox /\ todo \in SUBSET rows
    /\ cursor \in [Mailbox -> 0 .. MaxState]
    /\ stored \in [Mailbox -> [UID -> Version]]
    /\ pc \in Steps /\ announced \in ConnectionState
    /\ backoff \in BackoffStart .. BackoffCap
    /\ folder \in Mailbox \cup {NoMailbox}
    /\ answer \in SUBSET Version /\ newState \in 0 .. MaxState
    /\ truncated \in BOOLEAN /\ faults \in 0 .. MaxFaults

Alone(e) == \A d \in Email \ {e} : Hash[d] # Hash[e]

(* "Supports delta sync through JMAP state tokens" (jmap_sync.rs): what a  *)
(* folder's cursor has passed is in the store, whatever was delivered or   *)
(* changed while the pass ran and wherever it broke off, unless an answer  *)
(* was cut at the limit.                                                   *)
CursorCovers ==
    \A m \in Mailbox : \A e \in Email :
        ~truncated /\ Alone(e) /\ mail[e].box = m /\ mail[e].state <= cursor[m]
            => stored[m][Hash[e]] = [email |-> e, state |-> mail[e].state]

(* A folder's row of a UID shows an email of that UID that the folder had: *)
(* a folder the server finds nothing for stays empty (ingest).             *)
RowsAreReal ==
    \A m \in Mailbox : \A u \in UID :
        stored[m][u] # Absent => m \in NamedById /\ Hash[stored[m][u].email] = u

(* An email among the newest ones of its mailbox is stored as it is in the *)
(* end (the poll loop of run_one_cycle), unless it changes again, or an    *)
(* answer was cut at the limit and the cursor went past it.  A folder      *)
(* whose upsert failed waits for the next Mailbox/get, at a reconnect.     *)
Current(e, m, s) == mail[e].box = m /\ mail[e].state = s
Shown(e, m, s)   == stored[m][Hash[e]] = [email |-> e, state |-> s]
InWindow(e, m)   == e \in Newest({d \in Email : mail[d].box = m})

NewMailArrivesIn(boxes) ==
    \A m \in boxes : \A e \in {d \in Email : Alone(d)} : \A s \in 1 .. MaxState :
        Current(e, m, s)
            ~> \/ Shown(e, m, s) \/ ~Current(e, m, s) \/ ~InWindow(e, m)
               \/ cancelled \/ (honours /\ truncated) \/ m \notin rows

NewMailArrives == NewMailArrivesIn(NamedById)

(* "Ingests messages via Email/query" for every mailbox of Mailbox/get,    *)
(* whose id is "the JMAP id for use in Email/query filters" (jmap_sync.rs). *)
EveryMailboxSyncs == NewMailArrivesIn(Mailbox)

(* What is announced follows ConnectionLifecycle (emit_state), through     *)
(* failed cycles, cancellations and crashes.  The connection is the client *)
(* that discover made.                                                     *)
Lifecycle == INSTANCE ConnectionLifecycle
    WITH state <- announced, ended <- pc = "returned",
         connected <- pc \notin {"top", "discover", "wait", "returned"}

ImplementsLifecycle == Lifecycle!Spec

(* A cancelled service returns (run).                                      *)
CancelStops == Lifecycle!CancelStops
===============================================================================
