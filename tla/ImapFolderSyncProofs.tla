------------------------- MODULE ImapFolderSyncProofs -------------------------
(***************************************************************************)
(* Theorems about sync_folder (ImapFolderSync), for every bound on UIDs,   *)
(* UIDVALIDITY, mod-sequences and faults.                                  *)
(***************************************************************************)
EXTENDS ImapFolderSync, FiniteSetTheorems, TLAPS

-------------------------------------------------------------------------------
\* Type correctness.

(* The answers and values the actions build have their types.              *)
LEMMA SelectAnswerType ==
    ASSUME TypeOK PROVE SelectAnswer \in SelectInfo
BY BoundsAssumption, ServerAssumption
   DEF SelectAnswer, SelectInfo, Reported, TypeOK

LEMMA ValuesType ==
    /\ Gone \in ServerMessage /\ Absent \in StoredMessage
    /\ NoCursors \in Cursors /\ NoInfo \in SelectInfo /\ NoRaw \in RawAnswer
    /\ NoMail \in [Uid -> ServerMessage] /\ NoStored \in [Uid -> StoredMessage]
BY BoundsAssumption
   DEF Gone, ServerMessage, Absent, StoredMessage, NoCursors, Cursors, NoInfo,
       SelectInfo, NoRaw, RawAnswer, NoMail, NoStored

LEMMA InitType == Init => TypeOK
BY BoundsAssumption, ValuesType DEF Init, TypeOK, Steps, Uid

LEMMA EnvironmentType ==
    ASSUME TypeOK, Environment PROVE TypeOK'
<1> USE BoundsAssumption, ValuesType
<1>1. CASE Append
  <2>1. modseq + 1 \in 1 .. MaxModseq /\ uidNext \in Uid /\ uidNext + 1 \in 1 .. MaxUid + 1
    BY <1>1 DEF Append, TypeOK, Uid
  <2>2. mail' \in [Uid -> ServerMessage]
    BY <1>1, <2>1 DEF Append, TypeOK, ServerMessage
  <2>3. QED
    BY <1>1, <2>1, <2>2 DEF Append, TypeOK, engine, store, pass
<1>2. ASSUME NEW u \in Uid, SetFlag(u) PROVE TypeOK'
  BY <1>2 DEF SetFlag, TypeOK, ServerMessage, engine, store, pass
<1>3. ASSUME NEW u \in Uid, Expunge(u) PROVE TypeOK'
  BY <1>3 DEF Expunge, TypeOK, engine, store, pass
<1>4. CASE Recreate
  BY <1>4 DEF Recreate, TypeOK, Uid, engine, store, pass
<1>5. ASSUME NEW u \in Uid, HostMark(u) PROVE TypeOK'
  BY <1>5 DEF HostMark, TypeOK, StoredMessage, server, pass
<1>6. QED
  BY <1>1, <1>2, <1>3, <1>4, <1>5 DEF Environment

(* Fetching a body may set a flag; it touches nothing else on the server.  *)
LEMMA SeenStep ==
    ASSUME TypeOK, NEW u \in Uid, MarkSeen(u) \/ UNCHANGED server
    PROVE  /\ UNCHANGED <<validity, uidNext>> /\ Live' = Live
           /\ modseq' \in 1 .. MaxModseq /\ mail' \in [Uid -> ServerMessage]
<1>1. CASE UNCHANGED server
  BY <1>1 DEF server, TypeOK, Live
<1>2. CASE MarkSeen(u) /\ ~UNCHANGED server
  <2>1. /\ mail[u].live /\ modseq < MaxModseq /\ modseq' = modseq + 1
        /\ mail' = [mail EXCEPT ![u] = [live |-> TRUE, flag |-> TRUE, modseq |-> modseq + 1]]
        /\ UNCHANGED <<validity, uidNext>>
    BY <1>2 DEF MarkSeen
  <2>2. modseq' \in 1 .. MaxModseq
    BY <2>1, BoundsAssumption DEF TypeOK
  <2>3. QED
    BY <2>1, <2>2 DEF TypeOK, ServerMessage, Live
<1>3. QED
  BY <1>1, <1>2

(* The steps that fetch a body keep all that the invariants below are      *)
(* about.                                                                  *)
LEMMA RawStep ==
    ASSUME TypeOK, NEW m \in page, FetchRaw(m) \/ RawFails(m)
    PROVE  /\ pc = "raw" /\ pc' \in {"raw", "body"}
           /\ UNCHANGED <<validity, uidNext, row, stored, folder, info, start, batch>>
           /\ Live' = Live
           /\ modseq' \in 1 .. MaxModseq /\ mail' \in [Uid -> ServerMessage]
           /\ page' \in SUBSET Listed
<1>1. m.uid \in Uid
  BY DEF TypeOK, Listed
<1>2. MarkSeen(m.uid) \/ UNCHANGED server
  BY DEF FetchRaw, RawFails
<1>3. QED
  BY <1>1, <1>2, SeenStep DEF FetchRaw, RawFails, store, TypeOK

(* Announcing or setting a flag and storing a body keep the generations.   *)
LEMMA MarkStep ==
    ASSUME TypeOK,
           FetchFlags \/ LookupFails \/ IngestBody \/ \E u \in Uid : HostMark(u)
    PROVE  /\ stored' \in [Uid -> StoredMessage]
           /\ \A u \in Uid : stored'[u].gen = stored[u].gen
           /\ UNCHANGED <<server, row, folder, info, start, batch>>
           /\ \/ UNCHANGED pc
              \/ pc = "flags" /\ pc' \in {"flagCursor", "list"} /\ AsksForFlags
              \/ pc = "body" /\ pc' = "raw"
<1>1. ASSUME NEW found, AnnounceFlags(found)
      PROVE  /\ stored' \in [Uid -> StoredMessage]
             /\ \A u \in Uid : stored'[u].gen = stored[u].gen
             /\ UNCHANGED <<server, row, folder, info, start, batch>>
             /\ pc = "flags" /\ pc' \in {"flagCursor", "list"} /\ AsksForFlags
  BY <1>1 DEF AnnounceFlags, Announced, TypeOK, StoredMessage, ServerMessage, pass
<1>2. CASE FetchFlags \/ LookupFails
  BY <1>1, <1>2 DEF FetchFlags, LookupFails
<1>3. CASE IngestBody
  BY <1>3 DEF IngestBody, WithBody, Goto, TypeOK, StoredMessage, RawAnswer
<1>4. ASSUME NEW u \in Uid, HostMark(u)
      PROVE  /\ stored' \in [Uid -> StoredMessage]
             /\ \A v \in Uid : stored'[v].gen = stored[v].gen
             /\ UNCHANGED <<server, row, folder, info, start, batch, pc>>
  BY <1>4 DEF HostMark, TypeOK, StoredMessage, pass
<1>5. QED
  BY <1>2, <1>3, <1>4

LEMMA EngineType ==
    ASSUME TypeOK, Engine PROVE TypeOK'
<1> USE BoundsAssumption, ValuesType
<1> USE DEF Goto, server, store, pass, Steps, Selected
<1>1. CASE Connect
  BY <1>1 DEF Connect, TypeOK
<1>2. CASE ReadRow
  BY <1>2 DEF ReadRow, TypeOK
<1>3. CASE Select
  BY <1>3, SelectAnswerType DEF Select, TypeOK
<1>4. CASE PurgeFolder
  BY <1>4 DEF PurgeFolder, TypeOK
<1>5. CASE ResetCursors
  BY <1>5 DEF ResetCursors, UpdateSyncCursors, TypeOK, Cursors, SelectInfo
<1>6. CASE AdvanceCursors
  BY <1>6 DEF AdvanceCursors, UpdateSyncCursors, TypeOK, Cursors, SelectInfo
<1>7. CASE FindDelta
  BY <1>7 DEF FindDelta, DeltaFrom, TypeOK
<1>8. CASE FetchEnvelopes
  <2>1. batch' \in [Uid -> ServerMessage]
    BY <1>8 DEF FetchEnvelopes, TypeOK
  <2>2. QED
    BY <1>8, <2>1 DEF FetchEnvelopes, TypeOK
<1>9. CASE IngestBatch
  <2>1. stored' \in [Uid -> StoredMessage]
    BY <1>9 DEF IngestBatch, Ingested, TypeOK, StoredMessage, ServerMessage
  <2>2. QED
    BY <1>9, <2>1 DEF IngestBatch, TypeOK
<1>10. CASE FetchFlags
  BY <1>10, MarkStep DEF FetchFlags, AnnounceFlags, TypeOK
<1>11. CASE SkipFlags
  BY <1>11 DEF SkipFlags, TypeOK
<1>12. CASE FlagCursor
  BY <1>12 DEF FlagCursor, UpdateSyncCursors, TypeOK, Cursors, SelectInfo
<1>13. CASE ListRecent
  <2>1. page' \in SUBSET Listed
    BY <1>13 DEF ListRecent, Kept, Listed, TypeOK, StoredMessage
  <2>2. QED
    BY <1>13, <2>1 DEF ListRecent, TypeOK
<1>14. ASSUME NEW m \in page, FetchRaw(m) PROVE TypeOK'
  <2>1. /\ pc' \in Steps /\ raw' \in RawAnswer /\ late' \in 0 .. MaxUid
    BY <1>14 DEF FetchRaw, TypeOK, RawAnswer, Listed, Uid
  <2>2. QED
    BY <1>14, RawStep, <2>1 DEF FetchRaw, TypeOK
<1>15. CASE IngestBody
  BY <1>15, MarkStep DEF IngestBody, TypeOK
<1>16. CASE PassDone
  BY <1>16 DEF PassDone, EndPass, TypeOK
<1>17. QED
  BY <1>1, <1>2, <1>3, <1>4, <1>5, <1>6, <1>7, <1>8, <1>9, <1>10, <1>11, <1>12,
     <1>13, <1>14, <1>15, <1>16 DEF Engine

LEMMA FaultsType ==
    ASSUME TypeOK, Faults PROVE TypeOK'
<1> USE BoundsAssumption, ValuesType
<1> USE DEF Goto, server, store, pass, Steps, Selected, Fault
<1>1. CASE SelectRefused
  BY <1>1 DEF SelectRefused, EndPass, TypeOK
<1>2. CASE FlagFetchFails
  BY <1>2 DEF FlagFetchFails, TypeOK
<1>3. ASSUME NEW m \in page, RawFails(m) PROVE TypeOK'
  <2>1. late' \in 0 .. MaxUid /\ faults' \in 0 .. MaxFaults
    BY <1>3 DEF RawFails, TypeOK, Listed, Uid
  <2>2. QED
    BY <1>3, RawStep, <2>1 DEF RawFails, TypeOK
<1>4. CASE StoreErrorIgnored
  BY <1>4 DEF StoreErrorIgnored, TypeOK
<1>5. CASE MaxUidFails
  BY <1>5 DEF MaxUidFails, DeltaFrom, TypeOK
<1>6. CASE Drop
  BY <1>6 DEF Drop, EndPass, TypeOK
<1>7. CASE LookupFails
  <2>1. PICK lost \in SUBSET ChangedFlags :
               /\ faults + Cardinality(lost) <= MaxFaults
               /\ faults' = faults + Cardinality(lost)
               /\ AnnounceFlags(ChangedFlags \ lost)
    BY <1>7 DEF LookupFails
  <2>2. IsFiniteSet(Uid)
    BY FS_Interval DEF Uid
  <2>3. Cardinality(lost) \in Nat
    BY <2>2, FS_Subset, FS_CardinalityType DEF ChangedFlags, Kept
  <2>4. faults' \in 0 .. MaxFaults
    BY <2>1, <2>3 DEF TypeOK
  <2>5. QED
    BY <1>7, <2>1, <2>4, MarkStep DEF AnnounceFlags, TypeOK
<1>8. QED
  BY <1>1, <1>2, <1>3, <1>4, <1>5, <1>6, <1>7 DEF Faults

(* Every reachable state of a folder's sync is well typed: the engine never
   stores a UIDVALIDITY, UID or mod-sequence the server cannot have sent.  *)
THEOREM TypeCorrect == Spec => []TypeOK
<1>1. TypeOK /\ UNCHANGED vars => TypeOK'
  BY DEF TypeOK, vars, server, store, pass
<1>2. TypeOK /\ [Next]_vars => TypeOK'
  BY <1>1, EnvironmentType, EngineType, FaultsType DEF Next
<1>3. QED
  BY <1>2, InitType, PTL DEF Spec

-------------------------------------------------------------------------------
\* Purges.

(* What a pass knows: the selected mailbox is the server's, and until the  *)
(* purge the row is as the pass found it.                                  *)
PassInv ==
    /\ \A u \in Kept(stored) : stored[u].gen <= validity
    /\ pc \in Selected => info.validity = Reported("UIDVALIDITY", validity)
    /\ pc \in {"select", "purge"} => folder = row
    /\ pc = "purge" => Recreated(folder, info)
    /\ pc \in {"reset", "advance"} => info.validity # 0

LEMMA PassInvInit == Init => PassInv
BY DEF Init, PassInv, Kept, NoStored, Absent, Selected

LEMMA PassInvStep ==
    ASSUME TypeOK, PassInv, [Next]_vars PROVE PassInv'
<1> USE DEF Goto, PassInv, Kept, Selected
<1>1. CASE UNCHANGED vars
  BY <1>1 DEF vars, server, store, pass
<1>2. CASE Append
  BY <1>2 DEF Append, engine, store, pass
<1>3. ASSUME NEW u \in Uid, SetFlag(u) \/ Expunge(u) PROVE PassInv'
  BY <1>3 DEF SetFlag, Expunge, engine, store, pass
<1>4. CASE Recreate
  BY <1>4 DEF Recreate, engine, store, pass, TypeOK, StoredMessage
<1>5. CASE Connect \/ ReadRow \/ PassDone \/ SkipFlags \/ ListRecent
  BY <1>5 DEF Connect, ReadRow, PassDone, EndPass, SkipFlags, ListRecent, server, store, pass
<1>6. CASE Select
  BY <1>6 DEF Select, SelectAnswer, server, store
<1>7. CASE PurgeFolder
  BY <1>7 DEF PurgeFolder, NoStored, Absent, Recreated, server, pass
<1>8. CASE ResetCursors \/ AdvanceCursors \/ FlagCursor
  BY <1>8 DEF ResetCursors, AdvanceCursors, FlagCursor, server, pass
<1>9. CASE FindDelta \/ MaxUidFails
  BY <1>9 DEF FindDelta, MaxUidFails, DeltaFrom, server, store
<1>10. CASE FetchEnvelopes
  BY <1>10 DEF FetchEnvelopes, server, store
<1>11. CASE IngestBatch
  BY <1>11 DEF IngestBatch, Ingested, server, TypeOK
<1>12. CASE FetchFlags \/ LookupFails \/ \E u \in Uid : HostMark(u)
  BY <1>12, MarkStep DEF server
<1>13. ASSUME NEW m \in page, FetchRaw(m) \/ RawFails(m) PROVE PassInv'
  BY <1>13, RawStep
<1>14. CASE IngestBody
  BY <1>14, MarkStep DEF server
<1>15. CASE SelectRefused \/ Drop
  BY <1>15 DEF SelectRefused, Drop, EndPass, server, store
<1>16. CASE FlagFetchFails \/ StoreErrorIgnored
  BY <1>16 DEF FlagFetchFails, StoreErrorIgnored, Recreated, server, store, pass
<1>17. QED
  BY <1>1, <1>2, <1>3, <1>4, <1>5, <1>6, <1>7, <1>8, <1>9, <1>10, <1>11, <1>12,
     <1>13, <1>14, <1>15, <1>16 DEF Next, Environment, Engine, Faults

(* While store calls succeed, the row never names a UIDVALIDITY other than *)
(* the mailbox's while something of that mailbox is stored: it is that or  *)
(* 0, the value flag_pass writes.                                          *)
RowInv ==
    /\ "UIDVALIDITY" \notin Codes => row.validity = 0
    /\ \A u \in Kept(stored) :
          stored[u].gen = validity => row.validity \in {0, validity}
    /\ pc \in Reconciled => row.validity \in {0, validity}

LEMMA RowInvInit == Init => RowInv
BY DEF Init, RowInv, Kept, NoStored, Absent, NoCursors, Reconciled

LEMMA RowInvStep ==
    ASSUME ~StoreFails, TypeOK, PassInv, RowInv, [Next]_vars PROVE RowInv'
<1> USE DEF Goto, RowInv, Kept, Reconciled, Selected
<1>1. CASE UNCHANGED vars
  BY <1>1 DEF vars, server, store, pass
<1>2. CASE Append
  BY <1>2 DEF Append, engine, store, pass
<1>3. ASSUME NEW u \in Uid, SetFlag(u) \/ Expunge(u) PROVE RowInv'
  BY <1>3 DEF SetFlag, Expunge, engine, store, pass
<1>4. CASE Recreate
  BY <1>4 DEF Recreate, engine, store, pass, TypeOK, StoredMessage, PassInv
<1>5. CASE Connect \/ ReadRow \/ PassDone \/ SkipFlags \/ ListRecent
  BY <1>5 DEF Connect, ReadRow, PassDone, EndPass, SkipFlags, ListRecent, server, store, pass
<1>6. CASE Select
  <2>1. validity # 0
    BY BoundsAssumption DEF TypeOK
  <2>2. QED
    BY <1>6, <2>1 DEF Select, SelectAnswer, Reported, server, store
<1>7. CASE PurgeFolder
  BY <1>7 DEF PurgeFolder, NoStored, Absent, server, pass
<1>8. CASE ResetCursors \/ AdvanceCursors \/ FlagCursor
  BY <1>8 DEF ResetCursors, AdvanceCursors, FlagCursor, UpdateSyncCursors, PassInv,
              Reported, server, pass
<1>9. CASE FindDelta \/ MaxUidFails
  BY <1>9 DEF FindDelta, MaxUidFails, DeltaFrom, server, store
<1>10. CASE FetchEnvelopes
  BY <1>10 DEF FetchEnvelopes, server, store
<1>11. CASE IngestBatch
  BY <1>11 DEF IngestBatch, Ingested, server, TypeOK
<1>12. CASE FetchFlags \/ LookupFails \/ \E u \in Uid : HostMark(u)
  BY <1>12, MarkStep DEF server
<1>13. ASSUME NEW m \in page, FetchRaw(m) \/ RawFails(m) PROVE RowInv'
  BY <1>13, RawStep
<1>14. CASE IngestBody
  BY <1>14, MarkStep DEF server
<1>15. CASE SelectRefused \/ Drop
  BY <1>15 DEF SelectRefused, Drop, EndPass, server, store
<1>16. CASE FlagFetchFails \/ StoreErrorIgnored
  BY <1>16 DEF FlagFetchFails, StoreErrorIgnored, server, store, pass
<1>17. QED
  BY <1>1, <1>2, <1>3, <1>4, <1>5, <1>6, <1>7, <1>8, <1>9, <1>10, <1>11, <1>12,
     <1>13, <1>14, <1>15, <1>16 DEF Next, Environment, Engine, Faults

(* The only step that removes a message is the purge.                      *)
LEMMA PurgeStep ==
    ASSUME TypeOK, PassInv, RowInv, [Next]_vars, NEW u \in Uid,
           stored[u].gen # 0, stored'[u].gen = 0
    PROVE  stored[u].gen # validity
<1> USE DEF Goto
<1>1. PurgeFolder
  <2>1. CASE IngestBatch
    BY <2>1 DEF IngestBatch, Ingested, TypeOK
  <2>2. CASE FetchFlags \/ LookupFails \/ IngestBody \/ \E v \in Uid : HostMark(v)
    BY <2>2, MarkStep
  <2>3. ASSUME stored' # stored, ~IngestBatch, ~FetchFlags, ~LookupFails, ~IngestBody,
               ~ \E v \in Uid : HostMark(v)
        PROVE  PurgeFolder
    BY <2>3 DEF Next, Environment, Engine, Faults, Append, SetFlag, Expunge,
       Recreate, Connect, ReadRow, Select, ResetCursors, AdvanceCursors, FindDelta,
       FetchEnvelopes, SkipFlags, FlagCursor, ListRecent, FetchRaw, PassDone,
       SelectRefused, FlagFetchFails, RawFails, StoreErrorIgnored, MaxUidFails,
       Drop, engine, store, vars
  <2>4. QED
    BY <2>1, <2>2, <2>3
<1>2. QED
  BY <1>1 DEF PurgeFolder, PassInv, RowInv, Recreated, Reported, Kept, Selected

(* Whether or not the server has CONDSTORE, and whatever crashes between   *)
(* the steps, purge_folder removes no message of the mailbox as it is -    *)
(* provided the store's calls succeed.                                     *)
THEOREM PurgesAreStale ==
    ASSUME ~StoreFails PROVE Spec => PurgeOnlyStale
<1>1. Init => TypeOK /\ PassInv /\ RowInv
  BY InitType, PassInvInit, RowInvInit
<1>2. TypeOK /\ PassInv /\ RowInv /\ [Next]_vars => (PassInv /\ RowInv)'
  BY PassInvStep, RowInvStep
<1>3. TypeOK /\ PassInv /\ RowInv /\ [Next]_vars
         => [\A u \in Uid : stored[u].gen # 0 /\ stored'[u].gen = 0
                => stored[u].gen # validity]_vars
  BY PurgeStep
<1>4. QED
  BY <1>1, <1>2, <1>3, TypeCorrect, PTL DEF Spec, PurgeOnlyStale

-------------------------------------------------------------------------------
\* One generation.

(* When re-creations of the mailbox are noticed: the server reports its    *)
(* UIDVALIDITY, the flag pass - which zeroes the stored one - does not run *)
(* and no store error hides a purge or a cursor that was not written.      *)
Noticed == "UIDVALIDITY" \in Codes /\ ~Condstore /\ ~StoreFails

(* Everything stored was fetched under the UIDVALIDITY the row names, and  *)
(* nothing is stored once the purge has run and until the row is right.    *)
GenerationInv ==
    /\ \A u \in Kept(stored) : stored[u].gen = row.validity
    /\ pc = "reset" => Kept(stored) = {}
    /\ pc = "advance" => Kept(stored) = {} \/ row.validity = validity
    /\ pc \in Reconciled => row.validity = validity
    /\ pc # "flagCursor"

LEMMA GenerationInvInit == Init => GenerationInv
BY DEF Init, GenerationInv, Kept, NoStored, Absent, NoCursors, Reconciled

LEMMA GenerationInvStep ==
    ASSUME Noticed, TypeOK, PassInv, GenerationInv, [Next]_vars
    PROVE  GenerationInv'
<1> USE DEF Noticed, Goto, GenerationInv, Kept, Reconciled, Selected
<1>1. CASE UNCHANGED vars
  BY <1>1 DEF vars, server, store, pass
<1>2. CASE Append
  BY <1>2 DEF Append, engine, store, pass
<1>3. ASSUME NEW u \in Uid, SetFlag(u) \/ Expunge(u) PROVE GenerationInv'
  BY <1>3 DEF SetFlag, Expunge, engine, store, pass
<1>4. CASE Recreate
  BY <1>4 DEF Recreate, engine, store, pass
<1>5. CASE Connect \/ ReadRow \/ PassDone \/ SkipFlags \/ ListRecent
  BY <1>5 DEF Connect, ReadRow, PassDone, EndPass, SkipFlags, ListRecent, server, store, pass
<1>6. CASE Select
  <2>1. validity # 0
    BY BoundsAssumption DEF TypeOK
  <2>2. pc' = "advance" => row.validity \in {0, validity}
    BY <1>6, <2>1 DEF Select, SelectAnswer, Reported, Recreated, PassInv
  <2>3. row.validity = 0 => Kept(stored) = {}
    OBVIOUS
  <2>4. QED
    BY <1>6, <2>1, <2>2, <2>3 DEF Select, SelectAnswer, Reported, server, store
<1>7. CASE PurgeFolder
  BY <1>7 DEF PurgeFolder, NoStored, Absent, server, pass
<1>8. CASE ResetCursors \/ AdvanceCursors \/ FlagCursor
  BY <1>8 DEF ResetCursors, AdvanceCursors, FlagCursor, UpdateSyncCursors, PassInv,
              Reported, server, pass
<1>9. CASE FindDelta \/ MaxUidFails
  BY <1>9 DEF FindDelta, MaxUidFails, DeltaFrom, server, store
<1>10. CASE FetchEnvelopes
  BY <1>10 DEF FetchEnvelopes, server, store
<1>11. CASE IngestBatch
  BY <1>11 DEF IngestBatch, Ingested, server, TypeOK
<1>12. CASE FetchFlags \/ LookupFails \/ \E u \in Uid : HostMark(u)
  BY <1>12, MarkStep DEF AsksForFlags, server
<1>13. ASSUME NEW m \in page, FetchRaw(m) \/ RawFails(m) PROVE GenerationInv'
  BY <1>13, RawStep
<1>14. CASE IngestBody
  BY <1>14, MarkStep DEF AsksForFlags, server
<1>15. CASE SelectRefused \/ Drop
  BY <1>15 DEF SelectRefused, Drop, EndPass, server, store
<1>16. CASE FlagFetchFails \/ StoreErrorIgnored
  BY <1>16 DEF FlagFetchFails, AsksForFlags, StoreErrorIgnored
<1>17. QED
  BY <1>1, <1>2, <1>3, <1>4, <1>5, <1>6, <1>7, <1>8, <1>9, <1>10, <1>11, <1>12,
     <1>13, <1>14, <1>15, <1>16 DEF Next, Environment, Engine, Faults

LEMMA PassInvariant == Spec => [](TypeOK /\ PassInv)
<1>1. TypeOK /\ PassInv /\ [Next]_vars => PassInv'
  BY PassInvStep
<1>2. QED
  BY <1>1, PassInvInit, TypeCorrect, PTL DEF Spec

(* "A changed UIDVALIDITY invalidates all stored UIDs" (sync_folder): past *)
(* the reconciliation nothing stored is of another generation, when        *)
(* re-creations are noticed or never happen.                               *)
THEOREM OneGenerationHolds ==
    ASSUME Noticed \/ MaxValidity = 1 PROVE Spec => []OneGeneration
<1>1. ASSUME MaxValidity = 1 PROVE Spec => []OneGeneration
  <2>1. TypeOK /\ PassInv => OneGeneration
    BY <1>1, BoundsAssumption DEF TypeOK, PassInv, OneGeneration, Kept, StoredMessage
  <2>2. QED
    BY <2>1, PassInvariant, PTL
<1>2. ASSUME Noticed PROVE Spec => []OneGeneration
  <2>1. TypeOK /\ PassInv /\ GenerationInv /\ [Next]_vars => GenerationInv'
    BY <1>2, GenerationInvStep
  <2>2. GenerationInv => OneGeneration
    BY DEF GenerationInv, OneGeneration
  <2>3. QED
    BY <2>1, <2>2, GenerationInvInit, PassInvariant, PTL DEF Spec
<1>3. QED
  BY <1>1, <1>2

-------------------------------------------------------------------------------
\* No gaps.

(* UIDs come from below UIDNEXT, on the server and in the copy, and the    *)
(* SELECT answer a pass works with is not ahead of the server.             *)
UidInv ==
    /\ \A u \in Live : u < uidNext
    /\ \A u \in Kept(stored) : stored[u].gen = validity => u < uidNext
    /\ pc \in Selected =>
          info.uidNext <= uidNext /\ (info.exists => 1 < uidNext)

(* The delta starts right above what is stored, ends below UIDNEXT, and    *)
(* the batch holds every message of it that is still on the server.        *)
DeltaInv ==
    /\ pc \in {"fetch", "ingest"} =>
          /\ start \in Nat \ {0}
          /\ start = 1 \/ start - 1 \in Kept(stored)
          /\ NextBound(info.uidNext) < uidNext
    /\ pc = "ingest" =>
          /\ \A u \in Live :
                u \in start .. NextBound(info.uidNext) => batch[u].live
          /\ \A u \in Uid : batch[u].live => u <= NextBound(info.uidNext)

GapInv == UidInv /\ DeltaInv /\ NoGap

LEMMA GapInvInit == Init => GapInv
BY DEF Init, GapInv, UidInv, DeltaInv, NoGap, Live, Kept, NoMail, NoStored, Gone,
       Absent, Selected

LEMMA DeltaStep ==
    ASSUME TypeOK, PassInv, GapInv, NEW s \in 1 .. MaxUid + 1,
           s = 1 \/ s - 1 \in Kept(stored), pc = "delta", DeltaFrom(s),
           UNCHANGED <<server, store, info>>
    PROVE  GapInv'
<1>1. NextBound(info.uidNext) < uidNext \/ ~info.exists
  BY BoundsAssumption DEF GapInv, UidInv, NextBound, Selected, TypeOK, SelectInfo
<1>2. DeltaInv'
  BY <1>1 DEF DeltaInv, DeltaFrom, server, store, NextBound, Kept
<1>3. UidInv' /\ NoGap'
  BY DEF GapInv, UidInv, NoGap, DeltaFrom, server, store, Live, Kept, Selected
<1>4. QED
  BY <1>2, <1>3 DEF GapInv

(* An ingest fills the copy up to the end of the delta: what is below its  *)
(* start was already there, because the start is next to a stored message. *)
LEMMA IngestStep ==
    ASSUME TypeOK, PassInv, OneGeneration, GapInv, IngestBatch PROVE GapInv'
<1> USE DEF Goto
<1>1. /\ pc = "ingest" /\ pc' = "flags"
      /\ UNCHANGED <<server, row, folder, info, start, page, raw, late, faults>>
  BY DEF IngestBatch
<1>2. \A u \in Uid : stored'[u].gen = IF batch[u].live THEN validity ELSE stored[u].gen
  BY DEF IngestBatch, Ingested
<1>3. validity # 0
  BY BoundsAssumption DEF TypeOK
<1>4. \A u \in Uid : u \in Kept(stored') <=> batch[u].live \/ u \in Kept(stored)
  <2>1. \A u \in Uid : batch[u].live \in BOOLEAN
    BY DEF TypeOK, ServerMessage
  <2>2. QED
    BY <1>2, <1>3, <2>1 DEF Kept
<1>5. \A u \in Kept(stored) : stored[u].gen = validity
  BY <1>1 DEF OneGeneration, Reconciled
<1>6. \A u \in Kept(stored') : stored'[u].gen = validity
  BY <1>2, <1>5 DEF Kept
<1>7. UidInv'
  <2>1. \A u \in Uid : batch[u].live => u < uidNext
    BY <1>1, BoundsAssumption DEF GapInv, DeltaInv, NextBound, TypeOK, SelectInfo, Uid
  <2>2. \A u \in Kept(stored') : u < uidNext
    BY <2>1, <1>4, <1>5 DEF GapInv, UidInv, Kept
  <2>3. QED
    BY <1>1, <2>2 DEF GapInv, UidInv, Live, Selected, server, Kept
<1>8. DeltaInv'
  BY <1>1 DEF DeltaInv
<1>9. NoGap'
  <2>1. SUFFICES ASSUME NEW u \in Live, NEW v \in Kept(stored'), u <= v
                 PROVE  u \in Kept(stored')
    BY <1>1, <1>6 DEF NoGap, Live, server, Kept
  <2>2. u \in Uid /\ v \in Uid
    BY DEF Live, Kept
  <2>3. CASE v \in Kept(stored)
    BY <2>1, <2>2, <2>3, <1>3, <1>4, <1>5 DEF GapInv, NoGap, Kept
  <2>4. CASE batch[v].live
    <3>1. u <= NextBound(info.uidNext)
      BY <1>1, <2>1, <2>2, <2>4, BoundsAssumption
         DEF GapInv, DeltaInv, Uid, NextBound, TypeOK, SelectInfo
    <3>2. CASE start <= u
      <4>1. u \in start .. NextBound(info.uidNext)
        BY <1>1, <2>2, <3>1, <3>2 DEF Uid, GapInv, DeltaInv
      <4>2. QED
        BY <1>1, <1>4, <2>2, <4>1 DEF GapInv, DeltaInv
    <3>3. CASE u < start
      <4>1. u <= start - 1 /\ start - 1 \in Kept(stored)
        BY <1>1, <2>2, <3>3 DEF Uid, GapInv, DeltaInv
      <4>2. u \in Kept(stored)
        BY <4>1, <1>3, <1>5, <2>2 DEF GapInv, NoGap, Kept
      <4>3. QED
        BY <1>4, <2>2, <4>2
    <3>4. QED
      BY <1>1, <2>2, <3>2, <3>3 DEF Uid, GapInv, DeltaInv
  <2>5. QED
    BY <1>4, <2>2, <2>3, <2>4
<1>10. QED
  BY <1>7, <1>8, <1>9 DEF GapInv

LEMMA GapInvStep ==
    ASSUME TypeOK, PassInv, OneGeneration, GapInv, [Next]_vars PROVE GapInv'
<1> USE DEF Goto
<1>1. CASE UNCHANGED vars
  BY <1>1 DEF vars, server, store, pass, GapInv, UidInv, DeltaInv, NoGap, Live, Kept
<1>2. CASE Append
  <2>1. uidNext \in Uid /\ uidNext' = uidNext + 1
    BY <1>2 DEF Append, TypeOK, Uid
  <2>2. Live' = Live \cup {uidNext}
    BY <1>2, <2>1 DEF Append, Live, TypeOK
  <2>3. UNCHANGED <<validity, store, pc, pass>>
    BY <1>2 DEF Append, engine
  <2>4. UidInv'
    BY <2>1, <2>2, <2>3 DEF GapInv, UidInv, Live, Kept, Uid, Selected, store, pass,
                            TypeOK, SelectInfo
  <2>5. DeltaInv'
    <3>1. pc \in {"fetch", "ingest"} =>
            NextBound(info.uidNext) < uidNext' /\ uidNext \notin start .. NextBound(info.uidNext)
      BY <2>1, BoundsAssumption DEF GapInv, DeltaInv, NextBound, Uid, TypeOK, SelectInfo
    <3>2. QED
      BY <2>2, <2>3, <3>1 DEF GapInv, DeltaInv, store, pass, Kept
  <2>6. NoGap'
    <3>1. \A v \in Kept(stored) : stored[v].gen = validity => ~(uidNext <= v)
      BY <2>1 DEF GapInv, UidInv, Kept, Uid
    <3>2. QED
      BY <2>2, <2>3, <3>1 DEF GapInv, NoGap, store, Kept
  <2>7. QED
    BY <2>4, <2>5, <2>6 DEF GapInv
<1>3. ASSUME NEW u \in Uid, SetFlag(u) \/ Expunge(u) PROVE GapInv'
  <2>1. Live' \subseteq Live
    BY <1>3 DEF SetFlag, Expunge, Live, Gone, TypeOK
  <2>2. UNCHANGED <<validity, uidNext, store, pc, pass>>
    BY <1>3 DEF SetFlag, Expunge, engine
  <2>3. QED
    BY <2>1, <2>2 DEF GapInv, UidInv, DeltaInv, NoGap, store, pass, Kept
<1>4. CASE Recreate
  <2>1. Live' = {} /\ pc \notin Selected /\ UNCHANGED <<store, pc>>
    BY <1>4 DEF Recreate, Live, NoMail, Gone, engine
  <2>2. \A u \in Kept(stored) : stored[u].gen # validity'
    BY <1>4 DEF Recreate, PassInv, TypeOK, StoredMessage, Kept
  <2>3. QED
    BY <2>1, <2>2 DEF GapInv, UidInv, DeltaInv, NoGap, store, Selected, Kept
<1>5. CASE Connect \/ ReadRow \/ PassDone \/ SkipFlags \/ ListRecent
  BY <1>5 DEF Connect, ReadRow, PassDone, EndPass, SkipFlags, ListRecent, server,
     store, pass, GapInv, UidInv, DeltaInv, NoGap, Live, Kept, Selected
<1>6. CASE Select
  <2>1. info'.uidNext <= uidNext
    BY <1>6 DEF Select, SelectAnswer, Reported, TypeOK
  <2>2. info'.exists => 1 < uidNext
    BY <1>6 DEF Select, SelectAnswer, GapInv, UidInv, Live, Uid, TypeOK
  <2>3. QED
    BY <1>6, <2>1, <2>2 DEF Select, server, store, GapInv, UidInv, DeltaInv, NoGap,
       Live, Kept
<1>7. CASE PurgeFolder
  BY <1>7 DEF PurgeFolder, NoStored, Absent, server, pass, GapInv, UidInv, DeltaInv,
     NoGap, Live, Kept, Selected
<1>8. CASE ResetCursors \/ AdvanceCursors \/ FlagCursor
  BY <1>8 DEF ResetCursors, AdvanceCursors, FlagCursor, server, pass, GapInv, UidInv,
     DeltaInv, NoGap, Live, Kept, Selected
<1>9. CASE FindDelta \/ MaxUidFails
  <2>1. CASE FindDelta
    BY <2>1, DeltaStep DEF FindDelta, IsDeltaStart
  <2>2. CASE MaxUidFails
    BY <2>2, DeltaStep, BoundsAssumption DEF MaxUidFails
  <2>3. QED
    BY <1>9, <2>1, <2>2
<1>10. CASE FetchEnvelopes
  <2>1. /\ pc = "fetch" /\ pc' \in {"ingest", "flags"}
        /\ UNCHANGED <<server, store, info, start>>
    BY <1>10 DEF FetchEnvelopes
  <2>2. DeltaInv'
    <3>1. \A u \in Live : u \in start .. NextBound(info.uidNext) => batch'[u].live
      BY <1>10 DEF FetchEnvelopes, Live
    <3>2. \A u \in Uid : batch'[u].live => u <= NextBound(info.uidNext)
      BY <1>10 DEF FetchEnvelopes, Gone
    <3>3. QED
      BY <2>1, <3>1, <3>2 DEF GapInv, DeltaInv, server, store, Live, Kept
  <2>3. QED
    BY <2>1, <2>2 DEF GapInv, UidInv, NoGap, server, store, Live, Kept, Selected
<1>11. CASE IngestBatch
  BY <1>11, IngestStep
<1>12. CASE FetchFlags \/ LookupFails \/ IngestBody \/ \E u \in Uid : HostMark(u)
  <2>1. /\ \A u \in Uid : stored'[u].gen = stored[u].gen
        /\ UNCHANGED <<server, info, start, batch>>
    BY <1>12, MarkStep
  <2>2. UNCHANGED pc \/ (pc \in Selected /\ pc' \notin {"fetch", "ingest"})
    BY <1>12, MarkStep DEF Selected
  <2>3. QED
    BY <2>1, <2>2 DEF GapInv, UidInv, DeltaInv, NoGap, server, Live, Kept
<1>13. ASSUME NEW m \in page, FetchRaw(m) \/ RawFails(m) PROVE GapInv'
  <2>1. /\ pc = "raw" /\ pc' \in {"raw", "body"} /\ Live' = Live
        /\ UNCHANGED <<validity, uidNext, stored, info, start, batch>>
    BY <1>13, RawStep
  <2>2. QED
    BY <2>1 DEF GapInv, UidInv, DeltaInv, NoGap, Kept, Selected
<1>14. CASE SelectRefused \/ Drop
  BY <1>14 DEF SelectRefused, Drop, EndPass, server, store, GapInv, UidInv, DeltaInv,
     NoGap, Live, Kept, Selected
<1>15. CASE FlagFetchFails \/ StoreErrorIgnored
  BY <1>15 DEF FlagFetchFails, StoreErrorIgnored, server, store, pass, GapInv, UidInv,
     DeltaInv, NoGap, Live, Kept, Selected
<1>16. QED
  BY <1>1, <1>2, <1>3, <1>4, <1>5, <1>6, <1>7, <1>8, <1>9, <1>10, <1>11, <1>12,
     <1>13, <1>14, <1>15 DEF Next, Environment, Engine, Faults

(* max_uid is a sound cursor: with re-creations noticed, or none, the copy *)
(* never has a hole below a stored message, whatever connection was lost,  *)
(* message expunged or delivered, or crash happened in the middle of a     *)
(* pass (sync_folder, fetch_and_ingest).                                   *)
THEOREM NoGapHolds ==
    ASSUME Noticed \/ MaxValidity = 1 PROVE Spec => []NoGap
<1>1. TypeOK /\ PassInv /\ OneGeneration /\ GapInv /\ [Next]_vars => GapInv'
  BY GapInvStep
<1>2. GapInv => NoGap
  BY DEF GapInv
<1>3. QED
  BY <1>1, <1>2, GapInvInit, PassInvariant, OneGenerationHolds, PTL DEF Spec

-------------------------------------------------------------------------------
\* The mirror.

(* A purge finds nothing of the current generation, as in PurgesAreStale,  *)
(* also when the mailbox is never re-created and the store may fail.       *)
StalePurge == pc = "purge" => \A u \in Kept(stored) : stored[u].gen # validity

LEMMA StalePurgeHolds ==
    ASSUME Noticed \/ MaxValidity = 1 PROVE Spec => []StalePurge
<1>1. ASSUME MaxValidity = 1 PROVE Spec => []StalePurge
  <2>1. TypeOK /\ PassInv => StalePurge
    BY <1>1, BoundsAssumption DEF TypeOK, PassInv, StalePurge, Recreated, Cursors,
       SelectInfo
  <2>2. QED
    BY <2>1, PassInvariant, PTL
<1>2. ASSUME Noticed PROVE Spec => []StalePurge
  <2>1. TypeOK /\ PassInv /\ RowInv /\ [Next]_vars => RowInv'
    BY <1>2, RowInvStep DEF Noticed
  <2>2. PassInv /\ RowInv => StalePurge
    BY DEF PassInv, RowInv, StalePurge, Recreated, Reported, Selected
  <2>3. QED
    BY <2>1, <2>2, RowInvInit, PassInvariant, PTL DEF Spec
<1>3. QED
  BY <1>1, <1>2

LEMMA MirrorInit == Init => Mirror!Init
BY DEF Init, Mirror!Init, Live, NoMail, Gone, NoStored, Absent, Uid

LEMMA MirrorIngest ==
    ASSUME TypeOK, PassInv, OneGeneration, GapInv, IngestBatch
    PROVE  Mirror!Next
<1> SUFFICES ASSUME NEW hi, hi = NextBound(info.uidNext),
                    NEW S, S = {u \in Uid : batch[u].live}
             PROVE  Mirror!Next
  OBVIOUS
<1>1. /\ pc = "ingest"
      /\ UNCHANGED server
  BY DEF IngestBatch, Goto
<1>2. hi \in 1 .. uidNext - 1
  BY <1>1 DEF GapInv, DeltaInv, NextBound, TypeOK, SelectInfo
<1>3. S \in SUBSET (1 .. hi)
  BY <1>1, <1>2 DEF GapInv, DeltaInv, Uid
<1>4. \A u \in Mirror!Copied : stored[u].gen = validity
  BY <1>1 DEF Mirror!Copied, OneGeneration, Reconciled, Kept, Uid
<1>5. \A u \in Live : u <= hi => u \in S \cup Mirror!Copied
  <2> SUFFICES ASSUME NEW u \in Live, u <= hi PROVE u \in S \/ stored[u].gen # 0
    BY DEF Mirror!Copied, Live, Uid
  <2>1. u \in Uid
    BY DEF Live
  <2>2. CASE start <= u
    BY <1>1, <1>2, <2>1, <2>2 DEF GapInv, DeltaInv, Uid
  <2>3. CASE u < start
    <3>1. u <= start - 1 /\ start - 1 \in Kept(stored)
      BY <1>1, <2>1, <2>3 DEF Uid, GapInv, DeltaInv
    <3>2. stored[u].gen = validity /\ validity # 0
      BY <1>1, <3>1, BoundsAssumption
         DEF GapInv, NoGap, OneGeneration, Reconciled, TypeOK
    <3>3. QED
      BY <3>2
  <2>4. QED
    BY <1>1, <2>1, <2>2, <2>3 DEF Uid, GapInv, DeltaInv
<1>6. [u \in Uid |-> stored'[u].gen]
        = [u \in Uid |-> IF u \in S THEN validity ELSE stored[u].gen]
  BY DEF IngestBatch, Ingested
<1>7. Mirror!CatchUp(hi, S)
  BY <1>1, <1>3, <1>4, <1>5, <1>6 DEF Mirror!CatchUp, Mirror!Copied, server, Live, Uid
<1>8. QED
  BY <1>2, <1>3, <1>7 DEF Mirror!Next

LEMMA MirrorStep ==
    ASSUME TypeOK, PassInv, OneGeneration, GapInv, StalePurge, [Next]_vars
    PROVE  [Mirror!Next]_Mirror!mirrorVars
<1> USE DEF Goto
<1>1. ASSUME UNCHANGED <<validity, uidNext, [u \in Uid |-> stored[u].gen]>>, Live' = Live
      PROVE  UNCHANGED Mirror!mirrorVars
  BY <1>1 DEF Mirror!mirrorVars
<1>2. CASE UNCHANGED vars
  BY <1>1, <1>2 DEF vars, store, server, Live
<1>3. CASE Append
  <2>1. Live' = Live \cup {uidNext}
    BY <1>3 DEF Append, Live, TypeOK, Uid
  <2>2. Mirror!Deliver
    BY <1>3, <2>1 DEF Append, Mirror!Deliver, engine, store
  <2>3. QED
    BY <2>2 DEF Mirror!Next
<1>4. ASSUME NEW u \in Uid, SetFlag(u) PROVE UNCHANGED Mirror!mirrorVars
  <2>1. Live' = Live
    BY <1>4 DEF SetFlag, Live, TypeOK
  <2>2. QED
    BY <1>4, <2>1 DEF SetFlag, Mirror!mirrorVars, engine, store
<1>5. ASSUME NEW u \in Uid, Expunge(u) PROVE Mirror!Remove
  <2>1. u \in Live /\ Live' = Live \ {u}
    BY <1>5 DEF Expunge, Live, Gone, TypeOK
  <2>2. QED
    BY <1>5, <2>1 DEF Expunge, Mirror!Remove, engine, store
<1>6. CASE Recreate
  <2>1. Live' = {}
    BY <1>6 DEF Recreate, Live, NoMail, Gone
  <2>2. QED
    BY <1>6, <2>1 DEF Recreate, Mirror!Recreate, Mirror!Next, engine, store
<1>7. CASE PurgeFolder
  <2>1. Mirror!Forget
    BY <1>7 DEF PurgeFolder, StalePurge, Kept, NoStored, Absent, Mirror!Forget,
       Mirror!Copied, Uid, server, Live
  <2>2. QED
    BY <2>1 DEF Mirror!Next
<1>8. CASE IngestBatch
  BY <1>8, MirrorIngest
<1>9. CASE FetchFlags \/ LookupFails \/ IngestBody \/ \E u \in Uid : HostMark(u)
  <2>1. UNCHANGED server /\ \A u \in Uid : stored'[u].gen = stored[u].gen
    BY <1>9, MarkStep
  <2>2. QED
    BY <1>1, <2>1 DEF server, Live
<1>10. CASE (Faults /\ ~LookupFails) \/ (Engine /\ UNCHANGED stored)
  <2>1. ASSUME NEW m \in page, FetchRaw(m) \/ RawFails(m)
        PROVE  UNCHANGED <<validity, uidNext, stored>> /\ Live' = Live
    BY <2>1, RawStep
  <2>2. ASSUME ~ \E m \in page : FetchRaw(m) \/ RawFails(m)
        PROVE  UNCHANGED <<server, stored>>
    BY <1>10, <2>2 DEF Faults, Engine, Connect, ReadRow, Select, PurgeFolder,
       ResetCursors, AdvanceCursors, FindDelta, FetchEnvelopes, IngestBatch, FetchFlags,
       AnnounceFlags, SkipFlags, FlagCursor, ListRecent, IngestBody, PassDone, SelectRefused,
       FlagFetchFails, StoreErrorIgnored, MaxUidFails, Drop, store
  <2>3. QED
    BY <1>1, <2>1, <2>2 DEF server, Live
<1>11. ASSUME Engine, stored' # stored
       PROVE  PurgeFolder \/ IngestBatch \/ FetchFlags \/ IngestBody
  BY <1>11 DEF Engine, Connect, ReadRow, Select, ResetCursors, AdvanceCursors,
     FindDelta, FetchEnvelopes, SkipFlags, FlagCursor, ListRecent, FetchRaw, PassDone,
     store
<1>12. CASE Environment
  <2>1. ASSUME NEW u \in Uid, Expunge(u) PROVE Mirror!Next
    BY <1>5, <2>1 DEF Mirror!Next
  <2>2. QED
    BY <1>3, <1>4, <1>6, <1>9, <1>12, <2>1 DEF Environment
<1>13. CASE Engine
  BY <1>7, <1>8, <1>9, <1>10, <1>11, <1>13
<1>14. QED
  BY <1>2, <1>9, <1>10, <1>12, <1>13 DEF Next

(* The store's copy of a folder refines the abstract mirror, for the       *)
(* servers that keep their UIDVALIDITY or whose re-creations are noticed.  *)
THEOREM SyncImplementsMirror ==
    ASSUME Noticed \/ MaxValidity = 1 PROVE Spec => ImplementsMirror
<1>1. TypeOK /\ PassInv /\ OneGeneration /\ GapInv /\ [Next]_vars => GapInv'
  BY GapInvStep
<1>2. TypeOK /\ PassInv /\ OneGeneration /\ GapInv /\ StalePurge /\ [Next]_vars
        => [Mirror!Next]_Mirror!mirrorVars
  BY MirrorStep
<1>3. QED
  BY <1>1, <1>2, MirrorInit, GapInvInit, PassInvariant, OneGenerationHolds,
     StalePurgeHolds, PTL DEF Spec, ImplementsMirror, Mirror!Spec

-------------------------------------------------------------------------------
\* What a pass leaves behind.

(* A mailbox that SELECT found empty has since had only later messages.    *)
CatchInv ==
    /\ pc \in Selected /\ ~info.exists => \A u \in Live : info.uidNext <= u
    /\ PassCatchesUp

LEMMA CatchInit == Init => CatchInv
BY DEF Init, CatchInv, PassCatchesUp, DeltaPassed, Selected

(* Below a delta that starts above everything stored, or next to something *)
(* stored, nothing is missing.                                             *)
LEMMA BelowStart ==
    ASSUME TypeOK, OneGeneration, NoGap, pc \in Reconciled,
           NEW s \in Nat \ {0}, s = 1 \/ s - 1 \in Kept(stored), NEW u \in Live, u < s
    PROVE  stored[u].gen = validity
<1>1. u \in Uid
  BY DEF Live
<1>2. s - 1 \in Kept(stored) /\ u <= s - 1
  BY <1>1 DEF Uid
<1>3. stored[s - 1].gen = validity
  BY <1>2 DEF OneGeneration
<1>4. QED
  BY <1>2, <1>3 DEF NoGap

(* The delta is empty only when what SELECT found is stored.               *)
LEMMA CatchDelta ==
    ASSUME TypeOK, OneGeneration, GapInv, CatchInv, NEW s \in 1 .. MaxUid + 1,
           s = 1 \/ s - 1 \in Kept(stored), pc = "delta", DeltaFrom(s),
           UNCHANGED <<server, store, info>>
    PROVE  CatchInv'
<1>1. UNCHANGED <<validity, mail, stored, info>> /\ Live' = Live
  BY DEF server, store, Live
<1>2. pc' \in {"fetch", "flags"}
  BY DEF DeltaFrom
<1>3. ASSUME pc' = "flags", NEW u \in Live, u < info.uidNext PROVE stored[u].gen = validity
  <2>1. u \in Uid /\ info.uidNext \in Nat
    BY DEF Live, TypeOK, SelectInfo
  <2>2. info.exists
    BY <1>3, <2>1 DEF CatchInv, Selected, Uid
  <2>3. NextBound(info.uidNext) < s
    BY <1>3, <2>2, <2>1 DEF DeltaFrom, NextBound
  <2>4. u < s
    BY <1>3, <2>1, <2>3 DEF NextBound, Uid
  <2>5. s \in Nat \ {0}
    OBVIOUS
  <2>6. QED
    BY <2>4, <2>5, BelowStart DEF GapInv, Reconciled
<1>4. QED
  BY <1>1, <1>2, <1>3 DEF CatchInv, PassCatchesUp, DeltaPassed, Selected

(* What comes in with the fetch, and what was below its start, is all      *)
(* there is below UIDNEXT.                                                 *)
LEMMA CatchIngest ==
    ASSUME TypeOK, OneGeneration, GapInv, CatchInv, IngestBatch PROVE CatchInv'
<1>1. /\ pc = "ingest" /\ pc' = "flags" /\ UNCHANGED <<server, info>> /\ Live' = Live
      /\ \A u \in Uid : stored'[u].gen = IF batch[u].live THEN validity ELSE stored[u].gen
  BY DEF IngestBatch, Ingested, Goto, server, Live
<1>2. ASSUME NEW u \in Live, u < info.uidNext PROVE stored'[u].gen = validity
  <2>1. u \in Uid /\ info.uidNext \in Nat
    BY DEF Live, TypeOK, SelectInfo
  <2>2. CASE start <= u
    <3>1. u \in start .. NextBound(info.uidNext)
      BY <1>1, <1>2, <2>1, <2>2 DEF NextBound, Uid, GapInv, DeltaInv
    <3>2. batch[u].live
      BY <1>1, <3>1 DEF GapInv, DeltaInv
    <3>3. QED
      BY <1>1, <2>1, <3>2
  <2>3. CASE u < start
    <3>1. start \in Nat \ {0} /\ (start = 1 \/ start - 1 \in Kept(stored))
      BY <1>1 DEF GapInv, DeltaInv
    <3>2. stored[u].gen = validity
      BY <1>1, <2>3, <3>1, BelowStart DEF GapInv, Reconciled
    <3>3. QED
      BY <1>1, <2>1, <3>2
  <2>4. QED
    BY <1>1, <2>1, <2>2, <2>3 DEF Uid, GapInv, DeltaInv
<1>3. QED
  BY <1>1, <1>2 DEF CatchInv, PassCatchesUp, DeltaPassed, Selected, server

LEMMA CatchStep ==
    ASSUME TypeOK, OneGeneration, GapInv, CatchInv, [Next]_vars PROVE CatchInv'
<1> USE DEF Goto
<1>1. CASE UNCHANGED vars
  BY <1>1 DEF vars, server, store, pass, CatchInv, PassCatchesUp, Live
<1>2. CASE Append
  <2>1. Live' = Live \cup {uidNext} /\ UNCHANGED <<validity, stored, pc, info>>
    BY <1>2 DEF Append, Live, TypeOK, Uid, engine, store, pass
  <2>2. pc \in Selected => info.uidNext <= uidNext
    BY DEF GapInv, UidInv
  <2>3. pc \in DeltaPassed => ~(uidNext < info.uidNext)
    BY <2>2 DEF DeltaPassed, Selected, TypeOK, SelectInfo
  <2>4. QED
    BY <2>1, <2>2, <2>3 DEF CatchInv, PassCatchesUp
<1>3. ASSUME NEW u \in Uid, SetFlag(u) \/ Expunge(u) PROVE CatchInv'
  <2>1. Live' \subseteq Live
    BY <1>3 DEF SetFlag, Expunge, Live, Gone, TypeOK
  <2>2. UNCHANGED <<validity, store, pc, pass>>
    BY <1>3 DEF SetFlag, Expunge, engine
  <2>3. QED
    BY <2>1, <2>2 DEF CatchInv, PassCatchesUp, store, pass
<1>4. CASE Recreate
  BY <1>4 DEF Recreate, engine, CatchInv, PassCatchesUp, DeltaPassed, Selected
<1>5. CASE \/ Connect \/ ReadRow \/ PassDone \/ PurgeFolder \/ ResetCursors
           \/ AdvanceCursors \/ SelectRefused \/ Drop
  BY <1>5 DEF Connect, ReadRow, PassDone, PurgeFolder, ResetCursors, AdvanceCursors,
     SelectRefused, Drop, EndPass, server, store, pass, CatchInv, PassCatchesUp, DeltaPassed,
     Selected, Live
<1>6. CASE Select
  <2>1. info' = SelectAnswer /\ Live' = Live /\ pc' \notin DeltaPassed
    BY <1>6 DEF Select, server, Live, DeltaPassed
  <2>2. ~info'.exists => Live = {}
    BY <2>1 DEF SelectAnswer, Live
  <2>3. QED
    BY <2>1, <2>2 DEF CatchInv, PassCatchesUp
<1>7. CASE FindDelta \/ MaxUidFails
  <2>1. CASE FindDelta
    BY <2>1, CatchDelta DEF FindDelta, IsDeltaStart
  <2>2. CASE MaxUidFails
    BY <2>2, CatchDelta, BoundsAssumption DEF MaxUidFails
  <2>3. QED
    BY <1>7, <2>1, <2>2
<1>8. CASE FetchEnvelopes
  <2>1. /\ pc = "fetch" /\ pc' \in {"ingest", "flags"} /\ Live' = Live
        /\ UNCHANGED <<validity, stored, info, start>>
    BY <1>8 DEF FetchEnvelopes, server, store, Live
  <2>2. ASSUME pc' = "flags", NEW u \in Live, u < info.uidNext PROVE stored[u].gen = validity
    <3>1. u \in Uid /\ info.uidNext \in Nat
      BY DEF Live, TypeOK, SelectInfo
    <3>2. start \in Nat \ {0} /\ (start = 1 \/ start - 1 \in Kept(stored))
      BY <2>1 DEF GapInv, DeltaInv
    <3>3. ~batch'[u].live
      BY <1>8, <2>2, <3>1 DEF FetchEnvelopes
    <3>4. u \notin start .. NextBound(info.uidNext)
      BY <1>8, <3>1, <3>3 DEF FetchEnvelopes, Live
    <3>5. u < start
      BY <2>2, <3>1, <3>2, <3>4 DEF NextBound, Uid
    <3>6. QED
      BY <2>1, <3>2, <3>5, BelowStart DEF GapInv, Reconciled
  <2>3. QED
    BY <2>1, <2>2 DEF CatchInv, PassCatchesUp, DeltaPassed, Selected
<1>9. CASE IngestBatch
  BY <1>9, CatchIngest
<1>10. CASE FetchFlags \/ LookupFails \/ IngestBody \/ \E u \in Uid : HostMark(u)
  <2>1. /\ \A u \in Uid : stored'[u].gen = stored[u].gen
        /\ UNCHANGED <<server, info>>
    BY <1>10, MarkStep
  <2>2. UNCHANGED pc \/ (pc \in DeltaPassed /\ pc' \in DeltaPassed)
    BY <1>10 DEF FetchFlags, LookupFails, AnnounceFlags, IngestBody, HostMark, DeltaPassed
  <2>3. QED
    BY <2>1, <2>2 DEF CatchInv, PassCatchesUp, server, Live, DeltaPassed, Selected
<1>11. ASSUME NEW m \in page, FetchRaw(m) \/ RawFails(m) PROVE CatchInv'
  <2>1. /\ pc = "raw" /\ pc' \in {"raw", "body"} /\ Live' = Live
        /\ UNCHANGED <<validity, stored, info>>
    BY <1>11, RawStep
  <2>2. QED
    BY <2>1 DEF CatchInv, PassCatchesUp, DeltaPassed, Selected
<1>12. CASE SkipFlags \/ FlagCursor \/ ListRecent \/ FlagFetchFails
  <2>1. /\ pc \in DeltaPassed /\ pc' \in DeltaPassed /\ Live' = Live
        /\ UNCHANGED <<validity, stored, info>>
    BY <1>12 DEF SkipFlags, FlagCursor, ListRecent, FlagFetchFails, DeltaPassed, server,
       store, pass, Live
  <2>2. QED
    BY <2>1 DEF CatchInv, PassCatchesUp, DeltaPassed, Selected
<1>13. CASE StoreErrorIgnored
  <2>1. /\ UNCHANGED <<validity, stored, info>> /\ Live' = Live
        /\ \/ pc \in DeltaPassed /\ pc' \in DeltaPassed
           \/ pc \in Selected /\ pc' \notin DeltaPassed
    BY <1>13 DEF StoreErrorIgnored, server, store, Live, DeltaPassed, Selected
  <2>2. QED
    BY <2>1 DEF CatchInv, PassCatchesUp, DeltaPassed, Selected
<1>14. QED
  BY <1>1, <1>2, <1>3, <1>4, <1>5, <1>6, <1>7, <1>8, <1>9, <1>10, <1>11, <1>12, <1>13
     DEF Next, Environment, Engine, Faults

(* When a pass is past its delta, the mail that SELECT found is stored,    *)
(* whatever other clients did meanwhile and whatever earlier passes broke  *)
(* off (sync_folder, fetch_and_ingest): with this the service loop may     *)
(* take the folder as synced.                                              *)
THEOREM PassCatchesUpHolds ==
    ASSUME Noticed \/ MaxValidity = 1 PROVE Spec => []PassCatchesUp
<1>1. TypeOK /\ PassInv /\ OneGeneration /\ GapInv /\ [Next]_vars => GapInv'
  BY GapInvStep
<1>2. TypeOK /\ OneGeneration /\ GapInv /\ CatchInv /\ [Next]_vars => CatchInv'
  BY CatchStep
<1>3. CatchInv => PassCatchesUp
  BY DEF CatchInv
<1>4. QED
  BY <1>1, <1>2, <1>3, GapInvInit, CatchInit, PassInvariant, OneGenerationHolds, PTL DEF Spec

===============================================================================
