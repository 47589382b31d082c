---------------------------- MODULE ImapFlagProofs -----------------------------
(***************************************************************************)
(* Theorems about the mod-sequence cursor, the flags and the bodies of a   *)
(* folder's sync (ImapFolderSync), for every bound, with store errors,     *)
(* CONDSTORE and re-creations unless a theorem says otherwise.             *)
(***************************************************************************)
EXTENDS ImapFolderSyncProofs

-------------------------------------------------------------------------------
\* The cursor.

(* What the row and the pass know of the server's mod-sequences is not     *)
(* ahead of them, and no UIDVALIDITY is stored before it was seen.         *)
CursorInv ==
    /\ CursorNotAhead
    /\ row.validity <= validity
    /\ pc \in Selected => info.modseq <= modseq

LEMMA CursorInvInit == Init => CursorInv
BY DEF Init, CursorInv, CursorNotAhead, NoCursors, Selected

LEMMA CursorInvStep ==
    ASSUME TypeOK, PassInv, CursorInv, [Next]_vars PROVE CursorInv'
<1> USE DEF Goto, CursorInv, CursorNotAhead, Selected, TypeOK, Cursors, SelectInfo
<1>1. CASE UNCHANGED vars
  BY <1>1 DEF vars, server, store, pass
<1>2. CASE Append
  BY <1>2 DEF Append, engine, store, pass
<1>3. ASSUME NEW u \in Uid, SetFlag(u) \/ Expunge(u) PROVE CursorInv'
  BY <1>3 DEF SetFlag, Expunge, engine, store, pass
<1>4. CASE Recreate
  BY <1>4 DEF Recreate, engine, store, pass
<1>5. CASE Connect \/ ReadRow \/ PassDone \/ SkipFlags \/ ListRecent
  BY <1>5 DEF Connect, ReadRow, PassDone, EndPass, SkipFlags, ListRecent, server, store, pass
<1>6. CASE Select
  BY <1>6 DEF Select, SelectAnswer, server, store
<1>7. CASE PurgeFolder
  BY <1>7 DEF PurgeFolder, server, pass
<1>8. CASE ResetCursors \/ AdvanceCursors \/ FlagCursor
  BY <1>8 DEF ResetCursors, AdvanceCursors, FlagCursor, UpdateSyncCursors, PassInv,
              Reported, server, pass
<1>9. CASE FindDelta \/ MaxUidFails
  BY <1>9 DEF FindDelta, MaxUidFails, DeltaFrom, server, store
<1>10. CASE FetchEnvelopes \/ IngestBatch
  BY <1>10 DEF FetchEnvelopes, IngestBatch, server, store
<1>11. CASE FetchFlags \/ LookupFails \/ IngestBody \/ \E u \in Uid : HostMark(u)
  BY <1>11, MarkStep DEF server
<1>12. ASSUME NEW m \in page, FetchRaw(m) \/ RawFails(m) PROVE CursorInv'
  <2>1. modseq <= modseq'
    BY <1>12 DEF FetchRaw, RawFails, MarkSeen, server
  <2>2. QED
    BY <1>12, <2>1, RawStep
<1>13. CASE SelectRefused \/ Drop
  BY <1>13 DEF SelectRefused, Drop, EndPass, server, store
<1>14. CASE FlagFetchFails \/ StoreErrorIgnored
  BY <1>14 DEF FlagFetchFails, StoreErrorIgnored, server, store, pass
<1>15. QED
  BY <1>1, <1>2, <1>3, <1>4, <1>5, <1>6, <1>7, <1>8, <1>9, <1>10, <1>11, <1>12,
     <1>13, <1>14 DEF Next, Environment, Engine, Faults

LEMMA CursorInvariant == Spec => [](TypeOK /\ PassInv /\ CursorInv)
<1>1. TypeOK /\ PassInv /\ [Next]_vars => PassInv'
  BY PassInvStep
<1>2. TypeOK /\ PassInv /\ CursorInv /\ [Next]_vars => CursorInv'
  BY CursorInvStep
<1>3. QED
  BY <1>1, <1>2, PassInvInit, CursorInvInit, TypeCorrect, PTL DEF Spec

(* Whatever is re-created, fails or crashes, the stored mod-sequence does  *)
(* not overtake that of the mailbox the row names (update_sync_cursors in  *)
(* sync_folder and flag_pass).                                             *)
THEOREM CursorNotAheadHolds == Spec => []CursorNotAhead
<1>1. CursorInv => CursorNotAhead
  BY DEF CursorInv
<1>2. QED
  BY <1>1, CursorInvariant, PTL

-------------------------------------------------------------------------------
\* The flag pass.

LEMMA UntoldFinite ==
    /\ IsFiniteSet(Untold) /\ Cardinality(Untold) \in Nat
    /\ \A S \in SUBSET Uid : IsFiniteSet(S) /\ Cardinality(S) \in Nat
<1>1. IsFiniteSet(Uid)
  BY BoundsAssumption, FS_Interval DEF Uid
<1>2. Untold \subseteq Uid
  BY DEF Untold, Live
<1>3. QED
  BY <1>1, <1>2, FS_Subset, FS_CardinalityType

(* The announcement leaves untold what was looked up in vain.              *)
LEMMA AnnounceStep ==
    ASSUME TypeOK, NEW lost \in SUBSET ChangedFlags,
           AnnounceFlags(ChangedFlags \ lost), pc' = "flagCursor"
    PROVE  Untold' \subseteq lost
<1> SUFFICES ASSUME NEW u \in Untold' PROVE u \in lost
  OBVIOUS
<1>1. /\ u \in Uid /\ mail[u].live
      /\ folder.modseq + 1 < mail[u].modseq
      /\ stored'[u].gen # 0 /\ stored'[u].modseq < mail[u].modseq
  BY DEF Untold, Live, Kept, AnnounceFlags, server, pass
<1>2. stored'[u].gen = stored[u].gen
  BY <1>1 DEF AnnounceFlags, Announced, TypeOK
<1>3. u \in ChangedFlags
  BY <1>1, <1>2 DEF ChangedFlags, ChangedSince, Kept
<1>4. u \notin ChangedFlags \ lost
  <2> SUFFICES ASSUME u \in ChangedFlags \ lost PROVE FALSE
    OBVIOUS
  <2>1. stored'[u].modseq = mail[u].modseq
    BY <1>1 DEF AnnounceFlags, Announced, TypeOK
  <2>2. mail[u].modseq \in Nat
    BY <1>1 DEF TypeOK, ServerMessage
  <2>3. QED
    BY <1>1, <2>1, <2>2
<1>5. QED
  BY <1>3, <1>4

(* While the pass is about to move the cursor, only the server and the     *)
(* host act, and neither adds to what the host was not told: a change has  *)
(* a mod-sequence beyond the one SELECT named.                             *)
LEMMA WaitStep ==
    ASSUME TypeOK, CursorInv, pc = "flagCursor", [Next]_vars, pc' = "flagCursor"
    PROVE  Untold' \subseteq Untold /\ faults' = faults
<1> USE DEF Untold, Live, Kept, TypeOK
<1>1. info.modseq \in Nat /\ info.modseq <= modseq /\ folder.modseq \in Nat
  BY DEF CursorInv, Selected, SelectInfo, Cursors
<1>2. CASE UNCHANGED vars
  BY <1>2 DEF vars, server, store, pass
<1>3. CASE Append
  BY <1>1, <1>3 DEF Append, engine, store, pass, ServerMessage
<1>4. ASSUME NEW u \in Uid, SetFlag(u) PROVE Untold' \subseteq Untold /\ faults' = faults
  BY <1>1, <1>4 DEF SetFlag, engine, store, pass, ServerMessage
<1>5. ASSUME NEW u \in Uid, Expunge(u) PROVE Untold' \subseteq Untold /\ faults' = faults
  BY <1>1, <1>5 DEF Expunge, Gone, engine, store, pass, ServerMessage
<1>6. ASSUME NEW u \in Uid, HostMark(u) PROVE Untold' \subseteq Untold /\ faults' = faults
  BY <1>6 DEF HostMark, server, pass
<1>7. ~Recreate
  BY DEF Recreate, Selected
<1>8. ~Engine
  BY DEF Engine, Goto, Connect, ReadRow, Select, PurgeFolder, ResetCursors,
     AdvanceCursors, FindDelta, FetchEnvelopes, IngestBatch, FetchFlags, AnnounceFlags,
     SkipFlags, FlagCursor, ListRecent, FetchRaw, IngestBody, PassDone
<1>9. ~Faults
  BY DEF Faults, Goto, SelectRefused, FlagFetchFails, LookupFails, AnnounceFlags,
     RawFails, StoreErrorIgnored, MaxUidFails, Drop
<1>10. QED
  BY <1>2, <1>3, <1>4, <1>5, <1>6, <1>7, <1>8, <1>9 DEF Next, Environment

LEMMA FlagsToldStep ==
    ASSUME TypeOK, CursorInv, FlagsTold, [Next]_vars PROVE FlagsTold'
<1> SUFFICES ASSUME pc' = "flagCursor" PROVE Cardinality(Untold') <= faults'
  BY DEF FlagsTold
<1>1. CASE pc = "flagCursor"
  <2>1. Cardinality(Untold') <= Cardinality(Untold)
    BY <1>1, WaitStep, UntoldFinite, FS_Subset
  <2>2. Untold' \subseteq Untold /\ Cardinality(Untold') \in Nat
    BY <1>1, WaitStep, UntoldFinite DEF Untold, Live
  <2>3. QED
    BY <1>1, <2>1, <2>2, WaitStep, UntoldFinite DEF FlagsTold, TypeOK
<1>2. CASE pc # "flagCursor"
  <2>1. CASE FetchFlags
    <3>1. AnnounceFlags(ChangedFlags \ {}) /\ faults' = faults
      BY <2>1 DEF FetchFlags
    <3>2. Untold' = {}
      BY <3>1, AnnounceStep
    <3>3. QED
      BY <3>1, <3>2, FS_EmptySet DEF TypeOK
  <2>2. CASE LookupFails
    <3>1. PICK lost \in SUBSET ChangedFlags :
                 /\ faults' = faults + Cardinality(lost)
                 /\ AnnounceFlags(ChangedFlags \ lost)
      BY <2>2 DEF LookupFails
    <3>2. Untold' \subseteq lost
      BY <3>1, AnnounceStep
    <3>3. IsFiniteSet(lost) /\ Cardinality(lost) \in Nat
      BY UntoldFinite DEF ChangedFlags, Kept
    <3>4. Cardinality(Untold') \in Nat /\ Cardinality(Untold') <= Cardinality(lost)
      BY <3>2, <3>3, FS_Subset, FS_CardinalityType
    <3>5. QED
      BY <3>1, <3>3, <3>4 DEF TypeOK
  <2>3. FetchFlags \/ LookupFails
    BY <1>2 DEF Next, vars, pass, Environment, engine, Append, SetFlag, Expunge, Recreate,
       HostMark, Engine, Goto, Connect, ReadRow, Select, PurgeFolder, ResetCursors,
       AdvanceCursors, FindDelta, DeltaFrom, FetchEnvelopes, IngestBatch, SkipFlags,
       FlagCursor, ListRecent, FetchRaw, IngestBody, PassDone, Faults, SelectRefused,
       FlagFetchFails, RawFails, StoreErrorIgnored, MaxUidFails, Drop
  <2>4. QED
    BY <2>1, <2>2, <2>3
<1>3. QED
  BY <1>1, <1>2

(* Before the flag pass moves the cursor the host was told of every change *)
(* it asked for, but for one message per failed look-up (flag_pass), on    *)
(* any server and whatever the other clients and the host do meanwhile.    *)
THEOREM FlagsToldHolds == Spec => []FlagsTold
<1>1. Init => FlagsTold
  BY DEF Init, FlagsTold
<1>2. TypeOK /\ CursorInv /\ FlagsTold /\ [Next]_vars => FlagsTold'
  BY FlagsToldStep
<1>3. QED
  BY <1>1, <1>2, CursorInvariant, PTL DEF Spec

-------------------------------------------------------------------------------
\* The stored flags.

(* A batch holds what was asked for.                                       *)
BatchInv == pc = "ingest" => \A u \in Uid : batch[u].live => start <= u

LEMMA BatchInvStep ==
    ASSUME TypeOK, BatchInv, [Next]_vars PROVE BatchInv'
<1> USE DEF BatchInv, Goto
<1>1. CASE FetchEnvelopes
  BY <1>1 DEF FetchEnvelopes, Gone, TypeOK
<1>2. CASE ~FetchEnvelopes
  <2>1. pc' = "ingest" => pc = "ingest" /\ UNCHANGED <<batch, start>>
    BY <1>2 DEF Next, vars, pass, Environment, engine, Append, SetFlag, Expunge, Recreate,
       HostMark, Engine, Connect, ReadRow, Select, PurgeFolder, ResetCursors,
       AdvanceCursors, FindDelta, DeltaFrom, IngestBatch, FetchFlags, AnnounceFlags,
       SkipFlags, FlagCursor, ListRecent, FetchRaw, IngestBody, PassDone, Faults,
       SelectRefused, FlagFetchFails, LookupFails, RawFails, StoreErrorIgnored,
       MaxUidFails, Drop
  <2>2. QED
    BY <2>1
<1>3. QED
  BY <1>1, <1>2

(* A stored flag is overwritten only where the message is stored again:    *)
(* with its body (prefetch_recent), or in a delta that starts at or below  *)
(* it (sync_folder); an announcement (flag_pass) changes none.             *)
THEOREM FlagsLeftAloneHolds == Spec => FlagsLeftAlone
<1>1. Init => BatchInv
  BY DEF Init, BatchInv
<1>2. TypeOK /\ BatchInv /\ [Next]_vars => BatchInv'
  BY BatchInvStep
<1>3. TypeOK /\ BatchInv /\ [Next]_vars =>
          [\A u \in Kept(stored) :
              stored'[u].gen # 0 /\ stored'[u].flag # stored[u].flag
                  => \/ HostMark(u)
                     \/ pc = "body" /\ raw.uid = u
                     \/ pc = "ingest" /\ start <= u]_vars
  <2> SUFFICES ASSUME TypeOK, BatchInv, Next, NEW u \in Kept(stored),
                      stored'[u].gen # 0, stored'[u].flag # stored[u].flag
      PROVE  \/ HostMark(u)
             \/ pc = "body" /\ raw.uid = u
             \/ pc = "ingest" /\ start <= u
    OBVIOUS
  <2> USE DEF TypeOK, Kept
  <2>1. ASSUME NEW v \in Uid, HostMark(v) PROVE HostMark(u)
    <3>1. v = u
      BY <2>1 DEF HostMark
    <3>2. QED
      BY <2>1, <3>1
  <2>2. CASE IngestBody
    BY <2>2 DEF IngestBody, Goto
  <2>3. CASE IngestBatch
    BY <2>3 DEF IngestBatch, Goto, BatchInv
  <2>4. CASE PurgeFolder
    BY <2>4 DEF PurgeFolder, NoStored, Absent
  <2>5. ASSUME NEW found, AnnounceFlags(found) PROVE FALSE
    BY <2>5 DEF AnnounceFlags, Announced
  <2>6. \/ \E v \in Uid : HostMark(v)
        \/ IngestBody \/ IngestBatch \/ PurgeFolder
        \/ \E found : AnnounceFlags(found)
        \/ stored' = stored
    BY DEF Next, Environment, Engine, Faults, Append, SetFlag, Expunge, Recreate,
       Connect, ReadRow, Select, ResetCursors, AdvanceCursors, FindDelta,
       FetchEnvelopes, FetchFlags, LookupFails, SkipFlags, FlagCursor, ListRecent,
       FetchRaw, PassDone, SelectRefused, FlagFetchFails, RawFails,
       StoreErrorIgnored, MaxUidFails, Drop, engine, store
  <2>7. QED
    BY <2>1, <2>2, <2>3, <2>4, <2>5, <2>6
<1>4. QED
  BY <1>1, <1>2, <1>3, TypeCorrect, PTL DEF Spec, FlagsLeftAlone

-------------------------------------------------------------------------------
\* The bodies.

(* The answer in hand is that of the message it was asked for.             *)
BodyInv ==
    /\ late = 0
    /\ \A u \in Uid : stored[u].body \in {0, u}
    /\ pc = "body" => raw.of = raw.uid

LEMMA BodyInvStep ==
    ASSUME ~LateAnswers, TypeOK, BodyInv, [Next]_vars PROVE BodyInv'
<1> USE DEF BodyInv, TypeOK, Goto
<1>1. ASSUME NEW m \in page, FetchRaw(m) PROVE BodyInv'
  BY <1>1 DEF FetchRaw, store
<1>2. CASE IngestBody
  BY <1>2 DEF IngestBody, WithBody
<1>3. CASE IngestBatch
  BY <1>3 DEF IngestBatch, Ingested
<1>4. CASE PurgeFolder
  BY <1>4 DEF PurgeFolder, NoStored, Absent, pass
<1>5. ASSUME NEW found, AnnounceFlags(found) PROVE BodyInv'
  BY <1>5 DEF AnnounceFlags, Announced, pass
<1>6. ASSUME NEW u \in Uid, HostMark(u) PROVE BodyInv'
  BY <1>6 DEF HostMark, pass
<1>7. ASSUME NEW m \in page, RawFails(m) PROVE BodyInv'
  BY <1>7 DEF RawFails, store
<1>8. \/ \E m \in page : FetchRaw(m) \/ RawFails(m)
      \/ IngestBody \/ IngestBatch \/ PurgeFolder
      \/ \E found : AnnounceFlags(found)
      \/ \E u \in Uid : HostMark(u)
      \/ stored' = stored /\ late' \in {0, late} /\ (pc' = "body" => pc = "body" /\ raw' = raw)
  BY DEF Next, vars, pass, Environment, Engine, Faults, Append, SetFlag, Expunge, Recreate,
     Connect, ReadRow, Select, ResetCursors, AdvanceCursors, FindDelta, DeltaFrom,
     FetchEnvelopes, FetchFlags, LookupFails, SkipFlags, FlagCursor, ListRecent,
     PassDone, SelectRefused, FlagFetchFails, StoreErrorIgnored, MaxUidFails,
     Drop, engine, store
<1>9. QED
  BY <1>1, <1>2, <1>3, <1>4, <1>5, <1>6, <1>7, <1>8

(* When no answer comes after its command timed out, every prefetched body *)
(* is that of the message it is stored for (prefetch_recent), whatever was *)
(* expunged or re-created meanwhile.                                       *)
THEOREM BodiesMatch ==
    ASSUME ~LateAnswers PROVE Spec => []BodyMatches
<1>1. Init => BodyInv
  BY DEF Init, BodyInv, NoStored, Absent
<1>2. TypeOK /\ BodyInv /\ [Next]_vars => BodyInv'
  BY BodyInvStep
<1>3. BodyInv => BodyMatches
  BY DEF BodyInv, BodyMatches, Kept
<1>4. QED
  BY <1>1, <1>2, <1>3, TypeCorrect, PTL DEF Spec
===============================================================================
