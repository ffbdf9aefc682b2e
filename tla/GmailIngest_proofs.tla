------------------------ MODULE GmailIngest_proofs ------------------------
(***************************************************************************)
(* Proofs about GmailIngest, for every value of its constants.             *)
(***************************************************************************)
EXTENDS GmailIngest, TLAPS

\* History ids grow: nothing stored or read lies beyond the mailbox's current one.
HistoryInv ==
  /\ \A m \in Msgs : added[m] <= head
  /\ cursor <= head

\* A sync run works on the persisted cursor, and only a first run lists messages.
RunInv ==
  /\ syncPC # "idle" => syncStart = cursor
  /\ syncPC \in {"history", "fetch"} =>
       /\ cursor # None
       /\ syncFrom = syncStart
       /\ syncStart <= syncFinal /\ syncFinal <= head
       /\ syncPos <= head
  /\ syncPC \in {"idle", "profile", "history"} => syncTodo = {}
  /\ syncPC \in {"idle", "profile", "list", "listed"} => ~syncMore
  /\ syncPC = "fetch" /\ ~syncMore => syncFinal <= syncPos
  /\ syncPC \in {"list", "listed"} =>
       /\ cursor = None
       /\ syncProfile <= head
  /\ syncPC = "listed" => syncPos = syncProfile /\ syncFinal = syncProfile

\* What a run has read so far, no message in the inbox is missing from.
RunCovers ==
  syncPC \in {"history", "fetch", "listed"} =>
    \A m \in inbox : syncFrom < added[m] /\ added[m] <= syncPos => m \in syncTodo \cup syncEvents

\* Acknowledgements, decided and done, lie at or below the persisted cursor.
AckInv ==
  /\ watchSeen <= cursor
  /\ \A n \in watchAcks \cap HistoryIds : n <= watchSeen
  /\ \A n \in acked : n <= cursor

\* Cleanup runs without the watch task, and stops the watch before the subscription goes.
CleanInv ==
  /\ cleanPC # "none" => ~active /\ watchPC = "idle"
  /\ cleanPC \in {"delete", "done"} => ~watchLive
  /\ cleanPC = "done" => ~subUp /\ queue = {}
  /\ ~WatchEnabled => watchPC = "idle" /\ ~watchLive /\ ~subUp /\ queue = {}

IngestInv == TypeOK /\ HistoryInv /\ RunInv /\ RunCovers /\ AckInv /\ CleanInv /\ CursorCoversDelivered

-----------------------------------------------------------------------------
\* execute's code for a failed status is never the one the background tasks test for.
LEMMA NotRecognised == \A status : ~BackgroundErrorIs(status)
BY DEF BackgroundErrorIs, StatusCode, StatusCodeAsTested

\* The parts of the type invariant that a step leaves alone.
LEMMA Frames ==
  /\ MailboxOK /\ UNCHANGED mailbox => MailboxOK'
  /\ PushOK /\ UNCHANGED push => PushOK'
  /\ StoredOK /\ UNCHANGED stored => StoredOK'
  /\ DueOK /\ UNCHANGED due => DueOK'
  /\ SyncOK /\ UNCHANGED sync => SyncOK'
  /\ WatchOK /\ UNCHANGED watch => WatchOK'
  /\ BoundsOK /\ UNCHANGED bounds => BoundsOK'
BY DEF MailboxOK, mailbox, PushOK, push, StoredOK, stored, DueOK, due, SyncOK, sync, WatchOK, watch,
   BoundsOK, bounds

\* A run that ended has the state of one that has not begun.
LEMMA SyncResetOK == ASSUME SyncReset PROVE SyncOK'
<1>1. /\ syncStart' \in 0..MaxHistory /\ syncProfile' \in 0..MaxHistory /\ syncPos' \in 0..MaxHistory
      /\ syncFinal' \in 0..MaxHistory /\ syncFrom' \in 0..MaxHistory
      /\ syncPage' \in 0..(MaxPages - 1)
  BY BoundsAssumption DEF SyncReset, None
<1> QED
  BY <1>1, Zenon DEF SyncReset, SyncOK

\* The same for the watch task.
LEMMA WatchResetOK == ASSUME WatchReset PROVE WatchOK'
<1>1. watchSeen' \in 0..MaxHistory
  BY BoundsAssumption DEF WatchReset, None
<1> QED
  BY <1>1, Zenon DEF WatchReset, WatchOK

\* A step of the mailbox keeps the state well formed.
LEMMA MailboxType == ASSUME TypeOK, MailboxNext PROVE TypeOK'
<1> USE BoundsAssumption DEF HistoryIds, None, Notes
<1>1. ASSUME NEW m \in Msgs, Arrive(m) PROVE TypeOK'
  <2>1. MailboxOK' /\ PushOK'
    BY <1>1 DEF Arrive, MailboxChange, Publish, TypeOK, MailboxOK, PushOK
  <2>2. StoredOK' /\ DueOK' /\ SyncOK' /\ WatchOK' /\ BoundsOK'
    BY <1>1, Frames DEF Arrive, MailboxChange, Publish, TypeOK
  <2>3. acked' \subseteq HistoryIds /\ cleanPC' \in {"none", "stop", "delete", "done"}
    BY <1>1 DEF Arrive, MailboxChange, Publish, TypeOK, WatchOK
  <2> QED BY <2>1, <2>2, <2>3 DEF TypeOK
<1>2. ASSUME NEW m \in Msgs, Archive(m) PROVE TypeOK'
  <2>1. MailboxOK' /\ PushOK'
    BY <1>2 DEF Archive, MailboxChange, Publish, TypeOK, MailboxOK, PushOK
  <2>2. StoredOK' /\ DueOK' /\ SyncOK' /\ WatchOK' /\ BoundsOK'
    BY <1>2, Frames DEF Archive, MailboxChange, Publish, TypeOK
  <2>3. acked' \subseteq HistoryIds /\ cleanPC' \in {"none", "stop", "delete", "done"}
    BY <1>2 DEF Archive, MailboxChange, Publish, TypeOK, WatchOK
  <2> QED BY <2>1, <2>2, <2>3 DEF TypeOK
<1>3. ASSUME NEW m \in Msgs, Delete(m) PROVE TypeOK'
  <2>1. MailboxOK' /\ PushOK'
    BY <1>3 DEF Delete, MailboxChange, Publish, TypeOK, MailboxOK, PushOK
  <2>2. StoredOK' /\ DueOK' /\ SyncOK' /\ WatchOK' /\ BoundsOK'
    BY <1>3, Frames DEF Delete, MailboxChange, Publish, TypeOK
  <2>3. acked' \subseteq HistoryIds /\ cleanPC' \in {"none", "stop", "delete", "done"}
    BY <1>3 DEF Delete, MailboxChange, Publish, TypeOK, WatchOK
  <2> QED BY <2>1, <2>2, <2>3 DEF TypeOK
<1>4. CASE Expire
  <2>1. MailboxOK'
    BY <1>4 DEF Expire, TypeOK, MailboxOK
  <2>2. PushOK' /\ StoredOK' /\ DueOK' /\ SyncOK' /\ WatchOK' /\ BoundsOK'
    BY <1>4, Frames DEF Expire, TypeOK
  <2>3. acked' \subseteq HistoryIds /\ cleanPC' \in {"none", "stop", "delete", "done"}
    BY <1>4 DEF Expire, TypeOK, WatchOK
  <2> QED BY <2>1, <2>2, <2>3 DEF TypeOK
<1>5. CASE Junk
  <2>1. PushOK'
    BY <1>5 DEF Junk, TypeOK, MailboxOK, PushOK
  <2>2. MailboxOK' /\ StoredOK' /\ DueOK' /\ SyncOK' /\ WatchOK' /\ BoundsOK'
    BY <1>5, Frames DEF Junk, TypeOK
  <2>3. acked' \subseteq HistoryIds /\ cleanPC' \in {"none", "stop", "delete", "done"}
    BY <1>5 DEF Junk, TypeOK, WatchOK
  <2> QED BY <2>1, <2>2, <2>3 DEF TypeOK
<1>6. CASE WatchLapses
  <2>1. PushOK'
    BY <1>6 DEF WatchLapses, TypeOK, MailboxOK, PushOK
  <2>2. MailboxOK' /\ StoredOK' /\ DueOK' /\ SyncOK' /\ WatchOK' /\ BoundsOK'
    BY <1>6, Frames DEF WatchLapses, TypeOK
  <2>3. acked' \subseteq HistoryIds /\ cleanPC' \in {"none", "stop", "delete", "done"}
    BY <1>6 DEF WatchLapses, TypeOK, WatchOK
  <2> QED BY <2>1, <2>2, <2>3 DEF TypeOK
<1> QED
  BY <1>1, <1>2, <1>3, <1>4, <1>5, <1>6 DEF MailboxNext

\* A step of gmail_sync, or of its timer, keeps the state well formed.
LEMMA SyncType == ASSUME TypeOK, SyncTimer \/ SyncStep \/ SyncFails PROVE TypeOK'
<1> USE BoundsAssumption DEF HistoryIds, None, Notes
<1>1. CASE SyncTimer
  <2>1. DueOK' /\ BoundsOK'
    BY <1>1 DEF SyncTimer, Others, TypeOK, MailboxOK, DueOK, BoundsOK
  <2>2. MailboxOK' /\ PushOK' /\ StoredOK' /\ SyncOK' /\ WatchOK'
    BY <1>1, Frames DEF SyncTimer, Others, TypeOK
  <2>3. acked' \subseteq HistoryIds /\ cleanPC' \in {"none", "stop", "delete", "done"}
    BY <1>1 DEF SyncTimer, Others, TypeOK, WatchOK
  <2> QED BY <2>1, <2>2, <2>3 DEF TypeOK
<1>2. CASE SyncStart
  <2>1. DueOK' /\ SyncOK' /\ BoundsOK'
    BY <1>2 DEF SyncStart, Others, StoredOK, TypeOK, MailboxOK, DueOK, SyncOK, BoundsOK
  <2>2. MailboxOK' /\ PushOK' /\ StoredOK' /\ WatchOK'
    BY <1>2, Frames DEF SyncStart, Others, StoredOK, TypeOK
  <2>3. acked' \subseteq HistoryIds /\ cleanPC' \in {"none", "stop", "delete", "done"}
    BY <1>2 DEF SyncStart, Others, StoredOK, TypeOK, WatchOK
  <2> QED BY <2>1, <2>2, <2>3 DEF TypeOK
<1>3. CASE SyncFails
  <2>1. DueOK' /\ SyncOK' /\ BoundsOK'
    <3>1. DueOK' /\ BoundsOK'
      BY <1>3 DEF SyncFails, Fault, SyncError, Others, TypeOK, DueOK, BoundsOK
    <3> QED BY <1>3, <3>1, SyncResetOK DEF SyncFails, SyncError
  <2>2. MailboxOK' /\ PushOK' /\ StoredOK' /\ WatchOK'
    BY <1>3, Frames DEF SyncFails, Fault, SyncError, SyncReset, Others, TypeOK
  <2>3. acked' \subseteq HistoryIds /\ cleanPC' \in {"none", "stop", "delete", "done"}
    BY <1>3 DEF SyncFails, Fault, SyncError, SyncReset, Others, TypeOK, WatchOK
  <2> QED BY <2>1, <2>2, <2>3 DEF TypeOK
<1>4. CASE SyncProfile
  <2>1. DueOK' /\ SyncOK' /\ BoundsOK'
    BY <1>4 DEF SyncProfile, FirstFinalID, Others, TypeOK, MailboxOK, DueOK, SyncOK, BoundsOK
  <2>2. MailboxOK' /\ PushOK' /\ StoredOK' /\ WatchOK'
    BY <1>4, Frames DEF SyncProfile, FirstFinalID, Others, TypeOK
  <2>3. acked' \subseteq HistoryIds /\ cleanPC' \in {"none", "stop", "delete", "done"}
    BY <1>4 DEF SyncProfile, FirstFinalID, Others, TypeOK, WatchOK
  <2> QED BY <2>1, <2>2, <2>3 DEF TypeOK
<1>5. CASE SyncHistoryExpired
  <2>1. DueOK' /\ SyncOK' /\ BoundsOK'
    <3>1. SyncError /\ UNCHANGED faults
      BY <1>5, NotRecognised DEF SyncHistoryExpired, HistoryNotFound
    <3>2. DueOK' /\ BoundsOK'
      BY <3>1 DEF SyncError, Others, TypeOK, DueOK, BoundsOK
    <3> QED BY <3>1, <3>2, SyncResetOK DEF SyncError
  <2>2. MailboxOK' /\ PushOK' /\ StoredOK' /\ WatchOK'
    BY <1>5, Frames, NotRecognised DEF SyncHistoryExpired, HistoryNotFound, SyncError, SyncReset,
       Others, TypeOK
  <2>3. acked' \subseteq HistoryIds /\ cleanPC' \in {"none", "stop", "delete", "done"}
    BY <1>5, NotRecognised DEF SyncHistoryExpired, HistoryNotFound, SyncError, SyncReset,
       Others, TypeOK, WatchOK
  <2> QED BY <2>1, <2>2, <2>3 DEF TypeOK
<1>6. CASE SyncHistoryPage
  <2>1. DueOK' /\ SyncOK' /\ BoundsOK'
    BY <1>6 DEF SyncHistoryPage, HistoryAfter, Fault, Others, TypeOK, MailboxOK, DueOK, SyncOK, BoundsOK
  <2>2. MailboxOK' /\ PushOK' /\ StoredOK' /\ WatchOK'
    BY <1>6, Frames DEF SyncHistoryPage, HistoryAfter, Fault, Others, TypeOK
  <2>3. acked' \subseteq HistoryIds /\ cleanPC' \in {"none", "stop", "delete", "done"}
    BY <1>6 DEF SyncHistoryPage, HistoryAfter, Fault, Others, TypeOK, WatchOK
  <2> QED BY <2>1, <2>2, <2>3 DEF TypeOK
<1>7. CASE SyncList
  <2>1. DueOK' /\ SyncOK' /\ BoundsOK'
    BY <1>7 DEF SyncList, Others, TypeOK, MailboxOK, DueOK, SyncOK, BoundsOK
  <2>2. MailboxOK' /\ PushOK' /\ StoredOK' /\ WatchOK'
    BY <1>7, Frames DEF SyncList, Others, TypeOK
  <2>3. acked' \subseteq HistoryIds /\ cleanPC' \in {"none", "stop", "delete", "done"}
    BY <1>7 DEF SyncList, Others, TypeOK, WatchOK
  <2> QED BY <2>1, <2>2, <2>3 DEF TypeOK
<1>8. ASSUME NEW m \in Msgs, SyncGetMessage(m) PROVE TypeOK'
  <2>1. DueOK' /\ SyncOK' /\ BoundsOK'
    BY <1>8 DEF SyncGetMessage, Others, TypeOK, MailboxOK, DueOK, SyncOK, BoundsOK
  <2>2. MailboxOK' /\ PushOK' /\ StoredOK' /\ WatchOK'
    BY <1>8, Frames DEF SyncGetMessage, Others, TypeOK
  <2>3. acked' \subseteq HistoryIds /\ cleanPC' \in {"none", "stop", "delete", "done"}
    BY <1>8 DEF SyncGetMessage, Others, TypeOK, WatchOK
  <2> QED BY <2>1, <2>2, <2>3 DEF TypeOK
<1>9. ASSUME NEW m \in Msgs, SyncMessageGone(m) PROVE TypeOK'
  <2>1. DueOK' /\ SyncOK' /\ BoundsOK'
    <3>1. SyncError /\ UNCHANGED faults
      BY <1>9, NotRecognised DEF SyncMessageGone, HistoryNotFound
    <3>2. DueOK' /\ BoundsOK'
      BY <3>1 DEF SyncError, Others, TypeOK, DueOK, BoundsOK
    <3> QED BY <3>1, <3>2, SyncResetOK DEF SyncError
  <2>2. MailboxOK' /\ PushOK' /\ StoredOK' /\ WatchOK'
    BY <1>9, Frames, NotRecognised DEF SyncMessageGone, HistoryNotFound, SyncError, SyncReset, Others, TypeOK
  <2>3. acked' \subseteq HistoryIds /\ cleanPC' \in {"none", "stop", "delete", "done"}
    BY <1>9, NotRecognised DEF SyncMessageGone, HistoryNotFound, SyncError, SyncReset, Others, TypeOK, WatchOK
  <2> QED BY <2>1, <2>2, <2>3 DEF TypeOK
<1>10. CASE SyncNextPage
  <2>1. DueOK' /\ SyncOK' /\ BoundsOK'
    BY <1>10 DEF SyncNextPage, PagesLeft, Others, TypeOK, MailboxOK, DueOK, SyncOK, BoundsOK
  <2>2. MailboxOK' /\ PushOK' /\ StoredOK' /\ WatchOK'
    BY <1>10, Frames DEF SyncNextPage, PagesLeft, Others, TypeOK
  <2>3. acked' \subseteq HistoryIds /\ cleanPC' \in {"none", "stop", "delete", "done"}
    BY <1>10 DEF SyncNextPage, PagesLeft, Others, TypeOK, WatchOK
  <2> QED BY <2>1, <2>2, <2>3 DEF TypeOK
<1>11. CASE SyncPageLimit
  <2>1. DueOK' /\ SyncOK' /\ BoundsOK'
    <3>1. DueOK' /\ BoundsOK'
      BY <1>11 DEF SyncPageLimit, SyncError, Others, TypeOK, DueOK, BoundsOK
    <3> QED BY <1>11, <3>1, SyncResetOK DEF SyncPageLimit, SyncError
  <2>2. MailboxOK' /\ PushOK' /\ StoredOK' /\ WatchOK'
    BY <1>11, Frames DEF SyncPageLimit, SyncError, SyncReset, Others, TypeOK
  <2>3. acked' \subseteq HistoryIds /\ cleanPC' \in {"none", "stop", "delete", "done"}
    BY <1>11 DEF SyncPageLimit, SyncError, SyncReset, Others, TypeOK, WatchOK
  <2> QED BY <2>1, <2>2, <2>3 DEF TypeOK
<1>12. CASE SyncCommit
  <2>1. StoredOK' /\ SyncOK'
    <3>1. StoredOK'
      BY <1>12 DEF SyncCommit, NewCursor, TypeOK, StoredOK, SyncOK
    <3> QED BY <1>12, <3>1, SyncResetOK DEF SyncCommit
  <2>2. MailboxOK' /\ PushOK' /\ DueOK' /\ WatchOK' /\ BoundsOK'
    BY <1>12, Frames DEF SyncCommit, NewCursor, SyncReset, TypeOK
  <2>3. acked' \subseteq HistoryIds /\ cleanPC' \in {"none", "stop", "delete", "done"}
    BY <1>12 DEF SyncCommit, NewCursor, SyncReset, TypeOK, WatchOK
  <2> QED BY <2>1, <2>2, <2>3 DEF TypeOK
<1> QED
  BY <1>1, <1>2, <1>3, <1>4, <1>5, <1>6, <1>7, <1>8, <1>9, <1>10, <1>11, <1>12 DEF SyncStep

\* A step of gmail_watch, or of its timer, keeps the state well formed.
LEMMA WatchType == ASSUME TypeOK, RenewTimer \/ WatchStep \/ WatchFails PROVE TypeOK'
<1> USE BoundsAssumption DEF HistoryIds, None, Notes
<1>1. CASE RenewTimer
  <2>1. DueOK' /\ BoundsOK'
    BY <1>1 DEF RenewTimer, TypeOK, MailboxOK, DueOK, BoundsOK
  <2>2. MailboxOK' /\ PushOK' /\ StoredOK' /\ SyncOK' /\ WatchOK'
    BY <1>1, Frames DEF RenewTimer, TypeOK
  <2>3. acked' \subseteq HistoryIds /\ cleanPC' \in {"none", "stop", "delete", "done"}
    BY <1>1 DEF RenewTimer, TypeOK, WatchOK
  <2> QED BY <2>1, <2>2, <2>3 DEF TypeOK
<1>2. CASE WatchStart
  <2>1. WatchOK' /\ BoundsOK'
    BY <1>2 DEF WatchStart, WatchOthers, StoredOK, TypeOK, MailboxOK, WatchOK, BoundsOK
  <2>2. MailboxOK' /\ PushOK' /\ StoredOK' /\ DueOK' /\ SyncOK'
    BY <1>2, Frames DEF WatchStart, WatchOthers, StoredOK, TypeOK
  <2>3. acked' \subseteq HistoryIds /\ cleanPC' \in {"none", "stop", "delete", "done"}
    BY <1>2 DEF WatchStart, WatchOthers, StoredOK, TypeOK, WatchOK
  <2> QED BY <2>1, <2>2, <2>3 DEF TypeOK
<1>3. CASE WatchFails
  <2>1. WatchOK' /\ BoundsOK'
    BY <1>3, WatchResetOK DEF WatchFails, Fault, WatchError, WatchOthers, TypeOK, BoundsOK
  <2>2. MailboxOK' /\ PushOK' /\ StoredOK' /\ DueOK' /\ SyncOK'
    BY <1>3, Frames DEF WatchFails, Fault, WatchError, WatchReset, WatchOthers, TypeOK
  <2>3. acked' \subseteq HistoryIds /\ cleanPC' \in {"none", "stop", "delete", "done"}
    BY <1>3 DEF WatchFails, Fault, WatchError, WatchReset, WatchOthers, TypeOK, WatchOK
  <2> QED BY <2>1, <2>2, <2>3 DEF TypeOK
<1>4. CASE WatchEnsureTopic
  <2>1. PushOK' /\ WatchOK' /\ BoundsOK'
    <3>1. CASE topicUp /\ ~BackgroundErrorIs(409)
      <4>1. WatchError /\ UNCHANGED faults
        BY <1>4, <3>1 DEF WatchEnsureTopic
      <4> QED BY <4>1, WatchResetOK, Frames DEF WatchError, WatchOthers, TypeOK, BoundsOK
    <3>2. CASE ~(topicUp /\ ~BackgroundErrorIs(409))
      BY <1>4, <3>2 DEF WatchEnsureTopic, WatchOthers, TypeOK, PushOK, WatchOK, BoundsOK
    <3> QED BY <3>1, <3>2
  <2>2. MailboxOK' /\ StoredOK' /\ DueOK' /\ SyncOK'
    BY <1>4, Frames DEF WatchEnsureTopic, WatchError, WatchReset, push, WatchOthers, TypeOK
  <2>3. acked' \subseteq HistoryIds /\ cleanPC' \in {"none", "stop", "delete", "done"}
    BY <1>4 DEF WatchEnsureTopic, WatchError, WatchReset, push, WatchOthers, TypeOK, WatchOK
  <2> QED BY <2>1, <2>2, <2>3 DEF TypeOK
<1>5. CASE WatchPolicy
  <2>1. WatchOK' /\ BoundsOK'
    BY <1>5 DEF WatchPolicy, WatchOthers, TypeOK, MailboxOK, WatchOK, BoundsOK
  <2>2. MailboxOK' /\ PushOK' /\ StoredOK' /\ DueOK' /\ SyncOK'
    BY <1>5, Frames DEF WatchPolicy, WatchOthers, TypeOK
  <2>3. acked' \subseteq HistoryIds /\ cleanPC' \in {"none", "stop", "delete", "done"}
    BY <1>5 DEF WatchPolicy, WatchOthers, TypeOK, WatchOK
  <2> QED BY <2>1, <2>2, <2>3 DEF TypeOK
<1>6. CASE WatchEnsureSubscription
  <2>1. PushOK' /\ WatchOK' /\ BoundsOK'
    <3>1. CASE subUp /\ ~BackgroundErrorIs(409)
      <4>1. WatchError /\ UNCHANGED faults
        BY <1>6, <3>1 DEF WatchEnsureSubscription
      <4> QED BY <4>1, WatchResetOK, Frames DEF WatchError, WatchOthers, TypeOK, BoundsOK
    <3>2. CASE ~(subUp /\ ~BackgroundErrorIs(409))
      BY <1>6, <3>2 DEF WatchEnsureSubscription, WatchOthers, TypeOK, PushOK, WatchOK, BoundsOK
    <3> QED BY <3>1, <3>2
  <2>2. MailboxOK' /\ StoredOK' /\ DueOK' /\ SyncOK'
    BY <1>6, Frames DEF WatchEnsureSubscription, WatchError, WatchReset, push, WatchOthers, TypeOK
  <2>3. acked' \subseteq HistoryIds /\ cleanPC' \in {"none", "stop", "delete", "done"}
    BY <1>6 DEF WatchEnsureSubscription, WatchError, WatchReset, push, WatchOthers, TypeOK, WatchOK
  <2> QED BY <2>1, <2>2, <2>3 DEF TypeOK
<1>7. CASE WatchRenew
  <2>1. PushOK' /\ WatchOK' /\ BoundsOK'
    BY <1>7 DEF WatchRenew, WatchOthers, TypeOK, MailboxOK, PushOK, WatchOK, BoundsOK
  <2>2. MailboxOK' /\ StoredOK' /\ DueOK' /\ SyncOK'
    BY <1>7, Frames DEF WatchRenew, WatchOthers, TypeOK
  <2>3. acked' \subseteq HistoryIds /\ cleanPC' \in {"none", "stop", "delete", "done"}
    BY <1>7 DEF WatchRenew, WatchOthers, TypeOK, WatchOK
  <2> QED BY <2>1, <2>2, <2>3 DEF TypeOK
<1>8. CASE WatchPull
  <2>1. WatchOK' /\ BoundsOK'
    BY <1>8 DEF WatchPull, PushOK, Wakes, WatchOthers, TypeOK, MailboxOK, WatchOK, BoundsOK
  <2>2. MailboxOK' /\ PushOK' /\ StoredOK' /\ DueOK' /\ SyncOK'
    BY <1>8, Frames DEF WatchPull, PushOK, Wakes, WatchOthers, TypeOK
  <2>3. acked' \subseteq HistoryIds /\ cleanPC' \in {"none", "stop", "delete", "done"}
    BY <1>8 DEF WatchPull, PushOK, Wakes, WatchOthers, TypeOK, WatchOK
  <2> QED BY <2>1, <2>2, <2>3 DEF TypeOK
<1>9. CASE WatchCommit
  <2>1. DueOK' /\ WatchOK' /\ BoundsOK'
    <3>1. DueOK' /\ BoundsOK'
      BY <1>9 DEF WatchCommit, WatchOthers, TypeOK, DueOK, BoundsOK, WatchOK
    <3>2. CASE watchAcks = {}
      BY <1>9, <3>1, <3>2, WatchResetOK DEF WatchCommit
    <3>3. CASE watchAcks # {}
      BY <1>9, <3>1, <3>3 DEF WatchCommit, TypeOK, WatchOK
    <3> QED BY <3>2, <3>3
  <2>2. MailboxOK' /\ PushOK' /\ StoredOK' /\ SyncOK'
    BY <1>9, Frames DEF WatchCommit, WatchReset, WatchOthers, TypeOK
  <2>3. acked' \subseteq HistoryIds /\ cleanPC' \in {"none", "stop", "delete", "done"}
    BY <1>9 DEF WatchCommit, WatchReset, WatchOthers, TypeOK, WatchOK
  <2> QED BY <2>1, <2>2, <2>3 DEF TypeOK
<1>10. CASE WatchAcknowledge
  <2>1. PushOK' /\ WatchOK' /\ BoundsOK'
    <3>1. PushOK' /\ BoundsOK'
      BY <1>10 DEF WatchAcknowledge, WatchOthers, TypeOK, PushOK, BoundsOK
    <3> QED BY <1>10, <3>1, WatchResetOK DEF WatchAcknowledge
  <2>2. MailboxOK' /\ StoredOK' /\ DueOK' /\ SyncOK'
    BY <1>10, Frames DEF WatchAcknowledge, WatchReset, WatchOthers, TypeOK
  <2>3. acked' \subseteq HistoryIds /\ cleanPC' \in {"none", "stop", "delete", "done"}
    BY <1>10 DEF WatchAcknowledge, WatchReset, WatchOthers, TypeOK, WatchOK
  <2> QED BY <2>1, <2>2, <2>3 DEF TypeOK
<1> QED
  BY <1>1, <1>2, <1>3, <1>4, <1>5, <1>6, <1>7, <1>8, <1>9, <1>10 DEF WatchStep

\* A disconnection, a cleanup step or a crash keeps the state well formed.
LEMMA CleanupType == ASSUME TypeOK, Disconnect \/ CleanupStep \/ CleanupFails \/ Crash PROVE TypeOK'
<1> USE BoundsAssumption DEF HistoryIds, None, Notes
<1>1. CASE Disconnect
  <2>1. StoredOK'
    BY <1>1 DEF Disconnect, TypeOK, MailboxOK, StoredOK
  <2>2. MailboxOK' /\ PushOK' /\ DueOK' /\ SyncOK' /\ WatchOK' /\ BoundsOK'
    BY <1>1, Frames DEF Disconnect, TypeOK
  <2>3. acked' \subseteq HistoryIds /\ cleanPC' \in {"none", "stop", "delete", "done"}
    BY <1>1 DEF Disconnect, TypeOK, WatchOK
  <2> QED BY <2>1, <2>2, <2>3 DEF TypeOK
<1>2. CASE CleanupStop
  <2>1. PushOK' /\ BoundsOK'
    BY <1>2 DEF CleanupStop, CleanFrame, TypeOK, MailboxOK, PushOK, BoundsOK
  <2>2. MailboxOK' /\ StoredOK' /\ DueOK' /\ SyncOK' /\ WatchOK'
    BY <1>2, Frames DEF CleanupStop, CleanFrame, TypeOK
  <2>3. acked' \subseteq HistoryIds /\ cleanPC' \in {"none", "stop", "delete", "done"}
    BY <1>2 DEF CleanupStop, CleanFrame, TypeOK, WatchOK
  <2> QED BY <2>1, <2>2, <2>3 DEF TypeOK
<1>3. CASE CleanupDelete
  <2>1. PushOK' /\ BoundsOK'
    BY <1>3 DEF CleanupDelete, CleanFrame, TypeOK, MailboxOK, PushOK, BoundsOK
  <2>2. MailboxOK' /\ StoredOK' /\ DueOK' /\ SyncOK' /\ WatchOK'
    BY <1>3, Frames DEF CleanupDelete, CleanFrame, TypeOK
  <2>3. acked' \subseteq HistoryIds /\ cleanPC' \in {"none", "stop", "delete", "done"}
    BY <1>3 DEF CleanupDelete, CleanFrame, TypeOK, WatchOK
  <2> QED BY <2>1, <2>2, <2>3 DEF TypeOK
<1>4. CASE CleanupFails
  <2>1. PushOK' /\ BoundsOK'
    <3>1. BoundsOK'
      BY <1>4 DEF CleanupFails, Fault, CleanFrame, TypeOK, BoundsOK
    <3>2. PushOK'
      BY <1>4, Zenon DEF CleanupFails, CleanFrame, TypeOK, PushOK
    <3> QED BY <3>1, <3>2
  <2>2. MailboxOK' /\ StoredOK' /\ DueOK' /\ SyncOK' /\ WatchOK'
    BY <1>4, Frames DEF CleanupFails, AfterCleanupError, Fault, CleanFrame, TypeOK
  <2>3. acked' \subseteq HistoryIds /\ cleanPC' \in {"none", "stop", "delete", "done"}
    BY <1>4 DEF CleanupFails, AfterCleanupError, Fault, CleanFrame, TypeOK, WatchOK
  <2> QED BY <2>1, <2>2, <2>3 DEF TypeOK
<1>5. CASE Crash
  <2>1. DueOK' /\ SyncOK' /\ WatchOK' /\ BoundsOK'
    <3>1. DueOK' /\ BoundsOK'
      BY <1>5 DEF Crash, Fault, TypeOK, DueOK, BoundsOK
    <3> QED BY <1>5, <3>1, SyncResetOK, WatchResetOK DEF Crash
  <2>2. MailboxOK' /\ PushOK' /\ StoredOK'
    BY <1>5, Frames DEF Crash, Fault, SyncReset, WatchReset, TypeOK
  <2>3. acked' \subseteq HistoryIds /\ cleanPC' \in {"none", "stop", "delete", "done"}
    BY <1>5 DEF Crash, Fault, SyncReset, WatchReset, TypeOK, WatchOK
  <2> QED BY <2>1, <2>2, <2>3 DEF TypeOK
<1> QED
  BY <1>1, <1>2, <1>3, <1>4, <1>5 DEF CleanupStep

\* The initial state is well formed.
LEMMA InitType == ASSUME Init PROVE TypeOK
<1> USE DEF Init, None
<1>1. MailboxOK /\ StoredOK /\ BoundsOK
  BY BoundsAssumption DEF MailboxOK, StoredOK, BoundsOK, HistoryIds
<1>2. PushOK /\ DueOK
  BY Zenon DEF PushOK, DueOK
<1>3. 0 \in 0..MaxHistory /\ 0 \in 0..(MaxPages - 1)
  BY BoundsAssumption
<1>4. SyncOK /\ WatchOK
  BY <1>3, Zenon DEF SyncOK, WatchOK
<1> QED
  BY <1>1, <1>2, <1>4, Zenon DEF TypeOK

\* Every step keeps the state well formed.
LEMMA TypeStep == ASSUME TypeOK, [Next]_vars PROVE TypeOK'
<1>1. CASE UNCHANGED vars
  BY <1>1, Frames DEF TypeOK, vars
<1> QED
  BY <1>1, MailboxType, SyncType, WatchType, CleanupType DEF Next

\* The state of the ingestion is well formed.
THEOREM TypeCorrect == Spec => []TypeOK
BY InitType, TypeStep, PTL DEF Spec

-----------------------------------------------------------------------------
(* What each actor leaves alone.                                           *)

\* The mailbox moves its history forward and takes messages out of the inbox, or puts new
\* ones in with an id of their own; it touches nothing that Runtime or a task keeps.
LEMMA MailboxEffect ==
  ASSUME TypeOK, HistoryInv, MailboxNext
  PROVE  /\ UNCHANGED <<stored, acked, due, sync, watch, cleanPC, bounds>>
         /\ head' \in HistoryIds /\ head <= head'
         /\ \A m \in Msgs : added'[m] = added[m] \/ (added'[m] = head' /\ head < head')
         /\ \A m \in inbox' : m \in inbox \/ (added'[m] = head' /\ head < head')
<1> USE BoundsAssumption DEF TypeOK, MailboxOK, HistoryIds
<1>1. ASSUME NEW m \in Msgs, Arrive(m) PROVE UNCHANGED <<stored, acked, due, sync, watch, cleanPC, bounds>>
      /\ head' = head + 1 /\ head < MaxHistory
      /\ added' = [added EXCEPT ![m] = head + 1] /\ inbox' = inbox \cup {m}
  BY <1>1 DEF Arrive, MailboxChange
<1>2. ASSUME NEW m \in Msgs, Archive(m) \/ Delete(m)
      PROVE  UNCHANGED <<stored, acked, due, sync, watch, cleanPC, bounds>>
             /\ head' = head + 1 /\ head < MaxHistory /\ added' = added /\ inbox' = inbox \ {m}
  BY <1>2 DEF Archive, Delete, MailboxChange
<1>3. ASSUME Expire \/ Junk \/ WatchLapses
      PROVE  UNCHANGED <<stored, acked, due, sync, watch, cleanPC, bounds>>
             /\ head' = head /\ added' = added /\ inbox' = inbox
  BY <1>3 DEF Expire, Junk, WatchLapses, mailbox
<1>4. ASSUME NEW m \in Msgs, Arrive(m) PROVE
      /\ \A k \in Msgs : added'[k] = added[k] \/ added'[k] = head'
      /\ \A k \in inbox' : k \in inbox \/ added'[k] = head'
  BY <1>1, <1>4
<1> QED
  BY <1>1, <1>2, <1>3, <1>4 DEF MailboxNext

\* gmail_sync leaves the rest alone; only its commit touches what Runtime stored.
LEMMA SyncEffect ==
  ASSUME SyncTimer \/ SyncStep \/ SyncFails
  PROVE  /\ UNCHANGED <<mailbox, push, active, acked, watch, cleanPC>>
         /\ SyncCommit \/ UNCHANGED stored
<1>1. ASSUME NEW m \in Msgs, SyncGetMessage(m) \/ SyncMessageGone(m)
      PROVE UNCHANGED <<mailbox, push, stored, acked, watch, cleanPC>>
  BY <1>1, NotRecognised DEF SyncGetMessage, SyncMessageGone, HistoryNotFound, SyncError, Others
<1>2. ASSUME SyncTimer \/ SyncStart \/ SyncFails \/ SyncProfile \/ SyncHistoryExpired
      PROVE UNCHANGED <<mailbox, push, stored, acked, watch, cleanPC>>
  BY <1>2, NotRecognised DEF SyncTimer, SyncStart, SyncFails, SyncProfile, SyncHistoryExpired,
     HistoryNotFound, SyncError, Others
<1>3. ASSUME SyncHistoryPage \/ SyncList \/ SyncNextPage \/ SyncPageLimit
      PROVE UNCHANGED <<mailbox, push, stored, acked, watch, cleanPC>>
  BY <1>3 DEF SyncHistoryPage, SyncList, SyncNextPage, SyncPageLimit, SyncError, Others
<1>4. ASSUME SyncCommit PROVE UNCHANGED <<mailbox, push, active, acked, watch, cleanPC>>
  BY <1>4 DEF SyncCommit
<1> QED
  BY <1>1, <1>2, <1>3, <1>4 DEF SyncStep, stored

\* gmail_watch leaves the mailbox, the sync task and what they stored alone.
LEMMA WatchEffect ==
  ASSUME RenewTimer \/ WatchStep \/ WatchFails
  PROVE  UNCHANGED <<mailbox, stored, sync, cleanPC>>
BY DEF WatchStep, RenewTimer, WatchFails, WatchStart, WatchEnsureTopic, WatchPolicy,
   WatchEnsureSubscription, WatchRenew, WatchPull, WatchCommit, WatchAcknowledge, WatchError, WatchOthers

\* Disconnection and cleanup change neither the mailbox, nor a run, nor what was stored of it.
LEMMA CleanupEffect ==
  ASSUME Disconnect \/ CleanupStep \/ CleanupFails
  PROVE  UNCHANGED <<mailbox, cursor, base, delivered, acked, sync, watch>>
BY DEF Disconnect, CleanupStep, CleanupStop, CleanupDelete, CleanupFails, CleanFrame, stored

\* A crash loses the runs and nothing that Runtime stored.
LEMMA CrashEffect ==
  ASSUME Crash
  PROVE  /\ UNCHANGED <<mailbox, push, stored, acked>>
         /\ syncPC' = "idle" /\ watchPC' = "idle" /\ watchSeen' = None /\ watchAcks' = {}
         /\ cleanPC' = IF cleanPC = "delete" THEN "stop" ELSE cleanPC
BY DEF Crash, SyncReset, WatchReset

-----------------------------------------------------------------------------
(* Preservation of the parts of IngestInv.                                 *)

\* What a run returns as its cursor lies between the one it started from and the mailbox's.
LEMMA CommitMovesForward ==
  ASSUME TypeOK, HistoryInv, RunInv, SyncCommit
  PROVE  cursor' \in 0..MaxHistory /\ cursor <= cursor' /\ cursor' <= head
<1> USE DEF TypeOK, MailboxOK, StoredOK, SyncOK, HistoryInv, HistoryIds, None
<1>1. cursor' = syncFinal
  BY DEF SyncCommit, NewCursor
<1>2. CASE syncPC = "fetch"
  BY <1>1, <1>2 DEF RunInv
<1>3. CASE syncPC = "listed"
  BY <1>1, <1>3 DEF RunInv
<1> QED
  BY <1>2, <1>3 DEF SyncCommit

\* Every step keeps arrivals and the cursor at or below the mailbox's current history id.
LEMMA HistoryStep ==
  ASSUME TypeOK, TypeOK', HistoryInv, RunInv, [Next]_vars
  PROVE  HistoryInv'
<1> USE DEF TypeOK, MailboxOK, StoredOK, HistoryInv, HistoryIds, mailbox, stored
<1>1. CASE MailboxNext
  <2>1. cursor' = cursor
    BY <1>1, MailboxEffect
  <2> QED BY <1>1, <2>1, MailboxEffect
<1>2. CASE SyncTimer \/ SyncStep \/ SyncFails
  <2>1. UNCHANGED <<head, added>>
    BY <1>2, SyncEffect
  <2>2. CASE SyncCommit
    BY <2>1, <2>2, CommitMovesForward
  <2>3. CASE UNCHANGED stored
    BY <2>1, <2>3
  <2> QED BY <1>2, <2>2, <2>3, SyncEffect
<1>3. CASE RenewTimer \/ WatchStep \/ WatchFails
  BY <1>3, WatchEffect
<1>4. CASE Disconnect \/ CleanupStep \/ CleanupFails
  BY <1>4, CleanupEffect
<1>5. CASE Crash
  BY <1>5, CrashEffect
<1>6. CASE UNCHANGED vars
  BY <1>6 DEF vars
<1> QED
  BY <1>1, <1>2, <1>3, <1>4, <1>5, <1>6 DEF Next

\* Every step keeps what is, or is about to be, acknowledged at or below the cursor.
LEMMA AckStep ==
  ASSUME TypeOK, TypeOK', HistoryInv, RunInv, AckInv, [Next]_vars
  PROVE  AckInv'
<1> USE DEF TypeOK, StoredOK, WatchOK, AckInv, HistoryIds
<1>1. CASE MailboxNext
  BY <1>1, MailboxEffect DEF stored, watch
<1>2. CASE SyncTimer \/ SyncStep \/ SyncFails
  <2>1. UNCHANGED <<watch, acked>>
    BY <1>2, SyncEffect
  <2>2. cursor <= cursor'
    BY <1>2, SyncEffect, CommitMovesForward DEF stored
  <2> QED BY <2>1, <2>2 DEF watch
<1>3. CASE RenewTimer \/ WatchStep \/ WatchFails
  <2>1. cursor' = cursor
    BY <1>3, WatchEffect DEF stored
  <2>2. CASE WatchReset /\ UNCHANGED acked
    BY <2>1, <2>2 DEF WatchReset, None
  <2>3. CASE UNCHANGED <<watchSeen, watchAcks, acked>>
    BY <2>1, <2>3
  <2>4. CASE WatchStart
    BY <2>1, <2>4, BoundsAssumption DEF WatchStart
  <2>5. CASE WatchPull
    <3>1. watchSeen' = watchSeen /\ acked' = acked
      BY <2>5 DEF WatchPull
    <3>2. \A n \in watchAcks' \cap HistoryIds : Ackable(n, watchSeen)
      BY <2>5 DEF WatchPull
    <3>3. \A n \in watchAcks' \cap HistoryIds : n <= watchSeen
      BY <3>2, JunkAssumption, BoundsAssumption DEF Ackable, historyAtLeast
    <3> QED BY <2>1, <3>1, <3>3
  <2>6. CASE WatchAcknowledge
    <3>1. acked' = acked \cup (watchAcks \cap HistoryIds) /\ watchSeen' = None /\ watchAcks' = {}
      BY <2>6 DEF WatchAcknowledge, WatchReset
    <3> QED BY <2>1, <3>1, BoundsAssumption DEF None
  <2>7. RenewTimer \/ WatchPolicy \/ WatchRenew => UNCHANGED <<watchSeen, watchAcks, acked>>
    BY DEF RenewTimer, WatchPolicy, WatchRenew, watch
  <2>8. WatchEnsureTopic \/ WatchEnsureSubscription \/ WatchCommit \/ WatchFails =>
          (WatchReset /\ UNCHANGED acked) \/ UNCHANGED <<watchSeen, watchAcks, acked>>
    BY DEF WatchEnsureTopic, WatchEnsureSubscription, WatchCommit, WatchFails, WatchError
  <2> QED BY <1>3, <2>2, <2>3, <2>4, <2>5, <2>6, <2>7, <2>8 DEF WatchStep
<1>4. CASE Disconnect \/ CleanupStep \/ CleanupFails
  BY <1>4, CleanupEffect DEF watch
<1>5. CASE Crash
  BY <1>5, CrashEffect DEF stored, None
<1>6. CASE UNCHANGED vars
  BY <1>6 DEF vars, watch, stored
<1> QED
  BY <1>1, <1>2, <1>3, <1>4, <1>5, <1>6 DEF Next

\* The sync steps that end a run, or leave it as it is.
LEMMA RunEnds ==
  ASSUME SyncTimer \/ SyncFails \/ SyncHistoryExpired \/ SyncPageLimit \/ SyncCommit
         \/ \E m \in Msgs : SyncMessageGone(m)
  PROVE  SyncReset \/ UNCHANGED <<sync, stored>>
BY NotRecognised DEF SyncTimer, SyncFails, SyncHistoryExpired, SyncPageLimit, SyncCommit, SyncMessageGone,
   HistoryNotFound, SyncError, Others

\* Every step keeps the positions of a sync run in order.
LEMMA RunStep ==
  ASSUME TypeOK, TypeOK', HistoryInv, RunInv, [Next]_vars
  PROVE  RunInv'
<1> USE DEF TypeOK, MailboxOK, StoredOK, SyncOK, HistoryIds, mailbox, stored, sync
<1>1. CASE MailboxNext
  <2>1. UNCHANGED <<sync, cursor>> /\ head <= head'
    BY <1>1, MailboxEffect
  <2> QED BY <2>1 DEF RunInv
<1>2. CASE UNCHANGED <<head, cursor, sync>>
  BY <1>2 DEF RunInv
<1>3. CASE SyncReset
  BY <1>3 DEF RunInv, SyncReset
<1>4. CASE SyncStart
  BY <1>4 DEF SyncStart, RunInv, Others
<1>5. CASE SyncProfile
  <2>1. UNCHANGED <<head, cursor, syncStart, syncMore, syncTodo>> /\ syncPC = "profile"
    BY <1>5 DEF SyncProfile, Others
  <2>2. syncStart = cursor
    BY <2>1 DEF RunInv
  <2>3. CASE syncStart = None
    <3>1. /\ syncPC' \in {"list", "listed"} /\ syncProfile' = head
          /\ syncPos' = head /\ syncFinal' = head
      BY <1>5, <2>3 DEF SyncProfile
    <3>2. ~syncMore'
      BY <1>5 DEF SyncProfile, RunInv
    <3> QED BY <2>1, <2>2, <2>3, <3>1, <3>2 DEF RunInv
  <2>4. CASE syncStart # None
    BY <1>5, <2>1, <2>2, <2>4 DEF SyncProfile, FirstFinalID, RunInv, HistoryInv, None
  <2> QED BY <2>3, <2>4
<1>6. CASE SyncHistoryPage
  <2>1. /\ syncPC = "history" /\ syncPC' = "fetch"
        /\ UNCHANGED <<head, cursor, syncStart, syncFrom>>
    BY <1>6 DEF SyncHistoryPage, Others
  <2>2. syncStart = cursor /\ cursor # None /\ syncFrom = syncStart
    BY <2>1 DEF RunInv
  <2>3. syncPos' <= head /\ (~syncMore' => syncPos' = head)
    <3>1. PICK last \in syncPos..head : syncPos' = last /\ syncMore' = (last < head)
      BY <1>6 DEF SyncHistoryPage
    <3>2. ~syncMore' => ~(last < head)
      BY <3>1, Zenon
    <3>3. syncPos' <= head /\ (~(last < head) => syncPos' = head)
      BY <3>1
    <3> QED BY <3>2, <3>3
  <2>4. syncStart <= syncFinal' /\ syncFinal' <= head
    BY <1>6, <2>1, <2>2 DEF SyncHistoryPage, RunInv, HistoryInv
  <2>5. ~syncMore' => syncFinal' <= syncPos'
    BY <2>3, <2>4
  <2>6. /\ syncStart' = cursor' /\ cursor' # None /\ syncFrom' = syncStart'
        /\ syncStart' <= syncFinal' /\ syncFinal' <= head' /\ syncPos' <= head'
    BY <2>1, <2>2, <2>3, <2>4
  <2> HIDE DEF TypeOK, MailboxOK, StoredOK, SyncOK, HistoryIds
  <2> QED BY <2>1, <2>5, <2>6 DEF RunInv
<1>7. CASE SyncList
  BY <1>7 DEF SyncList, RunInv, HistoryInv, Others
<1>8. ASSUME NEW m \in Msgs, SyncGetMessage(m) PROVE RunInv'
  BY <1>8 DEF SyncGetMessage, RunInv, Others
<1>9. CASE SyncNextPage
  BY <1>9 DEF SyncNextPage, PageDone, RunInv, Others
<1>10. CASE Disconnect \/ CleanupStep \/ CleanupFails
  BY <1>2, <1>10, CleanupEffect
<1>11. CASE RenewTimer \/ WatchStep \/ WatchFails
  BY <1>2, <1>11, WatchEffect
<1>12. CASE SyncTimer \/ SyncFails \/ SyncHistoryExpired \/ SyncPageLimit \/ SyncCommit
            \/ \E m \in Msgs : SyncMessageGone(m)
  BY <1>2, <1>3, <1>12, RunEnds, SyncEffect DEF SyncStep
<1> QED
  BY <1>1, <1>2, <1>3, <1>4, <1>5, <1>6, <1>7, <1>8, <1>9, <1>10, <1>11, <1>12, CrashEffect
     DEF Next, SyncStep, vars, Crash

\* Every step keeps a sync run's promise: what it has passed is in its events or still to fetch.
LEMMA CoversStep ==
  ASSUME TypeOK, TypeOK', HistoryInv, RunInv, RunCovers, [Next]_vars
  PROVE  RunCovers'
<1> USE DEF TypeOK, MailboxOK, SyncOK, HistoryIds, mailbox, sync
<1>1. CASE MailboxNext
  <2>1. UNCHANGED sync
    BY <1>1, MailboxEffect
  <2>2. syncPC \in {"history", "fetch", "listed"} => syncPos <= head
    BY DEF RunInv
  <2> SUFFICES ASSUME syncPC \in {"history", "fetch", "listed"}, NEW m \in inbox',
                      syncFrom < added'[m], added'[m] <= syncPos
               PROVE  m \in syncTodo \cup syncEvents
    BY <2>1 DEF RunCovers
  <2>3. added'[m] = added[m] /\ m \in inbox
    BY <1>1, <2>2, MailboxEffect
  <2> QED BY <2>3 DEF RunCovers
<1>2. CASE UNCHANGED <<mailbox, sync>>
  BY <1>2 DEF RunCovers
<1>3. CASE SyncReset
  BY <1>3 DEF RunCovers, SyncReset
<1>4. CASE SyncStart
  BY <1>4 DEF SyncStart, RunCovers
<1>5. CASE SyncProfile
  <2>1. syncPC' \in {"history", "listed"} => syncFrom' = syncPos'
    BY <1>5 DEF SyncProfile
  <2>2. UNCHANGED <<inbox, added>> /\ syncPC' # "fetch"
    BY <1>5 DEF SyncProfile, Others
  <2> QED BY <2>1, <2>2 DEF RunCovers
<1>6. CASE SyncHistoryPage
  <2>1. UNCHANGED <<inbox, added, syncFrom, syncEvents>> /\ syncPC = "history"
    BY <1>6 DEF SyncHistoryPage, Others
  <2>2. \A m \in inbox : syncPos < added[m] /\ added[m] <= syncPos' => m \in syncTodo'
    BY <1>6 DEF SyncHistoryPage, HistoryAfter
  <2>3. \A m \in inbox : syncFrom < added[m] /\ added[m] <= syncPos => m \in syncEvents
    BY <2>1 DEF RunCovers, RunInv
  <2>4. \A m \in inbox : added[m] \in Nat
    OBVIOUS
  <2> QED BY <2>1, <2>2, <2>3, <2>4 DEF RunCovers
<1>7. CASE SyncList
  <2>1. UNCHANGED <<inbox, added>>
    BY <1>7 DEF SyncList, Others
  <2>2. PICK listed \in SUBSET inbox :
          syncTodo' = listed /\ syncFrom' = IF listed = inbox THEN None ELSE syncProfile
    BY <1>7 DEF SyncList
  <2>3. CASE listed = inbox
    BY <2>1, <2>2, <2>3 DEF RunCovers
  <2>4. CASE listed # inbox
    BY <1>7, <2>1, <2>2, <2>4 DEF SyncList, RunCovers
  <2> QED BY <2>3, <2>4
<1>8. ASSUME NEW m \in Msgs, SyncGetMessage(m) PROVE RunCovers'
  BY <1>8 DEF SyncGetMessage, RunCovers, Others
<1>9. CASE SyncNextPage
  BY <1>9 DEF SyncNextPage, PageDone, RunCovers, Others
<1>10. CASE Disconnect \/ CleanupStep \/ CleanupFails
  BY <1>2, <1>10, CleanupEffect
<1>11. CASE RenewTimer \/ WatchStep \/ WatchFails
  BY <1>2, <1>11, WatchEffect
<1>12. CASE SyncTimer \/ SyncFails \/ SyncHistoryExpired \/ SyncPageLimit \/ SyncCommit
            \/ \E m \in Msgs : SyncMessageGone(m)
  BY <1>2, <1>3, <1>12, RunEnds, SyncEffect DEF SyncStep
<1> QED
  BY <1>1, <1>2, <1>3, <1>4, <1>5, <1>6, <1>7, <1>8, <1>9, <1>10, <1>11, <1>12
     DEF Next, SyncStep, vars, Crash

\* The commit of a run, and it alone, moves the cursor: over what the run covers.
LEMMA CursorStep ==
  ASSUME TypeOK, TypeOK', HistoryInv, RunInv, RunCovers, CursorCoversDelivered, [Next]_vars
  PROVE  CursorCoversDelivered'
<1> USE DEF TypeOK, MailboxOK, StoredOK, SyncOK, HistoryIds, mailbox, stored
<1>1. CASE MailboxNext
  <2>1. UNCHANGED stored
    BY <1>1, MailboxEffect
  <2> SUFFICES ASSUME cursor # None, NEW m \in Msgs, m \in inbox', base < added'[m], added'[m] <= cursor
               PROVE  m \in delivered
    BY <2>1 DEF CursorCoversDelivered, Promised
  <2>2. added'[m] = added[m] /\ m \in inbox
    BY <1>1, MailboxEffect DEF HistoryInv
  <2> QED BY <2>2 DEF CursorCoversDelivered, Promised
<1>2. CASE UNCHANGED <<inbox, added, cursor, base, delivered>>
  BY <1>2 DEF CursorCoversDelivered, Promised
<1>3. CASE SyncCommit
  <2>1. /\ UNCHANGED <<inbox, added>>
        /\ cursor' = syncFinal /\ base' = IF cursor = None THEN syncFrom ELSE base
        /\ delivered' = delivered \cup syncEvents
        /\ syncTodo = {} /\ ~syncMore /\ syncPC \in {"fetch", "listed"}
    BY <1>3 DEF SyncCommit, NewCursor, MorePages
  <2>2. \A m \in inbox : syncFrom < added[m] /\ added[m] <= syncFinal => m \in syncEvents
    <3>1. syncFinal <= syncPos
      BY <2>1 DEF RunInv
    <3>2. \A m \in inbox : added[m] \in Nat
      OBVIOUS
    <3> QED BY <2>1, <3>1, <3>2 DEF RunCovers
  <2>3. CASE cursor = None
    BY <2>1, <2>2, <2>3 DEF CursorCoversDelivered, Promised
  <2>4. CASE cursor # None
    <3>1. syncPC = "fetch" /\ syncFrom = cursor
      BY <2>1, <2>4 DEF RunInv
    <3> SUFFICES ASSUME NEW m \in inbox, base < added[m], added[m] <= syncFinal
                 PROVE  m \in delivered \cup syncEvents
      BY <2>1, <2>4 DEF CursorCoversDelivered, Promised
    <3>2. CASE added[m] <= cursor
      BY <2>4, <3>2 DEF CursorCoversDelivered, Promised
    <3>3. CASE cursor < added[m]
      BY <2>2, <3>1, <3>3
    <3> QED BY <3>2, <3>3
  <2> QED BY <2>3, <2>4
<1>4. CASE SyncTimer \/ SyncStep \/ SyncFails
  BY <1>2, <1>3, <1>4, SyncEffect
<1>5. CASE RenewTimer \/ WatchStep \/ WatchFails
  BY <1>2, <1>5, WatchEffect
<1>6. CASE Disconnect \/ CleanupStep \/ CleanupFails
  BY <1>2, <1>6, CleanupEffect
<1>7. CASE Crash
  BY <1>2, <1>7, CrashEffect
<1>8. CASE UNCHANGED vars
  BY <1>2, <1>8 DEF vars
<1> QED
  BY <1>1, <1>4, <1>5, <1>6, <1>7, <1>8 DEF Next

\* Cleanup starts when no task runs; from then on nothing publishes once the watch is
\* stopped, and nothing re-creates the subscription.
LEMMA CleanStep ==
  ASSUME TypeOK, CleanInv, [Next]_vars
  PROVE  CleanInv'
<1> USE DEF CleanInv
<1>1. CASE MailboxNext
  <2>1. UNCHANGED <<active, watchPC, cleanPC, subUp>> /\ (watchLive' = watchLive \/ watchLive' = FALSE)
    BY <1>1 DEF MailboxNext, Arrive, Archive, Delete, Expire, Junk, WatchLapses, MailboxChange,
       stored, watch, push
  <2>2. queue' = queue \/ subUp
    BY <1>1 DEF MailboxNext, Arrive, Archive, Delete, Expire, Junk, WatchLapses, MailboxChange, Publish, push
  <2> QED BY <2>1, <2>2
<1>2. CASE SyncTimer \/ SyncStep \/ SyncFails
  BY <1>2, SyncEffect DEF push, watch
<1>3. CASE RenewTimer
  BY <1>3 DEF RenewTimer, push, stored, watch
<1>4. CASE WatchStart
  BY <1>4 DEF WatchStart, WatchOthers, push, stored
<1>5. CASE WatchEnsureTopic \/ WatchPolicy \/ WatchEnsureSubscription \/ WatchRenew \/ WatchPull
           \/ WatchCommit \/ WatchAcknowledge \/ WatchFails
  <2>1. watchPC # "idle" /\ UNCHANGED <<active, cleanPC>>
    BY <1>5, WatchEffect DEF WatchEnsureTopic, WatchPolicy, WatchEnsureSubscription, WatchRenew, WatchPull,
       WatchCommit, WatchAcknowledge, WatchFails, WatchStep, stored
  <2>2. cleanPC = "none" /\ WatchEnabled
    BY <2>1, BoundsAssumption
  <2> QED BY <2>1, <2>2
<1>6. CASE Disconnect
  BY <1>6, BoundsAssumption DEF Disconnect, push, watch
<1>7. CASE CleanupStop
  BY <1>7 DEF CleanupStop, CleanFrame, stored, watch
<1>8. CASE CleanupDelete
  BY <1>8 DEF CleanupDelete, CleanFrame, stored, watch
<1>9. CASE CleanupFails
  <2>1. UNCHANGED <<active, watchPC>> /\ cleanPC # "none" /\ cleanPC' = "stop"
    BY <1>9 DEF CleanupFails, AfterCleanupError, CleanFrame, stored, watch
  <2>2. /\ watchLive' = watchLive \/ watchLive' = FALSE
        /\ subUp' = subUp \/ subUp' = FALSE
        /\ queue' = queue \/ queue' = {}
    BY <1>9 DEF CleanupFails
  <2> QED BY <2>1, <2>2
<1>10. CASE Crash
  <2>1. UNCHANGED <<push, active>> /\ watchPC' = "idle"
        /\ cleanPC' = IF cleanPC = "delete" THEN "stop" ELSE cleanPC
    BY <1>10, CrashEffect DEF stored
  <2> QED BY <2>1 DEF push
<1>11. CASE UNCHANGED vars
  BY <1>11 DEF vars, push, stored, watch
<1> QED
  BY <1>1, <1>2, <1>3, <1>4, <1>5, <1>6, <1>7, <1>8, <1>9, <1>10, <1>11
     DEF Next, WatchStep, CleanupStep

\* The inductive invariant.
LEMMA Invariance == Spec => []IngestInv
<1>1. ASSUME Init PROVE IngestInv
  <2>1. HistoryInv /\ RunInv /\ RunCovers /\ AckInv /\ CursorCoversDelivered
    BY <1>1 DEF Init, HistoryInv, RunInv, RunCovers, AckInv, CursorCoversDelivered, None
  <2>2. CleanInv
    BY <1>1 DEF Init, CleanInv
  <2> QED BY <1>1, <2>1, <2>2, InitType DEF IngestInv
<1>2. IngestInv /\ [Next]_vars => IngestInv'
  BY TypeStep, HistoryStep, RunStep, CoversStep, AckStep, CleanStep, CursorStep DEF IngestInv
<1> QED
  BY <1>1, <1>2, PTL DEF Spec

\* No message that is still in the inbox is passed over by the persisted cursor.
THEOREM NothingPassedOver == Spec => []CursorCoversDelivered
BY Invariance, PTL DEF IngestInv

\* A notification is acknowledged only when the messages it announces are stored.
THEOREM AckSafety == Spec => []AckedOnlyIfDelivered
<1>1. IngestInv => AckedOnlyIfDelivered
  <2> SUFFICES ASSUME IngestInv, NEW h \in acked, NEW m \in Msgs, Promised(m, h) PROVE m \in delivered
    BY DEF AckedOnlyIfDelivered
  <2>1. h \in HistoryIds /\ h <= cursor /\ cursor \in Nat /\ added[m] \in Nat
    BY BoundsAssumption DEF IngestInv, TypeOK, StoredOK, MailboxOK, AckInv, HistoryIds
  <2>2. cursor # None /\ Promised(m, cursor)
    BY <2>1, BoundsAssumption DEF Promised, HistoryIds, None
  <2> QED BY <2>2 DEF IngestInv, CursorCoversDelivered
<1> QED
  BY <1>1, Invariance, PTL

\* The persisted cursor never goes back.
THEOREM CursorMonotone == Spec => CursorNeverRetreats
<1>1. IngestInv /\ [Next]_vars => [cursor' >= cursor]_vars
  <2> SUFFICES ASSUME IngestInv, Next PROVE cursor' >= cursor
    OBVIOUS
  <2> USE DEF IngestInv, TypeOK, StoredOK
  <2>1. CASE SyncCommit
    BY <2>1, CommitMovesForward
  <2>2. CASE UNCHANGED cursor
    BY <2>2
  <2>3. MailboxNext => UNCHANGED cursor
    BY MailboxEffect DEF stored
  <2>4. SyncTimer \/ SyncStep \/ SyncFails => SyncCommit \/ UNCHANGED cursor
    BY SyncEffect DEF stored
  <2>5. RenewTimer \/ WatchStep \/ WatchFails => UNCHANGED cursor
    BY WatchEffect DEF stored
  <2>6. Disconnect \/ CleanupStep \/ CleanupFails \/ Crash => UNCHANGED cursor
    BY CleanupEffect, CrashEffect DEF stored
  <2> QED BY <2>1, <2>2, <2>3, <2>4, <2>5, <2>6 DEF Next
<1> QED
  BY <1>1, Invariance, PTL DEF Spec, CursorNeverRetreats

\* A cleanup that reports success leaves nothing behind.
THEOREM CleanupLeavesNothing == Spec => []CleanedUp
<1>1. IngestInv => CleanedUp
  BY DEF IngestInv, CleanInv, CleanedUp
<1> QED
  BY <1>1, Invariance, PTL
-----------------------------------------------------------------------------
(* What the unrecognised status codes make of a connection, whatever the   *)
(* constants: two states it never leaves.                                  *)

\* The cursor has expired, and the run at hand, if there is one, has yet to read its history.
GapStuck == cursor # None /\ cursor < floor /\ syncPC \in {"idle", "profile", "history"}

\* The topic exists, the watch is due for renewal, and no run has passed the topic.
RenewalStuck ==
  topicUp /\ renewDue /\ watchPC \notin {"policy", "subscription", "renew"} /\ ~watchRenewed

\* A sync run of an expired cursor ends where it began: history answers 404, which is an error.
LEMMA GapSync ==
  ASSUME IngestInv, GapStuck, SyncTimer \/ SyncStep \/ SyncFails
  PROVE  syncPC' \in {"idle", "profile", "history"} /\ UNCHANGED stored
<1> USE DEF GapStuck
<1>1. syncTodo = {} /\ (syncPC # "idle" => syncStart = cursor)
  BY DEF IngestInv, RunInv
<1>2. ~SyncHistoryPage
  <2>1. cursor \in Nat /\ floor \in Nat
    BY BoundsAssumption DEF IngestInv, TypeOK, MailboxOK, StoredOK, HistoryIds
  <2> QED BY <1>1, <2>1 DEF SyncHistoryPage
<1>3. ~SyncCommit /\ ~SyncList /\ ~SyncNextPage /\ ~SyncPageLimit
  BY DEF SyncCommit, SyncList, SyncNextPage, SyncPageLimit, PageDone
<1>4. \A m \in Msgs : ~SyncGetMessage(m) /\ ~SyncMessageGone(m)
  BY <1>1 DEF SyncGetMessage, SyncMessageGone
<1>5. CASE SyncTimer \/ SyncStart
  BY <1>5 DEF SyncTimer, SyncStart, Others, sync
<1>6. CASE SyncProfile
  BY <1>1, <1>6 DEF SyncProfile, Others
<1>7. CASE SyncHistoryExpired \/ SyncFails
  BY <1>7, NotRecognised DEF SyncHistoryExpired, HistoryNotFound, SyncFails, SyncError, SyncReset, Others
<1> QED
  BY <1>2, <1>3, <1>4, <1>5, <1>6, <1>7 DEF SyncStep

\* Gmail never takes back what it forgot.
LEMMA FloorGrows ==
  ASSUME TypeOK, MailboxNext
  PROVE  floor <= floor'
<1>1. floor \in Nat /\ head \in Nat
  BY BoundsAssumption DEF TypeOK, MailboxOK, HistoryIds
<1>2. ASSUME Expire PROVE floor <= floor'
  BY <1>1, <1>2 DEF Expire
<1>3. ASSUME Junk \/ WatchLapses PROVE floor' = floor
  BY <1>3 DEF Junk, WatchLapses, mailbox
<1>4. ASSUME NEW m \in Msgs, Arrive(m) \/ Archive(m) \/ Delete(m) PROVE floor' = floor
  BY <1>4 DEF Arrive, Archive, Delete, MailboxChange
<1> QED
  BY <1>1, <1>2, <1>3, <1>4 DEF MailboxNext

\* Once a run finds the cursor expired there is no reconciliation (processGmailSync tests for
\* "http_status_404", execute says "google.http_404"): the cursor stays expired for good and
\* no event is ever stored again.
THEOREM GapStays ==
  Spec => [](GapStuck => []GapStuck) /\ [][GapStuck => UNCHANGED <<cursor, delivered>>]_vars
<1>1. ASSUME IngestInv, GapStuck, [Next]_vars PROVE GapStuck' /\ UNCHANGED <<cursor, delivered>>
  <2>1. cursor \in Nat /\ floor \in Nat
    BY <1>1, BoundsAssumption DEF IngestInv, TypeOK, MailboxOK, StoredOK, HistoryIds
  <2>2. CASE MailboxNext
    <3>1. floor <= floor'
      BY <1>1, <2>2, FloorGrows DEF IngestInv
    <3>2. UNCHANGED <<cursor, delivered, syncPC>>
      BY <1>1, <2>2, MailboxEffect DEF IngestInv, stored, sync
    <3>3. floor' \in Nat
      BY <1>1, <2>2, TypeStep, BoundsAssumption DEF IngestInv, Next, TypeOK, MailboxOK, HistoryIds
    <3> QED BY <1>1, <2>1, <3>1, <3>2, <3>3 DEF GapStuck
  <2>3. CASE SyncTimer \/ SyncStep \/ SyncFails
    BY <1>1, <2>3, GapSync, SyncEffect DEF GapStuck, stored, mailbox
  <2>4. CASE RenewTimer \/ WatchStep \/ WatchFails
    BY <1>1, <2>4, WatchEffect DEF GapStuck, stored, mailbox, sync
  <2>5. CASE Disconnect \/ CleanupStep \/ CleanupFails
    BY <1>1, <2>5, CleanupEffect DEF GapStuck, mailbox, sync
  <2>6. CASE Crash
    BY <1>1, <2>6, CrashEffect DEF GapStuck, stored, mailbox
  <2>7. CASE UNCHANGED vars
    BY <1>1, <2>7 DEF GapStuck, vars, stored, mailbox, sync
  <2> QED BY <1>1, <2>2, <2>3, <2>4, <2>5, <2>6, <2>7 DEF Next
<1>2. IngestInv /\ GapStuck /\ [Next]_vars => GapStuck'
  BY <1>1
<1>3. IngestInv /\ [Next]_vars => [GapStuck => UNCHANGED <<cursor, delivered>>]_vars
  BY <1>1
<1> QED
  BY <1>2, <1>3, Invariance, PTL DEF Spec

\* gmail_sync does not touch the watch's renewal time.
LEMMA SyncKeepsRenewal ==
  ASSUME SyncTimer \/ SyncStep \/ SyncFails
  PROVE  UNCHANGED renewDue
<1>1. ASSUME NEW m \in Msgs, SyncGetMessage(m) \/ SyncMessageGone(m) PROVE UNCHANGED renewDue
  BY <1>1, NotRecognised DEF SyncGetMessage, SyncMessageGone, HistoryNotFound, SyncError, Others
<1>2. ASSUME SyncTimer \/ SyncStart \/ SyncFails \/ SyncProfile \/ SyncHistoryExpired
      PROVE UNCHANGED renewDue
  BY <1>2, NotRecognised DEF SyncTimer, SyncStart, SyncFails, SyncProfile, SyncHistoryExpired,
     HistoryNotFound, SyncError, Others
<1>3. ASSUME SyncHistoryPage \/ SyncList \/ SyncNextPage \/ SyncPageLimit \/ SyncCommit
      PROVE UNCHANGED renewDue
  BY <1>3 DEF SyncHistoryPage, SyncList, SyncNextPage, SyncPageLimit, SyncCommit, SyncError, Others, due
<1> QED
  BY <1>1, <1>2, <1>3 DEF SyncStep

\* A renewal that finds the topic in place ends there: the PUT answers 409, which is an error.
LEMMA RenewalWatch ==
  ASSUME RenewalStuck, RenewTimer \/ WatchStep \/ WatchFails
  PROVE  RenewalStuck' /\ (~watchLive => ~watchLive')
<1> USE DEF RenewalStuck
<1>1. ~RenewTimer /\ ~WatchPolicy /\ ~WatchEnsureSubscription /\ ~WatchRenew
  BY DEF RenewTimer, WatchPolicy, WatchEnsureSubscription, WatchRenew
<1>2. CASE WatchStart
  BY <1>2 DEF WatchStart, push, due
<1>3. CASE WatchEnsureTopic \/ WatchFails
  <2>1. WatchError
    BY <1>3, NotRecognised DEF WatchEnsureTopic, WatchFails
  <2> QED BY <2>1 DEF WatchError, WatchReset, push, due
<1>4. CASE WatchPull
  BY <1>4 DEF WatchPull, push, due
<1>5. CASE WatchCommit
  BY <1>5 DEF WatchCommit, WatchReset, push
<1>6. CASE WatchAcknowledge
  BY <1>6 DEF WatchAcknowledge, WatchReset, due
<1> QED
  BY <1>1, <1>2, <1>3, <1>4, <1>5, <1>6 DEF WatchStep

\* A watch whose topic exists is never renewed again (ensureGmailPubSub tests for
\* "http_status_409", execute says "google.http_409"): it stays due for good, and once Gmail
\* lets it lapse no notification of this mailbox is published any more.
THEOREM RenewalStays ==
  Spec => [](RenewalStuck => []RenewalStuck) /\ [](RenewalStuck /\ ~watchLive => []~watchLive)
<1>1. ASSUME IngestInv, RenewalStuck, [Next]_vars PROVE RenewalStuck' /\ (~watchLive => ~watchLive')
  <2> USE <1>1 DEF RenewalStuck
  <2>1. CASE MailboxNext
    <3>1. UNCHANGED <<due, watch>>
      BY <2>1, MailboxEffect DEF IngestInv
    <3>2. ASSUME NEW m \in Msgs, Arrive(m) \/ Archive(m) \/ Delete(m)
          PROVE  UNCHANGED <<topicUp, watchLive>>
      BY <3>2 DEF Arrive, Archive, Delete, MailboxChange
    <3>3. ASSUME Expire \/ Junk \/ WatchLapses
          PROVE  UNCHANGED topicUp /\ (UNCHANGED watchLive \/ watchLive' = FALSE)
      <4>1. Expire => UNCHANGED <<topicUp, watchLive>>
        BY DEF Expire, push
      <4>2. Junk => UNCHANGED <<topicUp, watchLive>>
        BY DEF Junk
      <4>3. WatchLapses => UNCHANGED topicUp /\ watchLive' = FALSE
        BY DEF WatchLapses
      <4> QED BY <3>3, <4>1, <4>2, <4>3
    <3>4. UNCHANGED topicUp /\ (UNCHANGED watchLive \/ watchLive' = FALSE)
      BY <2>1, <3>2, <3>3 DEF MailboxNext
    <3>5. RenewalStuck'
      BY <3>1, <3>4 DEF due, watch
    <3>6. ~watchLive => ~watchLive'
      BY <3>4
    <3> QED BY <3>5, <3>6
  <2>2. CASE SyncTimer \/ SyncStep \/ SyncFails
    <3>1. UNCHANGED <<push, watch>>
      BY <2>2, SyncEffect
    <3>2. UNCHANGED renewDue
      BY <2>2, SyncKeepsRenewal
    <3> QED BY <3>1, <3>2 DEF push, watch
  <2>3. CASE RenewTimer \/ WatchStep \/ WatchFails
    BY <2>3, RenewalWatch
  <2>4. CASE Disconnect \/ CleanupStep \/ CleanupFails
    <3>1. UNCHANGED <<topicUp, due, watch>>
      BY <2>4 DEF Disconnect, CleanupStep, CleanupStop, CleanupDelete, CleanupFails, CleanFrame, push
    <3>2. UNCHANGED watchLive \/ watchLive' = FALSE
      BY <2>4 DEF Disconnect, CleanupStep, CleanupStop, CleanupDelete, CleanupFails, push
    <3> QED BY <3>1, <3>2 DEF due, watch
  <2>5. CASE Crash
    BY <2>5 DEF Crash, WatchReset, push
  <2>6. CASE UNCHANGED vars
    BY <2>6 DEF vars, push, due, watch
  <2> QED BY <2>1, <2>2, <2>3, <2>4, <2>5, <2>6 DEF Next
<1>2. IngestInv /\ RenewalStuck /\ [Next]_vars => RenewalStuck'
  BY <1>1
<1>3. IngestInv /\ RenewalStuck /\ ~watchLive /\ [Next]_vars => ~watchLive'
  BY <1>1
<1> QED
  BY <1>2, <1>3, Invariance, PTL DEF Spec
=============================================================================
