----------------------- MODULE IngestContract_proofs -----------------------
(***************************************************************************)
(* GmailIngest implements DurableIngest: every call of a run, every change *)
(* of the mailbox and every crash is a step of the contract or changes     *)
(* nothing that the contract speaks of.                                    *)
(***************************************************************************)
EXTENDS GmailIngest_proofs

Arrived == {m \in Msgs : added[m] # None}

\* What is read or stored has arrived.
ArrivedInv ==
  /\ inbox \subseteq Arrived /\ gone \subseteq Arrived
  /\ syncTodo \subseteq Arrived /\ syncEvents \subseteq Arrived /\ delivered \subseteq Arrived

\* Ingestion begins at or below the mark, also where a first run is about to begin it.
BeginInv ==
  /\ base <= cursor
  /\ syncPC \in {"list", "listed"} => syncProfile # None
  /\ syncPC = "listed" => syncFrom <= syncProfile

ImplInv == IngestInv /\ ArrivedInv /\ BeginInv

-----------------------------------------------------------------------------
(* Preservation of what the refinement needs beyond IngestInv.             *)

\* What has arrived stays so, and only gmail_sync changes what is read and stored.
LEMMA ArrivedStep ==
  ASSUME IngestInv, ArrivedInv, [Next]_vars
  PROVE  ArrivedInv'
<1> USE DEF IngestInv, TypeOK, MailboxOK, SyncOK, StoredOK
<1>1. ASSUME NEW m \in Msgs, Arrive(m) \/ Archive(m) \/ Delete(m) PROVE ArrivedInv'
  <2>1. /\ Arrived \subseteq Arrived' /\ UNCHANGED <<stored, sync>>
    BY <1>1, BoundsAssumption DEF Arrive, Archive, Delete, MailboxChange, Arrived, None, HistoryIds
  <2>2. inbox' \subseteq Arrived' /\ gone' \subseteq Arrived'
    <3>1. CASE Arrive(m)
      <4>1. m \in Arrived' /\ inbox' = inbox \cup {m} /\ gone' = gone
        BY <3>1 DEF Arrive, MailboxChange, Arrived, None, HistoryIds
      <4> QED BY <2>1, <4>1 DEF ArrivedInv
    <3>2. CASE Archive(m)
      BY <2>1, <3>2 DEF Archive, ArrivedInv
    <3>3. CASE Delete(m)
      <4>1. m \in Arrived /\ inbox' = inbox \ {m} /\ gone' = gone \cup {m}
        BY <3>3 DEF Delete, Arrived
      <4> QED BY <2>1, <4>1 DEF ArrivedInv
    <3> QED BY <1>1, <3>1, <3>2, <3>3
  <2> QED BY <2>1, <2>2 DEF ArrivedInv, stored, sync
<1>2. CASE UNCHANGED <<added, inbox, gone, delivered, syncTodo, syncEvents>>
  BY <1>2 DEF ArrivedInv, Arrived
<1>3. CASE Expire \/ Junk \/ WatchLapses
  BY <1>2, <1>3 DEF Expire, Junk, WatchLapses, mailbox, stored, sync
<1>4. ASSUME SyncReset, UNCHANGED <<added, inbox, gone>>,
             delivered' = delivered \/ delivered' = delivered \cup syncEvents
      PROVE  ArrivedInv'
  <2>1. syncTodo' = {} /\ syncEvents' = {} /\ Arrived' = Arrived
    BY <1>4 DEF SyncReset, Arrived
  <2> QED BY <1>4, <2>1 DEF ArrivedInv
<1>5. CASE SyncTimer \/ SyncFails \/ SyncHistoryExpired \/ SyncPageLimit \/ SyncCommit
            \/ \E m \in Msgs : SyncMessageGone(m)
  <2>1. UNCHANGED <<added, inbox, gone>>
    BY <1>5, SyncEffect DEF SyncStep, mailbox
  <2>2. CASE SyncCommit
    BY <1>4, <2>1, <2>2 DEF SyncCommit
  <2>3. CASE ~SyncCommit
    <3>1. UNCHANGED stored
      BY <1>5, <2>3, SyncEffect DEF SyncStep
    <3> QED BY <1>2, <1>4, <1>5, <2>1, <3>1, RunEnds DEF stored, sync
  <2> QED BY <2>2, <2>3
<1>6. CASE SyncStart \/ SyncProfile \/ SyncNextPage
  BY <1>2, <1>6 DEF SyncStart, SyncProfile, SyncNextPage, Others, mailbox, stored
<1>7. CASE SyncHistoryPage
  <2>1. UNCHANGED <<added, inbox, gone, delivered, syncEvents>>
    BY <1>7 DEF SyncHistoryPage, Others, mailbox, stored
  <2>2. syncTodo' \subseteq inbox \cup gone
    BY <1>7 DEF SyncHistoryPage, HistoryAfter
  <2> QED BY <2>1, <2>2 DEF ArrivedInv, Arrived
<1>8. CASE SyncList
  <2>1. UNCHANGED <<added, inbox, gone, delivered, syncEvents>>
    BY <1>8 DEF SyncList, Others, mailbox, stored
  <2>2. syncTodo' \subseteq inbox
    BY <1>8 DEF SyncList
  <2> QED BY <2>1, <2>2 DEF ArrivedInv, Arrived
<1>9. ASSUME NEW m \in Msgs, SyncGetMessage(m) PROVE ArrivedInv'
  <2>1. UNCHANGED <<added, inbox, gone, delivered>> /\ syncTodo' \subseteq syncTodo
        /\ syncEvents' \subseteq syncEvents \cup syncTodo
    BY <1>9 DEF SyncGetMessage, Others, mailbox, stored
  <2> QED BY <2>1 DEF ArrivedInv, Arrived
<1>10. CASE RenewTimer \/ WatchStep \/ WatchFails
  BY <1>2, <1>10, WatchEffect DEF mailbox, stored, sync
<1>11. CASE Disconnect \/ CleanupStep \/ CleanupFails
  BY <1>2, <1>11, CleanupEffect DEF mailbox, sync
<1>12. CASE Crash
  BY <1>4, <1>12, CrashEffect DEF Crash, mailbox, stored
<1>13. CASE UNCHANGED vars
  BY <1>2, <1>13 DEF vars, mailbox, stored, sync
<1> QED
  BY <1>1, <1>3, <1>5, <1>6, <1>7, <1>8, <1>9, <1>10, <1>11, <1>12, <1>13
     DEF Next, MailboxNext, SyncStep

\* What a commit makes of the start and the mark.
LEMMA CommitBegins ==
  ASSUME IngestInv, BeginInv, SyncCommit
  PROVE  base' <= cursor' /\ cursor' # None
<1> USE DEF IngestInv, TypeOK, StoredOK, SyncOK, None
<1>1. cursor' = syncFinal /\ base' = IF cursor = None THEN syncFrom ELSE base
  BY DEF SyncCommit, NewCursor
<1>2. CASE syncPC = "fetch"
  <2>1. cursor # None /\ cursor <= syncFinal
    BY <1>2 DEF RunInv
  <2> QED BY <1>1, <2>1 DEF BeginInv
<1>3. CASE syncPC = "listed"
  BY <1>1, <1>3 DEF RunInv, BeginInv
<1> QED
  BY <1>2, <1>3 DEF SyncCommit

\* A first run begins at the history id of the profile, or before everything.
LEMMA BeginStep ==
  ASSUME IngestInv, BeginInv, [Next]_vars
  PROVE  BeginInv'
<1> USE DEF IngestInv, TypeOK, MailboxOK, StoredOK, SyncOK, HistoryIds, None
<1>1. CASE UNCHANGED <<base, cursor, syncPC, syncProfile, syncFrom>>
  BY <1>1 DEF BeginInv
<1>2. CASE MailboxNext
  BY <1>1, <1>2, MailboxEffect DEF stored, sync
<1>3. CASE SyncReset /\ UNCHANGED <<base, cursor>>
  BY <1>3 DEF BeginInv, SyncReset
<1>4. CASE SyncCommit
  BY <1>4, CommitBegins DEF BeginInv, SyncCommit, SyncReset
<1>5. CASE SyncTimer \/ SyncFails \/ SyncHistoryExpired \/ SyncPageLimit
            \/ \E m \in Msgs : SyncMessageGone(m)
  BY <1>1, <1>3, <1>4, <1>5, RunEnds, SyncEffect DEF SyncStep, stored, sync
<1>6. CASE SyncStart \/ SyncNextPage \/ SyncHistoryPage
  BY <1>6 DEF SyncStart, SyncNextPage, SyncHistoryPage, Others, stored, BeginInv
<1>7. CASE SyncProfile
  <2>1. UNCHANGED <<base, cursor>> /\ syncProfile' = head
        /\ (syncPC' = "listed" => syncFrom' = head) /\ syncPC' \in {"history", "list", "listed"}
    BY <1>7 DEF SyncProfile, Others, stored
  <2> QED BY <2>1 DEF BeginInv
<1>8. CASE SyncList
  <2>1. UNCHANGED <<base, cursor, syncProfile>> /\ syncPC = "list"
        /\ syncFrom' \in {None, syncProfile}
    BY <1>8 DEF SyncList, Others, stored
  <2> QED BY <2>1 DEF BeginInv
<1>9. ASSUME NEW m \in Msgs, SyncGetMessage(m) PROVE BeginInv'
  BY <1>1, <1>9 DEF SyncGetMessage, Others, stored
<1>10. CASE RenewTimer \/ WatchStep \/ WatchFails
  BY <1>1, <1>10, WatchEffect DEF stored, sync
<1>11. CASE Disconnect \/ CleanupStep \/ CleanupFails
  BY <1>1, <1>11, CleanupEffect DEF sync
<1>12. CASE Crash
  BY <1>3, <1>12, CrashEffect DEF Crash, stored
<1>13. CASE UNCHANGED vars
  BY <1>1, <1>13 DEF vars, stored, sync
<1> QED
  BY <1>2, <1>4, <1>5, <1>6, <1>7, <1>8, <1>9, <1>10, <1>11, <1>12, <1>13 DEF Next, SyncStep

\* The invariant under which every step is one of the contract's.
LEMMA ImplInvariance == Spec => []ImplInv
<1>1. Init => ArrivedInv /\ BeginInv
  BY DEF Init, ArrivedInv, BeginInv, None
<1>2. IngestInv /\ ArrivedInv /\ BeginInv /\ [Next]_vars => ArrivedInv' /\ BeginInv'
  BY ArrivedStep, BeginStep
<1> QED
  BY <1>1, <1>2, Invariance, PTL DEF Spec, ImplInv

-----------------------------------------------------------------------------
(* The steps of the contract.                                              *)

promised == <<added, inbox, delivered, cursor, base, acked>>

\* A message that arrives is received with an id beyond all others and the mark.
LEMMA ArriveReceives ==
  ASSUME ImplInv, NEW m \in Msgs, Arrive(m)
  PROVE  Contract!Receive(m)
<1> USE DEF ImplInv, IngestInv, TypeOK, MailboxOK, StoredOK, HistoryIds
<1>1. head + 1 \in HistoryIds /\ head + 1 > cursor /\ \A k \in Msgs : added[k] < head + 1
  BY BoundsAssumption DEF Arrive, MailboxChange, HistoryInv
<1>2. /\ added[m] = 0 /\ added' = [added EXCEPT ![m] = head + 1] /\ inbox' = inbox \cup {m}
      /\ UNCHANGED <<delivered, cursor, base, acked>>
  BY DEF Arrive, MailboxChange, stored, None
<1> QED
  BY <1>1, <1>2 DEF Contract!Receive

\* The commit of a run moves the mark over what is stored.
LEMMA CommitAdvances ==
  ASSUME ImplInv, ImplInv', SyncCommit
  PROVE  Contract!Advance
<1> USE DEF ImplInv, IngestInv, TypeOK, MailboxOK, StoredOK, SyncOK, HistoryIds
<1>1. UNCHANGED <<added, inbox, acked>> /\ delivered' = delivered \cup syncEvents
      /\ base' = IF cursor = None THEN syncFrom ELSE base
  BY DEF SyncCommit, mailbox
<1>2. cursor' \in HistoryIds /\ cursor' >= cursor
  BY CommitMovesForward, CommitBegins DEF None
<1>3. base' <= cursor' /\ (cursor # 0 => base' = base)
  BY <1>1, CommitBegins DEF None
<1>4. delivered \subseteq delivered' /\ delivered' \subseteq {m \in Msgs : added[m] # 0}
  BY <1>1 DEF ArrivedInv, Arrived, None
<1>5. Contract!Covered(base', cursor', delivered')
  <2>1. \A m \in inbox : base' < added[m] /\ added[m] <= cursor' => m \in delivered'
    BY <1>1, <1>2 DEF CursorCoversDelivered, Promised, None
  <2> QED BY <2>1 DEF Contract!Covered
<1> QED
  BY <1>1, <1>2, <1>3, <1>4, <1>5 DEF Contract!Advance

\* An acknowledgement settles notifications at or below the mark.
LEMMA AcknowledgeSettles ==
  ASSUME ImplInv, WatchAcknowledge
  PROVE  Contract!Settle
<1> USE DEF ImplInv, IngestInv, TypeOK, StoredOK, WatchOK, HistoryIds
<1>1. acked' = acked \cup (watchAcks \cap HistoryIds) /\ UNCHANGED <<added, inbox, delivered, cursor, base>>
  BY DEF WatchAcknowledge, WatchOthers, mailbox, stored
<1>2. \A n \in watchAcks \cap HistoryIds : n <= cursor
  BY DEF AckInv
<1> QED
  BY <1>1, <1>2 DEF Contract!Settle

\* Every step is one of the contract's or changes nothing it speaks of.
LEMMA StepImplements ==
  ASSUME ImplInv, ImplInv', [Next]_vars
  PROVE  Contract!Next \/ UNCHANGED promised
<1>1. ASSUME NEW m \in Msgs, Arrive(m) PROVE Contract!Next
  BY <1>1, ArriveReceives DEF Contract!Next
<1>2. ASSUME NEW m \in Msgs, Archive(m) \/ Delete(m) PROVE Contract!Next
  BY <1>2 DEF Archive, Delete, MailboxChange, stored, Contract!Next, Contract!Withdraw
<1>3. CASE Expire \/ Junk \/ WatchLapses
  BY <1>3 DEF Expire, Junk, WatchLapses, mailbox, stored, promised
<1>4. CASE SyncTimer \/ SyncStep \/ SyncFails
  <2>1. CASE SyncCommit
    BY <2>1, CommitAdvances DEF Contract!Next
  <2>2. CASE ~SyncCommit
    BY <1>4, <2>2, SyncEffect DEF mailbox, stored, promised
  <2> QED BY <2>1, <2>2
<1>5. CASE WatchAcknowledge
  BY <1>5, AcknowledgeSettles DEF Contract!Next
<1>6. CASE (RenewTimer \/ WatchStep \/ WatchFails) /\ ~WatchAcknowledge
  <2>1. UNCHANGED <<mailbox, stored>>
    BY <1>6, WatchEffect
  <2>2. UNCHANGED acked
    BY <1>6 DEF WatchStep, RenewTimer, WatchFails, WatchStart, WatchEnsureTopic, WatchPolicy,
       WatchEnsureSubscription, WatchRenew, WatchPull, WatchCommit, WatchError
  <2> QED BY <2>1, <2>2 DEF mailbox, stored, promised
<1>7. CASE Disconnect \/ CleanupStep \/ CleanupFails
  BY <1>7, CleanupEffect DEF mailbox, promised
<1>8. CASE Crash
  BY <1>8, CrashEffect DEF mailbox, stored, promised
<1>9. CASE UNCHANGED vars
  BY <1>9 DEF vars, mailbox, stored, promised
<1> QED
  BY <1>1, <1>2, <1>3, <1>4, <1>5, <1>6, <1>7, <1>8, <1>9 DEF Next, MailboxNext, WatchStep

\* GmailIngest implements DurableIngest (IngestContract): whatever calls processGmailSync and
\* processGmailWatch make, and wherever they fail or crash, Runtime sees a mark that moves
\* forward over stored or withdrawn messages only, and acknowledgements at or below it.
THEOREM ContractImplemented == Spec => IngestContract
<1>1. Init => Contract!Init
  BY DEF Init, Contract!Init, None
<1>2. ImplInv /\ ImplInv' /\ [Next]_vars => [Contract!Next]_(Contract!vars)
  BY StepImplements DEF promised, Contract!vars
<1> QED
  BY <1>1, <1>2, ImplInvariance, PTL DEF Spec, IngestContract, Contract!Spec
=============================================================================
