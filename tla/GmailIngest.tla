---------------------------- MODULE GmailIngest ----------------------------
(***************************************************************************)
(* The Gmail ingestion of the Google Workspace provider: the background    *)
(* tasks gmail_sync and gmail_watch and the cleanup of a disconnected      *)
(* connection, against a mailbox that changes between any two of their     *)
(* calls, a Pub/Sub subscription that redelivers what is not acknowledged, *)
(* and a Runtime that runs both tasks concurrently and may crash.          *)
(*                                                                         *)
(* One step is one provider call with the local computation after it.      *)
(* History ids are numbers, 0 the empty id.  Secrets are the subject of    *)
(* GoogleTokens: a call that fails for a token is one more failed call.    *)
(***************************************************************************)
EXTENDS Naturals, FiniteSets

CONSTANTS
  Msgs,         \* messages that may arrive in the mailbox
  MaxHistory,   \* bound: the highest history id the mailbox reaches
  PageSize,     \* messages on a history page ("limit": 100)
  MaxPages,     \* gmailMaxPages (20)
  ListLimit,    \* messages a bootstrap or a reconciliation lists (100)
  PullLimit,    \* notifications one pull returns ("max_messages": 25)
  Bootstrap,    \* gmail_ingest_bootstrap
  WatchEnabled, \* gmail_watch_enabled
  Polling,      \* whether the poll timer fires, or only WakeTasks wake the sync
  MaxRenewals,  \* bound: how often the 24 h renewal timer fires
  MaxFaults,    \* bound: failed calls, crashes and lost answers
  Environment,  \* which of EnvironmentEvents may happen
  Foreign,      \* a notification for another account: the topic is shared
  Malformed     \* a notification that does not decode

EnvironmentEvents == {"archive", "delete", "expire", "junk", "disconnect"}
HistoryIds == 1..MaxHistory
None == 0
Notes == HistoryIds \cup {Foreign, Malformed}

ASSUME BoundsAssumption ==
  /\ MaxHistory \in Nat \ {0} /\ PageSize \in Nat \ {0} /\ MaxPages \in Nat \ {0}
  /\ ListLimit \in Nat /\ PullLimit \in Nat /\ MaxRenewals \in Nat /\ MaxFaults \in Nat
  /\ Bootstrap \in BOOLEAN /\ WatchEnabled \in BOOLEAN /\ Polling \in BOOLEAN
  /\ Environment \subseteq EnvironmentEvents
ASSUME JunkAssumption == Foreign \notin Nat /\ Malformed \notin Nat /\ Foreign # Malformed

VARIABLES
  \* Gmail and Pub/Sub
  head,       \* the mailbox's current history id
  floor,      \* the oldest history id Gmail still answers from
  added,      \* message -> history id of its arrival, 0 before it
  inbox,      \* messages that have carried the label since they arrived
  gone,       \* messages deleted for good
  watchLive,  \* whether Gmail publishes this mailbox's changes
  topicUp,    \* whether the Pub/Sub topic exists
  subUp,      \* whether the subscription exists
  queue,      \* notifications not acknowledged
  \* what Runtime persists for the connection
  cursor,     \* history_id of the gmail_sync state
  base,       \* history: where ingestion began, what arrived earlier is not promised
  delivered,  \* messages whose event Runtime has stored (deduplicated by ExternalID)
  acked,      \* history: the mailbox's notifications acknowledged
  active,     \* connection.Status = "active"
  syncDue,    \* gmail_sync is due: NextDueAt passed, or a wake
  renewDue,   \* watchRenewalDue of the persisted gmail_watch state
  \* processGmailSync and its callees
  syncPC, syncStart, syncProfile, syncPos, syncPage, syncMore, syncFinal, syncTodo, syncEvents,
  syncFrom,   \* history: the run's events and todo cover (syncFrom, syncPos]
  \* processGmailWatch and its callees
  watchPC, watchSeen, watchRenewed, watchWake, watchAcks,
  cleanPC,    \* CleanupBackground
  faults, renewals   \* counters of the bounds

mailbox == <<head, floor, added, inbox, gone>>
push    == <<watchLive, topicUp, subUp, queue>>
stored  == <<cursor, base, delivered, active>>
due     == <<syncDue, renewDue>>
sync    == <<syncPC, syncStart, syncProfile, syncPos, syncPage, syncMore, syncFinal, syncTodo,
             syncEvents, syncFrom>>
watch   == <<watchPC, watchSeen, watchRenewed, watchWake, watchAcks>>
bounds  == <<faults, renewals>>
vars    == <<mailbox, push, stored, acked, due, sync, watch, cleanPC, bounds>>

-----------------------------------------------------------------------------
(* Error codes.  execute names a failed status "google.http_<status>";     *)
(* the background tasks test for "http_status_<status>".                   *)

StatusCodeAsTested(status) == <<"http_status_", status>>
StatusCode(status) == <<"google.http_", status>>
BackgroundErrorIs(status) == StatusCode(status) = StatusCodeAsTested(status)

-----------------------------------------------------------------------------
(* The mailbox and the notifications Gmail publishes.                      *)

Publish(h) == queue' = IF watchLive /\ subUp THEN queue \cup {h} ELSE queue

MailboxChange ==
  /\ head < MaxHistory
  /\ head' = head + 1
  /\ Publish(head + 1)
  /\ UNCHANGED <<floor, watchLive, topicUp, subUp, stored, acked, due, sync, watch, cleanPC, bounds>>

Arrive(m) ==
  /\ added[m] = None
  /\ added' = [added EXCEPT ![m] = head + 1]
  /\ inbox' = inbox \cup {m}
  /\ MailboxChange
  /\ UNCHANGED gone

Archive(m) ==
  /\ "archive" \in Environment
  /\ m \in inbox
  /\ inbox' = inbox \ {m}
  /\ MailboxChange
  /\ UNCHANGED <<added, gone>>

Delete(m) ==
  /\ "delete" \in Environment
  /\ added[m] # None /\ m \notin gone
  /\ inbox' = inbox \ {m}
  /\ gone' = gone \cup {m}
  /\ MailboxChange
  /\ UNCHANGED added

\* Gmail forgets old history: a later history call from before floor answers 404.
Expire ==
  /\ "expire" \in Environment
  /\ floor' \in (floor + 1)..head
  /\ UNCHANGED <<head, added, inbox, gone, push, stored, acked, due, sync, watch, cleanPC, bounds>>

\* Notifications that are not this mailbox's reach the subscription.
Junk ==
  /\ "junk" \in Environment
  /\ subUp
  /\ \E n \in {Foreign, Malformed} : queue' = queue \cup {n}
  /\ UNCHANGED <<mailbox, watchLive, topicUp, subUp, stored, acked, due, sync, watch, cleanPC, bounds>>

\* A watch that was not renewed stops: Gmail's expiration is days after the renewal time.
WatchLapses ==
  /\ renewDue /\ watchLive
  /\ watchLive' = FALSE
  /\ UNCHANGED <<mailbox, topicUp, subUp, queue, stored, acked, due, sync, watch, cleanPC, bounds>>

-----------------------------------------------------------------------------
(* gmail_sync.  A run that returns an error persists nothing; Runtime runs *)
(* the task again.                                                         *)

Fault == faults < MaxFaults /\ faults' = faults + 1

Others == <<mailbox, push, stored, acked, renewDue, watch, cleanPC, renewals>>

SyncReset ==
  /\ syncPC' = "idle"
  /\ syncStart' = None /\ syncProfile' = None /\ syncPos' = None
  /\ syncFinal' = None /\ syncFrom' = None
  /\ syncPage' = 0 /\ syncMore' = FALSE
  /\ syncTodo' = {} /\ syncEvents' = {}

SyncError ==
  /\ SyncReset
  /\ syncDue' = TRUE
  /\ UNCHANGED Others

SyncTimer ==
  /\ Polling /\ active /\ ~syncDue
  /\ syncDue' = TRUE
  /\ UNCHANGED <<Others, sync, faults>>

SyncStart ==
  /\ active /\ syncDue /\ syncPC = "idle"
  /\ syncPC' = "profile"
  /\ syncStart' = cursor
  /\ syncDue' = FALSE
  /\ UNCHANGED <<Others, syncProfile, syncPos, syncPage, syncMore, syncFinal, syncTodo, syncEvents,
                 syncFrom, faults>>

\* Any call may fail, with any classification: the run returns the error.
SyncFails ==
  /\ syncPC # "idle"
  /\ Fault
  /\ SyncError

\* Mutant: the loop's finalID starts empty.
FirstFinalIDEmpty(start) == None
FirstFinalID(start) == start

\* GmailGetProfile, read before anything is listed.  A first run takes its historyId for
\* the cursor, after a bootstrap if one is configured; any other run reads the history.
SyncProfile ==
  /\ syncPC = "profile"
  /\ syncProfile' = head
  /\ IF syncStart = None
       THEN /\ syncPC' = IF Bootstrap THEN "list" ELSE "listed"
            /\ syncPos' = head /\ syncFinal' = head /\ syncFrom' = head
       ELSE /\ syncPC' = "history"
            /\ syncPos' = syncStart /\ syncFinal' = FirstFinalID(syncStart) /\ syncFrom' = syncStart
  /\ UNCHANGED <<Others, syncDue, syncStart, syncPage, syncMore, syncTodo, syncEvents, faults>>

\* A 404 within gmailHistory, from the history call or from a message: the run turns to
\* reconciliation if the error is recognised, and returns it otherwise.
HistoryNotFound ==
  IF BackgroundErrorIs(404)
    THEN /\ syncPC' = "list"
         /\ syncTodo' = {} /\ syncEvents' = {} /\ syncMore' = FALSE
         /\ UNCHANGED <<Others, syncDue, syncStart, syncProfile, syncPos, syncPage, syncFinal, syncFrom>>
    ELSE SyncError

SyncHistoryExpired ==
  /\ syncPC = "history" /\ syncStart < floor
  /\ HistoryNotFound
  /\ UNCHANGED faults

\* The history records after a position: messages deleted since may be among them.
HistoryAfter(pos) ==
  {S \in SUBSET {m \in inbox \cup gone : added[m] > pos} : {m \in inbox : added[m] > pos} \subseteq S}

\* SyncEmailHistory: one page, up to history id last; every page carries the mailbox's
\* current historyId, which the loop keeps when it is there.
SyncHistoryPage ==
  /\ syncPC = "history" /\ syncStart >= floor
  /\ \E records \in HistoryAfter(syncPos), last \in syncPos..head :
       LET page == {m \in records : added[m] <= last} IN
       /\ Cardinality(page) <= PageSize
       /\ last < head => Cardinality(page) = PageSize /\ \E m \in page : added[m] = last
       /\ syncTodo' = page
       /\ syncPos' = last
       /\ syncMore' = (last < head)
  /\ syncPC' = "fetch"
  /\ \/ syncFinal' = head /\ UNCHANGED faults
     \/ syncFinal' = syncFinal /\ Fault
  /\ UNCHANGED <<Others, syncDue, syncStart, syncProfile, syncPage, syncEvents, syncFrom>>

\* GmailListMessages: one page of the messages that carry the label now, no paging.
SyncList ==
  /\ syncPC = "list"
  /\ \E listed \in SUBSET inbox :
       /\ Cardinality(listed) <= ListLimit
       /\ listed # inbox => Cardinality(listed) = ListLimit
       /\ syncTodo' = listed
       /\ syncFrom' = IF listed = inbox THEN None ELSE syncProfile
  /\ syncPos' = syncProfile /\ syncFinal' = syncProfile
  /\ syncPC' = "listed"
  /\ UNCHANGED <<Others, syncDue, syncStart, syncProfile, syncPage, syncMore, syncEvents, faults>>

\* GmailGetMessage for the next message of the page: an event when it still carries the
\* label, nothing when it lost it.
SyncGetMessage(m) ==
  /\ m \in syncTodo /\ \A k \in syncTodo : added[m] <= added[k]
  /\ m \notin gone
  /\ syncTodo' = syncTodo \ {m}
  /\ syncEvents' = IF m \in inbox THEN syncEvents \cup {m} ELSE syncEvents
  /\ UNCHANGED <<Others, syncDue, syncPC, syncStart, syncProfile, syncPos, syncPage, syncMore, syncFinal,
                 syncFrom, faults>>

\* The next message was deleted meanwhile: 404, whatever made the run ask for it.
SyncMessageGone(m) ==
  /\ m \in syncTodo /\ \A k \in syncTodo : added[m] <= added[k]
  /\ m \in gone
  /\ IF syncPC = "fetch" THEN HistoryNotFound ELSE SyncError
  /\ UNCHANGED faults

\* Mutant: only the first page is read.
MorePagesNever == FALSE
MorePages == syncMore

\* Mutants: the page limit is one page short, or is not there.
PagesLeftShort == syncPage + 2 < MaxPages
PagesLeftAlways == TRUE
PagesLeft == syncPage + 1 < MaxPages

PageDone == syncPC = "fetch" /\ syncTodo = {} /\ MorePages

SyncNextPage ==
  /\ PageDone
  /\ PagesLeft
  /\ syncPage' = syncPage + 1
  /\ syncPC' = "history"
  /\ UNCHANGED <<Others, syncDue, syncStart, syncProfile, syncPos, syncMore, syncFinal, syncTodo,
                 syncEvents, syncFrom, faults>>

\* gmail.page_limit_exceeded
SyncPageLimit ==
  /\ PageDone
  /\ ~PagesLeft
  /\ SyncError
  /\ UNCHANGED faults

\* Mutant: the mailbox's id at the end of the run becomes the cursor.
NewCursorLatest == head
NewCursor == syncFinal

\* The run's result, which Runtime stores as one: the state with its new cursor and the events.
SyncCommit ==
  /\ syncPC \in {"fetch", "listed"} /\ syncTodo = {} /\ ~MorePages
  /\ cursor' = NewCursor
  /\ base' = IF cursor = None THEN syncFrom ELSE base
  /\ delivered' = delivered \cup syncEvents
  /\ SyncReset
  /\ UNCHANGED <<mailbox, push, active, acked, due, watch, cleanPC, bounds>>

-----------------------------------------------------------------------------
(* gmail_watch: renew the watch when it is due, pull, and leave to Runtime *)
(* the acknowledgement of what is durably processed.                       *)

WatchOthers == <<mailbox, stored, sync, cleanPC, renewals>>

WatchReset ==
  /\ watchPC' = "idle"
  /\ watchSeen' = None
  /\ watchRenewed' = FALSE /\ watchWake' = FALSE
  /\ watchAcks' = {}

RenewTimer ==
  /\ ~renewDue /\ renewals < MaxRenewals
  /\ renewDue' = TRUE
  /\ renewals' = renewals + 1
  /\ UNCHANGED <<mailbox, push, stored, acked, syncDue, sync, watch, cleanPC, faults>>

\* RelatedStates hands the run a snapshot of the gmail_sync state.
WatchStart ==
  /\ active /\ WatchEnabled /\ watchPC = "idle"
  /\ watchPC' = IF renewDue THEN "topic" ELSE "pull"
  /\ watchSeen' = cursor
  /\ UNCHANGED <<WatchOthers, push, acked, due, watchRenewed, watchWake, watchAcks, faults>>

WatchError ==
  /\ WatchReset
  /\ UNCHANGED <<WatchOthers, push, acked, due>>

WatchFails ==
  /\ watchPC # "idle"
  /\ Fault
  /\ WatchError

\* PubSubEnsureTopic: a PUT, answered 409 when the topic exists.
WatchEnsureTopic ==
  /\ watchPC = "topic"
  /\ IF topicUp /\ ~BackgroundErrorIs(409)
       THEN WatchError
       ELSE /\ topicUp' = TRUE
            /\ watchPC' = "policy"
            /\ UNCHANGED <<WatchOthers, watchLive, subUp, queue, acked, due, watchSeen,
                           watchRenewed, watchWake, watchAcks>>
  /\ UNCHANGED faults

\* PubSubGetTopicPolicy and PubSubSetTopicPolicy; the policy itself is not tracked.
WatchPolicy ==
  /\ watchPC = "policy"
  /\ watchPC' = "subscription"
  /\ UNCHANGED <<WatchOthers, push, acked, due, watchSeen, watchRenewed, watchWake, watchAcks, faults>>

WatchEnsureSubscription ==
  /\ watchPC = "subscription"
  /\ IF subUp /\ ~BackgroundErrorIs(409)
       THEN WatchError
       ELSE /\ subUp' = TRUE
            /\ watchPC' = "renew"
            /\ UNCHANGED <<WatchOthers, watchLive, topicUp, queue, acked, due, watchSeen,
                           watchRenewed, watchWake, watchAcks>>
  /\ UNCHANGED faults

\* GmailWatch: Gmail publishes the current history id when a watch starts.
WatchRenew ==
  /\ watchPC = "renew"
  /\ watchLive' = TRUE
  /\ queue' = IF subUp THEN queue \cup {head} ELSE queue
  /\ watchRenewed' = TRUE
  /\ watchWake' = (watchSeen = None)
  /\ watchPC' = "pull"
  /\ UNCHANGED <<WatchOthers, topicUp, subUp, acked, due, watchSeen, watchAcks, faults>>

\* Mutant: off by one.
historyAlmost(current, notified) == current # None /\ current + 1 >= notified
historyAtLeast(current, notified) == current # None /\ current >= notified

\* What a run that saw the sync state at seen acknowledges.
Ackable(n, seen) ==
  \/ n = Malformed
  \/ n = Foreign /\ seen # None
  \/ n \in HistoryIds /\ historyAtLeast(seen, n)

\* Mutant: what is not acknowledged waits for the poll.
WakesNever(received) == FALSE
Wakes(received) == \E n \in received : ~Ackable(n, watchSeen)

WatchPull ==
  /\ watchPC = "pull" /\ subUp
  /\ \E received \in SUBSET queue :
       /\ Cardinality(received) <= PullLimit
       /\ received # queue => Cardinality(received) = PullLimit
       /\ watchAcks' = {n \in received : Ackable(n, watchSeen)}
       /\ watchWake' = (watchWake \/ Wakes(received))
  /\ watchPC' = "commit"
  /\ UNCHANGED <<WatchOthers, push, acked, due, watchSeen, watchRenewed, faults>>

\* Runtime stores the gmail_watch state and wakes the tasks, then runs the commits.
WatchCommit ==
  /\ watchPC = "commit"
  /\ renewDue' = (renewDue /\ ~watchRenewed)
  /\ syncDue' = (syncDue \/ watchWake)
  /\ IF watchAcks = {}
       THEN WatchReset
       ELSE /\ watchPC' = "ack"
            /\ UNCHANGED <<watchSeen, watchRenewed, watchWake, watchAcks>>
  /\ UNCHANGED <<WatchOthers, push, acked, faults>>

\* PubSubAcknowledge
WatchAcknowledge ==
  /\ watchPC = "ack"
  /\ queue' = queue \ watchAcks
  /\ acked' = acked \cup (watchAcks \cap HistoryIds)
  /\ WatchReset
  /\ UNCHANGED <<WatchOthers, watchLive, topicUp, subUp, due, faults>>

-----------------------------------------------------------------------------
(* Disconnection and crashes.                                              *)

\* Runtime disconnects the connection and, its tasks stopped, calls CleanupBackground.
Disconnect ==
  /\ "disconnect" \in Environment
  /\ active /\ syncPC = "idle" /\ watchPC = "idle"
  /\ active' = FALSE
  /\ cleanPC' = IF WatchEnabled THEN "stop" ELSE "done"
  /\ UNCHANGED <<mailbox, push, cursor, base, delivered, acked, due, sync, watch, bounds>>

CleanFrame == <<mailbox, topicUp, stored, acked, due, sync, watch, renewals>>

\* GmailStop
CleanupStop ==
  /\ cleanPC = "stop"
  /\ watchLive' = FALSE
  /\ cleanPC' = "delete"
  /\ UNCHANGED <<CleanFrame, subUp, queue, faults>>

\* PubSubDeleteSubscription: 404 when it is gone already, an error if not recognised.
CleanupDelete ==
  /\ cleanPC = "delete"
  /\ cleanPC' = IF subUp \/ BackgroundErrorIs(404) THEN "done" ELSE "stop"
  /\ subUp' = FALSE
  /\ queue' = {}
  /\ UNCHANGED <<CleanFrame, watchLive, faults>>

\* Mutant: errors are ignored.
AfterCleanupErrorIgnored(pc) == IF pc = "stop" THEN "delete" ELSE "done"
AfterCleanupError(pc) == "stop"

\* A cleanup call fails, with its effect or without: Runtime calls CleanupBackground again.
CleanupFails ==
  /\ cleanPC \in {"stop", "delete"}
  /\ Fault
  /\ cleanPC' = AfterCleanupError(cleanPC)
  /\ \/ UNCHANGED <<watchLive, subUp, queue>>
     \/ cleanPC = "stop" /\ watchLive' = FALSE /\ UNCHANGED <<subUp, queue>>
     \/ cleanPC = "delete" /\ subUp' = FALSE /\ queue' = {} /\ UNCHANGED watchLive
  /\ UNCHANGED CleanFrame

\* The process stops and starts again: the runs are lost, what Runtime stored is not, nor
\* what their calls did.
Crash ==
  /\ Fault
  /\ SyncReset /\ WatchReset
  /\ syncDue' = TRUE
  /\ cleanPC' = IF cleanPC = "delete" THEN "stop" ELSE cleanPC
  /\ UNCHANGED <<mailbox, push, stored, acked, renewDue, renewals>>

-----------------------------------------------------------------------------
Init ==
  /\ head = 1 /\ floor = 1
  /\ added = [m \in Msgs |-> None] /\ inbox = {} /\ gone = {}
  /\ watchLive = FALSE /\ topicUp = FALSE /\ subUp = FALSE /\ queue = {}
  /\ cursor = None /\ base = None /\ delivered = {} /\ acked = {}
  /\ active = TRUE /\ syncDue = TRUE /\ renewDue = TRUE
  /\ syncPC = "idle" /\ syncStart = None /\ syncProfile = None /\ syncPos = None
  /\ syncPage = 0 /\ syncMore = FALSE /\ syncFinal = None /\ syncFrom = None
  /\ syncTodo = {} /\ syncEvents = {}
  /\ watchPC = "idle" /\ watchSeen = None /\ watchRenewed = FALSE /\ watchWake = FALSE
  /\ watchAcks = {}
  /\ cleanPC = "none"
  /\ faults = 0 /\ renewals = 0

MailboxNext ==
  \/ \E m \in Msgs : Arrive(m) \/ Archive(m) \/ Delete(m)
  \/ Expire \/ Junk \/ WatchLapses

SyncStep ==
  \/ SyncStart \/ SyncProfile \/ SyncHistoryExpired \/ SyncHistoryPage \/ SyncList
  \/ \E m \in Msgs : SyncGetMessage(m) \/ SyncMessageGone(m)
  \/ SyncNextPage \/ SyncPageLimit \/ SyncCommit

WatchStep ==
  \/ WatchStart \/ WatchEnsureTopic \/ WatchPolicy \/ WatchEnsureSubscription \/ WatchRenew
  \/ WatchPull \/ WatchCommit \/ WatchAcknowledge

CleanupStep == CleanupStop \/ CleanupDelete

Next ==
  \/ MailboxNext
  \/ SyncTimer \/ SyncStep \/ SyncFails
  \/ RenewTimer \/ WatchStep \/ WatchFails
  \/ Disconnect \/ CleanupStep \/ CleanupFails
  \/ Crash

Spec == Init /\ [][Next]_vars

\* Runtime keeps scheduling due tasks, each run goes on, and the poll timer fires.
FairSpec ==
  /\ Spec
  /\ WF_vars(SyncTimer) /\ WF_vars(SyncStep) /\ WF_vars(WatchStep) /\ WF_vars(CleanupStep)

-----------------------------------------------------------------------------
(* Properties.                                                             *)

MailboxOK ==
  /\ head \in HistoryIds /\ floor \in HistoryIds
  /\ added \in [Msgs -> 0..MaxHistory]
  /\ inbox \subseteq Msgs /\ gone \subseteq Msgs
PushOK ==
  /\ watchLive \in BOOLEAN /\ topicUp \in BOOLEAN /\ subUp \in BOOLEAN
  /\ queue \subseteq Notes
StoredOK ==
  /\ cursor \in 0..MaxHistory /\ base \in 0..MaxHistory
  /\ delivered \subseteq Msgs /\ active \in BOOLEAN
DueOK == syncDue \in BOOLEAN /\ renewDue \in BOOLEAN
SyncOK ==
  /\ syncPC \in {"idle", "profile", "history", "fetch", "list", "listed"}
  /\ syncStart \in 0..MaxHistory /\ syncProfile \in 0..MaxHistory /\ syncPos \in 0..MaxHistory
  /\ syncFinal \in 0..MaxHistory /\ syncFrom \in 0..MaxHistory
  /\ syncPage \in 0..(MaxPages - 1) /\ syncMore \in BOOLEAN
  /\ syncTodo \subseteq Msgs /\ syncEvents \subseteq Msgs
WatchOK ==
  /\ watchPC \in {"idle", "topic", "policy", "subscription", "renew", "pull", "commit", "ack"}
  /\ watchSeen \in 0..MaxHistory
  /\ watchRenewed \in BOOLEAN /\ watchWake \in BOOLEAN /\ watchAcks \subseteq Notes
BoundsOK == faults \in 0..MaxFaults /\ renewals \in 0..MaxRenewals

\* Every variable has its type; a run's page number stays within gmailMaxPages.
TypeOK ==
  /\ MailboxOK /\ PushOK /\ StoredOK /\ DueOK /\ SyncOK /\ WatchOK /\ BoundsOK
  /\ acked \subseteq HistoryIds
  /\ cleanPC \in {"none", "stop", "delete", "done"}

Promised(m, upto) == m \in inbox /\ base < added[m] /\ added[m] <= upto

\* The persisted cursor (processGmailSync's state.HistoryID) never passes a message that is
\* still in the inbox and has no stored event: paging, failures and crashes lose none.
CursorCoversDelivered ==
  cursor # None => \A m \in Msgs : Promised(m, cursor) => m \in delivered

\* A push notification is acknowledged (PubSubAcknowledge, "Acknowledge durably processed
\* Pub/Sub messages") only when every promised message it announces has a stored event: the
\* watch run decides from a snapshot of a state that another run is moving.
AckedOnlyIfDelivered ==
  \A h \in acked : \A m \in Msgs : Promised(m, h) => m \in delivered

\* The cursor of a connection never goes back, whichever historyId a run ends with.
CursorNeverRetreats == [][cursor' >= cursor]_vars

\* A cleanup that reports success leaves neither a watch that publishes nor a subscription
\* that retains, whatever failed or crashed on the way.
CleanedUp == cleanPC = "done" => ~watchLive /\ ~subUp /\ queue = {}

\* GmailIngest implements the ingestion contract.
Contract == INSTANCE DurableIngest WITH
  Ids <- HistoryIds,
  mark <- cursor, start <- base, settled <- acked
IngestContract == Contract!Spec

\* With polling, every promised message that stays in the inbox gets its event.
EveryMessageDelivered ==
  \A m \in Msgs :
    (cursor # None /\ Promised(m, MaxHistory)) ~> (m \in delivered \/ m \notin inbox \/ ~active)

\* Push alone is enough: with no poll timer, WakeTasks and redelivery get the messages of
\* every queued notification stored and the notification acknowledged.
PushDelivers ==
  \A h \in HistoryIds :
    (h \in queue) ~> (h \notin queue /\ \A m \in Msgs : Promised(m, h) => m \in delivered)

\* An expired cursor is reconciled: the sync run ends with one that Gmail answers from.
\* (connector.json:158 "List Gmail messages for bounded bootstrap or history-gap reconciliation.")
GapReconciled == (cursor # None /\ cursor < floor) ~> (cursor >= floor \/ ~active)

\* A watch that is due for renewal is renewed.
\* (connector.json:264 "Start or renew managed Gmail push notifications.")
WatchRenewed == renewDue ~> (~renewDue \/ ~active)
=============================================================================
