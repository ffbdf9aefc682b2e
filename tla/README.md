# Verification of domainry-connectors

TLA+ modules, TLC configurations and TLAPS proofs for the connector providers of this
repository. Paths are relative to the repository; `background.go` and `operations.go` are those
of `providers/google_workspace/google`.

## The system

domainry-connectors is a Go library of about 100 external *providers*. A provider translates
one typed operation into calls of one upstream service and classifies what came back. It keeps
no persistent state; a *Runtime* (outside this repository) owns connections, secrets, retries,
durable delivery and scheduling (docs/architecture.md, "Ownership boundary"). The interesting
behaviour is therefore in protocols between three parties: Runtime, which calls, repeats, stores
results and may crash; a provider, which runs a sequence of calls; and the upstream service,
which changes between calls, loses answers and delivers again.

| Part | State | Operations | What is hard | What makes it correct |
|---|---|---|---|---|
| Gmail ingestion (`background.go`) | cursor and watch state held by Runtime; mailbox, watch, topic, subscription upstream | `gmail_sync`, `gmail_watch`, cleanup, acknowledgement | two concurrent tasks, a mailbox that changes between calls, redelivery, crashes, partial failure, recovery by error code | no message is passed over or acknowledged early; every message is delivered; cleanup leaves nothing |
| Delivery classification (`execute` of every provider) | none; one attempt | every read and write operation | a lost answer, a 5xx after the effect, a body that does not parse, an automatic retry | no write is repeated by an automatic retry; "permanent" means nothing happened; an outage is not called final |
| OAuth tokens (`internal/oauth2`, `executeWithRefresh` of google, microsoft, quickbooks, freee, ups, ...) | access and refresh token held by Runtime, returned as SecretUpdates | refresh on 401, resend | rotation, two runs refreshing at once, updates dropped on an error path | a rotated refresh token is never lost |
| Feishu meetings (`appointment_scheduling/feishu_calendar`) | one event upstream | create, invite, read, delete | a failed compensation, a crash, a late request | one meeting at most, none after a failure |
| Calendars (`calendar_write.go` and `calendar_event.go` of google and microsoft 365) and help centers | events and articles upstream, their versions | inspect, update with If-Match or a version number | edits by others between a read and a write, a change that arrives late, an answer that cannot be read | no lost update; answers of attendees and the text of an online meeting survive; a report of a change or a refusal is true |
| Response caches (`weather/open_meteo`, `calendar/holidays_jp`) | one cache entry per key in memory | read through | check, fetch, store without a lock held | never older than its lifetime |
| Warehouses (`internal/snowflakesql`, `internal/googlebigquery`) | a statement running upstream | query, poll | a result that is not ready, an outage in between | an outage is retryable |
| SQL databases (`internal/databasesql`, mysql, postgres, sqlserver) | none | read-only query, paging | a scanner that must reject every write; a connection that fails | no accepted statement writes; an outage is retryable |
| Webhooks (`VerifyWebhook` of 23 providers) | none; Runtime remembers identities | verify, name, decode | deliveries sent again, late, several events in one, an event without an identity of its own | replay protection loses no event and hands none over twice |
| Mail content and paging (`internal/mailcontent`, `internal/mailpaging`) | a page cursor | list, next page | a cursor of another query | a page continues its own listing |
| Accounting journals (`internal/accounting/journal`) | none | validate, post | sums and rounding | posted journals balance |
| Catalog (`catalog`, `internal/*/connector`) | embedded, immutable | load, list, find | none at run time | every provider resolves |
| MCP client (`mcp_tool/mcp`) | session, negotiated version | initialise, list, call | ordering of the handshake | no call before it |
| Build and verification programs (`scripts`, `internal/releaseverify`) | files | generate, verify | none | not modelled |

How the parts interact: Runtime calls an adapter's operation (`Call`, `Enqueue`) or background
task (`ProcessBackground`, `CleanupBackground`) with a connection, its secrets, a RequestRef and,
for a task, the state it persisted; the adapter calls the upstream through the injected
`connector.Transport` and returns a result (output, events, new state, commits, secret updates) or
an error of one of three classes, from which Runtime's policy decides what happens next. Nothing
else is shared: two concurrent calls of one provider meet only upstream and in what Runtime stores
(the two response caches excepted).

PROJECT.json lists every provider as a component with its files, and every hazard at its line.

## Modules

| Module | Models | Source |
|---|---|---|
| `DurableIngest` | what mailbox ingestion promises: a mark that only moves forward and only over messages that are stored or withdrawn | abstract |
| `GmailIngest` | gmail_sync, gmail_watch, cleanup and acknowledgement, with mailbox, Pub/Sub and Runtime | `background.go`, `operations.go` |
| `MCGmailIngest` | instances of it | |
| `GmailIngest_proofs` | its theorems, among them the two states it never leaves | |
| `IngestContract_proofs` | that it implements `DurableIngest` | |
| `GoogleTokens` | the access and refresh token of a connection through every call of the background tasks, the cleanup and an operation | `executeWithPrecondition`, `oauth2.Refresh`, the merges of `background.go` |
| `MCGoogleTokens` | instances of it | |
| `GoogleTokens_proofs` | its theorems | |
| `ProviderVerdicts` | how `execute` turns an answer into success or an error class | `execute` of the providers |
| `ProviderProfiles` | the choices of 63 services that write | one record each |
| `ReaderProfiles` | the choices of 28 that only read | one record each |
| `AtomicRequest` | what a provider promises Runtime of a write: one effect, a true final verdict, nothing after it | abstract |
| `Delivery` | one operation with lost answers, token renewal, polling and repetitions | `execute`, `executeWithRefresh`, `oauth2.Refresh`, `feishu.FetchTenantToken`, `executeStatement` |
| `MCDelivery` | instances of it | |
| `Delivery_proofs` | its theorems, and that it implements `AtomicRequest` | |
| `FeishuMeeting` | a Feishu meeting: event, attendees, URL, and the deletion that compensates a failure, over crashes and repetitions | `createMeeting`, `compensatedError`, `accessToken`, `calendarID`, `idempotencyKey` |
| `MCFeishuMeeting` | its instance | |
| `FeishuMeeting_proofs` | its theorems, and that it implements `AtomicRequest` | |
| `WebhookProfiles` | what 24 webhook formats let a delivery be recognised by | one record each |
| `WebhookIntake` | events from an upstream that sends them again to Runtime's replay protection | `VerifyWebhook` of the providers |
| `MCWebhookIntake` | its instance | |
| `WebhookIntake_proofs` | its theorems | |
| `AtomicEdit` | what changing a shared resource promises: a compare-and-set at one moment | abstract |
| `ResourceEdit` | the change of a calendar event or an article that others change too | `calendar_write.go`, `calendar_event.go`, the article updates of the help centers |
| `MCResourceEdit` | its instance | |
| `ResourceEdit_proofs` | its theorems | |
| `EditContract_proofs` | that it implements `AtomicEdit` | |

`GmailIngest` refines `DurableIngest`, `ResourceEdit` refines `AtomicEdit`, and `Delivery` and
`FeishuMeeting` both refine `AtomicRequest`: one request and its repetitions in the one, four calls
and a compensation in the other, keep the same promise to Runtime. `Delivery` extends
`ProviderProfiles` and `ReaderProfiles`, which extend `ProviderVerdicts`, which `FeishuMeeting`
composes with its own calls; `WebhookIntake` extends `WebhookProfiles`. Otherwise the groups share
nothing: a failed call of an ingestion run is any failed call, whether for a token (`GoogleTokens`)
or however `execute` classified it (`Delivery`). Definitions named as mutants are not used by the
modules; each is a mistake that one of the properties detects.

### GmailIngest

One action is one call of a run with the local computation after it, so that anything may happen
between two calls. `syncPC` and `watchPC` say which call comes next.

| State | Code |
|---|---|
| `cursor` | `history_id` of the persisted gmail_sync state (`ProcessBackground`'s `State`) |
| `delivered` | the events Runtime stored from a run's result, deduplicated by `ExternalID` |
| `syncStart`, `syncProfile`, `syncPos`, `syncPage`, `syncMore`, `syncFinal` | locals of `processGmailSync` and `gmailHistory`: the state's cursor, the profile's historyId, the start and page token, the page counter, `nextPageToken`, `finalID` |
| `syncTodo`, `syncEvents` | message ids of the page still to be fetched; events collected |
| `watchSeen`, `watchRenewed`, `watchWake`, `watchAcks` | `RelatedStates`' cursor, whether the state changed, `WakeTasks`, the commit's `ack_ids` |
| `head`, `floor`, `added`, `inbox`, `gone` | the mailbox: history id, oldest id it still answers from, arrival, label, deletion |
| `watchLive`, `topicUp`, `subUp`, `queue` | the watch, the topic, the subscription and its unacknowledged notifications |
| `base`, `acked`, `syncFrom` | history variables for the properties: where ingestion began, what was acknowledged, what a run covers |

Actions: `SyncStart`, `SyncProfile` (GmailGetProfile), `SyncHistoryPage` and `SyncHistoryExpired`
(SyncEmailHistory answered or 404), `SyncList` (GmailListMessages), `SyncGetMessage` and
`SyncMessageGone` (GmailGetMessage answered or 404), `SyncNextPage`, `SyncPageLimit`,
`SyncCommit` (Runtime stores the result); `WatchStart`, `WatchEnsureTopic`, `WatchPolicy`,
`WatchEnsureSubscription`, `WatchRenew` (GmailWatch), `WatchPull` (PubSubPull), `WatchCommit`
(Runtime stores the state and wakes tasks), `WatchAcknowledge` (the commit, PubSubAcknowledge);
`CleanupStop`, `CleanupDelete`. `SyncFails`, `WatchFails` and `CleanupFails` fail any call;
`Crash` ends all runs. The rest is the environment: `Arrive`, `Archive`, `Delete`, `Expire`,
`Junk`, `WatchLapses`, `Disconnect` and the two timers.

What Runtime is assumed to do (it is not in this repository): it runs one run of a task at a time;
stores a run's state and events in one step, and deduplicates events by ExternalID; persists
neither of a run that returned an error, and runs the task again; executes commits after it stored
the result; calls `CleanupBackground` when the tasks are stopped, again until it succeeds.

### GoogleTokens

| State | Code |
|---|---|
| `stored` | the `access_token` and `refresh_token` among the connection's secrets, held by Runtime |
| `runs[t].secrets`, `.updates`, `.inner` | the maps `secrets` (`resolved` in the cleanup) and `updates` of the task, and the `updates` of the helper it is in |
| `runs[t].at`, `.phase`, `.got` | the call the run is in; first attempt, refresh, second attempt; the tokens of that refresh |
| `current`, `issued`, `live` | the token endpoint: the refresh token it accepts, access tokens issued and those still accepted |
| `dropped` | history variable: refresh tokens that were issued and lost |

Tokens are numbers in order of issue, a map is a record of the two keys and of whether it is nil.
`Ask` is the first attempt, `Unauthorized` its 401, `Refresh` and `RefreshLost` the exchange,
`RefreshFails` its error, `Again` the second attempt. Each ends in `Resume`, the calling code:
`Collect` merges the result's SecretUpdates where that caller merges them, `Leave` is a helper's
return, `Proceed` the next call or the run's result, `Lose` a panic of a merge into a nil map or the
early return at background.go:110. `Expire` and `Crash` happen at any time. A refresh may or may not
replace the refresh token, and a call without a refresh gives a nil or an empty map (the SDK's
adapter, not in this repository, decides which). Runtime is assumed to store the SecretUpdates that
come with an error like those of a success, and to run one run of a task at a time.

### Delivery

`provider` and `kind` are chosen once. `Attempt` is Runtime sending the request, `Reject` an input or
configuration that is refused before anything is sent, `TokenFails` a token request that comes first
and fails, `Answer(r)` the upstream, `Renew` the refresh and the second request of
`executeWithRefresh`, `Poll` another look at a statement that is not finished, `Judge` the
classification `Verdict(profile, kind, reply)`.
`effects` counts how often the operation took effect upstream.

A profile is what distinguishes one `execute` from another:

| Field | Question to the code |
|---|---|
| `kinds` | does it read, create, update? |
| `keyed` | for which operations does the request carry the RequestRef or a merchant number that the upstream deduplicates by? |
| `token`, `refreshes` | is a token, an account, a session requested first; does a 401 refresh and resend? |
| `bodyFirst` | is the body decoded before the status is looked at, and is its error returned first? |
| `again`, `open` | which statuses are RetryableError always; which are uncertain for a write? |
| `blankDecodes`, `garbled`, `bare` | what becomes of an empty body, a body that is not JSON, and one without the field the operation looks for? |
| `envelope`, `refused`, `limited` | can a 2xx carry an error, what becomes of it, and is a second sort (a rate limit, an error of the protocol) told apart? |
| `partial` | can such an error follow an effect (a tool of an MCP server that fails half-way)? |
| `pending` | is an answer that is not the result yet asked for again (Snowflake), or retryable (BigQuery)? |

`kind` "create" is an operation that a second request repeats, "update" one that it does not (an
update by id, a cancellation, a PUT). An answer that never came, and a 5xx, leave open whether the
operation took effect; 401, 408, 429 and other 4xx are taken as refusals. A replay key is taken to
be honoured by the upstream. Runtime's policy is not in this repository and every write operation
declares `IdempotencyNone`, so a repetition *may* happen after a retryable verdict and *never*
after another (docs/expense-ocr-llm-proxy.md, "retryable, still subject to Runtime policy", and
"may have been processed" for uncertain).

`RequestContract` maps this to `AtomicRequest`: `effects` is itself, `told` is what the verdict tells
(`Tells`: nothing, again, done, failed, or open for an uncertain one), `once` and `truthful` say which
parts of the promise the provider and kind keep, by the same lists as the invariants. Beyond these,
the contract says when: no effect between a retryable verdict and the next attempt, none after a
final verdict, and no verdict after a final one.

### FeishuMeeting

| State | Code |
|---|---|
| `step`, `event`, `cause`, `verdict` | the call `createMeeting` is at, its `eventID`, the classification given to `compensatedError`, what it returned |
| `live`, `invited`, `made`, `known` | the calendar: events there, with attendees, ever made, and the one remembered under the idempotency key |
| `late` | requests whose answer was lost, or whose attempt crashed, and that may still land |

`AccessToken`, `CalendarID`, `Create(r)`, `Invite(r)`, `Get(r)` and `Delete(r)` are the calls with an
answer `r` judged by `Verdict` under the profile `Calendar` of this provider's `execute`; `Attempt`
dispatches the same RequestRef when it is new, was lost in a `Crash` or may be repeated; `Land` is a
late request arriving. Feishu is taken to honour the idempotency key: a second creation answers with
the event of the first, or, once that was deleted, with it or a new one. An invitation, a read or a
deletion of an event that is gone does not succeed. That Runtime dispatches a request again after a crash is an
assumption (the operation is `enqueue_booking`, "Durably enqueue").

`RequestContract` maps this to the same `AtomicRequest`: the effects are the events in the calendar,
a compensation is `Undo`, and a crash, whose requests may land after any verdict, is `Disturb`: it
costs the truthfulness of later verdicts, never the single meeting.

### WebhookIntake

| State | Code |
|---|---|
| `provider`, `named` | whose `VerifyWebhook`; whether this upstream's events carry an identity of their own |
| `byType` | whether Runtime's replay protection tells equal ExternalIDs of different EventTypes apart |
| `pending`, `emitted` | the upstream: events not acknowledged yet, events so far |
| `wire` | deliveries under way, each with its events and the age of its stamp |
| `seen`, `handed` | the identities Runtime remembers; how often each event reached the application (history) |

`Identity` is what `VerifyWebhook` returns as ExternalID and EventType; `Verified` is its refusal of
a stamp outside the tolerance and of a delivery without an identity. `Emit`, `SendSome`, `Delay`,
`Lose` are upstream and network, `Refuse`, `Accept`, `Recognise` the three outcomes of a delivery.
A profile says which attributes make the ExternalID when the event has its own identity and when
it has none, whether the type is the event's, which of several events is looked at, and how old a
stamp may be.

Assumed of others: Runtime owns replay protection (payment/stripe/webhook.go:17-19 and
docs/architecture.md:74, :83) and drops what it has seen; whether the EventType is part of what it
compares is not said, so both are modelled. The upstream sends again what was not acknowledged, in
any grouping its format allows. Signatures hold or the delivery does not exist; challenges
(`url_verification` and the like) carry no event.

### ResourceEdit

| State | Code |
|---|---|
| `version`, `revision` | the event or article upstream and its history: contents, an attendee's answer, online, joinable |
| `call[c].shown` | what the caller was shown: the snapshot of the inspection and its ETag / changeKey / version number |
| `call[c].read` | the second read of an update and, with `twice`, the dates read after it (`calendar_event.go` of microsoft) |
| `call[c].changes`, `.tries`, `.answer`, `.verdict` | the fields of the change; requests so far; the upstream's answer; what the operation returned |
| `flying` | changes sent and not yet executed; they outlive a call that gave up |
| `replied`, `unseen`, `applied` | history: an answer was given; something its caller had not seen was replaced; effects per caller |

`Inspect`, `InspectDates`, `Update`, `Reread`, `RereadDates`, `NotSent`, `Send`, `Receive`, `GiveUp` and
`Repeat` are the steps of a caller's operation, `Checked` is `ValidateAgainst` with the test of
`isOnlineMeeting`, `Requested` the request with its If-Match; `NotSent` is a read that fails (the
event, its dates, the time zones a change of dates needs) or a change that cannot be expressed. `Execute` and `Decline` are the upstream's side, at any time after `Send`;
`Rewrite`, `Answer` and `GoOnline` are other people. An `EditProfile` says whether a provider reads again, what
its request is conditional on, whether it sends all contents, whether there are attendees or an
online meeting's text to preserve, and whether it decodes the body of an answer before it looks at
the status (`bodyFirst`). The six help centers do: a body that is not JSON is a permanent
`response_invalid`, after a success as after a 5xx, and that verdict is `unreadable`. The calendars
report such an answer to a write as uncertain. The upstream is taken to honour If-Match, and Confluence to
accept only the next version number. That a Confluence caller sends the number after the one it was
shown is an assumption about callers: the code sends what it is given and checks that it is positive
(confluence/provider.go:272). That a caller repeats an uncertain change is Runtime's or a
person's decision and therefore allowed. The `create` operations are `Delivery`'s.

`EditContract` maps this to `AtomicEdit`: a caller's inspections are `Look`, `Update` is `Ask`, the
execution upstream is `Change`, whoever else writes is `Elsewhere`, and `Tell` is the first final
verdict: "updated", a refusal of the first request (one that answers a repetition says nothing of the
request before it, so it tells nothing), or "failed", the report of an unreadable answer. The first
two bind: what is updated was changed, what is refused was not and will not be. Of "failed" nothing
follows, and a promise that is `candid` does not allow it; `candid` is whether the provider is
outside `RejectGarbled`, the six help centers by name. `guarded` is whether the request names the
version it replaces.

## Runs

| Run | Checks | Bounds |
|---|---|---|
| `ingest_push` | `TypeOK`, `CursorCoversDelivered`, `AckedOnlyIfDelivered`, `CleanedUp` with everything on: both tasks, bootstrap, archive, delete, expire, foreign and malformed notifications, disconnect | 2 messages, 3 history ids, one page, one fault, one renewal, pulls of one |
| `ingest_sync` | `CursorNeverRetreats`, `IngestContract` (refinement of `DurableIngest`), `EveryMessageDelivered` (liveness) | 3 messages, 5 history ids, pages of one, 3 pages, two faults |
| `ingest_wake` | `PushDelivers` (liveness) with the poll timer off: the wakes alone suffice | 2 messages, no faults |
| `ingest_gap` | finds `GapReconciled` violated | 2 messages, history expires |
| `ingest_renewal` | finds `WatchRenewed` violated | one renewal |
| `tokens` | `TypeOK`, `RotationSurvives`, `NewestPresented`, `StoredNeverRetreats` with sync, watch and cleanup side by side | 3 access tokens |
| `tokens_pull` | finds `RotationUsed` violated | watch and one operation, 2 access tokens |
| `delivery` | `TypeOK`, `WriteAppliedOnce`, `VerdictTruthful`, `OutageRetryable`, `RequestContract` (refinement of `AtomicRequest`) for all 91 profiles | two attempts |
| `delivery_push` | finds `PushSentOnce` violated | two attempts |
| `meeting` | `TypeOK`, `OneMeeting`, `NothingLeftBehind`, `MeetingKept`, `RequestContract` (refinement of `AtomicRequest`) | three attempts, two crashes |
| `webhooks` | `TypeOK`, `EventsAccounted`, `HandedOnce` for 24 profiles | three events of one object, two of them of one type; two events in a delivery, two deliveries under way |
| `edits` | `TypeOK`, `SnapshotWhole`, `NothingUnseenReplaced`, `RepliesKept`, `StillJoinable`, `AppliedOnce`, `ReportsTrue`, `EditContract` (refinement of `AtomicEdit`) for google, microsoft, confluence, zendesk_guide | two callers (symmetric), two revisions after the first, each request made twice |

Why these bounds are enough to be informative. A message can be lost only between two positions of
the cursor: two messages, three ids and a page of one give a message before, at and after a page
boundary, and the list limit of one makes a reconciliation that does not see everything possible.
`ingest_sync` adds a third message so that three pages follow each other and the page limit is met
exactly. One fault hits any single call of any run, including the commit; two faults also hit the
run that repairs the first. Two attempts are the first repetition; a third repeats its
situation. Two crashes of three attempts leave requests of two attempts to land during the third. Three access
tokens are two refreshes: the second can follow the first in one run, come from a run that overlaps
it, or present what the first replaced. Of the three webhook events two share object and type and a
third only the object, which is every way in which an identity can confuse two events but by their
time; two deliveries of up to two events can overtake each other and repeat an event in other
company. Two later revisions are one edit between a read and a write and another one before the
change arrives; two tries of two callers leave a late change of the first try to meet the second
one. The help centers not in `edits` (Help Scout, Intercom, Notion, ReadMe) have the profile of
Zendesk's. The theorems below do not depend on any of these bounds.

`CHECK_DEADLOCK FALSE`: a disconnected connection with an exhausted mailbox and timer budget, an
operation or meeting with a final verdict, an upstream whose events are all acknowledged, and callers
whose last request is answered, have really come to an end.

Fairness (`FairSpec`, ingestion only): the poll timer fires, a due task starts, a run that started
makes its next call, a cleanup goes on. This is Runtime scheduling due tasks and every call
returning (providers bound every call by a timeout). There is no fairness of faults, of the mailbox
or of the renewal timer, and weak fairness of the run as a whole only: which of two enabled answers
comes is never assumed.

### What the runs found

- `ingest_gap`: `execute` names a 404 `google.http_404`; `processGmailSync` asks for
  `http_status_404`. A cursor older than Gmail's history is never reconciled, each run fails.
  A message deleted between its history page and its fetch takes the same path.
- `ingest_renewal`: `ensureGmailPubSub` asks for `http_status_409` in the same way: once the topic
  exists, each renewal fails at its first call, and the watch lapses. The poll still delivers.
- `tokens_pull`: the tokens a `GmailWatch` call was given go into the updates and not into the secrets
  of the run (background.go:267), so the `PubSubPull` after it presents the replaced access token and
  then the replaced refresh token. Where Google rotated it, the pull fails and with it the run; the
  tokens themselves are returned and stored.
- A rotation can be lost at background.go:110 (a profile without its fields), and in a panic at :118,
  :123 or :211 if the adapter passes a nil map on. `RotationSurvives` counts these with crashes and
  lost answers: the connection then needs a new authorization.
- `delivery_push`: a 5xx of a push service is retryable without a key that would make a second
  dispatch harmless, where the catalog speaks of an idempotent push.
- `WriteAppliedOnce` and `VerdictTruthful` hold of the providers outside four lists that
  `Delivery` states by name: `ResendOpenWrites` (a 5xx to a write is retryable: the four signature
  providers, web push, the knowledge base; stripe, too, but under an Idempotency-Key),
  `RejectGarbled` (an unreadable body is a permanent failure even of a write that succeeded),
  `RejectBare`, and `RejectPartial` (an MCP tool that reports an error is permanent, whatever it did
  before). `OutageRetryable` holds of the readers outside `RejectOutages`: these decode the body
  before they look at the status, so the HTML page of a proxy turns an outage into a permanent error.
  The lists are part of what is checked and proved: nobody else is on them.
- `EventsAccounted` and `HandedOnce` hold with the exceptions that `Confused`, `FirstOfBatch` and
  `microsoft_teams` name. Twilio, WhatsApp and Messenger name an event by its object, so a later
  status of a message can be taken for the first one; Cal.com, DocuSign, Calendly and Zoom by object
  and type, so the second registration for a webinar can be taken for the first; seven providers
  fall back to the object when an event has no identity. WhatsApp, Messenger and QuickBooks look at
  the first event of a delivery alone, Teams joins all of them: what comes again in other company is
  not recognised there. Where Runtime compares EventTypes as well, confusion is limited to one type,
  but for Zendesk (a body without a type is `ticket.updated`) and Teams.
- `NothingUnseenReplaced` and `AppliedOnce` hold of google, microsoft and confluence, whose changes
  are conditional on what the caller was shown. The other five help centers send the changed fields
  without a condition: an edit made since is replaced, and a late change is made twice.
- `ReportsTrue` and `EditContract` hold of all eight for what is reported as a change or as a refusal.
  The final failure of an answer that cannot be read is excepted by name (`RejectGarbled`, here as in
  `Delivery`): the six help centers report it of a change that was made, too
  (confluence/provider.go:354 and the same lines of the others). That no other provider makes such a
  report is part of what is checked and proved.

## Proofs

Every theorem holds for all values of the constants under the named assumptions
(the `BoundsAssumption`s, `JunkAssumption`, `TasksAssumption`, `MaxTokensAssumption`,
`ObservedAssumption`, `AttemptsAssumption`, `HookedAssumption`, `AttributeAssumption`,
`EditedAssumption`, `AskedAssumption`), which TLC evaluates on the instances.

**GmailIngest_proofs**: `TypeCorrect`, `NothingPassedOver` (`CursorCoversDelivered`), `AckSafety`,
`CursorMonotone`, `CleanupLeavesNothing`. None of these is inductive alone. The invariant is

    IngestInv == TypeOK /\ HistoryInv /\ RunInv /\ RunCovers /\ AckInv /\ CleanInv
                 /\ CursorCoversDelivered

`HistoryInv`: neither an arrival nor the cursor lies beyond `head`. `RunInv`: what the locals of a
run are at each of its calls, in particular that the persisted cursor is still the one it started
from and that the new one is not below it. `RunCovers`: every message in the inbox between
`syncFrom` and `syncPos` is among the events or the ids to fetch; this is the heart: each call keeps
it although the mailbox changes in between, and at the commit it becomes
`CursorCoversDelivered`. `AckInv`: the snapshot of a watch run is not above the cursor, so what is
acknowledged lies at or below it. `CleanInv`: no watch run is under way during a cleanup,
and nothing publishes after its stop. `NotRecognised`
states the mismatch of the error codes; through it only a first run lists messages, and that is
needed: a recognised gap would list at most `ListLimit` messages and move the cursor beyond the
rest (background.go:194). That branch is not reached in the code as it is; a repair of the code
test would reach it.

Two more theorems of the module state for every constant what `ingest_gap` and `ingest_renewal` find
on an instance, and without fairness. `GapStays`: in `GapStuck` (the cursor is older than what Gmail
answers from, and the run at hand has not read its history yet) the connection stays for good, and
no cursor and no event is stored from then on. The run reads `syncStart`, which by `RunInv` is the
persisted cursor, `floor` only grows, and the 404 ends the run. `RenewalStays`: in `RenewalStuck` (the
topic exists, the watch is due again, and no run is past the topic) it stays, too, and once the watch
has lapsed Gmail never publishes again. The liveness properties themselves remain with TLC; these are
their safety core.

**IngestContract_proofs**: `ContractImplemented` (`IngestContract`): `GmailIngest` implements
`DurableIngest` with the cursor as its mark and the acknowledged notifications as what is settled.
An arrival is `Receive`, an archived or deleted message `Withdraw`, the commit of a sync run
`Advance`, an acknowledgement `Settle`; every other step leaves all of these alone
(`StepImplements`). Two facts are needed beyond `IngestInv`: what was read or stored has arrived
(`ArrivedInv`), and ingestion begins at or below the cursor, also in a first run that is about to
commit (`BeginInv`).

**GoogleTokens_proofs**: `TypeCorrect`, `NoLockout` (`RotationSurvives`), `Presented`
(`NewestPresented`), `StoredForward` (`StoredNeverRetreats`), for every set of tasks. The invariant
adds two parts to the types. `Shape`: which maps of a run may be nil or hold something at each call,
and that the secrets carry the newest access token everywhere but at the pull. `Custody`: at most one
run holds a refresh token it has not handed back, the stored one is then older, and only a run whose
copy came from there or from itself has the accepted one; so of two overlapping runs one refresh
is rejected, and no order of their results puts an old token back. The long part is that `Collect`
and `Leave` keep what a run holds wherever it is (`CollectHolds`, `LeaveHolds`), from which every end
of a call carries it on, returns it or drops it with a name (`ResumeEffect`).

**Delivery_proofs**: `TypeCorrect`, `AppliedOnce` (`WriteAppliedOnce`), `Truthful`
(`VerdictTruthful`), `OutagesPass` (`OutageRetryable`). `ProfilesSound` shows facts of each profile:
it never calls an open outcome ok; unless listed it never calls an open write retryable; unless
listed it rejects no body; unless listed its reads call every outage retryable (`OutageVerdict`).
Four lemmas draw what follows for one answer (`OkTookEffect`, `RetryableDidNotHappen`,
`PermanentMisread`, `VerdictType`). `DeliveryInv` carries it over repetitions: an attempt in flight
has had no effect (`AttemptInv`), a write of a careful provider that may be sent again has not
happened (`CarefulInv`), and a keyed or repeatable operation counts once (`AbsorbedInv`). The
renewal is harmless because only a 401, which excludes the effect, leads to it.
`RequestImplemented` (`RequestContract`) needs no further invariant: `TellsFacts` says what each
verdict tells, `ConcludeTells` that an attempt that ends tells the truth (for a provider on none of
the four lists, `Candid`), `EffectHappens` that an effect falls before anything is told, and
`StepImplements` maps each action to `Work`, `Repeat` or a stutter.

**FeishuMeeting_proofs**: `TypeCorrect`, `AtMostOne` (`OneMeeting`), `Compensated`
(`NothingLeftBehind`), `Booked` (`MeetingKept`). `AnswerTells` says what a verdict of this `execute`
proves of a call: ok means it took effect, and a write called retryable or permanent cannot land any
more, which is why a failed creation needs no compensation. `DoesMoves` bounds what any landing
request does: only the event remembered under the key is in the calendar (`KeyInv`) and ids are not
used again, so a deleted event stays deleted. `CrashFree` is the part that a crash destroys: without
one, nothing is in the calendar before the creation, at most the own event after it, and a creation
or deletion is abandoned only where the verdict is uncertain. After a crash the repetition may fail
before it finds the event of the crashed attempt, which then stays: `NothingLeftBehind` and
`MeetingKept` say so, and a compensation that runs under the RequestRef of a later attempt would be
needed to promise more. `MeetingImplemented` (`RequestContract`) counts the events: `KeyInv` leaves
at most one (`MeetingsCounted`), so a landing request makes one, deletes one or changes nothing
(`MeetingsChange`, `Happens`), and without a crash it can do so only before a final verdict
(`AnswerImplements`).

**WebhookIntake_proofs**: `IntakeTypeCorrect`, `NoEventLost` (`EventsAccounted`), `NoEventTwice`
(`HandedOnce`), for every set of events and providers and every size of a delivery. `HookFacts` shows
of each profile which attributes an identity holds; `Told` and `SameMark` draw from it what two
equal identities say of their events: they are one event, or the two that `Confused` describes.
`IntakeInv` ties memory to effect both ways: a remembered identity is that of a delivery whose
events were handed over (`Remembered`), which is why dropping a repetition loses nothing; and
where a delivery is one event, what was handed over is remembered (`Kept`), which is why it is not
handed over again.

**ResourceEdit_proofs**: `EditTypeCorrect`, `SnapshotsAreWhole`, `NoLostUpdate`, `RepliesSurvive`,
`MeetingsStayJoinable`, `EditAppliedOnce`, `EditReportsTrue`, for every number of callers, revisions
and tries. `NoLostUpdate` and `EditAppliedOnce` speak of the three providers that send a version, the
others of all eight, `EditReportsTrue` with the exception of `RejectGarbled`. `IInv` says of each
caller (`Own`) which revision its reads are of and who may end with an unreadable answer
(`Record`), that a change about to be sent was compared with what its caller was shown (`Prepared`),
how often it took effect (`Counted`) and what its changes under way carry (`UnderWay`); of each change
under way it says that it carries what the version it replaces says (`Faithful`). A step of one
caller leaves the parts of the others alone (`CallerStep`, `OthersStep`). The heart is the
execution: it is conditional on the version its caller was shown (`GuardedExecution`), so everything
there is at that moment was shown to it, its answers are the current ones, and afterwards the
version is past that condition, so no other try of the same call can take effect (`OnlyOne`). The
comparison in the code before the request is not what prevents a lost update, the If-Match is; the
comparison is needed for the answers and the text of an online meeting.

**EditContract_proofs**: `EditImplemented` (`EditContract`), from `IInv` and one fact more: a caller has
asked for something exactly when it has sent (`AskedInv`). Each step of a caller is one of four turns
(`Looks`, `Asks`, `GoesOn`, `Repeats`), which the lemmas `...Turns` show of the model and
`...Implements` map to the contract. The execution is `Change` (`ExecuteChanges`): the new contents
are those asked for and no others (`ResultIsChange`), also where a provider sends all of them, because
such a provider names the version (`WholeGuarded`), so what it sends of the rest is still current;
the answers and the joining text survive by `Faithful`; and no execution follows a refusal, by `Counted`.
A final verdict is `Tell` (`GoesOnImplements`): that it tells of what happened is `Counted` again, and that a failure of which nothing follows is not
told by one of the calendars is `Record`.

Model-checked only: liveness (`EveryMessageDelivered`, `PushDelivers`) and the violations, which need
runs and, for two of them, fairness. Every safety property and every refinement that a passing run checks
is proved.

## Not modelled

Within the modelled components: validation of inputs and configuration beyond that it may refuse,
construction of requests, the shape of outputs, projections of a message to an event payload, the
topic's policy (only that reading and writing it are calls that fail), a cleanup without a project id
(background.go:75-78: it returns at once; the configuration of the model is constant and has one), a
connection without a refresh token, the context cancellation of the knowledge base, signatures and
challenges of webhooks. In
`Delivery`: what a provider does over several requests (uploads, lookups before an update, the
handshake of an MCP session) beyond its last one. A component is `partly` modelled in PROJECT.json
for such reasons; its note says which.

Whole components, each `not_modelled` with its reason in PROJECT.json: embedded data and its
validation at start (`catalog`, `internal/domain`), wiring, pure conversions of content
(`internal/mailcontent`, `internal/textcontent`, `internal/notificationmessage`), page tokens
(`internal/mailpaging`), local files, and programs that run at build time. Three parts could be modelled and
are not:

- The response caches of open_meteo and holidays_jp: look up, fetch, store, with the lock released
  during the fetch. Two callers may both fetch, the later answer wins with an expiry counted from the
  end of its own fetch, and entries are replaced but not evicted. No entry is served longer after the end of
  its fetch than its lifetime; that the answer may have been older when it arrived is the upstream's.
- The SQL statement scanner of `internal/databasesql`: its input is text, and a bounded token
  alphabet would be a model of another scanner.
- `internal/accounting/journal`: sums with an overflow guard and the pairing of debits and credits. A
  statement about the sums needs induction over the lines, which the installed provers do not do.

## Plan

What would add most next:

1. `TopicPolicy`: the read-modify-write of one topic policy by several connections (background.go:339),
   a listed interleaving without a property.
2. A repaired recovery in `GmailIngest` (error codes recognised), with the list limit as the next
   obstacle (background.go:194), and with an answer to the message that is gone (background.go:225).
3. `ResponseCache`, `Journal`, and the operations of several requests in `Delivery`.
