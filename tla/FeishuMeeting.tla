--------------------------- MODULE FeishuMeeting ---------------------------
(***************************************************************************)
(* createMeeting of the Feishu calendar: an event is created under a key   *)
(* derived from the RequestRef, attendees are invited, the meeting URL is  *)
(* fetched; when one of the last two fails, the event is deleted again.    *)
(* An attempt may crash between or during its calls and a request whose    *)
(* answer nobody heard may still land later.                               *)
(***************************************************************************)
EXTENDS ProviderVerdicts, FiniteSets

CONSTANTS
  MaxAttempts,   \* bound: how often Runtime dispatches the request
  MaxCrashes     \* bound: how many of the attempts crash

ASSUME BoundsAssumption == MaxAttempts \in Nat /\ MaxCrashes \in Nat

VARIABLES
  live, invited,   \* the events in the calendar; those whose attendees were invited
  made,            \* how many events were ever made; their ids are 1..made
  known,           \* the event Feishu remembers under the idempotency key, 0 for none
  late,            \* requests nobody waits for that may still land
  step,            \* the call the attempt is at, "idle" without an attempt
  event,           \* eventID of the attempt, 0 before it is known
  cause,           \* classification of the failure that is compensated
  verdict,         \* of the last attempt, "none" while it runs or when it crashed
  attempts, crashes

calendar == <<live, invited, made, known>>
bounds == <<attempts, crashes>>
vars == <<calendar, late, step, event, cause, verdict, bounds>>

Writes == {"create", "attendees", "delete"}
Steps == {"idle", "token", "calendar", "get"} \cup Writes
Request == [call : Writes, event : Nat]

\* Mutant: the missing event_id is not noticed.
CalendarUnchecked ==
  [Standard EXCEPT !.envelope = TRUE,
                   !.bare = [read |-> "permanent", create |-> "ok", update |-> "ok"]]
\* execute, and what a missing event_id (of the creation) or meeting URL (of the read) means.
Calendar ==
  [Standard EXCEPT !.envelope = TRUE,
                   !.bare = [read |-> "permanent", create |-> "uncertain", update |-> "ok"]]

Init ==
  /\ live = {} /\ invited = {} /\ made = 0 /\ known = 0 /\ late = {}
  /\ step = "idle" /\ event = 0 /\ cause = "none" /\ verdict = "none"
  /\ attempts = 0 /\ crashes = 0

\* Mutant: each attempt has a key of its own.
FoundUnderFreshKey == 0
\* idempotencyKey depends on the RequestRef only: what an earlier attempt made is found.
FoundUnderKey == known

\* Under a key Feishu remembers, the event made first is the answer, even a deleted one.
Make ==
  IF FoundUnderKey # 0 THEN UNCHANGED calendar
  ELSE /\ made' = made + 1 /\ known' = made + 1 /\ live' = live \cup {made + 1}
       /\ UNCHANGED invited

\* What a request does in the calendar; only an event that is there can be invited to or deleted.
Does(call, target) ==
  \/ call = "create" /\ Make
  \/ /\ call = "attendees" /\ target \in live
     /\ invited' = invited \cup {target} /\ UNCHANGED <<live, made, known>>
  \/ call = "get" /\ target \in live /\ UNCHANGED calendar
  \/ /\ call = "delete" /\ target \in live
     /\ live' = live \ {target} /\ known' \in {known, 0} /\ UNCHANGED <<invited, made>>

\* The request in hand may land when nobody waits for it any more.
Abandon ==
  \/ UNCHANGED late
  \/ step \in Writes /\ late' = late \cup {[call |-> step, event |-> event]}

Answer(call, r) ==
  /\ step = call /\ CanAnswer(Calendar, r)
  /\ IF TookEffect(r) THEN Does(call, event) /\ UNCHANGED late
     ELSE /\ UNCHANGED calendar
          /\ IF MayHaveTakenEffect(Calendar, r) THEN Abandon ELSE UNCHANGED late
  /\ UNCHANGED bounds

Proceed(next) == step' = next /\ UNCHANGED <<cause, verdict>>
Conclude(result) == step' = "idle" /\ verdict' = result /\ UNCHANGED <<event, cause>>
\* compensatedError is called.
Compensate(failure) == step' = "delete" /\ cause' = failure /\ UNCHANGED <<event, verdict>>

\* Runtime dispatches a request that is new, was lost in a crash or may be repeated.
Attempt ==
  /\ step = "idle" /\ verdict \in {"none", "retryable"} /\ attempts < MaxAttempts
  /\ attempts' = attempts + 1
  /\ step' = "token" /\ event' = 0 /\ cause' = "none" /\ verdict' = "none"
  /\ UNCHANGED <<calendar, late, crashes>>

\* accessToken: the configured token, or FetchTenantToken and its error.
AccessToken ==
  /\ step = "token"
  /\ \/ Proceed("calendar") /\ UNCHANGED event
     \/ \E result \in {"retryable", "permanent"} : Conclude(result)
  /\ UNCHANGED <<calendar, late, bounds>>

\* calendarID: the configured calendar, or the primary one.
CalendarID ==
  /\ step = "calendar"
  /\ \/ Proceed("create") /\ UNCHANGED event
     \/ \E r \in {r \in Reply : CanAnswer(Calendar, r)} :
          LET result == Verdict(Calendar, "read", r)
          IN  IF result = "ok" THEN Proceed("create") /\ UNCHANGED event ELSE Conclude(result)
  /\ UNCHANGED <<calendar, late, bounds>>

Create(r) ==
  /\ Answer("create", r)
  /\ LET result == Verdict(Calendar, "create", r)
     IN  IF result = "ok" THEN Proceed("attendees") /\ event' = IF r.body = "full" THEN known' ELSE 0
         ELSE Conclude(result)

\* Mutant: an open outcome of the invitation is taken for a success.
InviteOpen(r) ==
  /\ Answer("attendees", r)
  /\ LET result == Verdict(Calendar, "update", r)
     IN  IF result \in {"ok", "uncertain"} THEN Proceed("get") /\ UNCHANGED event
         ELSE Compensate(result)
Invite(r) ==
  /\ Answer("attendees", r)
  /\ LET result == Verdict(Calendar, "update", r)
     IN  IF result = "ok" THEN Proceed("get") /\ UNCHANGED event ELSE Compensate(result)

Get(r) ==
  /\ Answer("get", r)
  /\ LET result == Verdict(Calendar, "read", r)
     IN  IF result = "ok" THEN Conclude("ok") ELSE Compensate(result)

\* Mutant: the error of the deletion is ignored.
RolledBackRegardless(r) == IF cause = "retryable" THEN "retryable" ELSE "permanent"
\* compensatedError: what the caller is told after the deletion was answered.
RolledBack(r) ==
  IF Verdict(Calendar, "update", r) # "ok" THEN "uncertain"
  ELSE IF cause = "retryable" THEN "retryable" ELSE "permanent"

Delete(r) == Answer("delete", r) /\ Conclude(RolledBack(r))

\* The process ends; a call under way is abandoned.
Crash ==
  /\ step # "idle" /\ crashes < MaxCrashes
  /\ crashes' = crashes + 1
  /\ Abandon
  /\ step' = "idle" /\ UNCHANGED <<event, cause, verdict, calendar, attempts>>

\* A request nobody waits for arrives, or finds nothing to act on.
Land ==
  \E q \in late :
    /\ Does(q.call, q.event)
    /\ late' = late \ {q}
    /\ UNCHANGED <<step, event, cause, verdict, bounds>>

Next ==
  \/ Attempt \/ AccessToken \/ CalendarID \/ Crash \/ Land
  \/ \E r \in Reply : Create(r) \/ Invite(r) \/ Get(r) \/ Delete(r)

Spec == Init /\ [][Next]_vars

-----------------------------------------------------------------------------
\* Every variable has its type; the calls after the creation have an event to refer to.
TypeOK ==
  /\ made \in Nat /\ known \in 0..made
  /\ live \subseteq 1..made /\ invited \subseteq 1..made
  /\ late \subseteq Request
  /\ step \in Steps /\ event \in 0..made
  /\ step \in {"attendees", "get", "delete"} => event # 0
  /\ cause \in Verdicts \cup {"none"} /\ verdict \in Verdicts \cup {"none"}
  /\ attempts \in 0..MaxAttempts /\ crashes \in 0..MaxCrashes

\* One RequestRef never has two meetings in the calendar, whatever attempts crash or are
\* repeated and whenever an abandoned creation lands.
OneMeeting == \A a, b \in live : a = b

\* A request that failed, retryably or for good, leaves no meeting behind: never the one it
\* made itself, and none at all unless an earlier attempt crashed.
NothingLeftBehind ==
  verdict \in {"retryable", "permanent"} => event \notin live /\ (crashes = 0 => live = {})

\* A meeting reported as booked is in the calendar with its attendees invited when that is
\* said, and remains so unless an earlier attempt crashed, whose deletion may land later.
MeetingKept ==
  [][verdict' = "ok" /\ (verdict = "none" \/ crashes = 0) => event' \in live' \cap invited']_vars

Contract == INSTANCE AtomicRequest WITH
  once <- TRUE, truthful <- crashes = 0, effects <- Cardinality(live),
  told <- Tells("create", verdict)

\* To Runtime createMeeting is one effect and one true final verdict: the event it makes, and
\* may delete again, is the only one at any time; without a crash a failure leaves none behind,
\* before or after it is told, and a booked one is never deleted.
RequestContract == Contract!Spec
=============================================================================
