------------------------ MODULE FeishuMeeting_proofs ------------------------
(***************************************************************************)
(* Proofs about FeishuMeeting, for every number of attempts and crashes:   *)
(* its type invariant, that one RequestRef has one meeting, that a failed  *)
(* request leaves none behind, and that a reported one is kept.            *)
(*                                                                         *)
(* Three lemmas say what an attempt may conclude from one answer; Meeting- *)
(* Inv says what the calendar holds at each call of an attempt, and what   *)
(* abandoned requests can still do to it.                                  *)
(***************************************************************************)
EXTENDS FeishuMeeting, FiniteSetTheorems, TLAPS

\* An attempt has no verdict and, before its event was made, no event.
RunInv ==
  /\ step # "idle" => verdict = "none"
  /\ step \in {"token", "calendar", "create"} => event = 0

\* Only the event remembered under the key is in the calendar.
KeyInv == live \subseteq {known}

\* Who fetches the URL has invited the attendees; what failed is gone.
SagaInv ==
  /\ step = "get" => event \in invited
  /\ verdict \in {"retryable", "permanent"} => event \notin live

\* Without a crash: no meeting before the creation, at most the own one after it; a creation or
\* deletion is abandoned only where the verdict says so; a booked meeting is there.
CrashFree ==
  crashes = 0 =>
    /\ step \in {"token", "calendar", "create"} => live = {}
    /\ step = "idle" /\ verdict \in {"none", "retryable", "permanent"} => live = {}
    /\ step \in {"attendees", "get", "delete"} => live \subseteq {event}
    /\ (\E q \in late : q.call # "attendees") => step = "idle" /\ verdict = "uncertain"
    /\ verdict = "ok" => event \in live \cap invited

MeetingInv == TypeOK /\ RunInv /\ KeyInv /\ SagaInv /\ CrashFree

-----------------------------------------------------------------------------
(* What one answer tells.                                                  *)

\* An ok means that the call took effect, and of the creation that its event_id is known; a
\* write called failed can not land any more.
LEMMA AnswerTells ==
  ASSUME NEW kind \in Kinds, NEW r \in Reply, CanAnswer(Calendar, r)
  PROVE  LET result == Verdict(Calendar, kind, r)
         IN  /\ result \in Verdicts
             /\ result = "ok" => TookEffect(r)
             /\ kind # "read" /\ result \in {"retryable", "permanent"} => ~MayHaveTakenEffect(Calendar, r)
             /\ kind = "create" /\ result = "ok" => r.body = "full"
<1>1. /\ Calendar.garbled = Unreadable /\ Calendar.blankDecodes /\ ~Calendar.bodyFirst
      /\ Calendar.again = {"429"} /\ Calendar.open = {"lost", "408", "5xx"}
      /\ Calendar.limited = Always("permanent") /\ Calendar.refused = Always("permanent")
      /\ Calendar.pending = "none" /\ ~Calendar.partial
      /\ Calendar.bare = [read |-> "permanent", create |-> "uncertain", update |-> "ok"]
  BY DEF Calendar, Standard
<1> HIDE DEF Calendar
<1> QED
  BY <1>1 DEF Verdict, StatusVerdict, BodyVerdict, Undecodable, Unsure, Always, Unreadable, Reply,
              Statuses, Bodies, Verdicts, Kinds, TookEffect, MayHaveTakenEffect, CanAnswer

\* What a request that lands can do: ids are never used again, only a creation adds an event,
\* only a deletion removes one, and no more than the remembered one is there.
CalendarMoves(call) ==
  /\ made' \in Nat /\ made <= made' /\ known' \in 0..made'
  /\ live' \subseteq 1..made' /\ invited' \subseteq 1..made' /\ invited \subseteq invited'
  /\ live' \subseteq {known'}
  /\ \A e \in 0..made : e \notin live => e \notin live'
  /\ call # "create" => live' \subseteq live
  /\ call # "delete" => live \subseteq live'

\* No request at all moves nothing.
LEMMA RestMoves ==
  ASSUME TypeOK, KeyInv, UNCHANGED calendar, NEW call
  PROVE  CalendarMoves(call)
  BY DEF calendar, CalendarMoves, TypeOK, KeyInv

\* A request that lands.
LEMMA DoesMoves ==
  ASSUME TypeOK, KeyInv, NEW call, NEW target, Does(call, target)
  PROVE  CalendarMoves(call)
<1>1. CASE call = "create" /\ known = 0
  <2>1. /\ made' = made + 1 /\ known' = made + 1 /\ live' = live \cup {made + 1}
        /\ invited' = invited
    BY <1>1 DEF Does, Make, FoundUnderKey
  <2>2. live = {}
    BY <1>1 DEF TypeOK, KeyInv
  <2> QED
    BY <1>1, <2>1, <2>2 DEF CalendarMoves, TypeOK
<1>2. CASE call = "create" /\ known # 0
  <2>1. UNCHANGED calendar
    BY <1>2 DEF Does, Make, FoundUnderKey
  <2> QED
    BY <2>1, RestMoves
<1>3. CASE call = "get"
  <2>1. UNCHANGED calendar
    BY <1>3 DEF Does
  <2> QED
    BY <2>1, RestMoves
<1>4. CASE call = "attendees"
  <2>1. /\ live' = live /\ made' = made /\ known' = known
        /\ invited' = invited \cup {target} /\ target \in 1..made
    BY <1>4 DEF Does, TypeOK
  <2> QED
    BY <2>1 DEF CalendarMoves, TypeOK, KeyInv
<1>5. CASE call = "delete"
  <2>1. /\ live' = live \ {target} /\ made' = made /\ known' \in {known, 0}
        /\ invited' = invited /\ target \in live
    BY <1>5 DEF Does
  <2>2. live' = {}
    BY <2>1 DEF KeyInv
  <2> QED
    BY <1>5, <2>1, <2>2 DEF CalendarMoves, TypeOK
<1> QED
  BY <1>1, <1>2, <1>3, <1>4, <1>5 DEF Does

\* What is abandoned is a request, and only a write.
LEMMA AbandonKeeps ==
  ASSUME TypeOK, Abandon
  PROVE  /\ late' \subseteq Request
         /\ \A q \in late' : q \in late \/ (step \in Writes /\ q.call = step)
<1>1. event \in Nat
  BY DEF TypeOK
<1> QED
  BY <1>1 DEF TypeOK, Abandon, Request

\* A call of the attempt and its answer.
LEMMA AnswerMoves ==
  ASSUME MeetingInv, NEW call \in Writes \cup {"get"}, NEW r \in Reply, Answer(call, r)
  PROVE  /\ step = call /\ CanAnswer(Calendar, r)
         /\ CalendarMoves(call)
         /\ late' \subseteq Request
         /\ UNCHANGED bounds
         /\ ~TookEffect(r) => UNCHANGED calendar
         /\ TookEffect(r) => Does(call, event)
         /\ crashes = 0 /\ (\E q \in late' : q.call # "attendees")
              => call \in {"create", "delete"} /\ ~TookEffect(r) /\ MayHaveTakenEffect(Calendar, r)
<1>1. step = call /\ CanAnswer(Calendar, r) /\ UNCHANGED bounds
  BY DEF Answer
<1>2. crashes = 0 => ~(\E q \in late : q.call # "attendees")
  BY <1>1 DEF MeetingInv, CrashFree, Writes
<1>3. late \subseteq Request
  BY DEF MeetingInv, TypeOK
<1>4. CASE TookEffect(r)
  BY <1>1, <1>2, <1>3, <1>4, DoesMoves DEF Answer, MeetingInv
<1>5. CASE ~TookEffect(r)
  <2>1. UNCHANGED calendar /\ CalendarMoves(call)
    BY <1>5, RestMoves DEF Answer, MeetingInv
  <2>2. CASE MayHaveTakenEffect(Calendar, r)
    BY <1>1, <1>2, <1>5, <2>1, <2>2, AbandonKeeps DEF Answer, MeetingInv, Writes
  <2>3. CASE ~MayHaveTakenEffect(Calendar, r)
    BY <1>1, <1>2, <1>3, <1>5, <2>1, <2>3 DEF Answer
  <2> QED
    BY <2>2, <2>3
<1> QED
  BY <1>4, <1>5

-----------------------------------------------------------------------------
(* The machine.                                                            *)

\* The initial states satisfy the invariant.
LEMMA InitMeeting == Init => MeetingInv
  BY BoundsAssumption
     DEF Init, MeetingInv, TypeOK, RunInv, KeyInv, SagaInv, CrashFree, Steps, Verdicts

\* A verdict before the creation: nothing has been made.
LEMMA EarlyConclusion ==
  ASSUME MeetingInv, NEW result \in Verdicts, step \in {"token", "calendar"},
         result # "ok", Conclude(result), UNCHANGED <<calendar, late, bounds>>
  PROVE  MeetingInv'
<1>1. TypeOK'
  BY DEF MeetingInv, TypeOK, Conclude, calendar, bounds, Steps
<1>2. event = 0 /\ 0 \notin live
  BY DEF MeetingInv, RunInv, TypeOK
<1> QED
  BY <1>1, <1>2 DEF MeetingInv, RunInv, KeyInv, SagaInv, CrashFree, Conclude, calendar, bounds

\* Every step keeps the invariant.
LEMMA NextMeeting == MeetingInv /\ [Next]_vars => MeetingInv'
<1> SUFFICES ASSUME MeetingInv, [Next]_vars
             PROVE  MeetingInv'
  OBVIOUS
<1>1. CASE Attempt
  <2>1. TypeOK'
    BY <1>1, BoundsAssumption DEF Attempt, MeetingInv, TypeOK, calendar, Steps
  <2> QED
    BY <1>1, <2>1 DEF Attempt, MeetingInv, RunInv, KeyInv, SagaInv, CrashFree, calendar
<1>2. CASE AccessToken
  <2>1. ASSUME Proceed("calendar"), UNCHANGED event
        PROVE  MeetingInv'
    <3>1. TypeOK'
      BY <1>2, <2>1 DEF AccessToken, Proceed, MeetingInv, TypeOK, calendar, bounds, Steps
    <3> QED
      BY <1>2, <2>1, <3>1 DEF AccessToken, Proceed, MeetingInv, RunInv, KeyInv, SagaInv,
                              CrashFree, calendar, bounds
  <2>2. ASSUME NEW result \in {"retryable", "permanent"}, Conclude(result)
        PROVE  MeetingInv'
    BY <1>2, <2>2, EarlyConclusion DEF AccessToken, Verdicts
  <2> QED
    BY <1>2, <2>1, <2>2 DEF AccessToken
<1>3. CASE CalendarID
  <2>1. ASSUME Proceed("create"), UNCHANGED event
        PROVE  MeetingInv'
    <3>1. TypeOK'
      BY <1>3, <2>1 DEF CalendarID, Proceed, MeetingInv, TypeOK, calendar, bounds, Steps, Writes
    <3> QED
      BY <1>3, <2>1, <3>1 DEF CalendarID, Proceed, MeetingInv, RunInv, KeyInv, SagaInv,
                              CrashFree, calendar, bounds
  <2>2. ASSUME NEW r \in Reply, CanAnswer(Calendar, r), Verdict(Calendar, "read", r) # "ok",
               Conclude(Verdict(Calendar, "read", r))
        PROVE  MeetingInv'
    <3>1. Verdict(Calendar, "read", r) \in Verdicts
      BY <2>2, AnswerTells DEF Kinds
    <3> QED
      BY <1>3, <2>2, <3>1, EarlyConclusion DEF CalendarID
  <2> QED
    BY <1>3, <2>1, <2>2 DEF CalendarID
<1>4. ASSUME NEW r \in Reply, Create(r)
      PROVE  MeetingInv'
  <2> DEFINE result == Verdict(Calendar, "create", r)
  <2>1. /\ step = "create" /\ CanAnswer(Calendar, r) /\ CalendarMoves("create")
        /\ late' \subseteq Request /\ UNCHANGED bounds
        /\ ~TookEffect(r) => UNCHANGED calendar
        /\ TookEffect(r) => Does("create", event)
        /\ crashes = 0 /\ (\E q \in late' : q.call # "attendees")
             => ~TookEffect(r) /\ MayHaveTakenEffect(Calendar, r)
    BY <1>4, AnswerMoves DEF Create, Writes
  <2>2. /\ result \in Verdicts /\ (result = "ok" => TookEffect(r) /\ r.body = "full")
        /\ result \in {"retryable", "permanent"} => ~MayHaveTakenEffect(Calendar, r)
    BY <2>1, AnswerTells DEF Kinds
  <2>3. event = 0 /\ verdict = "none" /\ 0 \notin live'
    BY <2>1 DEF MeetingInv, RunInv, CalendarMoves
  <2>4. CASE result = "ok"
    <3>1. step' = "attendees" /\ event' = known' /\ UNCHANGED <<cause, verdict>>
      BY <1>4, <2>2, <2>4 DEF Create, Proceed
    <3>2. known' # 0
      BY <2>1, <2>2, <2>4 DEF Does, Make, FoundUnderKey, calendar, MeetingInv, TypeOK
    <3>3. TypeOK'
      BY <2>1, <3>1, <3>2 DEF CalendarMoves, MeetingInv, TypeOK, bounds, Steps, Writes
    <3> QED
      BY <2>1, <2>2, <2>3, <2>4, <3>1, <3>3
         DEF CalendarMoves, MeetingInv, RunInv, KeyInv, SagaInv, CrashFree, bounds
  <2>5. CASE result # "ok"
    <3>1. step' = "idle" /\ verdict' = result /\ UNCHANGED <<event, cause>>
      BY <1>4, <2>5 DEF Create, Conclude
    <3>2. TypeOK'
      BY <2>1, <2>2, <3>1 DEF CalendarMoves, MeetingInv, TypeOK, bounds, Steps
    <3>3. result \in {"retryable", "permanent"} => UNCHANGED calendar
      BY <2>1, <2>2 DEF MayHaveTakenEffect
    <3>4. CrashFree'
      <4>1. result \in {"retryable", "permanent", "uncertain"}
        BY <2>2, <2>5 DEF Verdicts
      <4>2. crashes = 0 => live = {}
        BY <2>1 DEF MeetingInv, CrashFree
      <4>3. result # "uncertain" => ~(crashes = 0 /\ \E q \in late' : q.call # "attendees")
        BY <2>1, <2>2, <4>1
      <4> QED
        BY <2>1, <3>1, <3>3, <4>1, <4>2, <4>3 DEF CrashFree, calendar, bounds
    <3> QED
      BY <2>1, <2>3, <3>1, <3>2, <3>4 DEF CalendarMoves, MeetingInv, RunInv, KeyInv, SagaInv
  <2> QED
    BY <2>4, <2>5
<1>5. ASSUME NEW r \in Reply, Invite(r)
      PROVE  MeetingInv'
  <2> DEFINE result == Verdict(Calendar, "update", r)
  <2>1. /\ step = "attendees" /\ CanAnswer(Calendar, r) /\ CalendarMoves("attendees")
        /\ late' \subseteq Request /\ UNCHANGED bounds
        /\ TookEffect(r) => Does("attendees", event)
        /\ crashes = 0 => ~(\E q \in late' : q.call # "attendees")
    BY <1>5, AnswerMoves DEF Invite, Writes
  <2>2. result \in Verdicts /\ (result = "ok" => TookEffect(r))
    BY <2>1, AnswerTells DEF Kinds
  <2>3. verdict = "none" /\ event \in 1..made
    BY <2>1 DEF MeetingInv, RunInv, TypeOK
  <2>4. CASE result = "ok"
    <3>1. step' = "get" /\ UNCHANGED <<event, cause, verdict>>
      BY <1>5, <2>4 DEF Invite, Proceed
    <3>2. event \in invited'
      BY <2>1, <2>2, <2>4 DEF Does
    <3>3. TypeOK'
      BY <2>1, <2>3, <3>1 DEF CalendarMoves, MeetingInv, TypeOK, bounds, Steps
    <3> QED
      BY <2>1, <2>3, <3>1, <3>2, <3>3
         DEF CalendarMoves, MeetingInv, RunInv, KeyInv, SagaInv, CrashFree, bounds
  <2>5. CASE result # "ok"
    <3>1. step' = "delete" /\ cause' = result /\ UNCHANGED <<event, verdict>>
      BY <1>5, <2>5 DEF Invite, Compensate
    <3>2. TypeOK'
      BY <2>1, <2>2, <2>3, <3>1 DEF CalendarMoves, MeetingInv, TypeOK, bounds, Steps, Writes
    <3> QED
      BY <2>1, <2>3, <3>1, <3>2
         DEF CalendarMoves, MeetingInv, RunInv, KeyInv, SagaInv, CrashFree, bounds
  <2> QED
    BY <2>4, <2>5
<1>6. ASSUME NEW r \in Reply, Get(r)
      PROVE  MeetingInv'
  <2> DEFINE result == Verdict(Calendar, "read", r)
  <2>1. /\ step = "get" /\ CanAnswer(Calendar, r) /\ CalendarMoves("get")
        /\ late' \subseteq Request /\ UNCHANGED bounds
        /\ TookEffect(r) => Does("get", event)
        /\ crashes = 0 => ~(\E q \in late' : q.call # "attendees")
    BY <1>6, AnswerMoves DEF Get, Writes
  <2>2. result \in Verdicts /\ (result = "ok" => TookEffect(r))
    BY <2>1, AnswerTells DEF Kinds
  <2>3. verdict = "none" /\ event \in 1..made /\ event \in invited'
    BY <2>1 DEF MeetingInv, RunInv, SagaInv, TypeOK, CalendarMoves
  <2>4. CASE result = "ok"
    <3>1. step' = "idle" /\ verdict' = "ok" /\ UNCHANGED <<event, cause>>
      BY <1>6, <2>4 DEF Get, Conclude
    <3>2. event \in live'
      BY <2>1, <2>2, <2>4 DEF Does, calendar
    <3>3. TypeOK'
      BY <2>1, <2>3, <3>1 DEF CalendarMoves, MeetingInv, TypeOK, bounds, Steps, Verdicts
    <3> QED
      BY <2>1, <2>3, <3>1, <3>2, <3>3
         DEF CalendarMoves, MeetingInv, RunInv, KeyInv, SagaInv, CrashFree, bounds
  <2>5. CASE result # "ok"
    <3>1. step' = "delete" /\ cause' = result /\ UNCHANGED <<event, verdict>>
      BY <1>6, <2>5 DEF Get, Compensate
    <3>2. TypeOK'
      BY <2>1, <2>2, <2>3, <3>1 DEF CalendarMoves, MeetingInv, TypeOK, bounds, Steps, Writes
    <3> QED
      BY <2>1, <2>3, <3>1, <3>2
         DEF CalendarMoves, MeetingInv, RunInv, KeyInv, SagaInv, CrashFree, bounds
  <2> QED
    BY <2>4, <2>5
<1>7. ASSUME NEW r \in Reply, Delete(r)
      PROVE  MeetingInv'
  <2>1. /\ step = "delete" /\ CanAnswer(Calendar, r) /\ CalendarMoves("delete")
        /\ late' \subseteq Request /\ UNCHANGED bounds
        /\ TookEffect(r) => Does("delete", event)
        /\ crashes = 0 /\ (\E q \in late' : q.call # "attendees") => ~TookEffect(r)
    BY <1>7, AnswerMoves DEF Delete, Writes
  <2>2. Verdict(Calendar, "update", r) = "ok" => TookEffect(r)
    BY <2>1, AnswerTells DEF Kinds
  <2>3. step' = "idle" /\ verdict' = RolledBack(r) /\ UNCHANGED <<event, cause>>
    BY <1>7 DEF Delete, Conclude
  <2>4. /\ RolledBack(r) \in {"retryable", "permanent", "uncertain"}
        /\ RolledBack(r) # "uncertain" => TookEffect(r)
    BY <2>2 DEF RolledBack
  <2>5. RolledBack(r) # "uncertain" => event \notin live'
    BY <2>1, <2>4 DEF Does
  <2>6. TypeOK'
    BY <2>1, <2>3, <2>4 DEF CalendarMoves, MeetingInv, TypeOK, bounds, Steps, Verdicts
  <2>7. CrashFree'
    <3>1. crashes = 0 /\ RolledBack(r) # "uncertain" => live' = {}
      BY <2>1, <2>4, <2>5 DEF MeetingInv, CrashFree, Does
    <3>2. crashes = 0 /\ RolledBack(r) # "uncertain" => ~(\E q \in late' : q.call # "attendees")
      BY <2>1, <2>4
    <3> QED
      BY <2>1, <2>3, <2>4, <3>1, <3>2 DEF CrashFree, bounds
  <2> QED
    BY <2>1, <2>3, <2>4, <2>5, <2>6, <2>7 DEF CalendarMoves, MeetingInv, RunInv, KeyInv, SagaInv
<1>8. CASE Crash
  <2>1. late' \subseteq Request
    BY <1>8, AbandonKeeps DEF Crash, MeetingInv
  <2>2. crashes' \in 0..MaxCrashes /\ crashes' # 0
    BY <1>8, BoundsAssumption DEF Crash, MeetingInv, TypeOK
  <2>3. TypeOK'
    BY <1>8, <2>1, <2>2 DEF Crash, MeetingInv, TypeOK, calendar, Steps
  <2> QED
    BY <1>8, <2>2, <2>3 DEF Crash, MeetingInv, RunInv, KeyInv, SagaInv, CrashFree, calendar
<1>9. CASE Land
  <2>1. PICK q \in late : /\ Does(q.call, q.event) /\ late' = late \ {q}
                          /\ UNCHANGED <<step, event, cause, verdict, bounds>>
    BY <1>9 DEF Land
  <2>2. CalendarMoves(q.call)
    BY <2>1, DoesMoves DEF MeetingInv
  <2>3. TypeOK'
    BY <2>1, <2>2 DEF CalendarMoves, MeetingInv, TypeOK, bounds
  <2>4. CrashFree'
    <3>1. CASE q.call = "attendees"
      BY <2>1, <2>2, <3>1 DEF CalendarMoves, MeetingInv, CrashFree, bounds
    <3>2. CASE q.call # "attendees"
      BY <2>1, <3>2 DEF MeetingInv, CrashFree, bounds
    <3> QED
      BY <3>1, <3>2
  <2> QED
    BY <2>1, <2>2, <2>3, <2>4
       DEF CalendarMoves, MeetingInv, TypeOK, RunInv, KeyInv, SagaInv, bounds
<1>10. CASE UNCHANGED vars
  BY <1>10 DEF vars, calendar, bounds, MeetingInv, TypeOK, RunInv, KeyInv, SagaInv, CrashFree
<1> QED
  BY <1>1, <1>2, <1>3, <1>4, <1>5, <1>6, <1>7, <1>8, <1>9, <1>10 DEF Next

\* MeetingInv holds of every reachable state of the attempts and the calendar.
LEMMA InvAlways == Spec => []MeetingInv
<1>1. Init => MeetingInv
  BY InitMeeting
<1>2. MeetingInv /\ [Next]_vars => MeetingInv'
  BY NextMeeting
<1> QED
  BY <1>1, <1>2, PTL DEF Spec

-----------------------------------------------------------------------------
(* The theorems.                                                           *)

\* createMeeting, its attempts and what they abandon keep every variable in its type.
THEOREM TypeCorrect == Spec => []TypeOK
<1>1. MeetingInv => TypeOK
  BY DEF MeetingInv
<1> QED
  BY <1>1, InvAlways, PTL

\* The idempotency key derived from the RequestRef allows one meeting at a time, for every
\* number of repetitions and crashes.
THEOREM AtMostOne == Spec => []OneMeeting
<1>1. MeetingInv => OneMeeting
  BY DEF MeetingInv, KeyInv, OneMeeting
<1> QED
  BY <1>1, InvAlways, PTL

\* After compensatedError says retryable or permanent its event is gone, and without a crash
\* the calendar is as it was.
THEOREM Compensated == Spec => []NothingLeftBehind
<1>1. MeetingInv => NothingLeftBehind
  <2> SUFFICES ASSUME MeetingInv, verdict \in {"retryable", "permanent"}
               PROVE  event \notin live /\ (crashes = 0 => live = {})
    BY DEF NothingLeftBehind
  <2>1. step = "idle"
    BY DEF MeetingInv, RunInv
  <2> QED
    BY <2>1 DEF MeetingInv, SagaInv, CrashFree
<1> QED
  BY <1>1, InvAlways, PTL

\* What createMeeting returns without an error is a meeting with its attendees invited, and
\* stays one unless an attempt crashed.
THEOREM Booked == Spec => MeetingKept
<1>1. MeetingInv /\ MeetingInv' /\ [Next]_vars
        => [verdict' = "ok" /\ (verdict = "none" \/ crashes = 0)
              => event' \in live' \cap invited']_vars
  <2> SUFFICES ASSUME MeetingInv, MeetingInv', Next, verdict' = "ok",
                      verdict = "none" \/ crashes = 0
               PROVE  event' \in live' \cap invited'
    OBVIOUS
  <2>1. ASSUME NEW r \in Reply, Get(r)
        PROVE  event' \in live' \cap invited'
    <3>1. /\ step = "get" /\ CanAnswer(Calendar, r) /\ CalendarMoves("get")
          /\ TookEffect(r) => Does("get", event)
      BY <2>1, AnswerMoves DEF Get, Writes
    <3>2. verdict = "none"
      BY <3>1 DEF MeetingInv, RunInv
    <3>3. Verdict(Calendar, "read", r) = "ok" /\ event' = event
      BY <2>1, <3>2 DEF Get, Compensate, Conclude
    <3>4. event \in live'
      BY <3>1, <3>3, AnswerTells DEF Does, calendar, Kinds
    <3>5. event \in invited'
      BY <3>1 DEF MeetingInv, SagaInv, CalendarMoves
    <3> QED
      BY <3>3, <3>4, <3>5
  <2>2. CASE verdict = "none" /\ ~(\E r \in Reply : Get(r))
    BY <2>2 DEF Next, Attempt, AccessToken, CalendarID, Crash, Land, Create, Invite, Delete,
                RolledBack, Proceed, Compensate, Conclude
  <2>3. CASE verdict # "none"
    <3>1. step = "idle" /\ crashes = 0
      BY <2>3 DEF MeetingInv, RunInv
    <3>2. crashes' = 0
      BY <3>1 DEF Next, Attempt, AccessToken, CalendarID, Crash, Land, Create, Invite, Get,
                  Delete, Answer, bounds, Writes
    <3> QED
      BY <3>2 DEF MeetingInv, CrashFree
  <2> QED
    BY <2>1, <2>2, <2>3
<1> QED
  BY <1>1, InvAlways, NextMeeting, PTL DEF Spec, MeetingKept

-----------------------------------------------------------------------------
(* FeishuMeeting implements AtomicRequest.                                 *)

\* What Runtime is told, by the verdict.
LEMMA TellsFacts ==
  /\ Tells("create", "none") = "nothing" /\ Tells("create", "retryable") = "again"
  /\ Tells("create", "ok") = "done" /\ Tells("create", "permanent") = "failed"
  /\ Tells("create", "uncertain") = "open"
BY DEF Tells

\* There is one meeting or none.
LEMMA MeetingsCounted ==
  ASSUME KeyInv
  PROVE  Cardinality(live) = IF live = {} THEN 0 ELSE 1
<1>1. live = {} \/ live = {known}
  BY DEF KeyInv
<1> QED
  BY <1>1, FS_EmptySet, FS_Singleton

\* What there is after a step, told or not, there may be: one meeting more or less.
LEMMA MeetingsChange ==
  ASSUME KeyInv, KeyInv'
  PROVE  /\ Cardinality(live) \in {0, 1} /\ Cardinality(live)' \in {0, 1}
         /\ live' = {} <=> Cardinality(live)' = 0
         /\ (live = {}) = (live' = {}) => Cardinality(live)' = Cardinality(live)
<1>1. Cardinality(live) = IF live = {} THEN 0 ELSE 1
  BY MeetingsCounted
<1>2. Cardinality(live') = IF live' = {} THEN 0 ELSE 1
  <2>1. live' = {} \/ live' = {known'}
    BY DEF KeyInv
  <2> QED
    BY <2>1, FS_EmptySet, FS_Singleton
<1> QED
  BY <1>1, <1>2

\* A step that tells nothing: whatever happens does so where it may.
LEMMA Happens ==
  ASSUME KeyInv, KeyInv', UNCHANGED <<verdict, crashes>>,
         crashes = 0 => verdict \in {"none", "uncertain"} \/ UNCHANGED live
  PROVE  Contract!Next \/ UNCHANGED Contract!vars
<1>1. CASE Cardinality(live)' = Cardinality(live)
  BY <1>1 DEF Contract!vars
<1>2. CASE Cardinality(live)' # Cardinality(live)
  <2>1. crashes = 0 => Tells("create", verdict) \in {"nothing", "open"}
    BY <1>2, TellsFacts
  <2> QED
    BY <1>2, <2>1, MeetingsChange DEF Contract!Work, Contract!Perform, Contract!Undo, Contract!Next
<1> QED
  BY <1>1, <1>2

\* An attempt ends with a verdict, which is true.
LEMMA Ends ==
  ASSUME MeetingInv, MeetingInv', step # "idle", step' = "idle", verdict' \in Verdicts,
         crashes' = crashes, verdict' = "ok" => live' # {}
  PROVE  Contract!Next
<1>1. KeyInv /\ KeyInv' /\ verdict = "none"
  BY DEF MeetingInv, RunInv
<1>2. Tells("create", verdict) = "nothing"
  BY <1>1, TellsFacts
<1>3. /\ Tells("create", verdict') \in {"again", "done", "failed", "open"}
      /\ Tells("create", verdict') = "done" => verdict' = "ok"
      /\ Tells("create", verdict') \in {"again", "failed"} => verdict' \in {"retryable", "permanent"}
  BY TellsFacts DEF Verdicts
<1>4. Tells("create", verdict') = "done" => Cardinality(live)' > 0
  BY <1>1, <1>3, MeetingsChange
<1>5. crashes' = 0 /\ verdict' \in {"retryable", "permanent"} => live' = {}
  BY DEF MeetingInv, CrashFree
<1>6. crashes = 0 /\ Tells("create", verdict') \in {"again", "failed"} => Cardinality(live)' = 0
  BY <1>1, <1>3, <1>5, MeetingsChange
<1> QED
  BY <1>1, <1>2, <1>3, <1>4, <1>6, MeetingsChange
     DEF Contract!Work, Contract!Tell, Contract!Perform, Contract!Undo, Contract!Next

\* A call of an attempt and its answer: the next call, or the verdict.
LEMMA AnswerImplements ==
  ASSUME MeetingInv, MeetingInv', NEW r \in Reply, Create(r) \/ Invite(r) \/ Get(r) \/ Delete(r)
  PROVE  Contract!Next \/ UNCHANGED Contract!vars
<1>1. KeyInv /\ KeyInv' /\ crashes' = crashes /\ step # "idle" /\ verdict = "none"
  BY DEF MeetingInv, RunInv, Create, Invite, Get, Delete, Answer, bounds, Writes
<1>2. CASE UNCHANGED verdict
  BY <1>1, <1>2, Happens
<1>3. ASSUME NEW call \in {"create", "get"}, Answer(call, r), verdict' # verdict,
             Conclude(Verdict(Calendar, IF call = "create" THEN "create" ELSE "read", r)),
             call = "create" => verdict' # "ok"
      PROVE  Contract!Next
  <2>1. CanAnswer(Calendar, r)
    BY <1>3 DEF Answer
  <2>2. verdict' \in Verdicts /\ (call = "get" /\ verdict' = "ok" => TookEffect(r))
    BY <1>3, <2>1, AnswerTells DEF Conclude, Kinds
  <2>3. verdict' = "ok" => live' # {}
    BY <1>3, <2>2 DEF Answer, Does, calendar
  <2> QED
    BY <1>1, <1>3, <2>2, <2>3, Ends DEF Conclude
<1>4. CASE Create(r) /\ verdict' # verdict
  BY <1>3, <1>4 DEF Create, Proceed, Conclude
<1>5. CASE Invite(r)
  BY <1>2, <1>5 DEF Invite, Proceed, Compensate
<1>6. CASE Get(r) /\ verdict' # verdict
  BY <1>3, <1>6 DEF Get, Compensate
<1>7. CASE Delete(r)
  <2>1. verdict' \in {"retryable", "permanent", "uncertain"} /\ step' = "idle"
    BY <1>7 DEF Delete, Conclude, RolledBack
  <2> QED
    BY <1>1, <2>1, Ends DEF Verdicts
<1> QED
  BY <1>2, <1>4, <1>5, <1>6, <1>7

\* Every step of the attempts, and every request that lands, is one of the contract's, or none.
LEMMA StepImplements ==
  ASSUME MeetingInv, MeetingInv', [Next]_vars
  PROVE  Contract!Next \/ UNCHANGED Contract!vars
<1>1. KeyInv /\ KeyInv'
  BY DEF MeetingInv
<1>2. CASE UNCHANGED <<live, verdict, crashes>>
  BY <1>2 DEF Contract!vars
<1>3. CASE Attempt
  <2>1. /\ verdict \in {"none", "retryable"} /\ verdict' = "none"
        /\ UNCHANGED <<live, crashes>>
    BY <1>3 DEF Attempt, calendar
  <2> QED
    BY <1>2, <2>1, TellsFacts DEF Contract!Repeat, Contract!Next
<1>4. CASE AccessToken \/ CalendarID
  <2>1. step # "idle" /\ UNCHANGED <<live, crashes>>
    BY <1>4 DEF AccessToken, CalendarID, calendar, bounds
  <2>2. \/ UNCHANGED verdict
        \/ step' = "idle" /\ verdict' \in Verdicts /\ verdict' # "ok"
    <3>1. CASE AccessToken
      BY <3>1 DEF AccessToken, Proceed, Conclude, Verdicts
    <3>2. CASE CalendarID
      BY <3>2, AnswerTells DEF CalendarID, Proceed, Conclude, Kinds
    <3> QED
      BY <1>4, <3>1, <3>2
  <2> QED
    BY <1>2, <2>1, <2>2, Ends
<1>5. CASE Crash
  <2>1. crashes' # 0 /\ UNCHANGED <<live, verdict>>
    BY <1>5 DEF Crash, calendar, MeetingInv, TypeOK
  <2> QED
    BY <2>1 DEF Contract!Disturb, Contract!Next
<1>6. CASE Land
  <2>1. PICK q \in late : Does(q.call, q.event) /\ UNCHANGED <<verdict, crashes>>
    BY <1>6 DEF Land, bounds
  <2>2. q.call = "attendees" => UNCHANGED live
    BY <2>1 DEF Does
  <2>3. crashes = 0 /\ q.call # "attendees" => verdict = "uncertain"
    BY DEF MeetingInv, CrashFree
  <2> QED
    BY <1>1, <2>1, <2>2, <2>3, Happens
<1>7. ASSUME NEW r \in Reply, Create(r) \/ Invite(r) \/ Get(r) \/ Delete(r)
      PROVE  Contract!Next \/ UNCHANGED Contract!vars
  BY <1>7, AnswerImplements
<1>8. CASE UNCHANGED vars
  BY <1>2, <1>8 DEF vars, calendar, bounds
<1> QED
  BY <1>3, <1>4, <1>5, <1>6, <1>7, <1>8 DEF Next

\* RequestContract: the event, the invitations, the compensation and what lands late amount to
\* one meeting that is made, or made and undone, before the verdict that tells of it.
THEOREM MeetingImplemented == Spec => RequestContract
<1>1. Init => Contract!Init
  <2> SUFFICES ASSUME Init PROVE Contract!Init
    OBVIOUS
  <2>1. Cardinality(live) = 0 /\ Tells("create", verdict) = "nothing"
    BY TellsFacts, FS_EmptySet DEF Init
  <2>2. crashes = 0
    BY DEF Init
  <2> QED
    BY <2>1, <2>2 DEF Contract!Init
<1>2. MeetingInv /\ MeetingInv' /\ [Next]_vars => [Contract!Next]_(Contract!vars)
  BY StepImplements
<1> QED
  BY <1>1, <1>2, InvAlways, PTL DEF Spec, RequestContract, Contract!Spec
=============================================================================
