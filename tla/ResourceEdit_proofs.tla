------------------------ MODULE ResourceEdit_proofs ------------------------
(***************************************************************************)
(* ResourceEdit's invariants, for every number of callers, versions and    *)
(* tries.  The inductive invariant says, of every caller, which revision   *)
(* its reads are of, what its changes under way carry, and in which phases *)
(* nothing of it can be under way or have taken effect.                    *)
(***************************************************************************)
EXTENDS ResourceEdit, TLAPS

\* A read is of one revision.
ReadOf(r) == r.version <= version /\ r.document = revision[r.version]

Asking == {"rereading", "redating", "ready"}

\* A first try that is asked about, was refused or was not sent did nothing and will not.
Untouched(k) ==
  k.phase \in Asking \/ k.answer = "refused" \/ k.verdict = "refused"

\* What k may say as the record of c.
Record(k) ==
  /\ ReadOf(k.shown) /\ ReadOf(k.read)
  /\ k.tries = 0 <=> k.phase \in {"idle", "dating", "shown"}
  /\ k.phase # "waiting" => k.answer = "none"
  /\ k.phase # "done" => k.verdict = "none"
  /\ k.verdict = "unreadable" => provider \in RejectGarbled
  /\ "people" \in k.changes => profile.people

\* A change that is about to be sent carries over what the version it replaces says.
Prepared(k) ==
  profile.rereads /\ k.phase = "ready" =>
    /\ k.read.version = k.shown.version
    /\ profile.blob /\ "text" \in k.changes => ~k.read.document.online

\* How often it took effect.
Counted(c, k) ==
  /\ provider \in Versioned =>
       applied[c] <= 1 /\ (applied[c] > 0 => k.shown.version < version)
  /\ k.answer = "done" \/ k.verdict = "updated" => applied[c] > 0
  /\ k.tries = 0 => applied[c] = 0
  /\ k.tries = 1 /\ Untouched(k) => applied[c] = 0 /\ \A m \in flying : m.caller # c

\* Its changes under way.
UnderWay(c, k) ==
  \A m \in flying : m.caller = c =>
    /\ m.try <= k.tries /\ m.expected = k.shown.version /\ m.fields = k.changes
    /\ k.phase \in Asking => m.try < k.tries
    /\ k.tries = 1 => applied[c] = 0

Own(c, k) == Record(k) /\ Prepared(k) /\ Counted(c, k) /\ UnderWay(c, k)

\* A change under way carries what the version it replaces says.
Faithful(m) ==
  profile.rereads =>
    /\ m.replied = revision[m.expected].replied
    /\ profile.blob /\ "text" \in m.fields => ~revision[m.expected].online

Typed ==
  /\ provider \in Edited /\ version \in Versions
  /\ revision \in [Versions -> Document]
  /\ call \in [Callers -> Call] /\ flying \subseteq Change
  /\ replied \in BOOLEAN /\ unseen \in BOOLEAN /\ applied \in [Callers -> Nat]

Flights ==
  /\ \A m \in flying : Faithful(m)
  /\ \A m, n \in flying : m.caller = n.caller /\ m.try = n.try => m = n

IInv ==
  /\ Typed /\ Flights
  /\ \A c \in Callers : Own(c, call[c])
  /\ RepliesKept /\ StillJoinable /\ NothingUnseenReplaced

-----------------------------------------------------------------------------
(* The profiles.                                                           *)

\* Who has attendees or an online meeting's text reads again and sends an If-Match; those who
\* decode the body first are the help centers.
LEMMA ProfileFacts ==
  ASSUME provider \in Edited
  PROVE  /\ profile.rereads \in BOOLEAN /\ profile.twice \in BOOLEAN /\ profile.blob \in BOOLEAN
         /\ profile.people \in BOOLEAN
         /\ provider \in Versioned <=> profile.guard # "none"
         /\ profile.people \/ profile.blob => profile.rereads /\ profile.guard # "none"
         /\ profile.bodyFirst => provider \in RejectGarbled
<1>1. provider \in DOMAIN EditProfile
  BY EditedAssumption
<1>2. provider \in {"google", "microsoft", "confluence", "help_scout_docs", "intercom_articles",
                    "notion_docs", "readme", "zendesk_guide"}
  BY <1>1 DEF EditProfile
<1>3. CASE provider = "google"
  BY <1>3 DEF profile, EditProfile, GoogleEvent, Unversioned, Versioned,
              RejectGarbled
<1>4. CASE provider = "microsoft"
  BY <1>4 DEF profile, EditProfile, MicrosoftEvent, GoogleEvent, Unversioned, Versioned,
              RejectGarbled
<1>5. CASE provider = "confluence"
  BY <1>5 DEF profile, EditProfile, ConfluencePage, Unversioned, Versioned,
              RejectGarbled
<1>6. CASE provider \in {"help_scout_docs", "intercom_articles", "notion_docs", "readme",
                         "zendesk_guide"}
  <2>1. profile = Unversioned
    BY <1>6 DEF profile, EditProfile, HelpScoutArticle, IntercomArticle, NotionPage, ReadMeGuide,
                ZendeskArticle
  <2>2. provider \notin Versioned /\ provider \in RejectGarbled
    BY <1>6 DEF Versioned, RejectGarbled
  <2> QED
    BY <2>1, <2>2 DEF Unversioned
<1> QED
  BY <1>2, <1>3, <1>4, <1>5, <1>6

\* The bounds of the revisions and of the tries.
LEMMA Bounds ==
  0 \in Versions /\ Versions \subseteq Nat /\ 0 \in 0..MaxTries /\ 1 \in 0..MaxTries
BY BoundsAssumption DEF Versions

-----------------------------------------------------------------------------
(* The records of the callers.                                             *)

\* What a read returns, and the record of no read, are of one revision.
LEMMA ReadTyped ==
  ASSUME Typed
  PROVE  /\ Read \in Reads /\ ReadOf(Read) /\ Read.version = version /\ Read.document = current
         /\ Blank \in Reads /\ ReadOf(Blank)
         /\ current \in Document
BY Bounds DEF Typed, Read, Blank, Reads, ReadOf, current

\* Dates that are read from the same revision are the dates that were read.
LEMMA SameDates ==
  ASSUME Typed, NEW r \in Reads, ReadOf(r), SameRevision(r)
  PROVE  Dated(r) = r
<1>1. r.document = current
  BY DEF ReadOf, SameRevision, current
<1>2. current.contents \in [Contents -> Versions] /\ "dates" \in Contents
  BY ReadTyped DEF Document, Contents
<1>3. [current.contents EXCEPT !["dates"] = current.contents["dates"]] = current.contents
  BY <1>2
<1>4. Dated(r) = [r EXCEPT !.document.contents = r.document.contents]
  BY <1>1, <1>3 DEF Dated
<1>5. r.document \in Document /\ r \in [version : Versions, document : Document]
  BY DEF Reads
<1>6. [r EXCEPT !.document.contents = r.document.contents] = r
  BY <1>5 DEF Document
<1> QED
  BY <1>4, <1>6

\* A step of one caller that leaves the resource and the changes under way alone.
LEMMA CallerStep ==
  ASSUME IInv, NEW c \in Callers, NEW k \in Call, Own(c, k),
         call' = [call EXCEPT ![c] = k],
         UNCHANGED <<provider, resource, flying, history>>
  PROVE  IInv'
<1> USE DEF resource, history
<1>1. Typed'
  BY DEF IInv, Typed
<1>2. Flights'
  BY DEF IInv, Flights, Faithful, profile
<1>3. ASSUME NEW d \in Callers PROVE Own(d, call[d])'
  <2>1. Own(d, call'[d])
    BY DEF IInv, Typed
  <2> QED
    BY <2>1 DEF Own, Record, ReadOf, Prepared, Counted, UnderWay, Untouched, profile
<1>4. (RepliesKept /\ StillJoinable /\ NothingUnseenReplaced)'
  BY DEF IInv, RepliesKept, StillJoinable, NothingUnseenReplaced, current
<1> QED
  BY <1>1, <1>2, <1>3, <1>4 DEF IInv

\* inspectCalendarWrite shows one revision, or the first read of it.
LEMMA InspectStep ==
  ASSUME IInv, NEW c \in Callers, Inspect(c)
  PROVE  IInv'
<1> DEFINE k == [call[c] EXCEPT !.shown = Read,
                                !.phase = IF profile.twice THEN "dating" ELSE "shown"]
<1>1. call[c] \in Call /\ Own(c, call[c])
  BY DEF IInv, Typed
<1>2. k \in Call
  BY <1>1, ReadTyped DEF IInv, Call, Phases
<1>3. /\ k.shown = Read /\ k.phase \in {"dating", "shown"} /\ k.read = call[c].read
      /\ k.tries = call[c].tries /\ k.answer = call[c].answer /\ k.verdict = call[c].verdict
      /\ k.changes = call[c].changes
  BY <1>1 DEF Call
<1>4. call[c].phase = "idle"
  BY DEF Inspect
<1>5. k.tries = 0 /\ k.answer = "none" /\ k.verdict = "none"
  BY <1>1, <1>3, <1>4 DEF Own, Record
<1>6. Record(k) /\ Prepared(k)
  BY <1>1, <1>3, <1>5, ReadTyped DEF IInv, Own, Record, Prepared
<1>7. Counted(c, k)
  BY <1>1, <1>3, <1>4, <1>5 DEF Own, Record, Counted, IInv, Typed
<1>8. UnderWay(c, k)
  BY <1>1, <1>3, <1>5 DEF Own, UnderWay, IInv, Typed, Change
<1>9. call' = [call EXCEPT ![c] = k]
  BY DEF Inspect, IInv, Typed
<1> QED
  BY <1>2, <1>6, <1>7, <1>8, <1>9, CallerStep DEF Inspect, Own

\* What a caller that was told nothing yet starts from.
LEMMA IdleOwn ==
  ASSUME IInv, NEW c \in Callers, call[c].tries = 0
  PROVE  Idle \in Call /\ Own(c, Idle)
<1>1. call[c] \in Call /\ Own(c, call[c])
  BY DEF IInv, Typed
<1>2. Idle \in Call
  <2>1. Blank \in Reads /\ 0 \in 0..MaxTries /\ {} \in SUBSET Fields
    BY ReadTyped, Bounds DEF IInv
  <2> QED
    BY <2>1 DEF Call, Idle, Phases, Answers, Verdicts
<1>3. Record(Idle) /\ Prepared(Idle)
  BY ReadTyped DEF IInv, Record, Prepared, Idle
<1>4. applied[c] = 0 /\ \A m \in flying : m.caller # c
  BY <1>1 DEF Own, Counted, UnderWay, IInv, Typed, Change
<1>5. Counted(c, Idle) /\ UnderWay(c, Idle)
  BY <1>4 DEF Counted, UnderWay, Idle, Untouched
<1> QED
  BY <1>2, <1>3, <1>5 DEF Own

\* The second read shows the same revision, or the caller starts again.
LEMMA InspectDatesStep ==
  ASSUME IInv, NEW c \in Callers, InspectDates(c)
  PROVE  IInv'
<1>1. call[c] \in Call /\ Own(c, call[c]) /\ call[c].phase = "dating" /\ call[c].tries = 0
  BY DEF IInv, Typed, InspectDates, Own, Record
<1>2. CASE call' = [call EXCEPT ![c] = Idle]
  BY <1>1, <1>2, IdleOwn, CallerStep DEF InspectDates
<1>3. ASSUME SameRevision(call[c].shown),
             call' = [call EXCEPT ![c].phase = "shown", ![c].shown = Dated(call[c].shown)]
      PROVE  IInv'
  <2> DEFINE k == [call[c] EXCEPT !.phase = "shown"]
  <2>1. Dated(call[c].shown) = call[c].shown
    BY <1>1, <1>3, SameDates DEF IInv, Own, Record, Call
  <2>2. call' = [call EXCEPT ![c] = [call[c] EXCEPT !.phase = "shown", !.shown = call[c].shown]]
    BY <1>3, <2>1 DEF IInv, Typed
  <2>3. [call[c] EXCEPT !.phase = "shown", !.shown = call[c].shown] = k
    BY <1>1 DEF Call
  <2>4. k \in Call
    BY <1>1 DEF Call, Phases
  <2>5. /\ k.shown = call[c].shown /\ k.phase = "shown" /\ k.read = call[c].read
        /\ k.tries = 0 /\ k.answer = call[c].answer /\ k.verdict = call[c].verdict
        /\ k.changes = call[c].changes
    BY <1>1 DEF Call
  <2>6. Record(k) /\ Prepared(k) /\ Counted(c, k) /\ UnderWay(c, k)
    BY <1>1, <2>5 DEF Own, Record, Prepared, Counted, UnderWay, Untouched, Asking
  <2> QED
    BY <2>2, <2>3, <2>4, <2>6, CallerStep DEF InspectDates, Own
<1> QED
  BY <1>2, <1>3 DEF InspectDates

\* A caller that asks for a change has none under way.
LEMMA UpdateStep ==
  ASSUME IInv, NEW c \in Callers, NEW changes \in Changes, Update(c, changes)
  PROVE  IInv'
<1> DEFINE k == [call[c] EXCEPT !.changes = changes, !.tries = 1,
                                !.phase = IF profile.rereads THEN "rereading" ELSE "ready"]
<1>1. call[c] \in Call /\ Own(c, call[c]) /\ call[c].phase = "shown" /\ call[c].tries = 0
  BY DEF IInv, Typed, Update
<1>2. changes \in SUBSET Fields /\ ("people" \in changes => profile.people)
  BY AskedAssumption DEF Changes
<1>3. k \in Call
  <2>1. 1 \in 0..MaxTries /\ (IF profile.rereads THEN "rereading" ELSE "ready") \in Phases
    BY Bounds DEF Phases
  <2> QED
    BY <1>1, <1>2, <2>1 DEF Call
<1>4. /\ k.shown = call[c].shown /\ k.phase \in {"rereading", "ready"} /\ k.read = call[c].read
      /\ k.tries = 1 /\ k.answer = call[c].answer /\ k.verdict = call[c].verdict
      /\ k.changes = changes
      /\ k.phase = "ready" => ~profile.rereads
  BY <1>1 DEF Call
<1>5. applied[c] = 0 /\ \A m \in flying : m.caller # c
  BY <1>1 DEF Own, Counted, UnderWay, IInv, Typed, Change
<1>6. Record(k) /\ Prepared(k)
  BY <1>1, <1>2, <1>4 DEF Own, Record, Prepared
<1>7. Counted(c, k) /\ UnderWay(c, k)
  BY <1>1, <1>4, <1>5 DEF Own, Record, Counted, UnderWay
<1>8. call' = [call EXCEPT ![c] = k]
  BY DEF Update, IInv, Typed
<1> QED
  BY <1>3, <1>6, <1>7, <1>8, CallerStep DEF Update, Own

\* A call that is over: its verdict is all that changes.
LEMMA EndedFacts ==
  ASSUME IInv, NEW c \in Callers, NEW verdict \in Verdicts
  PROVE  /\ Ended(c, verdict) \in Call
         /\ Ended(c, verdict).phase = "done" /\ Ended(c, verdict).verdict = verdict
         /\ Ended(c, verdict).read = Blank /\ Ended(c, verdict).answer = "none"
         /\ Ended(c, verdict).shown = call[c].shown /\ Ended(c, verdict).tries = call[c].tries
         /\ Ended(c, verdict).changes = call[c].changes
<1>1. call[c] \in Call /\ Blank \in Reads
  BY ReadTyped DEF IInv, Typed
<1> QED
  BY <1>1 DEF Ended, Call, Phases, Answers

\* A verdict that is true of what the caller's tries did.
LEMMA EndedOwn ==
  ASSUME IInv, NEW c \in Callers, NEW verdict \in Verdicts, call[c].tries # 0,
         verdict = "updated" => applied[c] > 0,
         verdict = "refused" /\ call[c].tries = 1 => Untouched(call[c]),
         verdict = "unreadable" => provider \in RejectGarbled
  PROVE  Own(c, Ended(c, verdict))
<1> DEFINE k == Ended(c, verdict)
<1>1. call[c] \in Call /\ Own(c, call[c])
  BY DEF IInv, Typed
<1>2. /\ k.phase = "done" /\ k.verdict = verdict /\ k.read = Blank /\ k.answer = "none"
      /\ k.shown = call[c].shown /\ k.tries = call[c].tries /\ k.changes = call[c].changes
  BY EndedFacts
<1> HIDE DEF k
<1>3. Record(k) /\ Prepared(k)
  BY <1>1, <1>2, ReadTyped DEF IInv, Own, Record, Prepared
<1>4. k.tries = 1 /\ Untouched(k) => Untouched(call[c])
  BY <1>2 DEF Untouched, Asking
<1>5. Counted(c, k)
  BY <1>1, <1>2, <1>4 DEF Own, Counted
<1>6. UnderWay(c, k)
  BY <1>1, <1>2 DEF Own, UnderWay, Asking
<1> QED
  BY <1>3, <1>5, <1>6 DEF Own, k

\* What follows a read that is complete.
LEMMA CheckedOwn ==
  ASSUME IInv, NEW c \in Callers, call[c].phase \in {"rereading", "redating"}
  PROVE  Checked(c, Read) \in Call /\ Own(c, Checked(c, Read))
<1>1. call[c] \in Call /\ Own(c, call[c]) /\ call[c].tries # 0 /\ Untouched(call[c])
  BY DEF IInv, Typed, Own, Record, Untouched, Asking
<1>2. CASE Checked(c, Read) = Ended(c, "refused")
  BY <1>1, <1>2, EndedFacts, EndedOwn DEF Verdicts
<1>3. CASE Read.version = call[c].shown.version /\ TextReplaceable(c, Read)
  <2> DEFINE k == [call[c] EXCEPT !.phase = "ready", !.read = Read]
  <2>1. Checked(c, Read) = k
    BY <1>3 DEF Checked
  <2>2. Read \in Reads /\ ReadOf(Read)
    BY ReadTyped DEF IInv
  <2>3. k \in Call
    BY <1>1, <2>2 DEF Call, Phases
  <2>4. /\ k.shown = call[c].shown /\ k.phase = "ready" /\ k.read = Read
        /\ k.tries = call[c].tries /\ k.answer = call[c].answer /\ k.verdict = call[c].verdict
        /\ k.changes = call[c].changes
    BY <1>1 DEF Call
  <2> HIDE DEF k
  <2>5. k.answer = "none" /\ k.verdict = "none"
    BY <1>1, <2>4 DEF Own, Record
  <2>6. Record(k)
    BY <1>1, <2>2, <2>4, <2>5 DEF Own, Record
  <2>7. Prepared(k)
    BY <1>3, <2>4 DEF Prepared, TextReplaceable
  <2>8. Counted(c, k)
    BY <1>1, <2>4, <2>5 DEF Own, Counted
  <2>9. UnderWay(c, k)
    BY <1>1, <2>4 DEF Own, UnderWay, Asking
  <2> QED
    BY <2>1, <2>3, <2>6, <2>7, <2>8, <2>9 DEF Own
<1> QED
  BY <1>2, <1>3 DEF Checked

\* The read before the PATCH is of one revision, or ends the call.
LEMMA RereadStep ==
  ASSUME IInv, NEW c \in Callers, Reread(c)
  PROVE  IInv'
<1>1. call[c] \in Call /\ Own(c, call[c]) /\ call[c].phase = "rereading"
  BY DEF IInv, Typed, Reread
<1>2. CASE ~profile.twice
  BY <1>1, <1>2, CheckedOwn, CallerStep DEF Reread
<1>3. CASE profile.twice
  <2> DEFINE k == [call[c] EXCEPT !.phase = "redating", !.read = Read]
  <2>1. call' = [call EXCEPT ![c] = k]
    BY <1>3 DEF Reread
  <2>2. Read \in Reads /\ ReadOf(Read)
    BY ReadTyped DEF IInv
  <2>3. k \in Call
    BY <1>1, <2>2 DEF Call, Phases
  <2>4. /\ k.shown = call[c].shown /\ k.phase = "redating" /\ k.read = Read
        /\ k.tries = call[c].tries /\ k.answer = call[c].answer /\ k.verdict = call[c].verdict
        /\ k.changes = call[c].changes
    BY <1>1 DEF Call
  <2> HIDE DEF k
  <2>5. Record(k) /\ Prepared(k)
    BY <1>1, <2>2, <2>4 DEF Own, Record, Prepared
  <2>6. Counted(c, k)
    BY <1>1, <2>4 DEF Own, Counted, Untouched, Asking
  <2>7. UnderWay(c, k)
    BY <1>1, <2>4 DEF Own, UnderWay, Asking
  <2> QED
    BY <2>1, <2>3, <2>5, <2>6, <2>7, CallerStep DEF Reread, Own
<1> QED
  BY <1>2, <1>3

\* The second read before the PATCH, likewise.
LEMMA RereadDatesStep ==
  ASSUME IInv, NEW c \in Callers, RereadDates(c)
  PROVE  IInv'
<1>1. /\ call[c] \in Call /\ Own(c, call[c]) /\ call[c].phase = "redating"
      /\ call[c].tries # 0
  BY DEF IInv, Typed, RereadDates, Own, Record
<1>2. CASE SameRevision(call[c].read)
  <2>1. call[c].read \in Reads /\ ReadOf(call[c].read)
    BY <1>1 DEF Call, Own, Record
  <2>2. Dated(call[c].read) = call[c].read
    BY <1>2, <2>1, SameDates DEF IInv
  <2>3. call[c].read = Read
    BY <1>2, <2>1, ReadTyped DEF SameRevision, ReadOf, Reads, Read, current
  <2>4. call' = [call EXCEPT ![c] = Checked(c, Read)]
    BY <1>2, <2>2, <2>3 DEF RereadDates
  <2> QED
    BY <1>1, <2>4, CheckedOwn, CallerStep DEF RereadDates
<1>3. CASE ~SameRevision(call[c].read)
  BY <1>1, <1>3, EndedFacts, EndedOwn, CallerStep DEF RereadDates, Verdicts
<1> QED
  BY <1>2, <1>3

\* A verdict says what the answer said.
LEMMA ReceiveStep ==
  ASSUME IInv, NEW c \in Callers, Receive(c)
  PROVE  IInv'
<1>1. /\ call[c] \in Call /\ Own(c, call[c]) /\ call[c].phase = "waiting"
      /\ call[c].answer \in {"done", "refused", "limited"} /\ call[c].tries # 0
  BY DEF IInv, Typed, Receive, Own, Record, Call, Answers
<1>2. CASE call' = [call EXCEPT ![c] = Ended(c, Reports(call[c].answer))]
  <2>1. CASE call[c].answer = "done"
    <3>1. Reports(call[c].answer) = "updated" /\ applied[c] > 0
      BY <1>1, <2>1 DEF Reports, Own, Counted
    <3> QED
      BY <1>1, <1>2, <3>1, EndedFacts, EndedOwn, CallerStep DEF Receive, Verdicts
  <2>2. CASE call[c].answer = "refused"
    <3>1. Reports(call[c].answer) = "refused" /\ Untouched(call[c])
      BY <2>2 DEF Reports, Untouched
    <3> QED
      BY <1>1, <1>2, <3>1, EndedFacts, EndedOwn, CallerStep DEF Receive, Verdicts
  <2>3. CASE call[c].answer = "limited"
    <3>1. Reports(call[c].answer) = "retryable"
      BY <2>3 DEF Reports
    <3> QED
      BY <1>1, <1>2, <3>1, EndedFacts, EndedOwn, CallerStep DEF Receive, Verdicts
  <2> QED
    BY <1>1, <2>1, <2>2, <2>3
<1>3. CASE call' = [call EXCEPT ![c] = Ended(c, "uncertain")]
  BY <1>1, <1>3, EndedFacts, EndedOwn, CallerStep DEF Receive, Verdicts
<1>4. ASSUME profile.bodyFirst, call' = [call EXCEPT ![c] = Ended(c, "unreadable")]
      PROVE  IInv'
  <2>1. provider \in RejectGarbled
    BY <1>4, ProfileFacts DEF IInv, Typed
  <2> QED
    BY <1>1, <1>4, <2>1, EndedFacts, EndedOwn, CallerStep DEF Receive, Verdicts
<1> QED
  BY <1>2, <1>3, <1>4 DEF Receive

\* A call that ends before it sent anything did nothing.
LEMMA NotSentStep ==
  ASSUME IInv, NEW c \in Callers, NotSent(c)
  PROVE  IInv'
<1>1. call[c] \in Call /\ Own(c, call[c]) /\ call[c].tries # 0 /\ Untouched(call[c])
  BY DEF IInv, Typed, NotSent, Own, Record, Untouched, Asking
<1>2. PICK verdict \in {"refused", "retryable"} : call' = [call EXCEPT ![c] = Ended(c, verdict)]
  BY DEF NotSent
<1> QED
  BY <1>1, <1>2, EndedFacts, EndedOwn, CallerStep DEF NotSent, Verdicts

\* A call that gives up reports an open outcome, or cannot read what it was answered.
LEMMA GiveUpStep ==
  ASSUME IInv, NEW c \in Callers, GiveUp(c)
  PROVE  IInv'
<1>1. call[c] \in Call /\ Own(c, call[c]) /\ call[c].tries # 0
  BY DEF IInv, Typed, GiveUp, Own, Record
<1>2. CASE call' = [call EXCEPT ![c] = Unanswered(c)]
  BY <1>1, <1>2, EndedFacts, EndedOwn, CallerStep DEF GiveUp, Unanswered, Verdicts
<1>3. ASSUME profile.bodyFirst, call' = [call EXCEPT ![c] = Ended(c, "unreadable")]
      PROVE  IInv'
  <2>1. provider \in RejectGarbled
    BY <1>3, ProfileFacts DEF IInv, Typed
  <2> QED
    BY <1>1, <1>3, <2>1, EndedFacts, EndedOwn, CallerStep DEF GiveUp, Verdicts
<1> QED
  BY <1>2, <1>3 DEF GiveUp

\* Another try is made of a call that ended retryable or uncertain.
LEMMA RepeatStep ==
  ASSUME IInv, NEW c \in Callers, Repeat(c)
  PROVE  IInv'
<1> DEFINE k == [call[c] EXCEPT !.tries = call[c].tries + 1, !.verdict = "none",
                                !.phase = IF profile.rereads THEN "rereading" ELSE "ready"]
<1>1. /\ call[c] \in Call /\ Own(c, call[c]) /\ call[c].phase = "done"
      /\ call[c].tries < MaxTries
  BY DEF IInv, Typed, Repeat
<1>2. call[c].tries \in Nat \ {0} /\ call[c].tries + 1 \in 0..MaxTries
  BY <1>1, BoundsAssumption DEF Call, Own, Record
<1>3. k \in Call
  <2>1. (IF profile.rereads THEN "rereading" ELSE "ready") \in Phases /\ "none" \in Verdicts
    BY DEF Phases, Verdicts
  <2> QED
    BY <1>1, <1>2, <2>1 DEF Call
<1>4. /\ k.shown = call[c].shown /\ k.phase \in {"rereading", "ready"} /\ k.read = call[c].read
      /\ k.tries = call[c].tries + 1 /\ k.answer = call[c].answer /\ k.verdict = "none"
      /\ k.changes = call[c].changes
      /\ k.phase = "ready" => ~profile.rereads
  BY <1>1 DEF Call
<1>5. call' = [call EXCEPT ![c] = k]
  BY DEF Repeat, IInv, Typed
<1> HIDE DEF k
<1>6. Record(k) /\ Prepared(k)
  BY <1>1, <1>2, <1>4 DEF Own, Record, Prepared
<1>7. Counted(c, k)
  BY <1>1, <1>2, <1>4 DEF Own, Record, Counted
<1>8. UnderWay(c, k)
  BY <1>1, <1>2, <1>4 DEF Own, UnderWay, IInv, Typed, Change
<1> QED
  BY <1>3, <1>5, <1>6, <1>7, <1>8, CallerStep DEF Repeat, Own

-----------------------------------------------------------------------------
(* The changes under way, and the resource.                                *)

\* The PATCH carries what the version it names says.
LEMMA SendStep ==
  ASSUME IInv, NEW c \in Callers, Send(c)
  PROVE  IInv'
<1> DEFINE k == [call[c] EXCEPT !.phase = "waiting", !.read = Blank]
<1> DEFINE r == Requested(c)
<1>1. /\ call[c] \in Call /\ Own(c, call[c]) /\ call[c].phase = "ready"
      /\ UNCHANGED <<provider, version, revision, replied, unseen, applied>>
  BY DEF IInv, Typed, Send, resource, history
<1>2. call[c].tries \in 1..MaxTries
  BY <1>1, BoundsAssumption DEF Own, Record, Call
<1>3. k \in Call
  BY <1>1, ReadTyped DEF IInv, Call, Phases
<1>4. /\ k.shown = call[c].shown /\ k.phase = "waiting" /\ k.read = Blank
      /\ k.tries = call[c].tries /\ k.answer = "none" /\ k.verdict = "none"
      /\ k.changes = call[c].changes
  BY <1>1 DEF Call, Own, Record
<1>5. call' = [call EXCEPT ![c] = k] /\ flying' = flying \cup {r}
  BY DEF Send, IInv, Typed
<1>6. /\ r.caller = c /\ r.try = call[c].tries /\ r.expected = call[c].shown.version
      /\ r.fields = call[c].changes /\ r.replied = call[c].read.document.replied
  BY DEF Requested, Replies
<1>7. r \in Change
  BY <1>1, <1>2 DEF Requested, Replies, Change, Call, Reads, Document
<1> HIDE DEF k, r
<1>8. Typed'
  BY <1>1, <1>3, <1>5, <1>7 DEF IInv, Typed
<1>9. Flights'
  <2>1. Faithful(r)
    BY <1>1, <1>6 DEF Faithful, Own, Record, Prepared, ReadOf
  <2>2. \A m \in flying : m.caller = c => m.try # r.try
    BY <1>1, <1>2, <1>6 DEF Own, UnderWay, Asking, IInv, Typed, Change
  <2> QED
    BY <1>1, <1>5, <1>6, <2>1, <2>2 DEF IInv, Flights, Faithful, profile
<1>10. ASSUME NEW d \in Callers PROVE Own(d, call[d])'
  <2>1. CASE d = c
    <3>1. /\ call'[c].shown = call[c].shown /\ call'[c].phase = "waiting"
          /\ call'[c].read = Blank /\ call'[c].tries = call[c].tries
          /\ call'[c].answer = "none" /\ call'[c].verdict = "none"
          /\ call'[c].changes = call[c].changes
      BY <1>4, <1>5 DEF IInv, Typed
    <3>2. Record(call[c])' /\ Prepared(call[c])'
      BY <1>1, <3>1, ReadTyped DEF IInv, Own, Record, ReadOf, Prepared, profile
    <3>3. call[c].tries = 1 => applied[c] = 0
      BY <1>1 DEF Own, Counted, Untouched, Asking
    <3>4. Counted(c, call[c])'
      BY <1>1, <1>2, <3>1 DEF Own, Counted, Untouched, Asking
    <3>5. UnderWay(c, call[c])'
      BY <1>1, <1>2, <1>5, <1>6, <3>1, <3>3 DEF Own, UnderWay, Asking
    <3> QED
      BY <2>1, <3>2, <3>4, <3>5 DEF Own
  <2>2. CASE d # c
    <3>1. call'[d] = call[d] /\ Own(d, call[d])
      BY <1>5, <2>2 DEF IInv, Typed
    <3> QED
      BY <1>1, <1>5, <1>6, <2>2, <3>1
         DEF Own, Record, ReadOf, Prepared, Counted, UnderWay, Untouched, profile
  <2> QED
    BY <2>1, <2>2
<1>11. (RepliesKept /\ StillJoinable /\ NothingUnseenReplaced)'
  BY <1>1 DEF IInv, RepliesKept, StillJoinable, NothingUnseenReplaced, current
<1> QED
  BY <1>8, <1>9, <1>10, <1>11 DEF IInv

\* A new revision leaves the earlier ones as they were read.
LEMMA Revised ==
  ASSUME Typed, NEW document \in Document, Becomes(document)
  PROVE  /\ version' \in Versions /\ version' = version + 1 /\ version \in Nat
         /\ revision' \in [Versions -> Document] /\ current' = document
         /\ \A v \in Versions : v <= version => revision'[v] = revision[v]
         /\ \A r \in Reads : ReadOf(r) => ReadOf(r)'
<1>1. version' \in Versions /\ version' = version + 1 /\ version \in Nat
  BY BoundsAssumption DEF Typed, Becomes, Versions
<1>2. revision' = [revision EXCEPT ![version + 1] = document]
  BY DEF Becomes
<1>3. \A v \in Versions : v <= version => revision'[v] = revision[v]
  BY <1>1, <1>2, Bounds DEF Typed
<1>4. revision' \in [Versions -> Document]
  BY <1>2 DEF Typed
<1>5. revision'[version'] = document
  BY <1>1, <1>2 DEF Typed
<1>6. ASSUME NEW r \in Reads, ReadOf(r) PROVE ReadOf(r)'
  <2>1. r.version \in Versions /\ r.version \in Nat /\ r.version <= version
    BY <1>6, Bounds DEF Reads, ReadOf
  <2>2. revision'[r.version] = r.document
    BY <1>3, <1>6, <2>1 DEF ReadOf
  <2> QED
    BY <1>1, <2>1, <2>2 DEF ReadOf
<1> QED
  BY <1>1, <1>3, <1>4, <1>5, <1>6 DEF current

\* What callers rely on outlives the revision they rely on.
LEMMA RevisedOwn ==
  ASSUME IInv, NEW document \in Document, Becomes(document), provider' = provider,
         NEW d \in Callers, NEW k \in Call, Record(k), Prepared(k)
  PROVE  Record(k)' /\ Prepared(k)'
<1>1. ReadOf(k.shown)' /\ ReadOf(k.read)'
  BY Revised DEF IInv, Record, Call
<1>2. profile' = profile
  BY DEF profile
<1> QED
  BY <1>1, <1>2 DEF Record, Prepared

\* A new revision leaves what the changes under way carry as it was.
LEMMA RevisedFlights ==
  ASSUME IInv, NEW document \in Document, Becomes(document), provider' = provider,
         flying' \subseteq flying
  PROVE  Flights'
<1>1. ASSUME NEW m \in flying PROVE Faithful(m)'
  <2>1. m \in Change /\ m.caller \in Callers /\ m.expected \in Versions
    BY DEF IInv, Typed, Change
  <2>2. m.expected = call[m.caller].shown.version /\ call[m.caller].shown.version <= version
    BY <2>1 DEF IInv, Own, Record, ReadOf, UnderWay
  <2>3. revision'[m.expected] = revision[m.expected]
    BY <2>1, <2>2, Revised DEF IInv
  <2> QED
    BY <2>3 DEF IInv, Flights, Faithful, profile
<1> QED
  BY <1>1 DEF IInv, Flights

\* A step of someone else who edits, and keeps the answers and what makes a meeting joinable.
LEMMA OthersStep ==
  ASSUME IInv, NEW document \in Document, Becomes(document), document.joinable,
         replied' = replied => (current.replied => document.replied),
         replied' # replied => document.replied,
         replied' \in BOOLEAN, UNCHANGED <<provider, call, flying, unseen, applied>>
  PROVE  IInv'
<1>1. Typed'
  BY Revised DEF IInv, Typed
<1>2. Flights'
  BY RevisedFlights
<1>3. ASSUME NEW d \in Callers PROVE Own(d, call[d])'
  <2>1. call[d] \in Call /\ Own(d, call[d])
    BY DEF IInv, Typed
  <2>2. (Record(call[d]) /\ Prepared(call[d]))'
    <3> DEFINE k == call[d]
    <3>1. Record(k)' /\ Prepared(k)'
      BY <2>1, RevisedOwn DEF Own
    <3> QED
      BY <3>1
  <2>3. version' = version + 1 /\ version \in Nat /\ call[d].shown.version \in Nat
    BY <2>1, Revised, Bounds DEF IInv, Call, Reads
  <2>4. (Counted(d, call[d]) /\ UnderWay(d, call[d]))'
    BY <2>1, <2>3 DEF Own, Counted, UnderWay, Untouched
  <2> QED
    BY <2>2, <2>4 DEF Own
<1>4. current' = document
  BY Revised DEF IInv
<1>5. (RepliesKept /\ StillJoinable /\ NothingUnseenReplaced)'
  BY <1>4 DEF IInv, RepliesKept, StillJoinable, NothingUnseenReplaced
<1> QED
  BY <1>1, <1>2, <1>3, <1>5 DEF IInv

\* A change of some contents yields contents.
LEMMA WrittenTyped ==
  ASSUME Typed, version < MaxVersion, NEW contents \in [Contents -> Versions], NEW names
  PROVE  Written(contents, names) \in [Contents -> Versions]
BY BoundsAssumption DEF Typed, Written, Versions

\* Someone else changes the text or the dates.
LEMMA RewriteStep ==
  ASSUME IInv, NEW f \in Contents, Rewrite(f)
  PROVE  IInv'
<1> DEFINE document == [current EXCEPT !.contents = Written(current.contents, {f})]
<1>1. current \in Document /\ current.contents \in [Contents -> Versions]
  BY ReadTyped DEF IInv, Document
<1>2. Written(current.contents, {f}) \in [Contents -> Versions]
  BY <1>1, WrittenTyped DEF IInv, Rewrite, Becomes
<1>3. document \in Document /\ document.joinable = current.joinable
      /\ document.replied = current.replied
  BY <1>1, <1>2 DEF Document
<1>4. current.joinable
  BY DEF IInv, StillJoinable
<1>5. Becomes(document)
  BY DEF Rewrite
<1> HIDE DEF document
<1> QED
  BY <1>3, <1>4, <1>5, OthersStep DEF Rewrite, history, IInv, Typed

\* An attendee answers the invitation.
LEMMA AnswerStep ==
  ASSUME IInv, Answer
  PROVE  IInv'
<1> DEFINE document == [current EXCEPT !.replied = TRUE]
<1>1. current \in Document
  BY ReadTyped DEF IInv
<1>2. document \in Document /\ document.joinable = current.joinable /\ document.replied = TRUE
  BY <1>1 DEF Document
<1>3. current.joinable
  BY DEF IInv, StillJoinable
<1>4. Becomes(document)
  BY DEF Answer
<1> HIDE DEF document
<1> QED
  BY <1>2, <1>3, <1>4, OthersStep DEF Answer

\* Someone makes the meeting an online meeting.
LEMMA GoOnlineStep ==
  ASSUME IInv, GoOnline
  PROVE  IInv'
<1> DEFINE document == [current EXCEPT !.online = TRUE]
<1>1. current \in Document
  BY ReadTyped DEF IInv
<1>2. document \in Document /\ document.joinable = current.joinable
      /\ document.replied = current.replied
  BY <1>1 DEF Document
<1>3. current.joinable
  BY DEF IInv, StillJoinable
<1>4. Becomes(document)
  BY DEF GoOnline
<1> HIDE DEF document
<1> QED
  BY <1>2, <1>3, <1>4, OthersStep DEF GoOnline, history, IInv, Typed

\* Who waits for a change hears of it, and nothing else about any call changes.
LEMMA HeardFacts ==
  ASSUME Typed, NEW m \in flying, NEW answer \in Answers, call' = Heard(m, answer)
  PROVE  /\ m.caller \in Callers /\ call' \in [Callers -> Call]
         /\ \A d \in Callers :
              /\ call'[d].phase = call[d].phase /\ call'[d].shown = call[d].shown
              /\ call'[d].changes = call[d].changes /\ call'[d].read = call[d].read
              /\ call'[d].tries = call[d].tries /\ call'[d].verdict = call[d].verdict
              /\ \/ call'[d].answer = call[d].answer
                 \/ /\ d = m.caller /\ call'[d].answer = answer
                    /\ call[d].phase = "waiting" /\ call[d].tries = m.try
<1>1. m.caller \in Callers
  BY DEF Typed, Change
<1>2. CASE call' = call
  BY <1>1, <1>2 DEF Typed
<1>3. ASSUME call' = [call EXCEPT ![m.caller].answer = answer],
             call[m.caller].phase = "waiting", call[m.caller].tries = m.try
      PROVE  /\ call' \in [Callers -> Call]
             /\ \A d \in Callers :
                  /\ call'[d].phase = call[d].phase /\ call'[d].shown = call[d].shown
                  /\ call'[d].changes = call[d].changes /\ call'[d].read = call[d].read
                  /\ call'[d].tries = call[d].tries /\ call'[d].verdict = call[d].verdict
                  /\ call'[d].answer = IF d = m.caller THEN answer ELSE call[d].answer
  <2> DEFINE k == [call[m.caller] EXCEPT !.answer = answer]
  <2>1. call[m.caller] \in Call
    BY <1>1 DEF Typed
  <2>2. k \in Call
    BY <2>1 DEF Call
  <2>3. /\ k.phase = call[m.caller].phase /\ k.shown = call[m.caller].shown
        /\ k.changes = call[m.caller].changes /\ k.read = call[m.caller].read
        /\ k.tries = call[m.caller].tries /\ k.verdict = call[m.caller].verdict
        /\ k.answer = answer
    BY <2>1 DEF Call
  <2>4. call' = [call EXCEPT ![m.caller] = k]
    BY <1>3
  <2> HIDE DEF k
  <2> QED
    BY <1>1, <2>2, <2>3, <2>4 DEF Typed
<1> QED
  BY <1>1, <1>2, <1>3 DEF Heard

\* A change that has its caller's only try is the only one of it.
LEMMA OnlyOne ==
  ASSUME IInv, NEW m \in flying
  PROVE  /\ m.caller \in Callers /\ call[m.caller] \in Call /\ Own(m.caller, call[m.caller])
         /\ m.try \in 1..MaxTries /\ m.try <= call[m.caller].tries
         /\ m.expected = call[m.caller].shown.version /\ m.fields = call[m.caller].changes
         /\ call[m.caller].tries = 1 =>
              /\ m.try = 1 /\ applied[m.caller] = 0
              /\ \A n \in flying \ {m} : n.caller # m.caller
<1>1. m \in Change /\ m.caller \in Callers /\ m.try \in 1..MaxTries
  BY DEF IInv, Typed, Change
<1>2. call[m.caller] \in Call /\ Own(m.caller, call[m.caller])
  BY <1>1 DEF IInv, Typed
<1>3. ASSUME call[m.caller].tries = 1, NEW n \in flying, n.caller = m.caller PROVE n = m
  <2>1. n.try \in 1..MaxTries /\ n.try <= 1 /\ m.try <= 1
    BY <1>2, <1>3 DEF Own, UnderWay, IInv, Typed, Change
  <2> QED
    BY <1>1, <1>3, <2>1, BoundsAssumption DEF IInv, Flights
<1>4. call[m.caller].tries = 1 => m.try = 1 /\ applied[m.caller] = 0
  BY <1>1, <1>2, BoundsAssumption DEF Own, UnderWay
<1> QED
  BY <1>1, <1>2, <1>3, <1>4 DEF Own, UnderWay

\* The upstream refuses a change and its caller may hear of it.
LEMMA DeclineStep ==
  ASSUME IInv, NEW m \in flying, Decline(m)
  PROVE  IInv'
<1>1. /\ flying' = flying \ {m}
      /\ UNCHANGED <<provider, version, revision, replied, unseen, applied>>
  BY DEF Decline, resource, history
<1>2. PICK answer \in {"refused", "limited"} : call' = Heard(m, answer)
  BY DEF Decline
<1>3. /\ m.caller \in Callers /\ call' \in [Callers -> Call]
      /\ \A d \in Callers :
           /\ call'[d].phase = call[d].phase /\ call'[d].shown = call[d].shown
           /\ call'[d].changes = call[d].changes /\ call'[d].read = call[d].read
           /\ call'[d].tries = call[d].tries /\ call'[d].verdict = call[d].verdict
           /\ \/ call'[d].answer = call[d].answer
              \/ /\ d = m.caller /\ call'[d].answer = answer
                 /\ call[d].phase = "waiting" /\ call[d].tries = m.try
  BY <1>2, HeardFacts DEF IInv, Answers
<1>4. Typed'
  BY <1>1, <1>3 DEF IInv, Typed
<1>5. Flights'
  BY <1>1 DEF IInv, Flights, Faithful, profile
<1>6. ASSUME NEW d \in Callers PROVE Own(d, call[d])'
  <2>1. Own(d, call[d])
    BY DEF IInv
  <2>2. Record(call[d])' /\ Prepared(call[d])'
    BY <1>1, <1>3, <2>1 DEF Own, Record, ReadOf, Prepared, profile
  <2>3. UnderWay(d, call[d])'
    BY <1>1, <1>3, <2>1 DEF Own, UnderWay
  <2>4. CASE call'[d].answer = call[d].answer
    <3>1. Counted(d, call[d])'
      BY <1>1, <1>3, <2>1, <2>4 DEF Own, Counted, Untouched
    <3> QED
      BY <2>2, <2>3, <3>1 DEF Own
  <2>5. CASE d = m.caller /\ call'[d].answer = answer
    <3>1. call[d].tries = 1 => applied[d] = 0 /\ \A n \in flying \ {m} : n.caller # d
      BY <2>5, OnlyOne
    <3>2. Counted(d, call[d])'
      BY <1>1, <1>3, <2>1, <2>5, <3>1 DEF Own, Counted
    <3> QED
      BY <2>2, <2>3, <3>2 DEF Own
  <2> QED
    BY <1>3, <2>4, <2>5
<1>7. (RepliesKept /\ StillJoinable /\ NothingUnseenReplaced)'
  BY <1>1 DEF IInv, RepliesKept, StillJoinable, NothingUnseenReplaced, current
<1> QED
  BY <1>4, <1>5, <1>6, <1>7 DEF IInv

\* Where the version is guarded, a change that is executed replaces what its caller was shown.
LEMMA GuardedExecution ==
  ASSUME IInv, NEW m \in flying, Precondition(m), profile.guard # "none"
  PROVE  /\ m.expected = version /\ call[m.caller].shown.version = version
         /\ call[m.caller].shown.document = current
BY OnlyOne DEF Precondition, Own, Record, ReadOf, current

\* The document an executed change leaves.
Result(m) ==
  [ contents |-> Written(Base(m), m.fields),
    replied  |-> IF "people" \in m.fields THEN m.replied ELSE current.replied,
    online   |-> current.online,
    joinable |-> current.joinable /\ ~(profile.blob /\ current.online /\ "text" \in m.fields) ]

\* What the upstream's document says after a change was executed.
LEMMA ResultFacts ==
  ASSUME IInv, NEW m \in flying, Execute(m)
  PROVE  /\ Result(m) \in Document /\ Becomes(Result(m))
         /\ replied => Result(m).replied
         /\ Result(m).joinable
<1>1. current \in Document /\ m \in Change /\ provider \in Edited
  BY ReadTyped DEF IInv, Typed
<1>2. Base(m) \in [Contents -> Versions]
  BY <1>1, OnlyOne DEF Base, Document, Call, Reads
<1>3. Written(Base(m), m.fields) \in [Contents -> Versions]
  BY <1>2, WrittenTyped DEF IInv, Execute, Becomes
<1>4. Result(m).replied \in BOOLEAN
  BY <1>1 DEF Result, Change, Document
<1>5. Result(m).online \in BOOLEAN
  BY <1>1 DEF Result, Document
<1>6. "people" \in m.fields => profile.people
  BY OnlyOne DEF Own, Record
<1>7. replied => Result(m).replied
  <2>1. CASE "people" \in m.fields
    <3>1. profile.rereads /\ profile.guard # "none"
      BY <1>1, <1>6, <2>1, ProfileFacts
    <3>2. m.replied = revision[m.expected].replied /\ m.expected = version
      BY <3>1, GuardedExecution DEF IInv, Flights, Faithful, Execute
    <3> QED
      BY <2>1, <3>2 DEF IInv, RepliesKept, Result, current
  <2>2. CASE "people" \notin m.fields
    BY <2>2 DEF IInv, RepliesKept, Result
  <2> QED
    BY <2>1, <2>2
<1>8. Result(m).joinable = TRUE
  <2>1. current.joinable = TRUE
    BY <1>1 DEF IInv, StillJoinable, Document
  <2>2. profile.blob /\ "text" \in m.fields => ~current.online
    <3>1. SUFFICES ASSUME profile.blob, "text" \in m.fields PROVE ~current.online
      OBVIOUS
    <3>2. profile.rereads /\ profile.guard # "none"
      BY <1>1, <3>1, ProfileFacts
    <3> QED
      BY <3>1, <3>2, GuardedExecution DEF IInv, Flights, Faithful, Execute, current
  <2> QED
    BY <2>1, <2>2 DEF Result
<1>9. Result(m) \in Document
  <2>1. /\ Result(m).contents = Written(Base(m), m.fields)
        /\ Result(m) = [contents |-> Result(m).contents, replied |-> Result(m).replied,
                        online |-> Result(m).online, joinable |-> Result(m).joinable]
    BY DEF Result
  <2> QED
    BY <1>3, <1>4, <1>5, <1>8, <2>1 DEF Document
<1>10. Becomes(Result(m))
  BY DEF Execute, Result
<1> QED
  BY <1>7, <1>8, <1>9, <1>10

\* The upstream executes a change, whether its caller still waits or not.
LEMMA ExecuteStep ==
  ASSUME IInv, NEW m \in flying, Execute(m)
  PROVE  IInv'
<1>1. flying' = flying \ {m} /\ provider' = provider /\ replied' = replied
  BY DEF Execute
<1>2. Result(m) \in Document /\ Becomes(Result(m)) /\ Result(m).joinable
      /\ (replied => Result(m).replied)
  BY ResultFacts
<1>3. /\ m.caller \in Callers /\ call' \in [Callers -> Call]
      /\ \A d \in Callers :
           /\ call'[d].phase = call[d].phase /\ call'[d].shown = call[d].shown
           /\ call'[d].changes = call[d].changes /\ call'[d].read = call[d].read
           /\ call'[d].tries = call[d].tries /\ call'[d].verdict = call[d].verdict
           /\ \/ call'[d].answer = call[d].answer
              \/ /\ d = m.caller /\ call'[d].answer = "done"
                 /\ call[d].phase = "waiting" /\ call[d].tries = m.try
  BY HeardFacts DEF IInv, Answers, Execute
<1>4. /\ applied' \in [Callers -> Nat] /\ applied'[m.caller] = applied[m.caller] + 1
      /\ applied[m.caller] \in Nat
      /\ \A d \in Callers : d # m.caller => applied'[d] = applied[d]
  BY <1>3 DEF Execute, IInv, Typed
<1>5. /\ version' \in Versions /\ version' = version + 1 /\ version \in Nat
      /\ revision' \in [Versions -> Document] /\ current' = Result(m)
  BY <1>2, Revised DEF IInv
<1>6. unseen' \in BOOLEAN
  BY DEF Execute
<1>7. Typed'
  BY <1>1, <1>3, <1>4, <1>5, <1>6 DEF IInv, Typed
<1>8. Flights'
  BY <1>1, <1>2, RevisedFlights
<1>9. ASSUME NEW d \in Callers PROVE Own(d, call[d])'
  <2>1. Own(d, call[d]) /\ call[d] \in Call /\ call[d].shown.version \in Nat
    BY Bounds DEF IInv, Typed, Call, Reads
  <2>2. /\ ReadOf(call[d].shown)' /\ ReadOf(call[d].read)'
        /\ Prepared(call[d])'
    <3>1. ReadOf(call[d].shown) /\ call[d].shown \in Reads /\ ReadOf(call[d].read)
          /\ call[d].read \in Reads
      BY <2>1 DEF Own, Record, Call
    <3>2. \A r \in Reads : ReadOf(r) => ReadOf(r)'
      BY <1>2, Revised DEF IInv
    <3>3. ReadOf(call[d].shown)' /\ ReadOf(call[d].read)'
      BY <1>3, <3>1, <3>2 DEF ReadOf
    <3>4. Prepared(call[d])'
      BY <1>1, <1>3, <2>1 DEF Own, Prepared, profile
    <3> QED
      BY <3>3, <3>4
  <2>3. Record(call[d])'
    BY <1>1, <1>3, <2>1, <2>2 DEF Own, Record, profile
  <2>4. CASE d # m.caller
    <3>1. Counted(d, call[d])' /\ UnderWay(d, call[d])'
      BY <1>1, <1>3, <1>4, <1>5, <2>1, <2>4 DEF Own, Counted, UnderWay, Untouched
    <3> QED
      BY <2>2, <2>3, <3>1 DEF Own
  <2>5. CASE d = m.caller
    <3>1. /\ call[d].tries \in Nat \ {0} /\ m.try \in Nat \ {0} /\ m.try <= call[d].tries
          /\ call[d].tries = 1 =>
               m.try = 1 /\ applied[d] = 0 /\ \A n \in flying \ {m} : n.caller # d
      BY <2>1, <2>5, OnlyOne, BoundsAssumption DEF Call
    <3>2. call[d].tries = 1 => ~Untouched(call[d])
      BY <2>1, <2>5, <3>1 DEF Own, Counted
    <3>3. UnderWay(d, call[d])'
      BY <1>1, <1>3, <2>1, <3>1 DEF Own, UnderWay
    <3>4. provider \in Versioned => applied[d] = 0 /\ call[d].shown.version = version
      <4>1. provider \in Versioned => profile.guard # "none"
        BY ProfileFacts DEF IInv, Typed
      <4>2. provider \in Versioned => call[d].shown.version = version
        BY <2>5, <4>1, GuardedExecution DEF Execute
      <4> QED
        BY <1>4, <1>5, <2>1, <2>5, <4>2 DEF Own, Counted
    <3>5. call[d].tries = 1 => ~Untouched(call'[d])
      BY <1>3, <3>2 DEF Untouched
    <3>6. Counted(d, call[d])'
      BY <1>1, <1>3, <1>4, <1>5, <2>5, <3>1, <3>4, <3>5 DEF Counted, Untouched
    <3> QED
      BY <2>2, <2>3, <3>3, <3>6 DEF Own
  <2> QED
    BY <2>4, <2>5
<1>10. RepliesKept' /\ StillJoinable'
  BY <1>1, <1>2, <1>5 DEF RepliesKept, StillJoinable
<1>11. NothingUnseenReplaced'
  <2>1. SUFFICES ASSUME provider \in Versioned PROVE unseen' = FALSE
    BY <1>1 DEF NothingUnseenReplaced
  <2>2. unseen = FALSE
    BY <2>1 DEF IInv, Typed, NothingUnseenReplaced
  <2>3. profile.guard # "none"
    BY <2>1, ProfileFacts DEF IInv, Typed
  <2>4. call[m.caller].shown.document = current
    BY <2>3, GuardedExecution DEF Execute
  <2> QED
    BY <2>2, <2>4 DEF Execute
<1> QED
  BY <1>7, <1>8, <1>9, <1>10, <1>11 DEF IInv

-----------------------------------------------------------------------------
(* The theorems.                                                           *)

\* Nothing was asked for yet.
LEMMA InitInvariant == Init => IInv
<1> SUFFICES ASSUME Init PROVE IInv
  OBVIOUS
<1>1. revision \in [Versions -> Document] /\ version \in Versions
  BY Bounds DEF Init, Document, Contents
<1>2. Blank \in Reads /\ ReadOf(Blank)
  <2>1. version = 0 /\ revision[0] \in Document
    BY <1>1, Bounds DEF Init
  <2>2. Blank.version = 0 /\ Blank.document = revision[0]
    BY DEF Blank
  <2>3. Blank \in Reads
    BY <2>1, Bounds DEF Blank, Reads
  <2> QED
    BY <2>1, <2>2, <2>3 DEF ReadOf
<1>3. Idle \in Call
  <2>1. Blank \in Reads /\ 0 \in 0..MaxTries /\ {} \in SUBSET Fields
    BY <1>2, Bounds
  <2> QED
    BY <2>1 DEF Call, Idle, Phases, Answers, Verdicts
<1>4. Typed
  BY <1>1, <1>3 DEF Init, Typed
<1>5. Flights
  BY DEF Init, Flights
<1>6. ASSUME NEW c \in Callers PROVE Own(c, call[c])
  <2>1. call[c] = Idle /\ applied[c] = 0 /\ flying = {}
    BY DEF Init
  <2>2. Record(Idle) /\ Prepared(Idle)
    BY <1>2 DEF Record, Prepared, Idle
  <2>3. Counted(c, Idle) /\ UnderWay(c, Idle)
    BY <2>1 DEF Counted, UnderWay, Idle, Untouched
  <2> QED
    BY <2>1, <2>2, <2>3 DEF Own
<1>7. RepliesKept /\ StillJoinable /\ NothingUnseenReplaced
  BY <1>1 DEF Init, RepliesKept, StillJoinable, NothingUnseenReplaced, current
<1> QED
  BY <1>4, <1>5, <1>6, <1>7 DEF IInv

\* Every step of the callers, the upstream and the other editors keeps IInv.
LEMMA NextInvariant == IInv /\ [Next]_vars => IInv'
<1> SUFFICES ASSUME IInv, [Next]_vars PROVE IInv'
  OBVIOUS
<1>1. ASSUME NEW c \in Callers,
             Inspect(c) \/ InspectDates(c) \/ UpdateSome(c) \/ Reread(c) \/ RereadDates(c)
      PROVE  IInv'
  BY <1>1, InspectStep, InspectDatesStep, UpdateStep, RereadStep, RereadDatesStep DEF UpdateSome
<1>2. ASSUME NEW c \in Callers,
             NotSent(c) \/ Send(c) \/ Receive(c) \/ GiveUp(c) \/ Repeat(c)
      PROVE  IInv'
  BY <1>2, NotSentStep, SendStep, ReceiveStep, GiveUpStep, RepeatStep
<1>3. ASSUME NEW f \in Contents, Rewrite(f) PROVE IInv'
  BY <1>3, RewriteStep
<1>4. CASE Answer \/ GoOnline
  BY <1>4, AnswerStep, GoOnlineStep
<1>5. ASSUME NEW m \in flying, Execute(m) \/ Decline(m) PROVE IInv'
  BY <1>5, ExecuteStep, DeclineStep
<1>6. CASE UNCHANGED vars
  BY <1>6 DEF vars, IInv, Typed, Flights, Faithful, Own, Record, ReadOf, Prepared, Counted,
              UnderWay, Untouched, RepliesKept, StillJoinable, NothingUnseenReplaced, profile,
              current
<1> QED
  BY <1>1, <1>2, <1>3, <1>4, <1>5, <1>6 DEF Next

\* IInv: what is shown, read, under way and reported stays consistent with the resource's
\* revisions through every interleaving of callers, late changes and other people's edits.
THEOREM EditInvariant == Spec => []IInv
BY InitInvariant, NextInvariant, PTL DEF Spec

\* TypeOK: a change on its way, however late, says what its caller asked for.
THEOREM EditTypeCorrect == Spec => []TypeOK
<1>1. IInv => TypeOK
  BY DEF IInv, Typed, TypeOK, Change, Own, UnderWay
<1> QED
  BY <1>1, EditInvariant, PTL

\* SnapshotWhole: the second read of an all-day event never mixes two revisions.
THEOREM SnapshotsAreWhole == Spec => []SnapshotWhole
<1>1. IInv => SnapshotWhole
  BY DEF IInv, Own, Record, ReadOf, SnapshotWhole
<1> QED
  BY <1>1, EditInvariant, PTL

\* NothingUnseenReplaced: If-Match and version.number admit a change of what was shown only.
THEOREM NoLostUpdate == Spec => []NothingUnseenReplaced
<1>1. IInv => NothingUnseenReplaced
  BY DEF IInv
<1> QED
  BY <1>1, EditInvariant, PTL

\* RepliesKept: replacing the attendees does not reset what they answered, at any time.
THEOREM RepliesSurvive == Spec => []RepliesKept
<1>1. IInv => RepliesKept
  BY DEF IInv
<1> QED
  BY <1>1, EditInvariant, PTL

\* StillJoinable: no change of the text removes what makes an online meeting joinable.
THEOREM MeetingsStayJoinable == Spec => []StillJoinable
<1>1. IInv => StillJoinable
  BY DEF IInv
<1> QED
  BY <1>1, EditInvariant, PTL

\* AppliedOnce: tries of one request that all arrive take effect once where a version is sent.
THEOREM EditAppliedOnce == Spec => []AppliedOnce
<1>1. IInv => AppliedOnce
  BY DEF IInv, Typed, Own, Counted, AppliedOnce
<1> QED
  BY <1>1, EditInvariant, PTL

\* ReportsTrue: "updated" tells of an effect, a refusal of the first try of none, now or
\* later; the failure that tells neither, of a body that cannot be read, is one of the six
\* help centers.
THEOREM EditReportsTrue == Spec => []ReportsTrue
<1>1. IInv => ReportsTrue
  BY DEF IInv, Own, Record, Counted, Untouched, ReportsTrue
<1> QED
  BY <1>1, EditInvariant, PTL
=============================================================================
