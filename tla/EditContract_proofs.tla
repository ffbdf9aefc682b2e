------------------------ MODULE EditContract_proofs ------------------------
(***************************************************************************)
(* ResourceEdit implements AtomicEdit: the reads, requests, answers and    *)
(* repetitions of an update amount to one look, one question, at most one  *)
(* change at one moment and one report; where no version is sent, to       *)
(* changes that are each made at one moment.                               *)
(***************************************************************************)
EXTENDS ResourceEdit_proofs

\* Who was asked for a change was asked for one that names fields.
AskedInv == \A c \in Callers : call[c].tries = 0 <=> call[c].changes = {}

ImplInv == IInv /\ AskedInv

-----------------------------------------------------------------------------
(* What a step of a caller does to what the contract speaks of.            *)

Looks(c, k) ==
  /\ call[c].tries = 0 /\ call[c].verdict = "none"
  /\ k.tries = 0 /\ k.verdict = "none" /\ k.changes \in {call[c].changes, {}}

Asks(c, k) ==
  /\ call[c].tries = 0 /\ call[c].verdict = "none"
  /\ k.tries = 1 /\ k.verdict = "none" /\ k.changes # {} /\ k.shown = call[c].shown

GoesOn(c, k) ==
  /\ call[c].tries # 0 /\ call[c].verdict = "none"
  /\ k.tries = call[c].tries /\ k.changes = call[c].changes /\ k.shown = call[c].shown

Repeats(c, k) ==
  /\ call[c].tries # 0 /\ call[c].verdict \in {"retryable", "uncertain"}
  /\ k.tries # 0 /\ k.verdict = "none" /\ k.changes = call[c].changes /\ k.shown = call[c].shown

Turn(c, k) ==
  /\ call' = [call EXCEPT ![c] = k]
  /\ UNCHANGED <<provider, resource, applied>>
  /\ Looks(c, k) \/ Asks(c, k) \/ GoesOn(c, k) \/ Repeats(c, k)

\* Inspecting shows a revision and asks for nothing.
LEMMA InspectTurns ==
  ASSUME IInv, NEW c \in Callers, Inspect(c) \/ InspectDates(c)
  PROVE  \E k \in Call : Turn(c, k)
<1>1. call[c] \in Call /\ Own(c, call[c]) /\ call \in [Callers -> Call]
  BY DEF IInv, Typed
<1>2. call[c].tries = 0 /\ call[c].verdict = "none" /\ call[c].phase \in {"idle", "dating"}
  BY <1>1 DEF Inspect, InspectDates, Own, Record
<1>3. UNCHANGED <<provider, resource, applied>>
  BY DEF Inspect, InspectDates, history
<1>4. CASE Inspect(c)
  <2> DEFINE k == [call[c] EXCEPT !.shown = Read,
                                  !.phase = IF profile.twice THEN "dating" ELSE "shown"]
  <2>1. k \in Call
    BY <1>1, ReadTyped DEF IInv, Call, Phases
  <2>2. k.tries = call[c].tries /\ k.verdict = call[c].verdict /\ k.changes = call[c].changes
    BY <1>1 DEF Call
  <2>3. call' = [call EXCEPT ![c] = k]
    BY <1>1, <1>4 DEF Inspect
  <2> HIDE DEF k
  <2> QED
    BY <1>2, <1>3, <2>1, <2>2, <2>3 DEF Turn, Looks
<1>5. CASE call' = [call EXCEPT ![c] = Idle]
  <2>1. Idle \in Call
    BY <1>2, IdleOwn
  <2>2. Idle.tries = 0 /\ Idle.verdict = "none" /\ Idle.changes = {}
    BY DEF Idle
  <2> QED
    BY <1>2, <1>3, <1>5, <2>1, <2>2 DEF Turn, Looks
<1>6. ASSUME SameRevision(call[c].shown),
             call' = [call EXCEPT ![c].phase = "shown", ![c].shown = Dated(call[c].shown)]
      PROVE  \E k \in Call : Turn(c, k)
  <2> DEFINE k == [call[c] EXCEPT !.phase = "shown", !.shown = Dated(call[c].shown)]
  <2>1. Dated(call[c].shown) \in Reads
    BY <1>1, <1>6, SameDates DEF IInv, Own, Record, Call
  <2>2. k \in Call
    BY <1>1, <2>1 DEF Call, Phases
  <2>3. k.tries = call[c].tries /\ k.verdict = call[c].verdict /\ k.changes = call[c].changes
    BY <1>1 DEF Call
  <2>4. call' = [call EXCEPT ![c] = k]
    BY <1>1, <1>6
  <2> HIDE DEF k
  <2> QED
    BY <1>2, <1>3, <2>2, <2>3, <2>4 DEF Turn, Looks
<1> QED
  BY <1>4, <1>5, <1>6 DEF InspectDates

\* The caller asks for a change.
LEMMA UpdateTurns ==
  ASSUME IInv, NEW c \in Callers, NEW changes \in Changes, Update(c, changes)
  PROVE  \E k \in Call : Turn(c, k)
<1> DEFINE k == [call[c] EXCEPT !.changes = changes, !.tries = 1,
                                !.phase = IF profile.rereads THEN "rereading" ELSE "ready"]
<1>1. call[c] \in Call /\ Own(c, call[c]) /\ call \in [Callers -> Call]
  BY DEF IInv, Typed
<1>2. call[c].tries = 0 /\ call[c].verdict = "none"
  BY <1>1 DEF Update, Own, Record
<1>3. changes \in SUBSET Fields /\ changes # {}
  BY AskedAssumption DEF Changes
<1>4. k \in Call
  <2>1. 1 \in 0..MaxTries /\ (IF profile.rereads THEN "rereading" ELSE "ready") \in Phases
    BY Bounds DEF Phases
  <2> QED
    BY <1>1, <1>3, <2>1 DEF Call
<1>5. k.tries = 1 /\ k.verdict = call[c].verdict /\ k.changes = changes /\ k.shown = call[c].shown
  BY <1>1 DEF Call
<1>6. call' = [call EXCEPT ![c] = k]
  BY <1>1 DEF Update
<1> HIDE DEF k
<1> QED
  BY <1>2, <1>3, <1>4, <1>5, <1>6 DEF Turn, Asks, Update, history

\* A call that ends goes on to its verdict.
LEMMA EndedTurns ==
  ASSUME IInv, NEW c \in Callers, NEW verdict \in Verdicts, call[c].tries # 0,
         call[c].verdict = "none", call' = [call EXCEPT ![c] = Ended(c, verdict)],
         UNCHANGED <<provider, resource, history>>
  PROVE  \E k \in Call : Turn(c, k)
<1>1. Ended(c, verdict) \in Call /\ GoesOn(c, Ended(c, verdict))
  BY EndedFacts DEF GoesOn
<1> QED
  BY <1>1 DEF Turn, history

\* The reads before the change.
LEMMA RereadTurns ==
  ASSUME IInv, NEW c \in Callers, Reread(c) \/ RereadDates(c)
  PROVE  \E k \in Call : Turn(c, k)
<1>1. call[c] \in Call /\ Own(c, call[c]) /\ call \in [Callers -> Call]
  BY DEF IInv, Typed
<1>2. /\ call[c].tries # 0 /\ call[c].verdict = "none"
      /\ call[c].phase \in {"rereading", "redating"}
      /\ UNCHANGED <<provider, resource, history>>
  BY <1>1 DEF Reread, RereadDates, Own, Record
<1>3. ASSUME call' = [call EXCEPT ![c] = Checked(c, Read)] PROVE \E k \in Call : Turn(c, k)
  <2>1. CASE Checked(c, Read) = Ended(c, "refused")
    BY <1>2, <1>3, <2>1, EndedTurns DEF Verdicts
  <2>2. CASE Checked(c, Read) = [call[c] EXCEPT !.phase = "ready", !.read = Read]
    <3> DEFINE k == Checked(c, Read)
    <3>1. k \in Call
      BY <1>2, CheckedOwn
    <3>2. k.tries = call[c].tries /\ k.changes = call[c].changes /\ k.shown = call[c].shown
      BY <1>1, <2>2 DEF Call
    <3> HIDE DEF k
    <3>3. call' = [call EXCEPT ![c] = k]
      BY <1>3 DEF k
    <3> QED
      BY <1>2, <3>1, <3>2, <3>3 DEF Turn, GoesOn, history
  <2> QED
    BY <2>1, <2>2 DEF Checked
<1>4. ASSUME call' = [call EXCEPT ![c] = [call[c] EXCEPT !.phase = "redating", !.read = Read]]
      PROVE  \E k \in Call : Turn(c, k)
  <2> DEFINE k == [call[c] EXCEPT !.phase = "redating", !.read = Read]
  <2>1. k \in Call
    BY <1>1, ReadTyped DEF IInv, Call, Phases
  <2>2. k.tries = call[c].tries /\ k.changes = call[c].changes /\ k.shown = call[c].shown
    BY <1>1 DEF Call
  <2>3. call' = [call EXCEPT ![c] = k]
    BY <1>4
  <2> HIDE DEF k
  <2> QED
    BY <1>2, <2>1, <2>2, <2>3 DEF Turn, GoesOn, history
<1>5. CASE Reread(c)
  BY <1>3, <1>4, <1>5 DEF Reread
<1>6. CASE RereadDates(c) /\ SameRevision(call[c].read)
  <2>1. call[c].read \in Reads /\ ReadOf(call[c].read)
    BY <1>1 DEF Call, Own, Record
  <2>2. Dated(call[c].read) = Read
    BY <1>6, <2>1, SameDates, ReadTyped DEF IInv, SameRevision, ReadOf, Reads, Read, current
  <2> QED
    BY <1>3, <1>6, <2>2 DEF RereadDates
<1>7. CASE RereadDates(c) /\ ~SameRevision(call[c].read)
  BY <1>2, <1>7, EndedTurns DEF RereadDates, Verdicts
<1> QED
  BY <1>5, <1>6, <1>7

\* The request, its answer or the lack of one, and its repetition.
LEMMA RequestTurns ==
  ASSUME IInv, NEW c \in Callers, NotSent(c) \/ Send(c) \/ Receive(c) \/ GiveUp(c) \/ Repeat(c)
  PROVE  \E k \in Call : Turn(c, k)
<1>1. call[c] \in Call /\ Own(c, call[c]) /\ call \in [Callers -> Call]
  BY DEF IInv, Typed
<1>2. call[c].tries # 0 /\ (~Repeat(c) => call[c].verdict = "none")
  BY <1>1 DEF NotSent, Send, Receive, GiveUp, Repeat, Own, Record
<1>3. CASE Send(c)
  <2> DEFINE k == [call[c] EXCEPT !.phase = "waiting", !.read = Blank]
  <2>1. k \in Call
    BY <1>1, ReadTyped DEF IInv, Call, Phases
  <2>2. k.tries = call[c].tries /\ k.changes = call[c].changes /\ k.shown = call[c].shown
    BY <1>1 DEF Call
  <2>3. call' = [call EXCEPT ![c] = k]
    BY <1>1, <1>3 DEF Send
  <2>4. call[c].verdict = "none"
    BY <1>1, <1>3 DEF Send, Own, Record
  <2> HIDE DEF k
  <2> QED
    BY <1>2, <1>3, <2>1, <2>2, <2>3, <2>4 DEF Turn, GoesOn, Send, history
<1>4. CASE Receive(c)
  <2>1. call[c].verdict = "none" /\ call[c].answer \in {"done", "refused", "limited"}
    BY <1>1, <1>4 DEF Receive, Own, Record, Call, Answers
  <2>2. Reports(call[c].answer) \in Verdicts
    BY <2>1 DEF Reports, Verdicts
  <2> QED
    BY <1>2, <1>4, <2>1, <2>2, EndedTurns DEF Receive, Verdicts
<1>5. CASE GiveUp(c)
  <2>1. call[c].verdict = "none"
    BY <1>1, <1>5 DEF GiveUp, Own, Record
  <2> QED
    BY <1>2, <1>5, <2>1, EndedTurns DEF GiveUp, Unanswered, Verdicts
<1>6. CASE Repeat(c)
  <2> DEFINE k == [call[c] EXCEPT !.tries = call[c].tries + 1, !.verdict = "none",
                                  !.phase = IF profile.rereads THEN "rereading" ELSE "ready"]
  <2>1. call[c].tries \in Nat /\ call[c].tries + 1 \in 0..MaxTries
    BY <1>1, <1>6, BoundsAssumption DEF Call, Repeat
  <2>2. k \in Call
    <3>1. (IF profile.rereads THEN "rereading" ELSE "ready") \in Phases /\ "none" \in Verdicts
      BY DEF Phases, Verdicts
    <3> QED
      BY <1>1, <2>1, <3>1 DEF Call
  <2>3. /\ k.tries = call[c].tries + 1 /\ k.verdict = "none"
        /\ k.changes = call[c].changes /\ k.shown = call[c].shown
    BY <1>1 DEF Call
  <2>4. call' = [call EXCEPT ![c] = k] /\ UNCHANGED <<provider, resource, applied>>
    BY <1>1, <1>6 DEF Repeat, history
  <2>5. call[c].verdict \in {"retryable", "uncertain"}
    BY <1>6 DEF Repeat
  <2> HIDE DEF k
  <2>6. k.tries # 0
    BY <2>1, <2>3
  <2>7. Repeats(c, k)
    BY <1>2, <2>3, <2>5, <2>6 DEF Repeats
  <2> QED
    BY <2>2, <2>4, <2>7 DEF Turn
<1>7. CASE NotSent(c)
  <2>1. call[c].verdict = "none"
    BY <1>1, <1>7 DEF NotSent, Own, Record
  <2> QED
    BY <1>2, <1>7, <2>1, EndedTurns DEF NotSent, Verdicts
<1> QED
  BY <1>3, <1>4, <1>5, <1>6, <1>7

-----------------------------------------------------------------------------
(* The invariant of the refinement.                                        *)

\* No one is told of a change nobody asked for.
LEMMA TurnAsked ==
  ASSUME IInv, AskedInv, NEW c \in Callers, NEW k \in Call, Turn(c, k)
  PROVE  AskedInv'
<1>1. k.tries = 0 <=> k.changes = {}
  BY DEF Turn, Looks, Asks, GoesOn, Repeats, AskedInv
<1>2. \A d \in Callers : call'[d] = IF d = c THEN k ELSE call[d]
  BY DEF Turn, IInv, Typed
<1> QED
  BY <1>1, <1>2 DEF AskedInv

\* The upstream tells a waiting caller its answer, and nothing else.
LEMMA UpstreamAsked ==
  ASSUME IInv, AskedInv, NEW m \in flying, Execute(m) \/ Decline(m)
  PROVE  \A d \in Callers :
           /\ call'[d].shown = call[d].shown /\ call'[d].changes = call[d].changes
           /\ call'[d].tries = call[d].tries /\ call'[d].verdict = call[d].verdict
<1>1. PICK answer \in Answers : call' = Heard(m, answer)
  BY DEF Execute, Decline, Answers
<1> QED
  BY <1>1, HeardFacts DEF IInv

\* Every step keeps what was asked.
LEMMA AskedStep == ImplInv /\ [Next]_vars => AskedInv'
<1> SUFFICES ASSUME IInv, AskedInv, [Next]_vars PROVE AskedInv'
  BY DEF ImplInv
<1>1. ASSUME NEW c \in Callers,
             \/ Inspect(c) \/ InspectDates(c) \/ UpdateSome(c) \/ Reread(c) \/ RereadDates(c)
             \/ NotSent(c) \/ Send(c) \/ Receive(c) \/ GiveUp(c) \/ Repeat(c)
      PROVE  AskedInv'
  BY <1>1, InspectTurns, UpdateTurns, RereadTurns, RequestTurns, TurnAsked DEF UpdateSome
<1>2. CASE UNCHANGED call
  BY <1>2 DEF AskedInv
<1>3. CASE Answer \/ GoOnline \/ \E f \in Contents : Rewrite(f)
  BY <1>2, <1>3 DEF Answer, GoOnline, Rewrite
<1>4. ASSUME NEW m \in flying, Execute(m) \/ Decline(m) PROVE AskedInv'
  BY <1>4, UpstreamAsked DEF AskedInv
<1>5. CASE UNCHANGED vars
  BY <1>2, <1>5 DEF vars
<1> QED
  BY <1>1, <1>3, <1>4, <1>5 DEF Next

\* The invariant under which every step is one of the contract's.
LEMMA ImplInvariance == Spec => []ImplInv
<1>1. Init => AskedInv
  BY DEF Init, AskedInv, Idle
<1> QED
  BY <1>1, AskedStep, EditInvariant, PTL DEF Spec, ImplInv

-----------------------------------------------------------------------------
(* The steps of the contract.                                              *)

\* What the contract speaks of, call by call.
SameCall(d) ==
  /\ call'[d].shown.version = call[d].shown.version /\ call'[d].changes = call[d].changes
  /\ Told(d)' = Told(d)

\* A verdict that stays, or is none, tells nothing new.
LEMMA ToldSame ==
  ASSUME NEW d \in Callers,
         \/ call'[d].verdict = call[d].verdict /\ call'[d].tries = call[d].tries
         \/ /\ call[d].verdict \in {"none", "retryable", "uncertain"}
            /\ call'[d].verdict \in {"none", "retryable", "uncertain"}
  PROVE  Told(d)' = Told(d)
BY DEF Told

\* Nothing that the contract speaks of changes.
LEMMA NothingMoves ==
  ASSUME UNCHANGED <<provider, resource, applied>>, \A d \in Callers : SameCall(d)
  PROVE  UNCHANGED Contract!vars
<1>1. [d \in Callers |-> call'[d].shown.version] = [d \in Callers |-> call[d].shown.version]
  BY DEF SameCall
<1>2. [d \in Callers |-> call'[d].changes] = [d \in Callers |-> call[d].changes]
  BY DEF SameCall
<1>3. [d \in Callers |-> Told(d)]' = [d \in Callers |-> Told(d)]
  BY DEF SameCall
<1> QED
  BY <1>1, <1>2, <1>3 DEF Contract!vars, Contract!promise, Contract!resource, resource, current

\* A turn of one caller leaves what the contract knows of the others.
LEMMA OthersSame ==
  ASSUME IInv, NEW c \in Callers, NEW k \in Call, Turn(c, k)
  PROVE  call'[c] = k /\ \A d \in Callers \ {c} : call'[d] = call[d] /\ SameCall(d)
<1>1. call'[c] = k /\ \A d \in Callers \ {c} : call'[d] = call[d]
  BY DEF Turn, IInv, Typed
<1> QED
  BY <1>1, ToldSame DEF SameCall

\* A read before the change is a look at a version there has been.
LEMMA LooksImplements ==
  ASSUME ImplInv, ImplInv', NEW c \in Callers, NEW k \in Call, Turn(c, k), Looks(c, k)
  PROVE  Contract!Look(c) \/ UNCHANGED Contract!vars
<1>1. call'[c] = k /\ \A d \in Callers \ {c} : call'[d] = call[d] /\ SameCall(d)
  BY OthersSame DEF ImplInv
<1>2. call[c].changes = {} /\ k.changes = {}
  BY DEF ImplInv, AskedInv, Looks
<1>3. k.shown.version \in 0..version
  <2>1. Own(c, k)' /\ k.shown \in Reads /\ version' = version /\ version \in Nat
    BY <1>1, Bounds DEF ImplInv, IInv, Typed, Turn, resource, Call
  <2>2. k.shown.version \in Nat /\ k.shown.version <= version
    BY <2>1, Bounds DEF Own, Record, ReadOf, Reads
  <2> QED
    BY <2>1, <2>2
<1>4. Told(c)' = Told(c)
  BY <1>1, ToldSame DEF Looks
<1>5. [d \in Callers |-> call[d].shown.version]' =
        [[d \in Callers |-> call[d].shown.version] EXCEPT ![c] = k.shown.version]
  BY <1>1
<1>6. [d \in Callers |-> call[d].changes]' = [d \in Callers |-> call[d].changes]
  BY <1>1, <1>2
<1>7. [d \in Callers |-> Told(d)]' = [d \in Callers |-> Told(d)]
  BY <1>1, <1>4 DEF SameCall
<1>8. UNCHANGED <<provider, version, revision, applied>>
  BY DEF Turn, resource
<1> QED
  BY <1>2, <1>3, <1>5, <1>6, <1>7, <1>8 DEF Contract!Look, Contract!promise, Contract!resource, current

\* A call that asks for a change asks for it once.
LEMMA AsksImplements ==
  ASSUME ImplInv, NEW c \in Callers, NEW k \in Call, Turn(c, k), Asks(c, k)
  PROVE  Contract!Ask(c)
<1>1. call'[c] = k /\ \A d \in Callers \ {c} : call'[d] = call[d] /\ SameCall(d)
  BY OthersSame DEF ImplInv
<1>2. call[c].changes = {} /\ k.changes # {}
  BY DEF ImplInv, AskedInv, Asks
<1>3. Told(c)' = Told(c)
  BY <1>1, ToldSame DEF Asks
<1>4. [d \in Callers |-> call[d].shown.version]' = [d \in Callers |-> call[d].shown.version]
  BY <1>1 DEF Asks
<1>5. [d \in Callers |-> call[d].changes]' =
        [[d \in Callers |-> call[d].changes] EXCEPT ![c] = k.changes]
  BY <1>1
<1>6. [d \in Callers |-> Told(d)]' = [d \in Callers |-> Told(d)]
  BY <1>1, <1>3 DEF SameCall
<1>7. UNCHANGED <<provider, version, revision, applied>>
  BY DEF Turn, resource
<1>8. [d \in Callers |-> call'[d].changes][c] = k.changes
  BY <1>1
<1> QED
  BY <1>2, <1>4, <1>5, <1>6, <1>7, <1>8 DEF Contract!Ask, Contract!promise, Contract!resource, current

\* A call that is under way tells nothing, or what happened.
LEMMA GoesOnImplements ==
  ASSUME ImplInv, ImplInv', NEW c \in Callers, NEW k \in Call, Turn(c, k), GoesOn(c, k)
  PROVE  Contract!Tell(c) \/ UNCHANGED Contract!vars
<1>1. call'[c] = k /\ \A d \in Callers \ {c} : call'[d] = call[d] /\ SameCall(d)
  BY OthersSame DEF ImplInv
<1>2. /\ call[c].changes # {} /\ k.changes = call[c].changes /\ k.shown = call[c].shown
      /\ Told(c) = "nothing"
  BY DEF ImplInv, AskedInv, GoesOn, Told
<1>3. [d \in Callers |-> call[d].shown.version]' = [d \in Callers |-> call[d].shown.version]
  BY <1>1, <1>2
<1>4. [d \in Callers |-> call[d].changes]' = [d \in Callers |-> call[d].changes]
  BY <1>1, <1>2
<1>5. CASE Told(c)' = "nothing"
  <2>1. SameCall(c)
    BY <1>1, <1>2, <1>5 DEF SameCall
  <2> QED
    BY <1>1, <2>1, NothingMoves DEF Turn
<1>6. CASE Told(c)' # "nothing"
  <2> DEFINE report == Told(c)'
  <2>1. /\ report \in {"updated", "refused", "failed"}
        /\ report = "updated" => applied[c] > 0
        /\ report = "refused" => ~(applied[c] > 0)
        /\ report = "failed" => provider \in RejectGarbled
    <3>1. /\ Counted(c, k)' /\ Record(k)' /\ applied' = applied /\ provider' = provider
          /\ applied[c] \in Nat
      BY <1>1 DEF ImplInv, IInv, Typed, Own, Turn
    <3>2. CASE k.verdict = "updated"
      BY <1>1, <3>1, <3>2 DEF Counted, Told
    <3>3. CASE k.verdict = "refused" /\ k.tries = 1
      BY <1>1, <3>1, <3>3 DEF Counted, Untouched, Told
    <3>4. CASE k.verdict = "unreadable"
      BY <1>1, <3>1, <3>4 DEF Record, Told
    <3> QED
      BY <1>1, <1>6, <3>2, <3>3, <3>4 DEF Told
  <2>2. [d \in Callers |-> Told(d)]' = [[d \in Callers |-> Told(d)] EXCEPT ![c] = report]
    <3>1. \A d \in Callers \ {c} : Told(d)' = Told(d)
      BY <1>1 DEF SameCall
    <3> QED
      BY <3>1
  <2>3. UNCHANGED <<provider, version, revision, applied>>
    BY DEF Turn, resource
  <2> HIDE DEF report
  <2> QED
    BY <1>2, <1>3, <1>4, <2>1, <2>2, <2>3 DEF Contract!Tell, Contract!promise, Contract!resource, current
<1> QED
  BY <1>5, <1>6

\* Another try of a call is nothing new: what was said of the first was not final.
LEMMA RepeatsImplements ==
  ASSUME ImplInv, NEW c \in Callers, NEW k \in Call, Turn(c, k), Repeats(c, k)
  PROVE  UNCHANGED Contract!vars
<1>1. call'[c] = k /\ \A d \in Callers \ {c} : SameCall(d)
  BY OthersSame DEF ImplInv
<1>2. SameCall(c)
  BY <1>1, ToldSame DEF Repeats, SameCall
<1> QED
  BY <1>1, <1>2, NothingMoves DEF Turn

\* Every step of a caller is one of the contract's, or none.
LEMMA TurnImplements ==
  ASSUME ImplInv, ImplInv', NEW c \in Callers, NEW k \in Call, Turn(c, k)
  PROVE  Contract!Next \/ UNCHANGED Contract!vars
BY LooksImplements, AsksImplements, GoesOnImplements, RepeatsImplements DEF Turn, Contract!Next

-----------------------------------------------------------------------------
(* The upstream and those who edit there.                                  *)

\* Who sends all contents, attendees or an online meeting's text names a version with them.
LEMMA WholeGuarded ==
  ASSUME provider \in Edited, profile.whole
  PROVE  profile.guard # "none"
<1>1. provider \in DOMAIN EditProfile
  BY EditedAssumption
<1>2. provider \in {"google", "microsoft", "confluence", "help_scout_docs", "intercom_articles",
                    "notion_docs", "readme", "zendesk_guide"}
  BY <1>1 DEF EditProfile
<1>3. CASE provider \in {"google", "microsoft", "confluence"}
  BY <1>3, ProfileFacts DEF Versioned
<1>4. CASE provider \in {"help_scout_docs", "intercom_articles", "notion_docs", "readme",
                         "zendesk_guide"}
  <2>1. profile = Unversioned
    BY <1>4 DEF profile, EditProfile, HelpScoutArticle, IntercomArticle, NotionPage, ReadMeGuide,
                ZendeskArticle
  <2> QED
    BY <2>1 DEF Unversioned
<1> QED
  BY <1>2, <1>3, <1>4

\* What an executed change leaves is the resource as it was, but for the contents asked for.
LEMMA ResultIsChange ==
  ASSUME IInv, NEW m \in flying, Execute(m)
  PROVE  /\ Result(m).contents = Written(current.contents, call[m.caller].changes)
         /\ Result(m).replied = current.replied /\ Result(m).joinable = current.joinable
<1>1. m.fields = call[m.caller].changes /\ ("people" \in m.fields => profile.people)
  BY OnlyOne DEF Own, Record
<1>2. profile.guard # "none" => call[m.caller].shown.document = current /\ m.expected = version
  BY GuardedExecution DEF Execute
<1>3. Base(m) = current.contents
  BY <1>2, WholeGuarded DEF Base, IInv, Typed
<1>4. Result(m).contents = Written(current.contents, call[m.caller].changes)
  BY <1>1, <1>3 DEF Result
<1>5. Result(m).replied = current.replied
  <2>1. CASE "people" \in m.fields
    <3>1. profile.rereads /\ profile.guard # "none"
      BY <1>1, <2>1, ProfileFacts DEF IInv, Typed
    <3>2. m.replied = revision[version].replied
      BY <1>2, <3>1 DEF IInv, Flights, Faithful
    <3> QED
      BY <2>1, <3>2 DEF Result, current
  <2>2. CASE "people" \notin m.fields
    BY <2>2 DEF Result
  <2> QED
    BY <2>1, <2>2
<1>6. Result(m).joinable = current.joinable
  <2>1. current.joinable = TRUE /\ Result(m).joinable \in BOOLEAN
    BY ReadTyped, ResultFacts DEF IInv, StillJoinable, Document
  <2> QED
    BY <2>1, ResultFacts
<1> QED
  BY <1>4, <1>5, <1>6

\* A change that is executed, however late, is the one that was asked for, and its only moment.
LEMMA ExecuteChanges ==
  ASSUME ImplInv, NEW m \in flying, Execute(m)
  PROVE  Contract!Next
<1> DEFINE c == m.caller
<1>1. /\ c \in Callers /\ Own(c, call[c]) /\ call[c].tries \in Nat \ {0}
      /\ applied \in [Callers -> Nat]
  BY OnlyOne, BoundsAssumption DEF ImplInv, IInv, Typed, Call
<1>2. \A d \in Callers : SameCall(d) /\ call'[d].shown = call[d].shown
  BY UpstreamAsked, ToldSame DEF ImplInv, SameCall
<1>3. call[c].changes # {} /\ Told(c) # "refused"
  <2>1. call[c].changes # {}
    BY <1>1 DEF ImplInv, AskedInv
  <2>2. call[c].tries = 1 => call[c].verdict # "refused"
    BY <1>1 DEF Own, Counted, Untouched
  <2> QED
    BY <2>1, <2>2 DEF Told
<1>4. provider \in Versioned => call[c].shown.version = version /\ ~(applied[c] > 0)
  <2>1. provider \in Versioned => call[c].shown.version = version
    BY GuardedExecution, ProfileFacts DEF ImplInv, IInv, Typed, Execute
  <2> QED
    BY <1>1, <2>1, Bounds DEF Own, Counted, ImplInv, IInv, Typed
<1>5. version' = version + 1 /\ current' = Result(m)
  BY ResultFacts, Revised DEF ImplInv, IInv
<1>6. current'.contents =
        [f \in Contents |-> IF f \in call[c].changes THEN version + 1 ELSE current.contents[f]]
  BY <1>5, ResultIsChange DEF ImplInv, Written
<1>7. current'.replied = current.replied /\ current'.joinable = current.joinable
  BY <1>5, ResultIsChange DEF ImplInv
<1>8. [d \in Callers |-> applied[d] > 0]' = [[d \in Callers |-> applied[d] > 0] EXCEPT ![c] = TRUE]
  <2>1. applied' = [applied EXCEPT ![c] = applied[c] + 1]
    BY DEF Execute
  <2>2. (applied'[c] > 0) = TRUE /\ \A d \in Callers \ {c} : applied'[d] = applied[d]
    BY <1>1, <2>1
  <2> HIDE DEF c
  <2> QED
    BY <1>1, <2>2, Zenon
<1>9. [d \in Callers |-> call[d].shown.version]' = [d \in Callers |-> call[d].shown.version]
  BY <1>2
<1>10. [d \in Callers |-> call[d].changes]' = [d \in Callers |-> call[d].changes]
  BY <1>2 DEF SameCall
<1>11. [d \in Callers |-> Told(d)]' = [d \in Callers |-> Told(d)]
  BY <1>2 DEF SameCall
<1>12. provider' = provider
  BY DEF Execute
<1> HIDE DEF c
<1>13. Contract!Change(c)
  BY <1>1, <1>3, <1>4, <1>5, <1>6, <1>7, <1>8, <1>9, <1>10, <1>11, <1>12
     DEF Contract!Change, Contract!Renew, Contract!promise
<1> QED
  BY <1>1, <1>13 DEF Contract!Next

\* A change that is refused is none.
LEMMA DeclineImplements ==
  ASSUME ImplInv, NEW m \in flying, Decline(m)
  PROVE  UNCHANGED Contract!vars
<1>1. \A d \in Callers : SameCall(d)
  BY UpstreamAsked, ToldSame DEF ImplInv, SameCall
<1> QED
  BY <1>1, NothingMoves DEF Decline, history

\* What others write is theirs, and leaves an answer and an online meeting as they are.
LEMMA OthersImplement ==
  ASSUME ImplInv, Answer \/ GoOnline \/ \E f \in Contents : Rewrite(f)
  PROVE  Contract!Elsewhere
<1>1. current \in Document /\ current.contents \in [Contents -> Versions]
  BY ReadTyped DEF ImplInv, IInv, Document
<1>2. UNCHANGED <<provider, call, applied>>
  BY DEF Answer, GoOnline, Rewrite, history
<1>3. UNCHANGED [d \in Callers |-> Told(d)]
  BY <1>2 DEF Told
<1>4. \E document \in Document :
        /\ Becomes(document) /\ document.joinable = current.joinable
        /\ current.replied => document.replied
        /\ \E names \in SUBSET Contents : document.contents = Written(current.contents, names)
  <2>1. CASE Answer
    <3> DEFINE document == [current EXCEPT !.replied = TRUE]
    <3>1. /\ document \in Document /\ document.joinable = current.joinable
          /\ document.replied = TRUE /\ document.contents = current.contents
      BY <1>1 DEF Document
    <3>2. current.contents = Written(current.contents, {})
      BY <1>1 DEF Written
    <3>3. Becomes(document)
      BY <2>1 DEF Answer
    <3> HIDE DEF document
    <3> QED
      BY <3>1, <3>2, <3>3
  <2>2. CASE GoOnline
    <3> DEFINE document == [current EXCEPT !.online = TRUE]
    <3>1. /\ document \in Document /\ document.joinable = current.joinable
          /\ document.replied = current.replied /\ document.contents = current.contents
      BY <1>1 DEF Document
    <3>2. current.contents = Written(current.contents, {})
      BY <1>1 DEF Written
    <3>3. Becomes(document)
      BY <2>2 DEF GoOnline
    <3> HIDE DEF document
    <3> QED
      BY <3>1, <3>2, <3>3
  <2>3. ASSUME NEW f \in Contents, Rewrite(f)
        PROVE  \E document \in Document :
                 /\ Becomes(document) /\ document.joinable = current.joinable
                 /\ current.replied => document.replied
                 /\ \E names \in SUBSET Contents :
                      document.contents = Written(current.contents, names)
    <3> DEFINE document == [current EXCEPT !.contents = Written(current.contents, {f})]
    <3>1. Written(current.contents, {f}) \in [Contents -> Versions]
      BY <1>1, <2>3, WrittenTyped DEF ImplInv, IInv, Rewrite, Becomes
    <3>2. /\ document \in Document /\ document.joinable = current.joinable
          /\ document.replied = current.replied
          /\ document.contents = Written(current.contents, {f})
      BY <1>1, <3>1 DEF Document
    <3>3. Becomes(document)
      BY <2>3 DEF Rewrite
    <3> HIDE DEF document
    <3> QED
      BY <3>2, <3>3
  <2> QED
    BY <2>1, <2>2, <2>3
<1>5. PICK document \in Document :
        /\ Becomes(document) /\ document.joinable = current.joinable
        /\ current.replied => document.replied
        /\ \E names \in SUBSET Contents : document.contents = Written(current.contents, names)
  BY <1>4
<1>6. version' = version + 1 /\ current' = document
  BY <1>5, Revised DEF ImplInv, IInv
<1>7. PICK names \in SUBSET Contents : document.contents = Written(current.contents, names)
  BY <1>5
<1>8. Contract!Renew(names)
  BY <1>6, <1>7 DEF Contract!Renew, Written
<1>9. current'.joinable = current.joinable /\ (current.replied => current'.replied)
  BY <1>5, <1>6
<1> QED
  BY <1>2, <1>3, <1>7, <1>8, <1>9 DEF Contract!Elsewhere, Contract!promise

-----------------------------------------------------------------------------
(* The refinement.                                                         *)

\* Every step of an update is one of the contract's, or none.
LEMMA StepImplements ==
  ASSUME ImplInv, ImplInv', [Next]_vars
  PROVE  Contract!Next \/ UNCHANGED Contract!vars
<1>1. ASSUME NEW c \in Callers,
             \/ Inspect(c) \/ InspectDates(c) \/ UpdateSome(c) \/ Reread(c) \/ RereadDates(c)
             \/ NotSent(c) \/ Send(c) \/ Receive(c) \/ GiveUp(c) \/ Repeat(c)
      PROVE  Contract!Next \/ UNCHANGED Contract!vars
  <2>1. \E k \in Call : Turn(c, k)
    BY <1>1, InspectTurns, UpdateTurns, RereadTurns, RequestTurns DEF UpdateSome, ImplInv
  <2> QED
    BY <2>1, TurnImplements
<1>2. CASE Answer \/ GoOnline \/ \E f \in Contents : Rewrite(f)
  BY <1>2, OthersImplement DEF Contract!Next
<1>3. ASSUME NEW m \in flying, Execute(m) \/ Decline(m)
      PROVE  Contract!Next \/ UNCHANGED Contract!vars
  BY <1>3, ExecuteChanges, DeclineImplements
<1>4. CASE UNCHANGED vars
  <2>1. \A d \in Callers : SameCall(d)
    BY <1>4, ToldSame DEF vars, SameCall
  <2> QED
    BY <1>4, <2>1, NothingMoves DEF vars, resource
<1> QED
  BY <1>1, <1>2, <1>3, <1>4 DEF Next

\* Nobody was shown, asked or told anything yet.
LEMMA InitImplements == Init => Contract!Init
<1> SUFFICES ASSUME Init PROVE Contract!Init
  OBVIOUS
<1>1. current = [contents |-> [f \in Contents |-> 0], replied |-> FALSE, online |-> FALSE,
                 joinable |-> TRUE] /\ version = 0
  BY Bounds DEF Init, current
<1>2. \A d \in Callers :
        /\ call[d].shown.version = 0 /\ call[d].changes = {} /\ Told(d) = "nothing"
        /\ applied[d] = 0
  BY DEF Init, Idle, Blank, Told
<1>3. (provider \in Versioned) \in BOOLEAN /\ (provider \notin RejectGarbled) \in BOOLEAN
  OBVIOUS
<1>4. [c \in Callers |-> applied[c] > 0] = [c \in Callers |-> FALSE]
  <2>1. \A c \in Callers : (applied[c] > 0) = FALSE
    BY <1>2
  <2> QED
    BY <2>1, Zenon
<1>5. [c \in Callers |-> Told(c)] = [c \in Callers |-> "nothing"]
  BY <1>2
<1>6. [c \in Callers |-> call[c].shown.version] = [c \in Callers |-> 0]
  BY <1>2
<1>7. [c \in Callers |-> call[c].changes] = [c \in Callers |-> {}]
  BY <1>2
<1> QED
  BY <1>1, <1>3, <1>4, <1>5, <1>6, <1>7 DEF Contract!Init

\* EditContract: however an update is read again, repeated, delayed or given up, its change is
\* made at one moment, to what its caller was shown where a version is sent, and a report of a
\* change or of a refusal is what happened; a failure that tells neither is reported by the six
\* help centers alone, of a body that cannot be read.
THEOREM EditImplemented == Spec => EditContract
<1>1. ImplInv /\ ImplInv' /\ [Next]_vars => [Contract!Next]_(Contract!vars)
  BY StepImplements
<1> QED
  BY <1>1, InitImplements, ImplInvariance, PTL DEF Spec, EditContract, Contract!Spec
=============================================================================
