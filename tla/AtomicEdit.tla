----------------------------- MODULE AtomicEdit -----------------------------
(***************************************************************************)
(* What the change of a shared resource promises its callers, whatever     *)
(* requests it takes: it happens at one moment, to the resource as it is   *)
(* then, and sets what was asked for and nothing else.  Where the version  *)
(* is guarded, that moment is one at which the resource is still what the  *)
(* caller was shown, and there is only one such moment.  Who is told of a  *)
(* change or of a refusal can rely on it; a promise that is not candid     *)
(* allows a third report, a failure of which nothing follows.              *)
(***************************************************************************)
EXTENDS Naturals

CONSTANTS Callers, Contents
VARIABLES
  guarded,                       \* changes name the version they are of
  candid,                        \* what is final tells whether the change happened
  version, contents,             \* the resource; each content names the version that brought it
  replied, joinable,             \* what a change must not undo
  seen, asked, done, told        \* of each caller: the version shown, the fields to change,
                                 \* whether that happened, what the caller was told

promise == <<guarded, candid>>
resource == <<version, contents, replied, joinable>>
vars == <<promise, resource, seen, asked, done, told>>

Init ==
  /\ guarded \in BOOLEAN /\ candid \in BOOLEAN
  /\ version = 0 /\ contents = [f \in Contents |-> 0] /\ replied = FALSE /\ joinable = TRUE
  /\ seen = [c \in Callers |-> 0] /\ asked = [c \in Callers |-> {}]
  /\ done = [c \in Callers |-> FALSE] /\ told = [c \in Callers |-> "nothing"]

\* The resource becomes another one, in the contents named.
Renew(names) ==
  /\ version' = version + 1
  /\ contents' = [f \in Contents |-> IF f \in names THEN version + 1 ELSE contents[f]]

\* Others edit and answer.
Elsewhere ==
  /\ \E names \in SUBSET Contents : Renew(names)
  /\ replied => replied'
  /\ UNCHANGED <<promise, joinable, seen, asked, done, told>>

Look(c) ==
  /\ asked[c] = {}
  /\ \E v \in 0..version : seen' = [seen EXCEPT ![c] = v]
  /\ UNCHANGED <<promise, resource, asked, done, told>>

Ask(c) ==
  /\ asked[c] = {} /\ asked'[c] # {}
  /\ asked' = [asked EXCEPT ![c] = asked'[c]]
  /\ UNCHANGED <<promise, resource, seen, done, told>>

Change(c) ==
  /\ asked[c] # {} /\ told[c] # "refused"
  /\ guarded => seen[c] = version /\ ~done[c]
  /\ Renew(asked[c])
  /\ done' = [done EXCEPT ![c] = TRUE]
  /\ UNCHANGED <<promise, replied, joinable, seen, asked, told>>

Tell(c) ==
  /\ asked[c] # {} /\ told[c] = "nothing"
  /\ \E report \in {"updated", "refused", "failed"} :
       /\ report = "updated" => done[c]
       /\ report = "refused" => ~done[c]
       /\ report = "failed" => ~candid
       /\ told' = [told EXCEPT ![c] = report]
  /\ UNCHANGED <<promise, resource, seen, asked, done>>

Next == Elsewhere \/ \E c \in Callers : Look(c) \/ Ask(c) \/ Change(c) \/ Tell(c)

Spec == Init /\ [][Next]_vars
=============================================================================
