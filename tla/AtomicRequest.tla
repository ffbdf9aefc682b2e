--------------------------- MODULE AtomicRequest ---------------------------
(***************************************************************************)
(* What a provider promises Runtime of a write, whatever calls, answers    *)
(* and repetitions it takes: it happens once; a final verdict stays, and   *)
(* nothing happens after it unless it said so; what is told is true.  The  *)
(* promise is made in parts: some providers keep only one of them, and     *)
(* one may be lost on the way.                                             *)
(***************************************************************************)
EXTENDS Naturals

VARIABLES
  once,       \* never two effects at a time
  truthful,   \* what is called failed did not happen and will not
  effects,    \* how many there are
  told        \* what Runtime was told last

Init ==
  /\ once \in BOOLEAN /\ truthful \in BOOLEAN
  /\ effects = 0 /\ told = "nothing"

Perform == (once => effects = 0) /\ effects' = effects + 1
Undo == effects > 0 /\ effects' = effects - 1

Tell ==
  /\ told \in {"nothing", "again"} /\ told' \in {"again", "done", "failed", "open"}
  /\ told' = "done" => effects' > 0
  /\ truthful /\ told' \in {"again", "failed"} => effects' = 0

\* Something happens or ceases, something is told, or both.
Work ==
  /\ \/ UNCHANGED effects
     \/ (truthful => told \in {"nothing", "open"}) /\ (Perform \/ Undo)
  /\ UNCHANGED told \/ Tell
  /\ UNCHANGED <<once, truthful>>

Repeat == told = "again" /\ told' = "nothing" /\ UNCHANGED <<once, truthful, effects>>

Disturb == truthful' = FALSE /\ UNCHANGED <<once, effects, told>>

Next == Work \/ Repeat \/ Disturb

vars == <<once, truthful, effects, told>>
Spec == Init /\ [][Next]_vars
=============================================================================
