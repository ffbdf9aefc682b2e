------------------------ MODULE GoogleTokens_proofs ------------------------
(***************************************************************************)
(* Proofs about GoogleTokens for every set of tasks and any number of      *)
(* tokens.  Inv adds to the types the shape of a run (Shape) and where the *)
(* accepted refresh token can be (Custody): at most one run holds a token  *)
(* it has not handed back, the stored one is then older, and a run that    *)
(* has a copy of the accepted one took it from one of the two.             *)
(***************************************************************************)
EXTENDS GoogleTokens, TLAPS

Runs == [at : Calls \cup {"idle"}, phase : {"ask", "refresh", "again", "failed"},
         secrets : Written, updates : Maps, inner : Maps, got : Written]

Shape(run) ==
  /\ run.at = "idle" => run = Idle
  /\ run.phase # "again" => run.got = Empty
  /\ run.phase = "again" => run.got.access # 0
  /\ run.at \notin Helpers \/ run.at = "list" => run.inner = Empty
  /\ run.at \in {"profile", "call"} => run.updates = Empty
  /\ run.updates.nil => run.at \in {"history", "historyMessage", "list", "listMessage"}
  /\ run.inner.nil => run.at = "listMessage"
  /\ run.at # "pull" /\ run.phase # "again" /\ Held(run).access # 0
       => run.secrets.access = Held(run).access

Custody ==
  /\ stored.refresh <= current
  /\ \A t \in Tasks :
       /\ Held(runs[t]).refresh \in 0..current
       /\ Held(runs[t]).refresh # 0 => stored.refresh < Held(runs[t]).refresh
       /\ runs[t].secrets.refresh <= current
       /\ runs[t].secrets.refresh = current
            => stored.refresh = current \/ Held(runs[t]).refresh = current
  /\ \A t, s \in Tasks :
       Held(runs[t]).refresh # 0 /\ Held(runs[s]).refresh # 0 => t = s
  /\ RotationSurvives

Inv == TypeOK /\ (\A t \in Tasks : Shape(runs[t])) /\ Custody

-----------------------------------------------------------------------------
(* Maps *)

(* A nil map has no keys. *)
LEMMA NilFields ==
  /\ Nil \in Maps
  /\ Nil.access = 0 /\ Nil.refresh = 0 /\ Nil.nil = TRUE
BY DEF Nil, Maps

(* Empty can be written to. *)
LEMMA EmptyFields ==
  /\ Empty \in Written /\ Empty \in Maps
  /\ Empty.access = 0 /\ Empty.refresh = 0 /\ Empty.nil = FALSE
BY DEF Empty, Written, Maps

(* A map that is not nil. *)
LEMMA WrittenNotNil == \A m \in Written : m.nil = FALSE
BY DEF Written

(* The keys of a map that is not nil. *)
LEMMA WrittenFields ==
  ASSUME NEW m \in Written
  PROVE  /\ m \in [nil : {FALSE}, access : Nat, refresh : Nat]
         /\ m.nil = FALSE /\ m.access \in Nat /\ m.refresh \in Nat
         /\ m.access = 0 => m.refresh = 0
         /\ m \in Maps
<1>1. m \in [nil : {FALSE}, access : Nat, refresh : Nat] /\ (m.access = 0 => m.refresh = 0)
  BY DEF Written
<1> QED
  BY <1>1 DEF Maps

(* A map has numbers for keys, and a refresh token only with an access     *)
(* token (oauth2.Refresh rejects an answer without one).                   *)
LEMMA MapFields ==
  ASSUME NEW m \in Maps
  PROVE  /\ m.access \in Nat /\ m.refresh \in Nat
         /\ m.access = 0 => m.refresh = 0
<1>1. CASE m = Nil
  BY <1>1, NilFields
<1>2. CASE m \in Written
  BY <1>2, WrittenFields
<1> QED
  BY <1>1, <1>2 DEF Maps

(* Merging into a map that is not nil (mergeStrings). *)
LEMMA MergeWrites ==
  ASSUME NEW m \in Written, NEW v \in Maps
  PROVE  Merge(m, v) \in Written
<1>1. m.nil = FALSE /\ m.access \in Nat /\ m.refresh \in Nat /\ (m.access = 0 => m.refresh = 0)
  BY WrittenFields
<1>2. v.access \in Nat /\ v.refresh \in Nat /\ (v.access = 0 => v.refresh = 0)
  BY MapFields
<1> QED
  BY <1>1, <1>2 DEF Merge, Key, Written

(* Merging into any map, when nothing is written into a nil one. *)
LEMMA MergeIsMap ==
  ASSUME NEW m \in Maps, NEW v \in Maps, ~WritesNil(m, v)
  PROVE  Merge(m, v) \in Maps
<1>1. CASE m = Nil
  <2>1. v.access = 0 /\ v.refresh = 0
    BY <1>1, NilFields, MapFields DEF WritesNil
  <2>2. Merge(m, v) = Nil
    BY <1>1, <2>1 DEF Merge, Key, Nil
  <2> QED
    BY <2>2, NilFields
<1>2. CASE m \in Written
  BY <1>2, MergeWrites, WrittenFields
<1> QED
  BY <1>1, <1>2 DEF Maps

(* The keys of what a run holds. *)
LEMMA HeldFields ==
  ASSUME NEW run
  PROVE  /\ Held(run).access = Key(Key(run.updates.access, run.inner.access), run.got.access)
         /\ Held(run).refresh = Key(Key(run.updates.refresh, run.inner.refresh), run.got.refresh)
BY DEF Held, Merge

-----------------------------------------------------------------------------
(* What a run becomes when a call's updates reach it *)

(* The updates a call can bring: the tokens of its own refresh after the   *)
(* second attempt, nothing otherwise.                                      *)
Brings(run, u) ==
  \/ run.phase = "again" /\ u = run.got
  \/ run.phase # "again" /\ u \in {Nil, Empty}

(* The parts of a run after Collect. *)
LEMMA CollectFields ==
  ASSUME NEW run \in Runs, NEW u \in Maps
  PROVE  /\ Collect(run, u).at = run.at
         /\ Collect(run, u).phase = "ask"
         /\ Collect(run, u).got = Empty
         /\ Collect(run, u).secrets =
              IF run.at \in Unmerged THEN run.secrets ELSE Merge(run.secrets, u)
         /\ Collect(run, u).inner =
              IF run.at = "list" THEN u
              ELSE IF run.at \in Helpers THEN Merge(run.inner, u) ELSE run.inner
         /\ Collect(run, u).updates =
              IF run.at \in {"profile", "call"} THEN u
              ELSE IF run.at \in Helpers THEN run.updates ELSE Merge(run.updates, u)
BY DEF Collect

(* The parts of a run. *)
LEMMA RunFields ==
  ASSUME NEW run \in Runs
  PROVE  /\ run.at \in Calls \cup {"idle"}
         /\ run.phase \in {"ask", "refresh", "again", "failed"}
         /\ run.secrets \in Written /\ run.updates \in Maps
         /\ run.inner \in Maps /\ run.got \in Written
BY DEF Runs

(* The updates of a call are a map, its refresh token is what the run      *)
(* holds, and they have no token where the run has not refreshed.          *)
LEMMA BroughtFields ==
  ASSUME NEW run \in Runs, Shape(run), NEW u, Brings(run, u)
  PROVE  /\ u \in Maps
         /\ u.access = run.got.access /\ u.refresh = run.got.refresh
         /\ u.nil => run.phase # "again"
<1>1. CASE run.phase = "again"
  <2>1. u = run.got
    BY <1>1 DEF Brings
  <2>2. u \in Written
    BY <2>1, RunFields
  <2> QED
    BY <2>1, <2>2, WrittenFields
<1>2. CASE run.phase # "again"
  <2>1. run.got = Empty
    BY <1>2 DEF Shape
  <2>2. u = Nil \/ u = Empty
    BY <1>2 DEF Brings
  <2> QED
    BY <1>2, <2>1, <2>2, NilFields, EmptyFields
<1> QED
  BY <1>1, <1>2

(* Every map a call's updates are merged into is one that can be written,  *)
(* but for the list a nil result began.                                    *)
LEMMA CollectTyped ==
  ASSUME NEW run \in Runs, Shape(run), run.at # "idle", NEW u, Brings(run, u),
         ~(run.at = "listMessage" /\ WritesNil(run.inner, u))
  PROVE  /\ Collect(run, u).at \in Calls
         /\ Collect(run, u).secrets \in Written
         /\ Collect(run, u).inner \in Maps
         /\ Collect(run, u).updates \in Maps
         /\ Collect(run, u).got \in Written
         /\ Collect(run, u) \in Runs
<1> DEFINE c == Collect(run, u)
<1>0. u \in Maps /\ run.secrets \in Written /\ run.updates \in Maps /\ run.inner \in Maps
  BY BroughtFields, RunFields
<1>1. c.at \in Calls
  BY RunFields DEF Collect
<1>2. c.secrets \in Written
  BY <1>0, MergeWrites, CollectFields
<1>3. c.inner \in Maps
  <2>1. CASE run.at = "list" \/ run.at \notin Helpers
    BY <1>0, <2>1, CollectFields
  <2>2. CASE run.at # "list" /\ run.at \in Helpers
    <3>1. ~WritesNil(run.inner, u)
      BY DEF Shape, WritesNil
    <3>2. Merge(run.inner, u) \in Maps
      BY <1>0, <3>1, MergeIsMap
    <3> QED
      BY <1>0, <2>2, <3>2, CollectFields
  <2> QED
    BY <2>1, <2>2
<1>4. c.updates \in Maps
  <2>1. CASE run.at \in {"profile", "call"} \cup Helpers
    BY <1>0, <2>1, CollectFields
  <2>2. CASE run.at \notin {"profile", "call"} \cup Helpers
    <3>1. ~WritesNil(run.updates, u)
      BY <2>2 DEF Shape, WritesNil, Helpers
    <3>2. Merge(run.updates, u) \in Maps
      BY <1>0, <3>1, MergeIsMap
    <3> QED
      BY <1>0, <2>2, <3>2, CollectFields
  <2> QED
    BY <2>1, <2>2
<1>5. c.got \in Written
  BY EmptyFields DEF Collect
<1>6. c \in Runs
  BY <1>1, <1>2, <1>3, <1>4, <1>5 DEF Collect, Runs
<1> QED
  BY <1>1, <1>2, <1>3, <1>4, <1>5, <1>6

(* Wherever the updates are collected, the run holds afterwards what it    *)
(* held with them on their way, and presents it in the calls that follow.  *)
LEMMA CollectHolds ==
  ASSUME NEW run \in Runs, Shape(run), run.at # "idle", NEW u, Brings(run, u)
  PROVE  /\ Held(Collect(run, u)).access = Held(run).access
         /\ Held(Collect(run, u)).refresh = Held(run).refresh
         /\ \/ Collect(run, u).secrets.refresh = run.secrets.refresh
            \/ /\ Held(run).refresh # 0
               /\ Collect(run, u).secrets.refresh = Held(run).refresh
         /\ run.at \notin Unmerged /\ Held(run).access # 0
              => Collect(run, u).secrets.access = Held(run).access
<1> DEFINE c == Collect(run, u)
<1>0. u \in Maps /\ u.access = run.got.access /\ u.refresh = run.got.refresh
  BY BroughtFields
<1>1. c.got.access = 0 /\ c.got.refresh = 0
  BY <1>0, CollectFields, EmptyFields
<1>2. /\ Held(run).access = Key(Key(run.updates.access, run.inner.access), u.access)
      /\ Held(run).refresh = Key(Key(run.updates.refresh, run.inner.refresh), u.refresh)
  BY <1>0, HeldFields
<1>3. /\ Held(c).access = Key(c.updates.access, c.inner.access)
      /\ Held(c).refresh = Key(c.updates.refresh, c.inner.refresh)
  BY <1>1, HeldFields DEF Key
<1>4. Held(c).access = Held(run).access /\ Held(c).refresh = Held(run).refresh
  <2>1. CASE run.at \in {"profile", "call"}
    <3>1. run.updates = Empty /\ run.inner = Empty
      BY <2>1 DEF Shape, Helpers
    <3>2. c.updates = u /\ c.inner = Empty
      BY <1>0, <2>1, <3>1, CollectFields DEF Helpers
    <3> QED
      BY <1>2, <1>3, <3>1, <3>2, EmptyFields DEF Key
  <2>2. CASE run.at = "list"
    <3>1. run.inner = Empty
      BY <2>2 DEF Shape
    <3>2. c.updates = run.updates /\ c.inner = u
      BY <1>0, <2>2, CollectFields DEF Helpers
    <3> QED
      BY <1>2, <1>3, <3>1, <3>2, EmptyFields DEF Key
  <2>3. CASE run.at \in Helpers \ {"list"}
    <3>1. c.updates = run.updates /\ c.inner = Merge(run.inner, u)
      BY <1>0, <2>3, CollectFields DEF Helpers
    <3>2. c.inner.access = Key(run.inner.access, u.access)
          /\ c.inner.refresh = Key(run.inner.refresh, u.refresh)
      BY <3>1 DEF Merge
    <3> QED
      BY <1>2, <1>3, <3>1, <3>2 DEF Key
  <2>4. CASE run.at \notin Helpers \cup {"profile", "call"}
    <3>1. run.inner = Empty
      BY <2>4 DEF Shape
    <3>2. c.updates = Merge(run.updates, u) /\ c.inner = Empty
      BY <1>0, <2>4, <3>1, CollectFields DEF Helpers
    <3>3. c.updates.access = Key(run.updates.access, u.access)
          /\ c.updates.refresh = Key(run.updates.refresh, u.refresh)
      BY <3>2 DEF Merge
    <3> QED
      BY <1>2, <1>3, <3>1, <3>2, <3>3, EmptyFields DEF Key
  <2> QED
    BY <2>1, <2>2, <2>3, <2>4
<1>5. CASE run.at \in Unmerged
  <2>1. c.secrets = run.secrets
    BY <1>0, <1>5, CollectFields
  <2> QED
    BY <1>4, <1>5, <2>1
<1>6. CASE run.at \notin Unmerged
  <2>1. c.secrets.access = Key(run.secrets.access, u.access)
        /\ c.secrets.refresh = Key(run.secrets.refresh, u.refresh)
    <3>1. c.secrets = Merge(run.secrets, u)
      BY <1>0, <1>6, CollectFields
    <3> QED
      BY <3>1 DEF Merge
  <2>2. c.secrets.refresh = run.secrets.refresh \/ (Held(run).refresh # 0 /\ c.secrets.refresh = Held(run).refresh)
    BY <1>2, <2>1 DEF Key
  <2>3. ASSUME Held(run).access # 0 PROVE c.secrets.access = Held(run).access
    <3>1. CASE run.phase = "again"
      <4>1. u.access # 0
        BY <1>0, <3>1 DEF Shape
      <4> QED
        BY <1>2, <2>1, <4>1 DEF Key
    <3>2. CASE run.phase # "again"
      <4>1. u.access = 0
        BY <1>0, <3>2, EmptyFields DEF Shape
      <4>2. run.secrets.access = Held(run).access
        BY <1>6, <2>3, <3>2 DEF Shape, Unmerged
      <4> QED
        BY <2>1, <4>1, <4>2 DEF Key
    <3> QED
      BY <3>1, <3>2
  <2> QED
    BY <1>4, <2>2, <2>3
<1> QED
  BY <1>5, <1>6

(* A helper's return hands its updates over, and loses none of them unless *)
(* they would be written into a nil map.                                   *)
LEMMA LeaveHolds ==
  ASSUME NEW run \in Runs, run.got = Empty, ~WritesNil(run.updates, run.inner)
  PROVE  /\ Leave(run) \in Runs
         /\ Leave(run).at = run.at /\ Leave(run).phase = run.phase
         /\ Leave(run).secrets = run.secrets /\ Leave(run).got = Empty
         /\ Leave(run).inner = Empty
         /\ Leave(run).updates.nil = run.updates.nil
         /\ Leave(run).updates.access = Held(run).access
         /\ Leave(run).updates.refresh = Held(run).refresh
         /\ Held(Leave(run)).access = Held(run).access
         /\ Held(Leave(run)).refresh = Held(run).refresh
<1>1. /\ Leave(run) \in [at : Calls \cup {"idle"}, phase : {"ask", "refresh", "again", "failed"},
                          secrets : Written, updates : {Merge(run.updates, run.inner)},
                          inner : {Empty}, got : Written]
      /\ Leave(run).at = run.at /\ Leave(run).phase = run.phase
      /\ Leave(run).secrets = run.secrets /\ Leave(run).got = run.got
      /\ Leave(run).inner = Empty /\ Leave(run).updates = Merge(run.updates, run.inner)
  BY DEF Leave, Runs
<1>2. Merge(run.updates, run.inner) \in Maps
  BY MergeIsMap, RunFields
<1>3. Leave(run) \in Runs
  BY <1>1, <1>2, EmptyFields DEF Runs
<1>4. /\ Leave(run).updates.nil = run.updates.nil
      /\ Leave(run).updates.access = Held(run).access
      /\ Leave(run).updates.refresh = Held(run).refresh
  BY <1>1, HeldFields, EmptyFields DEF Merge, Key
<1>5. /\ Held(Leave(run)).access = Held(run).access
      /\ Held(Leave(run)).refresh = Held(run).refresh
  BY <1>1, <1>4, HeldFields, EmptyFields DEF Key
<1> QED
  BY <1>1, <1>3, <1>4, <1>5

-----------------------------------------------------------------------------
(* What the end of a call does to the tokens *)

Others(t) == \A s \in Tasks \ {t} : runs'[s] = runs[s]

(* The run goes on with what it holds. *)
Carries(t) ==
  /\ runs' \in [Tasks -> Runs] /\ Others(t)
  /\ Shape(runs'[t])
  /\ Held(runs'[t]).refresh = Held(runs[t]).refresh
  /\ \/ runs'[t].secrets.refresh = runs[t].secrets.refresh
     \/ /\ Held(runs[t]).refresh # 0
        /\ runs'[t].secrets.refresh = Held(runs[t]).refresh
  /\ UNCHANGED <<stored, dropped>>

(* The run ends and what it holds is stored. *)
Returns(t) ==
  /\ runs' = [runs EXCEPT ![t] = Idle]
  /\ stored' \in Written
  /\ stored'.refresh = Key(stored.refresh, Held(runs[t]).refresh)
  /\ UNCHANGED dropped

(* The run ends and what it holds is lost. *)
Drops(t) ==
  /\ runs' = [runs EXCEPT ![t] = Idle]
  /\ dropped' = dropped \cup ({Held(runs[t]).refresh} \ {0})
  /\ UNCHANGED stored

(* Going on to the next call carries what is held, ending returns it.      *)
LEMMA ProceedEffect ==
  ASSUME TypeOK, NEW t \in Tasks, NEW c \in Runs, NEW to \in Calls \cup {"end"},
         to # "end" => Shape([c EXCEPT !.at = to]),
         c.got = Empty, to = "end" => c.inner = Empty,
         to = "end" => ~WritesNil(stored, c.updates),
         Held(c).refresh = Held(runs[t]).refresh,
         \/ c.secrets.refresh = runs[t].secrets.refresh
         \/ /\ Held(runs[t]).refresh # 0
            /\ c.secrets.refresh = Held(runs[t]).refresh,
         Proceed(t, c, to)
  PROVE  Carries(t) \/ Returns(t)
<1>1. CASE to = "end"
  <2>1. stored' = Merge(stored, c.updates) /\ runs' = [runs EXCEPT ![t] = Idle] /\ UNCHANGED dropped
    BY <1>1 DEF Proceed, Return
  <2>2. c.updates \in Maps /\ stored \in Written
    BY RunFields DEF TypeOK
  <2>3. stored' \in Written
    BY <2>1, <2>2, MergeWrites
  <2>4. stored'.refresh = Key(stored.refresh, c.updates.refresh)
    BY <2>1 DEF Merge
  <2>5. c.updates.refresh = Held(runs[t]).refresh
    BY <1>1, HeldFields, EmptyFields DEF Key
  <2> QED
    BY <2>1, <2>3, <2>4, <2>5 DEF Returns
<1>2. CASE to # "end"
  <2> DEFINE d == [c EXCEPT !.at = to]
  <2>1. runs' = [runs EXCEPT ![t] = d] /\ UNCHANGED <<stored, dropped>>
    BY <1>2 DEF Proceed
  <2>2. d \in Runs /\ d.secrets = c.secrets /\ d.updates = c.updates /\ d.inner = c.inner /\ d.got = c.got
    BY <1>2 DEF Runs
  <2>3. Held(d) = Held(c)
    BY <2>2 DEF Held
  <2>4. runs \in [Tasks -> Runs]
    BY DEF TypeOK, Runs
  <2>5. runs' \in [Tasks -> Runs] /\ runs'[t] = d /\ Others(t)
    BY <2>1, <2>2, <2>4 DEF Others
  <2> QED
    BY <1>2, <2>1, <2>2, <2>3, <2>5 DEF Carries
<1> QED
  BY <1>1, <1>2

(* The order of the calls, as far as the proof needs it. *)
LEMMA AfterFacts ==
  ASSUME NEW at \in Calls, NEW to \in After(at) \cup {"end"}
  PROVE  /\ to \in Calls \cup {"end"}
         /\ to \notin {"profile", "call", "idle"}
         /\ to = "list" => at = "profile"
         /\ at \in {"profile", "call", "history", "historyMessage", "list", "listMessage"} /\ to # "end"
              => to \in {"history", "historyMessage", "list", "listMessage"}
         /\ at \in {"list", "listMessage"} /\ to # "end" => to = "listMessage"
         /\ at \in Unmerged => to \in {"pull", "end"}
BY DEF After, Calls, Helpers, Unmerged

(* The next call begins in the shape its code expects. *)
LEMMA NextShape ==
  ASSUME NEW run \in Runs, Shape(run), run.at # "idle", NEW u, Brings(run, u),
         NEW to \in After(run.at) \cup {"end"}, to # "end",
         NEW d \in Runs, d.at = to, d.phase = "ask", d.got = Empty,
         Held(d).access = Held(run).access, d.secrets = Collect(run, u).secrets,
         d.updates.nil = Collect(run, u).updates.nil,
         d.inner = IF to \in Helpers THEN Collect(run, u).inner ELSE Empty
  PROVE  Shape(d)
<1> DEFINE c == Collect(run, u)
<1>0. run.at \in Calls /\ u \in Maps
  BY RunFields, BroughtFields
<1>1. d.at = "list" \/ d.at \notin Helpers => d.inner = Empty
  <2>1. CASE to = "list"
    <3>1. run.at = "profile"
      BY <1>0, <2>1, AfterFacts
    <3>2. c.inner = run.inner /\ run.inner = Empty
      BY <1>0, <3>1, CollectFields DEF Shape, Helpers
    <3> QED
      BY <2>1, <3>2 DEF Helpers
  <2>2. CASE to # "list"
    BY <2>2
  <2> QED
    BY <2>1, <2>2
<1>2. d.updates.nil => d.at \in {"history", "historyMessage", "list", "listMessage"}
  <2> SUFFICES ASSUME c.updates.nil
               PROVE  run.at \in {"profile", "call", "history", "historyMessage", "list", "listMessage"}
    BY <1>0, AfterFacts
  <2>1. CASE run.at \in {"profile", "call"}
    BY <2>1
  <2>2. CASE run.at \notin {"profile", "call"}
    <3>1. c.updates.nil = run.updates.nil
      <4>1. c.updates = run.updates \/ c.updates = Merge(run.updates, u)
        BY <1>0, <2>2, CollectFields
      <4>2. Merge(run.updates, u).nil = run.updates.nil
        BY DEF Merge
      <4> QED
        BY <4>1, <4>2
    <3> QED
      BY <3>1 DEF Shape
  <2> QED
    BY <2>1, <2>2
<1>3. d.inner.nil => d.at = "listMessage"
  <2>1. CASE to \notin Helpers
    BY <2>1, EmptyFields
  <2>2. CASE to \in Helpers /\ run.at \in {"list", "listMessage"}
    BY <1>0, <2>2, AfterFacts
  <2>3. CASE to \in Helpers /\ run.at \notin {"list", "listMessage"}
    <3>1. c.inner.nil = run.inner.nil
      <4>1. c.inner = run.inner \/ c.inner = Merge(run.inner, u)
        BY <1>0, <2>3, CollectFields
      <4> QED
        BY <4>1 DEF Merge
    <3> QED
      BY <2>3, <3>1 DEF Shape
  <2> QED
    BY <2>1, <2>2, <2>3
<1>4. d.at # "pull" /\ d.phase # "again" /\ Held(d).access # 0 => d.secrets.access = Held(d).access
  BY <1>0, AfterFacts, CollectHolds
<1>5. d.at \notin {"idle", "profile", "call"}
  BY <1>0, AfterFacts
<1> QED
  BY <1>1, <1>2, <1>3, <1>4, <1>5 DEF Shape

(* However a call ends, what the run holds is carried on, returned or lost *)
(* with the run.                                                           *)
LEMMA LoseEffect ==
  ASSUME NEW t \in Tasks, runs[t] \in Runs, Shape(runs[t]), runs[t].at # "idle",
         NEW u, Brings(runs[t], u), NEW got \in {u, Empty},
         Lose(t, [Collect(runs[t], u) EXCEPT !.got = got])
  PROVE  Drops(t)
<1> DEFINE c == Collect(runs[t], u)
           d == [c EXCEPT !.got = got]
<1>1. /\ Held(d).refresh = Key(Key(c.updates.refresh, c.inner.refresh), got.refresh)
      /\ Held(c).refresh = Key(Key(c.updates.refresh, c.inner.refresh), 0)
  <2>1. d.updates = c.updates /\ d.inner = c.inner /\ d.got = got /\ c.got = Empty
    BY DEF Collect
  <2> QED
    BY <2>1, HeldFields, EmptyFields
<1>2. Held(c).refresh = Held(runs[t]).refresh
  BY CollectHolds
<1>3. Held(runs[t]).refresh = Key(Key(runs[t].updates.refresh, runs[t].inner.refresh), u.refresh)
  BY BroughtFields, HeldFields
<1>4. Held(d).refresh = Held(runs[t]).refresh
  BY <1>1, <1>2, <1>3, EmptyFields DEF Key
<1> QED
  BY <1>4 DEF Lose, Drops

(* The calling code's own way on, with the panics in it. *)
LEMMA ResumeEffect ==
  ASSUME TypeOK, NEW t \in Tasks, Shape(runs[t]), runs[t].at # "idle",
         NEW u, Brings(runs[t], u), NEW to \in After(runs[t].at) \cup {"end"},
         Resume(t, u, to)
  PROVE  Carries(t) \/ Returns(t) \/ Drops(t)
<1> DEFINE run == runs[t]
           c == Collect(run, u)
<1>0. run \in Runs
  BY DEF TypeOK, Runs
<1>1. run.at \in Calls /\ to \in Calls \cup {"end"}
  BY <1>0, RunFields, AfterFacts
<1>2. CASE \/ run.at = "listMessage" /\ WritesNil(run.inner, u)
           \/ to \notin Helpers /\ WritesNil(c.updates, c.inner)
  <2>1. Lose(t, [c EXCEPT !.got = u])
    BY <1>2 DEF Resume
  <2> QED
    BY <1>0, <2>1, LoseEffect
<1>3. CASE /\ ~(run.at = "listMessage" /\ WritesNil(run.inner, u))
           /\ ~(to \notin Helpers /\ WritesNil(c.updates, c.inner))
  <2>1. c \in Runs /\ c.got = Empty /\ c.phase = "ask"
    BY <1>0, <1>3, CollectTyped, CollectFields, BroughtFields
  <2>2. stored.nil = FALSE
    BY WrittenNotNil DEF TypeOK
  <2>3. CASE to \in Helpers
    <3> DEFINE d == [c EXCEPT !.at = to]
    <3>1. Proceed(t, c, to)
      BY <1>3, <2>3 DEF Resume
    <3>2. d \in Runs /\ d.at = to /\ d.phase = c.phase /\ d.got = c.got
          /\ d.secrets = c.secrets /\ d.updates = c.updates /\ d.inner = c.inner
      BY <1>1, <2>1, <2>3 DEF Runs, Helpers
    <3>3. Held(d) = Held(c)
      BY <3>2 DEF Held
    <3>4. Shape(d)
      <4>1. to # "end" /\ Held(d).access = Held(run).access
        BY <1>0, <2>3, <3>3, CollectHolds DEF Helpers
      <4>2. d.phase = "ask" /\ d.got = Empty /\ d.inner = IF to \in Helpers THEN c.inner ELSE Empty
        BY <2>1, <2>3, <3>2
      <4> HIDE DEF d
      <4> QED
        BY <1>0, <3>2, <4>1, <4>2, NextShape
    <3> QED
      BY <1>0, <1>1, <2>1, <2>3, <3>1, <3>4, CollectHolds, ProceedEffect DEF Helpers
  <2>4. CASE to \notin Helpers
    <3> DEFINE l == Leave(c)
               d == [l EXCEPT !.at = to]
    <3>1. Proceed(t, l, to)
      BY <1>3, <2>4 DEF Resume
    <3>2. /\ l \in Runs /\ l.phase = "ask" /\ l.secrets = c.secrets /\ l.got = Empty
          /\ l.inner = Empty /\ l.updates.nil = c.updates.nil
          /\ Held(l).access = Held(c).access /\ Held(l).refresh = Held(c).refresh
      BY <1>3, <2>1, <2>4, LeaveHolds
    <3>3. ASSUME to # "end" PROVE Shape(d)
      <4>1. d \in Runs /\ d.at = to /\ d.phase = l.phase /\ d.got = l.got
            /\ d.secrets = l.secrets /\ d.updates = l.updates /\ d.inner = l.inner
        BY <1>1, <3>2, <3>3 DEF Runs
      <4>2. Held(d) = Held(l)
        BY <4>1 DEF Held
      <4>3. Held(d).access = Held(run).access
        BY <1>0, <3>2, <4>2, CollectHolds
      <4>4. /\ d.phase = "ask" /\ d.got = Empty /\ d.secrets = c.secrets
            /\ d.updates.nil = c.updates.nil
            /\ d.inner = IF to \in Helpers THEN c.inner ELSE Empty
        BY <2>4, <3>2, <4>1
      <4> HIDE DEF d
      <4> QED
        BY <1>0, <3>3, <4>1, <4>3, <4>4, NextShape
    <3> QED
      BY <1>0, <1>1, <2>2, <3>1, <3>2, <3>3, CollectHolds, ProceedEffect DEF WritesNil
  <2> QED
    BY <2>3, <2>4
<1> QED
  BY <1>2, <1>3

-----------------------------------------------------------------------------
(* The invariant *)

(* Between runs a task holds nothing. *)
LEMMA IdleFields ==
  /\ Idle \in Runs /\ Idle.at = "idle"
  /\ Shape(Idle)
  /\ Held(Idle).refresh = 0 /\ Idle.secrets.refresh = 0
<1>1. /\ Idle.at = "idle" /\ Idle.phase = "ask" /\ Idle.secrets = Empty
      /\ Idle.updates = Empty /\ Idle.inner = Empty /\ Idle.got = Empty
  BY DEF Idle
<1>2. Idle \in Runs
  BY EmptyFields DEF Idle, Runs
<1>3. Held(Idle).refresh = 0 /\ Held(Idle).access = 0
  BY <1>1, HeldFields, EmptyFields DEF Key
<1>4. Shape(Idle)
  BY <1>1, <1>3, EmptyFields DEF Shape
<1> QED
  BY <1>1, <1>2, <1>3, <1>4, EmptyFields

(* What the steps below use of the invariant. *)
LEMMA InvFields ==
  ASSUME Inv
  PROVE  /\ current \in Nat \ {0} /\ stored \in Written /\ stored.refresh \in Nat
         /\ runs \in [Tasks -> Runs]
         /\ \A t \in Tasks : /\ runs[t] \in Runs /\ Shape(runs[t])
                            /\ runs[t].secrets.refresh \in Nat
         /\ \A t \in Tasks : Held(runs[t]).refresh \in 0..current
         /\ \A t \in Tasks : Held(runs[t]).refresh \in Nat
<1>1. runs \in [Tasks -> Runs] /\ stored \in Written
  BY DEF Inv, TypeOK, Runs
<1>2. \A t \in Tasks : runs[t] \in Runs /\ runs[t].secrets \in Written
  BY <1>1, RunFields
<1>3. \A t \in Tasks : runs[t].secrets.refresh \in Nat
  BY <1>2, WrittenFields
<1>4. current \in Nat \ {0} /\ \A t \in Tasks : Held(runs[t]).refresh \in 0..current
  BY DEF Inv, TypeOK, Custody
<1>5. ASSUME NEW t \in Tasks PROVE Held(runs[t]).refresh \in Nat
  BY <1>4
<1> QED
  BY <1>1, <1>2, <1>3, <1>4, <1>5, WrittenFields DEF Inv

(* Wherever the tokens of a run go when it takes a step of its own, they   *)
(* stay in one place.                                                      *)
LEMMA EndKeepsInv ==
  ASSUME Inv, NEW t \in Tasks, UNCHANGED upstream, Carries(t) \/ Returns(t) \/ Drops(t)
  PROVE  Inv'
<1>0. /\ current' = current /\ issued' = issued /\ live' = live
  BY DEF upstream
<1>1. CASE Carries(t)
  <2>1. /\ runs' \in [Tasks -> Runs] /\ stored' = stored /\ dropped' = dropped
        /\ \A s \in Tasks : Shape(runs'[s])
        /\ \A s \in Tasks : Held(runs'[s]).refresh = Held(runs[s]).refresh
    BY <1>1, InvFields DEF Carries, Others
  <2>2. \A s \in Tasks : \/ runs'[s].secrets.refresh = runs[s].secrets.refresh
                        \/ /\ Held(runs[s]).refresh # 0
                           /\ runs'[s].secrets.refresh = Held(runs[s]).refresh
    BY <1>1 DEF Carries, Others
  <2>3. TypeOK'
    BY <1>0, <2>1 DEF Inv, TypeOK, Runs
  <2>4. RotationSurvives'
    BY <1>0, <2>1 DEF Inv, Custody, RotationSurvives
  <2>5. Custody'
    BY <1>0, <2>1, <2>2, <2>4, InvFields DEF Inv, Custody
  <2> QED
    BY <2>1, <2>3, <2>5 DEF Inv
<1>2. CASE Returns(t) \/ Drops(t)
  <2>1. /\ runs' \in [Tasks -> Runs]
        /\ \A s \in Tasks : Shape(runs'[s])
        /\ Held(runs'[t]).refresh = 0 /\ runs'[t].secrets.refresh = 0
        /\ \A s \in Tasks \ {t} : runs'[s] = runs[s]
    <3>1. runs' = [runs EXCEPT ![t] = Idle]
      BY <1>2 DEF Returns, Drops
    <3>2. runs'[t] = Idle /\ \A s \in Tasks \ {t} : runs'[s] = runs[s]
      BY <3>1, InvFields
    <3> QED
      BY <3>1, <3>2, IdleFields, InvFields
  <2>2. CASE Returns(t)
    <3>1. /\ stored' \in Written /\ dropped' = dropped
          /\ stored'.refresh = Key(stored.refresh, Held(runs[t]).refresh)
      BY <2>2 DEF Returns
    <3>2. TypeOK'
      BY <1>0, <2>1, <3>1 DEF Inv, TypeOK, Runs
    <3>3. CASE Held(runs[t]).refresh = 0
      <4>1. stored'.refresh = stored.refresh
        BY <3>1, <3>3 DEF Key
      <4>2. RotationSurvives'
        BY <1>0, <2>1, <3>1, <3>3, <4>1, InvFields DEF Inv, Custody, RotationSurvives
      <4>3. Custody'
        BY <1>0, <2>1, <3>1, <3>3, <4>1, <4>2, InvFields DEF Inv, Custody
      <4> QED
        BY <2>1, <3>2, <4>3 DEF Inv
    <3>4. CASE Held(runs[t]).refresh # 0
      <4>1. stored'.refresh = Held(runs[t]).refresh /\ Held(runs[t]).refresh \in 1..current
        BY <3>1, <3>4, InvFields DEF Key
      <4>2. \A s \in Tasks : Held(runs'[s]).refresh = 0
        BY <2>1, <3>4 DEF Inv, Custody
      <4>3. \A s \in Tasks : runs'[s].secrets.refresh < current
        <5>1. stored.refresh < Held(runs[t]).refresh /\ Held(runs[t]).refresh \in 0..current
          BY <3>4 DEF Inv, Custody
        <5>2. stored.refresh # current /\ current \in Nat \ {0} /\ 0 < current
          BY <5>1, InvFields
        <5>3. CASE runs'[t].secrets.refresh = 0
          <6>1. ASSUME NEW s \in Tasks, s # t
                PROVE  runs'[s].secrets.refresh < current
            <7>1. runs'[s] = runs[s]
              BY <2>1, <6>1
            <7>2. Held(runs[s]).refresh = 0
              BY <3>4, <6>1 DEF Inv, Custody
            <7>3. /\ runs[s].secrets.refresh <= current
                  /\ runs[s].secrets.refresh = current
                       => stored.refresh = current \/ Held(runs[s]).refresh = current
              BY <6>1 DEF Inv, Custody
            <7>4. runs[s].secrets.refresh \in Nat
              BY <6>1, InvFields
            <7> QED
              BY <5>2, <7>1, <7>2, <7>3, <7>4
          <6>2. runs'[t].secrets.refresh < current
            BY <5>2, <5>3
          <6> QED
            BY <6>1, <6>2
        <5> QED
          BY <2>1, <5>3
      <4>4. RotationSurvives'
        BY <1>0, <3>1, <3>4, <4>1, InvFields DEF Inv, Custody, RotationSurvives
      <4>5. Custody'
        BY <1>0, <2>1, <4>1, <4>2, <4>3, <4>4, InvFields DEF Custody
      <4> QED
        BY <2>1, <3>2, <4>5 DEF Inv
    <3> QED
      BY <3>3, <3>4
  <2>3. CASE Drops(t)
    <3>1. stored' = stored /\ dropped' = dropped \cup ({Held(runs[t]).refresh} \ {0})
      BY <2>3 DEF Drops
    <3>2. dropped' \subseteq Nat
      <4>1. Held(runs[t]).refresh \in Nat
        BY InvFields
      <4> QED
        BY <3>1, <4>1 DEF Inv, TypeOK
    <3>3. TypeOK'
      BY <1>0, <2>1, <3>1, <3>2 DEF Inv, TypeOK, Runs
    <3>4. RotationSurvives'
      <4>1. CASE stored.refresh = current \/ current \in dropped
        BY <1>0, <3>1, <4>1 DEF RotationSurvives
      <4>2. CASE \E s \in Tasks : Held(runs[s]).refresh = current
        <5>1. PICK s \in Tasks : Held(runs[s]).refresh = current
          BY <4>2
        <5>2. CASE s = t
          BY <1>0, <3>1, <5>1, <5>2, InvFields DEF RotationSurvives
        <5>3. CASE s # t
          BY <1>0, <2>1, <5>1, <5>3 DEF RotationSurvives
        <5> QED
          BY <5>2, <5>3
      <4> QED
        BY <4>1, <4>2 DEF Inv, Custody, RotationSurvives
    <3>5. \A s \in Tasks : runs'[s].secrets.refresh = current
                           => stored.refresh = current \/ Held(runs'[s]).refresh = current
      BY <2>1, InvFields DEF Inv, Custody
    <3>6. Custody'
      BY <1>0, <2>1, <3>1, <3>4, <3>5, InvFields DEF Inv, Custody
    <3> QED
      BY <2>1, <3>3, <3>6 DEF Inv
  <2> QED
    BY <1>2, <2>2, <2>3
<1> QED
  BY <1>1, <1>2

(* An answered call, the invalid profile included. *)
LEMMA AnswerEffect ==
  ASSUME Inv, NEW t \in Tasks, runs[t].at # "idle", NEW u, Brings(runs[t], u),
         NEW token, Answer(t, token, u)
  PROVE  Carries(t) \/ Returns(t) \/ Drops(t)
<1>0. TypeOK /\ runs[t] \in Runs /\ Shape(runs[t])
  BY InvFields DEF Inv
<1>1. CASE Succeed(t, u)
  BY <1>0, <1>1, ResumeEffect DEF Succeed
<1>2. CASE Fail(t, u)
  BY <1>0, <1>2, ResumeEffect DEF Fail
<1>3. CASE ProfileInvalid(t, u)
  <2>1. Lose(t, Collect(runs[t], u))
    BY <1>3 DEF ProfileInvalid
  <2>2. [Collect(runs[t], u) EXCEPT !.got = Empty] = Collect(runs[t], u)
    BY DEF Collect
  <2> QED
    BY <1>0, <2>1, <2>2, LoseEffect
<1> QED
  BY <1>1, <1>2, <1>3 DEF Answer

(* A step of one run that changes it alone and keeps what it holds. *)
LEMMA RunChanges ==
  ASSUME Inv, NEW t \in Tasks, NEW d \in Runs, Shape(d),
         Held(d).refresh = Held(runs[t]).refresh,
         \/ d.secrets = runs[t].secrets
         \/ d.secrets = stored,
         runs' = [runs EXCEPT ![t] = d],
         current' = current, UNCHANGED <<issued, live, stored, dropped>>
  PROVE  Inv'
<1>1. /\ runs' \in [Tasks -> Runs] /\ runs'[t] = d
      /\ \A s \in Tasks \ {t} : runs'[s] = runs[s]
  BY InvFields
<1>2. /\ \A s \in Tasks : Shape(runs'[s])
      /\ \A s \in Tasks : Held(runs'[s]).refresh = Held(runs[s]).refresh
      /\ \A s \in Tasks : \/ runs'[s].secrets.refresh = runs[s].secrets.refresh
                         \/ runs'[s].secrets.refresh = stored.refresh
  BY <1>1, InvFields
<1>3. TypeOK'
  BY <1>1 DEF Inv, TypeOK, Runs
<1>4. RotationSurvives'
  BY <1>2 DEF Inv, Custody, RotationSurvives
<1>5. Custody'
  BY <1>2, <1>4, InvFields DEF Inv, Custody
<1> QED
  BY <1>2, <1>3, <1>5 DEF Inv

(* A new run takes its copies from the stored secrets. *)
LEMMA BeginKeepsInv == ASSUME Inv, NEW t \in Tasks, Begin(t) PROVE Inv'
<1>1. PICK at \in First(t) : runs' = [runs EXCEPT ![t] = [Idle EXCEPT !.at = at, !.secrets = stored]]
  BY DEF Begin
<1> DEFINE d == [Idle EXCEPT !.at = at, !.secrets = stored]
<1>2. /\ d.at = at /\ d.phase = "ask" /\ d.secrets = stored
      /\ d.updates = Empty /\ d.inner = Empty /\ d.got = Empty
  BY DEF Idle
<1>3. at \in {"profile", "topic", "pull", "stop", "call"}
  BY TasksAssumption DEF First, AllTasks
<1>4. stored \in Written
  BY InvFields
<1>5. d \in Runs
  BY <1>3, <1>4, EmptyFields DEF Idle, Runs, Calls, Helpers
<1>6. Held(d).refresh = 0 /\ Held(d).access = 0
  BY <1>2, HeldFields, EmptyFields DEF Key
<1>7. Shape(d)
  BY <1>2, <1>3, <1>6, EmptyFields DEF Shape
<1>8. Held(runs[t]).refresh = 0
  BY IdleFields, InvFields DEF Begin, Shape
<1>9. current' = current /\ UNCHANGED <<issued, live, stored, dropped>>
  BY DEF Begin, upstream
<1> HIDE DEF d
<1> QED
  BY <1>1, <1>2, <1>5, <1>6, <1>7, <1>8, <1>9, RunChanges DEF d

(* A 401 changes nothing yet. *)
LEMMA UnauthorizedKeepsInv == ASSUME Inv, NEW t \in Tasks, Unauthorized(t) PROVE Inv'
<1> DEFINE d == [runs[t] EXCEPT !.phase = "refresh"]
<1>1. runs[t] \in Runs /\ Shape(runs[t]) /\ runs[t].phase = "ask" /\ runs[t].at # "idle"
  BY InvFields DEF Unauthorized
<1>2. /\ d \in Runs /\ d.at = runs[t].at /\ d.phase = "refresh" /\ d.secrets = runs[t].secrets
      /\ d.updates = runs[t].updates /\ d.inner = runs[t].inner /\ d.got = runs[t].got
  BY <1>1 DEF Runs
<1>3. Held(d) = Held(runs[t])
  BY <1>2 DEF Held
<1>4. Shape(d)
  BY <1>1, <1>2, <1>3 DEF Shape
<1>5. runs' = [runs EXCEPT ![t] = d]
  BY InvFields DEF Unauthorized
<1>6. current' = current /\ UNCHANGED <<issued, live, stored, dropped>>
  BY DEF Unauthorized, upstream
<1> QED
  BY <1>2, <1>3, <1>4, <1>5, <1>6, RunChanges

(* A granted refresh: the run presented the accepted token, so no other    *)
(* run holds one, and afterwards this run holds the accepted token or it   *)
(* is lost on the way.                                                     *)
LEMMA GrantFacts ==
  ASSUME Inv, NEW t \in Tasks, NEW rotates \in BOOLEAN, Grant(t, rotates)
  PROVE  /\ runs[t] \in Runs /\ Shape(runs[t]) /\ runs[t].got = Empty /\ runs[t].at # "idle"
         /\ issued' \in Nat \ {0} /\ live' \subseteq 1..issued'
         /\ current' = IF rotates THEN current + 1 ELSE current
         /\ \A s \in Tasks \ {t} : Held(runs[s]).refresh = 0
         /\ stored.refresh = current \/ Held(runs[t]).refresh = current
<1>1. runs[t].phase = "refresh" /\ runs[t].secrets.refresh = current
  BY DEF Grant
<1>2. runs[t] \in Runs /\ Shape(runs[t])
  BY InvFields
<1>3. runs[t].got = Empty /\ runs[t].at # "idle"
  BY <1>1, <1>2 DEF Shape, Idle
<1>4. issued' = issued + 1 /\ live' = live \cup {issued'}
      /\ current' = IF rotates THEN current + 1 ELSE current
  BY DEF Grant
<1>5. issued' \in Nat \ {0} /\ live' \subseteq 1..issued'
  BY <1>4 DEF Inv, TypeOK
<1>6. stored.refresh = current \/ Held(runs[t]).refresh = current
  BY <1>1 DEF Inv, Custody
<1>7. \A s \in Tasks \ {t} : Held(runs[s]).refresh = 0
  BY <1>6, InvFields DEF Inv, Custody
<1> QED
  BY <1>2, <1>3, <1>4, <1>5, <1>6, <1>7

(* A refresh that arrives: the run holds the new token. *)
LEMMA RefreshKeepsInv ==
  ASSUME Inv, NEW t \in Tasks, NEW rotates \in BOOLEAN, Refresh(t, rotates)
  PROVE  Inv'
<1> DEFINE g == [nil |-> FALSE, access |-> issued', refresh |-> IF rotates THEN current' ELSE 0]
           d == [runs[t] EXCEPT !.phase = "again", !.got = g]
<1>0. Grant(t, rotates) /\ stored' = stored /\ dropped' = dropped
  BY DEF Refresh
<1>1. /\ runs[t] \in Runs /\ Shape(runs[t]) /\ runs[t].got = Empty /\ runs[t].at # "idle"
      /\ issued' \in Nat \ {0} /\ live' \subseteq 1..issued'
      /\ current' = IF rotates THEN current + 1 ELSE current
      /\ \A s \in Tasks \ {t} : Held(runs[s]).refresh = 0
      /\ stored.refresh = current \/ Held(runs[t]).refresh = current
  BY <1>0, GrantFacts
<1>2. current' \in Nat \ {0}
  BY <1>1, InvFields
<1>3. g \in Written /\ g.access # 0 /\ g.refresh = IF rotates THEN current' ELSE 0
  BY <1>1, <1>2 DEF Written
<1>4. runs' = [runs EXCEPT ![t] = d]
  BY InvFields DEF Refresh
<1> HIDE DEF g
<1>5. /\ d \in Runs /\ d.at = runs[t].at /\ d.phase = "again" /\ d.secrets = runs[t].secrets
      /\ d.updates = runs[t].updates /\ d.inner = runs[t].inner /\ d.got = g
  BY <1>1, <1>3 DEF Runs
<1>6. Shape(d)
  BY <1>1, <1>3, <1>5 DEF Shape
<1>7. Held(d).refresh = IF rotates THEN current' ELSE Held(runs[t]).refresh
  <2>1. Held(d).refresh = Key(Key(runs[t].updates.refresh, runs[t].inner.refresh), g.refresh)
    BY <1>5, HeldFields
  <2>2. Held(runs[t]).refresh = Key(Key(runs[t].updates.refresh, runs[t].inner.refresh), 0)
    BY <1>1, HeldFields, EmptyFields
  <2> QED
    BY <1>2, <1>3, <2>1, <2>2 DEF Key
<1> HIDE DEF d
<1>8. /\ runs' \in [Tasks -> Runs] /\ runs'[t] = d
      /\ \A s \in Tasks \ {t} : runs'[s] = runs[s]
  BY <1>4, <1>5, InvFields
<1>9. /\ \A s \in Tasks : Shape(runs'[s])
      /\ \A s \in Tasks : runs'[s].secrets.refresh = runs[s].secrets.refresh
      /\ \A s \in Tasks \ {t} : Held(runs'[s]).refresh = 0
      /\ Held(runs'[t]).refresh = IF rotates THEN current' ELSE Held(runs[t]).refresh
  BY <1>1, <1>5, <1>6, <1>7, <1>8, InvFields
<1>10. TypeOK'
  BY <1>0, <1>1, <1>2, <1>8 DEF Inv, TypeOK, Runs
<1>11. RotationSurvives'
  BY <1>0, <1>1, <1>9 DEF Inv, Custody, RotationSurvives
<1>12. CASE rotates
  <2>1. current' = current + 1 /\ Held(runs'[t]).refresh = current'
    BY <1>1, <1>9, <1>12
  <2>2. Custody'
    BY <1>0, <1>9, <1>11, <2>1, InvFields DEF Inv, Custody
  <2> QED
    BY <1>9, <1>10, <2>2 DEF Inv
<1>13. CASE ~rotates
  <2>1. current' = current /\ \A s \in Tasks : Held(runs'[s]).refresh = Held(runs[s]).refresh
    BY <1>1, <1>9, <1>13
  <2>2. Custody'
    BY <1>0, <1>9, <1>11, <2>1, InvFields DEF Inv, Custody
  <2> QED
    BY <1>9, <1>10, <2>2 DEF Inv
<1> QED
  BY <1>12, <1>13

(* A refresh that does not arrive: what it issued is lost. *)
LEMMA RefreshLostKeepsInv ==
  ASSUME Inv, NEW t \in Tasks, NEW rotates \in BOOLEAN, RefreshLost(t, rotates)
  PROVE  Inv'
<1> DEFINE d == [runs[t] EXCEPT !.phase = "failed"]
<1>0. Grant(t, rotates) /\ stored' = stored
      /\ dropped' = IF rotates THEN dropped \cup {current'} ELSE dropped
  BY DEF RefreshLost
<1>1. /\ runs[t] \in Runs /\ Shape(runs[t]) /\ runs[t].got = Empty /\ runs[t].at # "idle"
      /\ issued' \in Nat \ {0} /\ live' \subseteq 1..issued'
      /\ current' = IF rotates THEN current + 1 ELSE current
  BY <1>0, GrantFacts
<1>2. current' \in Nat \ {0}
  BY <1>1, InvFields
<1>3. /\ d \in Runs /\ d.at = runs[t].at /\ d.phase = "failed" /\ d.secrets = runs[t].secrets
      /\ d.updates = runs[t].updates /\ d.inner = runs[t].inner /\ d.got = runs[t].got
  BY <1>1 DEF Runs
<1>4. Held(d) = Held(runs[t])
  BY <1>3 DEF Held
<1>5. runs[t].phase = "refresh"
  BY <1>0 DEF Grant
<1>6. Shape(d)
  BY <1>1, <1>3, <1>4, <1>5 DEF Shape
<1>7. runs' = [runs EXCEPT ![t] = d]
  BY InvFields DEF RefreshLost
<1> HIDE DEF d
<1>8. runs' \in [Tasks -> Runs] /\ runs'[t] = d /\ \A s \in Tasks \ {t} : runs'[s] = runs[s]
  BY <1>3, <1>7, InvFields
<1>9. /\ \A s \in Tasks : Shape(runs'[s])
      /\ \A s \in Tasks : runs'[s].secrets.refresh = runs[s].secrets.refresh
      /\ \A s \in Tasks : Held(runs'[s]).refresh = Held(runs[s]).refresh
  BY <1>3, <1>4, <1>6, <1>8, InvFields
<1>10. TypeOK'
  BY <1>0, <1>1, <1>2, <1>8 DEF Inv, TypeOK, Runs
<1>11. RotationSurvives'
  BY <1>0, <1>1, <1>9 DEF Inv, Custody, RotationSurvives
<1>12. CASE rotates
  <2>1. current' = current + 1
    BY <1>1, <1>12
  <2>2. Custody'
    BY <1>0, <1>9, <1>11, <2>1, InvFields DEF Inv, Custody
  <2> QED
    BY <1>9, <1>10, <2>2 DEF Inv
<1>13. CASE ~rotates
  <2>1. current' = current
    BY <1>1, <1>13
  <2>2. Custody'
    BY <1>0, <1>9, <1>11, <2>1, InvFields DEF Inv, Custody
  <2> QED
    BY <1>9, <1>10, <2>2 DEF Inv
<1> QED
  BY <1>12, <1>13

(* The calls that end: the first attempt, the failed refresh, the second   *)
(* attempt.                                                                *)
LEMMA CallEnds ==
  ASSUME Inv, NEW t \in Tasks, Ask(t) \/ RefreshFails(t) \/ Again(t)
  PROVE  UNCHANGED upstream /\ (Carries(t) \/ Returns(t) \/ Drops(t))
<1>0. TypeOK /\ runs[t] \in Runs /\ Shape(runs[t])
  BY InvFields DEF Inv
<1>1. runs[t].at # "idle"
  BY <1>0, IdleFields DEF Ask, RefreshFails, Again, Shape, Idle
<1>2. CASE Ask(t)
  <2>1. PICK none \in {Nil, Empty} : Answer(t, runs[t].secrets.access, none)
    BY <1>2 DEF Ask
  <2>2. Brings(runs[t], none)
    BY <1>2 DEF Ask, Brings
  <2> QED
    BY <1>1, <1>2, <2>1, <2>2, AnswerEffect DEF Ask
<1>3. CASE RefreshFails(t)
  <2>1. PICK none \in {Nil, Empty} : Fail(t, none)
    BY <1>3 DEF RefreshFails
  <2>2. Brings(runs[t], none)
    BY <1>3 DEF RefreshFails, Brings
  <2> QED
    BY <1>0, <1>1, <1>3, <2>1, <2>2, ResumeEffect DEF RefreshFails, Fail
<1>4. CASE Again(t)
  <2>1. Brings(runs[t], runs[t].got)
    BY <1>4 DEF Again, Brings
  <2> QED
    BY <1>1, <1>4, <2>1, AnswerEffect DEF Again
<1> QED
  BY <1>2, <1>3, <1>4

(* A crash loses what the runs held and nothing that was stored.          *)
LEMMA CrashKeepsInv == ASSUME Inv, Crash PROVE Inv'
<1>0. /\ runs' = [t \in Tasks |-> Idle]
      /\ dropped' = dropped \cup ({Held(runs[t]).refresh : t \in Tasks} \ {0})
      /\ current' = current /\ issued' = issued /\ live' = live /\ stored' = stored
  BY DEF Crash, upstream
<1>1. /\ runs' \in [Tasks -> Runs]
      /\ \A t \in Tasks : /\ Shape(runs'[t]) /\ Held(runs'[t]).refresh = 0
                         /\ runs'[t].secrets.refresh = 0
  BY <1>0, IdleFields
<1>2. dropped' \subseteq Nat
  BY <1>0, InvFields DEF Inv, TypeOK
<1>3. TypeOK'
  BY <1>0, <1>1, <1>2 DEF Inv, TypeOK, Runs
<1>4. RotationSurvives'
  BY <1>0, InvFields DEF Inv, Custody, RotationSurvives
<1>5. Custody'
  BY <1>0, <1>1, <1>4, InvFields DEF Inv, Custody
<1> QED
  BY <1>1, <1>3, <1>5 DEF Inv

(* An access token that expires moves no refresh token. *)
LEMMA ExpireKeepsInv == ASSUME Inv, Expire PROVE Inv'
<1>1. /\ current' = current /\ issued' = issued /\ stored' = stored /\ runs' = runs
      /\ dropped' = dropped /\ live' \subseteq live
  BY DEF Expire
<1>2. TypeOK'
  BY <1>1 DEF Inv, TypeOK
<1>3. RotationSurvives'
  BY <1>1 DEF Inv, Custody, RotationSurvives
<1> QED
  BY <1>1, <1>2, <1>3 DEF Inv, Custody

(* The invariant holds of a connection with one pair of tokens. *)
LEMMA InitInv == Init => Inv
<1> SUFFICES ASSUME Init PROVE Inv
  OBVIOUS
<1>1. /\ runs \in [Tasks -> Runs]
      /\ \A t \in Tasks : /\ Shape(runs[t]) /\ Held(runs[t]).refresh = 0
                         /\ runs[t].secrets.refresh = 0
  BY IdleFields DEF Init
<1>2. stored \in Written /\ stored.refresh = 1 /\ current = 1
  BY DEF Init, Written
<1>3. TypeOK
  BY <1>1, <1>2 DEF Init, TypeOK, Runs
<1>4. Custody
  BY <1>1, <1>2 DEF Custody, RotationSurvives
<1> QED
  BY <1>1, <1>3, <1>4 DEF Inv

(* Every step keeps the invariant. *)
LEMMA NextInv == Inv /\ [Next]_vars => Inv'
<1> SUFFICES ASSUME Inv, [Next]_vars PROVE Inv'
  OBVIOUS
<1>1. CASE Expire
  BY <1>1, ExpireKeepsInv
<1>2. CASE Crash
  BY <1>2, CrashKeepsInv
<1>3. ASSUME NEW t \in Tasks, TaskStep(t) PROVE Inv'
  <2>1. CASE Begin(t)
    BY <2>1, BeginKeepsInv
  <2>2. CASE Unauthorized(t)
    BY <2>2, UnauthorizedKeepsInv
  <2>3. ASSUME NEW rotates \in BOOLEAN, Refresh(t, rotates) PROVE Inv'
    BY <2>3, RefreshKeepsInv
  <2>4. ASSUME NEW rotates \in BOOLEAN, RefreshLost(t, rotates) PROVE Inv'
    BY <2>4, RefreshLostKeepsInv
  <2>5. CASE Ask(t) \/ RefreshFails(t) \/ Again(t)
    BY <2>5, CallEnds, EndKeepsInv
  <2> QED
    BY <1>3, <2>1, <2>2, <2>3, <2>4, <2>5 DEF TaskStep
<1>4. CASE UNCHANGED vars
  <2>1. /\ current' = current /\ issued' = issued /\ live' = live /\ stored' = stored
        /\ runs' = runs /\ dropped' = dropped
    BY <1>4 DEF vars
  <2>2. TypeOK' /\ RotationSurvives'
    BY <2>1 DEF Inv, Custody, TypeOK, RotationSurvives
  <2> QED
    BY <2>1, <2>2 DEF Inv, Custody
<1> QED
  BY <1>1, <1>2, <1>3, <1>4 DEF Next

-----------------------------------------------------------------------------
(* Theorems *)

(* The tokens of a connection are always in one place (Custody), whatever  *)
(* calls fail and whichever runs overlap.                                  *)
THEOREM InvAlways == Spec => []Inv
<1> QED
  BY InitInv, NextInv, PTL DEF Spec

(* No map of secrets is written to while it is nil, whatever the runs do.  *)
THEOREM TypeCorrect == Spec => []TypeOK
<1>1. Inv => TypeOK
  BY DEF Inv
<1> QED
  BY <1>1, InvAlways, PTL

(* For every set of tasks and any number of tokens: the accepted refresh   *)
(* token is stored, carried by a run, or was lost in one of the ways that  *)
(* Lose, RefreshLost and Crash name; execute's error results, the early    *)
(* returns and the merges of background.go lose none.                      *)
THEOREM NoLockout == Spec => []RotationSurvives
<1>1. Inv => RotationSurvives
  BY DEF Inv, Custody
<1> QED
  BY <1>1, InvAlways, PTL

(* Every call but the pull presents the newest token of its run.           *)
THEOREM Presented == Spec => []NewestPresented
<1>1. ASSUME Inv PROVE NewestPresented
  <2>1. \A t \in Tasks : Shape(runs[t])
    BY <1>1 DEF Inv
  <2> QED
    BY <2>1 DEF Shape, NewestPresented, PresentsNewest
<1> QED
  BY <1>1, InvAlways, PTL

(* Runs that overlap and finish in any order never put back a refresh      *)
(* token that was replaced.                                                *)
THEOREM StoredForward == Spec => StoredNeverRetreats
<1>1. ASSUME Inv, [Next]_vars PROVE stored'.refresh >= stored.refresh
  <2>0. stored.refresh \in Nat /\ \A t \in Tasks : Held(runs[t]).refresh \in 0..current
    BY <1>1, InvFields
  <2>1. CASE UNCHANGED stored
    BY <2>0, <2>1
  <2>2. ASSUME NEW t \in Tasks, Returns(t) PROVE stored'.refresh >= stored.refresh
    <3>1. stored'.refresh = Key(stored.refresh, Held(runs[t]).refresh)
      BY <2>2 DEF Returns
    <3>2. Held(runs[t]).refresh # 0 => stored.refresh < Held(runs[t]).refresh
      BY <1>1 DEF Inv, Custody
    <3> QED
      BY <1>1, <2>0, <3>1, <3>2, InvFields DEF Key
  <2>3. ASSUME NEW t \in Tasks, TaskStep(t) PROVE stored'.refresh >= stored.refresh
    <3>1. CASE Ask(t) \/ RefreshFails(t) \/ Again(t)
      <4>1. Carries(t) \/ Returns(t) \/ Drops(t)
        BY <1>1, <3>1, CallEnds
      <4> QED
        BY <2>1, <2>2, <4>1 DEF Carries, Drops
    <3>2. CASE Begin(t) \/ Unauthorized(t)
      BY <2>1, <3>2 DEF Begin, Unauthorized
    <3>3. ASSUME NEW rotates \in BOOLEAN, Refresh(t, rotates) \/ RefreshLost(t, rotates)
          PROVE  stored' = stored
      BY <3>3 DEF Refresh, RefreshLost
    <3> QED
      BY <2>1, <2>3, <3>1, <3>2, <3>3 DEF TaskStep
  <2>4. CASE Expire \/ Crash
    BY <2>1, <2>4 DEF Expire, Crash
  <2>5. CASE UNCHANGED vars
    BY <2>1, <2>5 DEF vars
  <2> QED
    BY <1>1, <2>3, <2>4, <2>5 DEF Next
<1> QED
  BY <1>1, InvAlways, PTL DEF Spec, StoredNeverRetreats
=============================================================================
