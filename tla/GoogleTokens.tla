---------------------------- MODULE GoogleTokens ----------------------------
(***************************************************************************)
(* The credentials of one Google Workspace connection: every provider call *)
(* that is answered 401 refreshes the access token once and tries again,   *)
(* and the tokens a refresh brings travel back through every caller as     *)
(* SecretUpdates until Runtime stores them.  gmail_sync, gmail_watch, the  *)
(* cleanup and an operation of a user run side by side, each with its own  *)
(* copy of the stored secrets.                                             *)
(*                                                                         *)
(* Tokens are numbered in the order they are issued, 0 is the absent key.  *)
(* A Go map is a record of its two keys that knows whether it is nil.  The *)
(* branches on http_status_404 and http_status_409 are not here: execute   *)
(* never gives an error such a code (see GmailIngest), so it always        *)
(* returns there.  A connection without a refresh token is not here: its   *)
(* 401 is the answer and nothing of its secrets changes.                   *)
(***************************************************************************)
EXTENDS Integers

CONSTANTS
  Tasks,     \* which of AllTasks the connection runs
  MaxTokens  \* bound: access tokens issued

AllTasks == {"sync", "watch", "cleanup", "call"}

ASSUME TasksAssumption == Tasks \subseteq AllTasks
ASSUME MaxTokensAssumption == MaxTokens \in Nat \ {0}

VARIABLES
  current,  \* the refresh token the token endpoint accepts
  issued,   \* access tokens issued so far
  live,     \* access tokens Google still accepts
  stored,   \* the secrets Runtime has stored
  runs,     \* task -> the run of it
  dropped   \* history: refresh tokens that were issued and lost

vars == <<current, issued, live, stored, runs, dropped>>

-----------------------------------------------------------------------------
(* Maps of secrets *)

Nil == [nil |-> TRUE, access |-> 0, refresh |-> 0]
Empty == [nil |-> FALSE, access |-> 0, refresh |-> 0]
Written == {m \in [nil : {FALSE}, access : Nat, refresh : Nat] : m.access = 0 => m.refresh = 0}
Maps == Written \cup {Nil}

Key(old, new) == IF new # 0 THEN new ELSE old
Merge(target, values) ==
  [nil |-> target.nil,
   access |-> Key(target.access, values.access),
   refresh |-> Key(target.refresh, values.refresh)]

(* Writing a key into a nil map panics; merging nothing into it does not.  *)
(* (WritesNilUnseen and the other definitions named for what they leave    *)
(* out are plausible bugs, kept to see that the properties notice them.)   *)
WritesNilUnseen(target, values) == FALSE
WritesNil(target, values) == target.nil /\ values.access # 0

-----------------------------------------------------------------------------
(* The programs: which calls follow which *)

Helpers == {"history", "historyMessage", "list", "listMessage",
            "topic", "getPolicy", "setPolicy", "subscription"}
Calls == Helpers \cup {"profile", "watch", "pull", "stop", "delete", "call"}

First(t) == CASE t = "sync"    -> {"profile"}
              [] t = "watch"   -> {"topic", "pull"}
              [] t = "cleanup" -> {"stop"}
              [] t = "call"    -> {"call"}

After(at) == CASE at = "profile"      -> {"history", "list", "end"}
               [] at \in {"history", "historyMessage"}
                                      -> {"historyMessage", "history", "end"}
               [] at \in {"list", "listMessage"}
                                      -> {"listMessage", "end"}
               [] at = "topic"        -> {"getPolicy"}
               [] at = "getPolicy"    -> {"setPolicy"}
               [] at = "setPolicy"    -> {"subscription"}
               [] at = "subscription" -> {"watch"}
               [] at = "watch"        -> {"pull"}
               [] at = "stop"         -> {"delete"}
               [] at \in {"pull", "delete", "call"} -> {"end"}

(* The calls whose updates do not reach the secrets of the calls after.    *)
UnmergedHistory == {"history", "watch", "pull", "delete", "call"}
Unmerged == {"watch", "pull", "delete", "call"}

Idle == [at |-> "idle", phase |-> "ask", secrets |-> Empty,
         updates |-> Empty, inner |-> Empty, got |-> Empty]

(* What the call's updates become: the result of a profile, of a listing   *)
(* and of an operation is assigned and so may be a nil map, a helper       *)
(* collects in a map of its own, the tasks collect in theirs.              *)
Collect(run, u) ==
  [at |-> run.at, phase |-> "ask", got |-> Empty,
   secrets |-> IF run.at \in Unmerged THEN run.secrets ELSE Merge(run.secrets, u),
   inner |-> IF run.at = "list" THEN u
             ELSE IF run.at \in Helpers THEN Merge(run.inner, u) ELSE run.inner,
   updates |-> IF run.at \in {"profile", "call"} THEN u
               ELSE IF run.at \in Helpers THEN run.updates ELSE Merge(run.updates, u)]

(* A helper returns: its caller merges what it collected. *)
Leave(run) == [run EXCEPT !.updates = Merge(@, run.inner), !.inner = Empty]

(* The newest tokens a run has received and not yet handed back. *)
Held(run) == Merge(Merge(run.updates, run.inner), run.got)

-----------------------------------------------------------------------------
Init ==
  /\ current = 1 /\ issued = 1 /\ live = {1}
  /\ stored = [nil |-> FALSE, access |-> 1, refresh |-> 1]
  /\ runs = [t \in Tasks |-> Idle]
  /\ dropped = {}

upstream == <<current, issued, live>>

Begin(t) ==
  /\ runs[t].at = "idle"
  /\ \E at \in First(t) : runs' = [runs EXCEPT ![t] = [Idle EXCEPT !.at = at, !.secrets = stored]]
  /\ UNCHANGED <<upstream, stored, dropped>>

(* Google stops accepting an access token. *)
Expire ==
  /\ \E a \in live : live' = live \ {a}
  /\ UNCHANGED <<current, issued, stored, runs, dropped>>

(* Runtime stores what a run returns, with an error or without one. *)
ReturnWithSecrets(t, run) ==
  /\ stored' = Merge(run.secrets, run.updates)
  /\ runs' = [runs EXCEPT ![t] = Idle]
  /\ UNCHANGED dropped

Return(t, run) ==
  /\ stored' = Merge(stored, run.updates)
  /\ runs' = [runs EXCEPT ![t] = Idle]
  /\ UNCHANGED dropped

(* A run ends and what it holds is gone with it. *)
Lose(t, run) ==
  /\ dropped' = dropped \cup ({Held(run).refresh} \ {0})
  /\ runs' = [runs EXCEPT ![t] = Idle]
  /\ UNCHANGED stored

Proceed(t, run, to) ==
  IF to = "end" THEN Return(t, run)
  ELSE /\ runs' = [runs EXCEPT ![t] = [run EXCEPT !.at = to]]
       /\ UNCHANGED <<stored, dropped>>

(* The calling code takes a call's updates u and goes on to `to`. *)
Resume(t, u, to) ==
  LET run == Collect(runs[t], u) IN
  IF \/ runs[t].at = "listMessage" /\ WritesNil(runs[t].inner, u)
     \/ to \notin Helpers /\ WritesNil(run.updates, run.inner)
  THEN Lose(t, [run EXCEPT !.got = u])
  ELSE Proceed(t, IF to \in Helpers THEN run ELSE Leave(run), to)

Succeed(t, u) == \E to \in After(runs[t].at) : Resume(t, u, to)
Fail(t, u) == Resume(t, u, "end")

(* A profile without emailAddress or historyId returns an error and no     *)
(* updates.                                                                *)
ProfileInvalid(t, u) ==
  /\ runs[t].at = "profile"
  /\ Lose(t, Collect(runs[t], u))

Answer(t, token, u) ==
  \/ token \in live /\ (Succeed(t, u) \/ ProfileInvalid(t, u))
  \/ Fail(t, u)

(* The first attempt; without a refresh the result carries no updates, as  *)
(* a nil map or as an empty one.                                           *)
Ask(t) ==
  /\ runs[t].at # "idle" /\ runs[t].phase = "ask"
  /\ \E none \in {Nil, Empty} : Answer(t, runs[t].secrets.access, none)
  /\ UNCHANGED upstream

Unauthorized(t) ==
  /\ runs[t].at # "idle" /\ runs[t].phase = "ask"
  /\ runs[t].secrets.access \notin live
  /\ runs' = [runs EXCEPT ![t].phase = "refresh"]
  /\ UNCHANGED <<upstream, stored, dropped>>

(* The token endpoint grants a refresh; it may replace the refresh token.  *)
Grant(t, rotates) ==
  /\ runs[t].phase = "refresh" /\ runs[t].secrets.refresh = current
  /\ issued < MaxTokens
  /\ issued' = issued + 1 /\ live' = live \cup {issued'}
  /\ current' = IF rotates THEN current + 1 ELSE current

Refresh(t, rotates) ==
  /\ Grant(t, rotates)
  /\ runs' = [runs EXCEPT ![t].phase = "again",
                          ![t].got = [nil |-> FALSE, access |-> issued',
                                      refresh |-> IF rotates THEN current' ELSE 0]]
  /\ UNCHANGED <<stored, dropped>>

(* Granted, but the answer does not arrive or does not decode. *)
RefreshLost(t, rotates) ==
  /\ Grant(t, rotates)
  /\ runs' = [runs EXCEPT ![t].phase = "failed"]
  /\ dropped' = IF rotates THEN dropped \cup {current'} ELSE dropped
  /\ UNCHANGED stored

(* A rejected, failed or lost refresh fails the call; it has no updates. *)
RefreshFails(t) ==
  /\ runs[t].phase \in {"refresh", "failed"}
  /\ \E none \in {Nil, Empty} : Fail(t, none)
  /\ UNCHANGED upstream

AgainDiscards(t) ==
  /\ runs[t].phase = "again"
  /\ \/ Answer(t, runs[t].got.access, runs[t].got)
     \/ Fail(t, Nil)
  /\ UNCHANGED upstream

(* The second attempt: its updates are returned whether it succeeds or not.*)
Again(t) ==
  /\ runs[t].phase = "again"
  /\ Answer(t, runs[t].got.access, runs[t].got)
  /\ UNCHANGED upstream

(* Runtime's process dies with every run in it. *)
Crash ==
  /\ runs' = [t \in Tasks |-> Idle]
  /\ dropped' = dropped \cup ({Held(runs[t]).refresh : t \in Tasks} \ {0})
  /\ UNCHANGED <<upstream, stored>>

TaskStep(t) ==
  \/ Begin(t) \/ Ask(t) \/ Unauthorized(t)
  \/ \E rotates \in BOOLEAN : Refresh(t, rotates) \/ RefreshLost(t, rotates)
  \/ RefreshFails(t) \/ Again(t)

Next == Expire \/ Crash \/ \E t \in Tasks : TaskStep(t)

Spec == Init /\ [][Next]_vars

-----------------------------------------------------------------------------
(* Properties *)

(* The variables have their types; a nil map never has an entry (the       *)
(* panics at background.go:118, :123 and :211 happen instead).                   *)
TypeOK ==
  /\ current \in Nat \ {0} /\ issued \in Nat \ {0}
  /\ live \subseteq 1..issued
  /\ stored \in Written
  /\ runs \in [Tasks -> [at : Calls \cup {"idle"},
                         phase : {"ask", "refresh", "again", "failed"},
                         secrets : Written, updates : Maps, inner : Maps, got : Written]]
  /\ dropped \subseteq Nat

(* The connection is never locked out: whatever fails and however the runs *)
(* interleave, the refresh token Google accepts is the stored one, or a    *)
(* run still carries it, or it is one that was lost: by a crash, by a      *)
(* refresh whose answer did not arrive, or where background.go:110, :118,  *)
(* :123 or :211 lose it.                                                   *)
RotationSurvives ==
  \/ stored.refresh = current
  \/ \E t \in Tasks : Held(runs[t]).refresh = current
  \/ current \in dropped

(* What a run stores never replaces a refresh token by an older one,       *)
(* although the runs start from copies and finish in any order: only keys  *)
(* a refresh has produced are in the updates (operations.go:212-215).      *)
StoredNeverRetreats == [][stored'.refresh >= stored.refresh]_vars

PresentsNewest(run) ==
  run.at # "idle" /\ run.phase = "ask" /\ Held(run).access # 0
    => run.secrets.access = Held(run).access

(* After a refresh, the calls that follow in the run present the new token *)
(* (mergeStrings(secrets, updates) after each call): every call but the    *)
(* pull that follows the renewal of the watch.                             *)
NewestPresented == \A t \in Tasks : runs[t].at # "pull" => PresentsNewest(runs[t])

(* The same of every call, as refresh_failure_test.go expects of a         *)
(* background task ("failed to use rotated credentials").                  *)
RotationUsed == \A t \in Tasks : PresentsNewest(runs[t])

=============================================================================
