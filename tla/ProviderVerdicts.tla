-------------------------- MODULE ProviderVerdicts --------------------------
(***************************************************************************)
(* How a provider turns what came back from its upstream into a verdict:   *)
(* success, or one of the three error classes Runtime acts on.             *)
(*                                                                         *)
(* Every provider has an execute function, and the functions differ in a   *)
(* few choices only: what is looked at first, the status or the body; which *)
(* statuses say that the same request may be sent again and which leave    *)
(* the outcome open; what becomes of a body that does not decode.  A       *)
(* provider's profile records its choices, Verdict is what execute (and    *)
(* the operation around it) returns for a reply.                           *)
(***************************************************************************)
EXTENDS Naturals

\* What an operation does upstream: nothing; something that happens again when the request is
\* sent again; something that sending again does not add to.
Kinds == {"read", "create", "update"}

\* ok, connector.RetryableError, connector.UncertainError, connector.PermanentError
Verdicts == {"ok", "retryable", "uncertain", "permanent"}

Statuses == {"lost", "2xx", "401", "408", "429", "4xx", "5xx"}   \* lost: no answer arrived

\* full: what the caller expects; bare: decodes, without the field the caller looks for;
\* blank: no body; garbled: does not decode; refused, limited: an error in the envelope;
\* pending: the upstream works on it.
Bodies == {"full", "bare", "blank", "garbled", "refused", "limited", "pending"}

Reply == [status : Statuses, body : Bodies]

Always(verdict) == [kind \in Kinds |-> verdict]
OnCreate(verdict) == [kind \in Kinds |-> IF kind = "create" THEN verdict ELSE "ok"]

\* transportFailure(write, ...): a read may be repeated, the outcome of a write is open.
Unsure == [kind \in Kinds |-> IF kind = "read" THEN "retryable" ELSE "uncertain"]
Unreadable == [kind \in Kinds |-> IF kind = "read" THEN "permanent" ELSE "uncertain"]

\* The choices most execute functions make.
Standard ==
  [ kinds        |-> Kinds,                     \* kinds of its operations
    keyed        |-> {},                        \* kinds sent with a replay key
    token        |-> FALSE,                     \* a token, an account, a session is asked for first
    partial      |-> FALSE,                     \* an error in the envelope may follow an effect
    refreshes    |-> FALSE,                     \* renews the token on a 401 and sends once more
    bodyFirst    |-> FALSE,                     \* decodes the body before it looks at the status
    again        |-> {"429"},                   \* statuses that are always retryable
    open         |-> {"lost", "408", "5xx"},    \* statuses that leave the outcome open
    blankDecodes |-> TRUE,                      \* an empty body is not an error
    garbled      |-> Unreadable,                \* a body that does not decode
    bare         |-> Always("ok"),              \* an answer without the expected field
    envelope     |-> FALSE,                     \* a 2xx body may carry an error
    refused      |-> Always("permanent"),       \* an error in the envelope
    limited      |-> Always("permanent"),       \* another one: a rate limit, an error of the protocol
    pending      |-> "none" ]                   \* an answer that is not the result yet: it "polls",
                                                \* or calls it "retryable"

\* Mutant: a body that does not decode is a permanent error.
TransportRejects == [Standard EXCEPT !.garbled = Always("permanent")]
\* As Standard, but a body that does not decode is treated like a lost answer.
Transport == [Standard EXCEPT !.garbled = Unsure]
\* As Transport, but 408 is a refusal.
Refusing408 == [Transport EXCEPT !.open = {"lost", "5xx"}]
\* The body is decoded first, and an error of it is final whatever the status.
BodyFirst == [Standard EXCEPT !.bodyFirst = TRUE, !.garbled = Always("permanent"),
                              !.open = {"lost", "5xx"}]
\* The body is decoded first, and 429 and 5xx are retryable for every kind.
Envelopes == [Transport EXCEPT !.bodyFirst = TRUE, !.again = {"429", "5xx"}, !.open = {"lost"}]

Undecodable(p, body) == body = "garbled" \/ (body = "blank" /\ ~p.blankDecodes)

StatusVerdict(p, kind, status) ==
  CASE status = "2xx"      -> "ok"
    [] status \in p.again  -> "retryable"
    [] status \in p.open   -> Unsure[kind]
    [] OTHER               -> "permanent"

BodyVerdict(p, kind, body) ==
  CASE Undecodable(p, body)        -> p.garbled[kind]
    [] body = "refused"            -> p.refused[kind]
    [] body = "limited"            -> p.limited[kind]
    [] body = "pending" /\ p.pending # "none" -> "retryable"
    [] body \in {"bare", "blank"}  -> p.bare[kind]
    [] OTHER                       -> "ok"

Verdict(p, kind, reply) ==
  CASE reply.status = "lost" -> StatusVerdict(p, kind, "lost")
    [] reply.status = "2xx"  -> BodyVerdict(p, kind, reply.body)
    [] reply.status \notin {"lost", "2xx"} /\ p.bodyFirst /\ Undecodable(p, reply.body)
                             -> p.garbled[kind]
    [] OTHER                 -> StatusVerdict(p, kind, reply.status)

\* What a verdict tells Runtime of an effect; a read has none.
Tells(kind, verdict) ==
  IF kind = "read" THEN "nothing"
  ELSE [none |-> "nothing", retryable |-> "again", ok |-> "done", permanent |-> "failed",
        uncertain |-> "open", unclassified |-> "open"][verdict]

\* What an upstream can answer a provider with.
CanAnswer(p, reply) ==
  \/ reply.status = "lost" /\ reply.body = "blank"
  \/ /\ reply.status = "2xx"
     /\ reply.body \in {"refused", "limited"} => p.envelope
     /\ reply.body = "pending" => p.pending # "none"
  \/ reply.status \notin {"lost", "2xx"} /\ reply.body \in {"full", "blank", "garbled"}

\* Whether the operation took effect, as far as the answer tells.
TookEffect(reply) == reply.status = "2xx" /\ reply.body \notin {"refused", "limited"}
MayHaveTakenEffect(p, reply) ==
  \/ TookEffect(reply)
  \/ reply.status \in {"lost", "5xx"}
  \/ p.partial /\ reply.status = "2xx"
=============================================================================
