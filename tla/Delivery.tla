------------------------------ MODULE Delivery ------------------------------
(***************************************************************************)
(* One operation of a provider from Runtime's request to its final         *)
(* verdict: the call, an upstream that may lose the answer or fail after   *)
(* the effect, the renewal of a token on a 401, the verdict, and Runtime,  *)
(* whose policy may send a request again, with the same RequestRef, when   *)
(* and only when the verdict was retryable.                                *)
(***************************************************************************)
EXTENDS ProviderProfiles, ReaderProfiles

Providers == DOMAIN ServiceProfile \cup DOMAIN ReaderProfile
Profile == [name \in Providers |-> IF name \in DOMAIN ReaderProfile THEN ReaderProfile[name]
                                                                  ELSE ServiceProfile[name]]

CONSTANTS
  Observed,     \* the providers whose operations are observed
  MaxAttempts   \* bound: how often Runtime's policy sends one request

ASSUME ObservedAssumption == Observed \subseteq Providers /\ Observed # {}
ASSUME AttemptsAssumption == MaxAttempts \in Nat \ {0}

VARIABLES
  provider, kind,
  stage,      \* idle: Runtime has the request; sent: upstream has it; answered: the provider has the reply
  attempts,
  effects,    \* history: how many times the operation took effect upstream
  reply,      \* the last answer
  renewed,    \* this attempt's token has been renewed
  verdict     \* the last attempt's verdict, "none" before it

operation == <<provider, kind>>
vars == <<operation, stage, attempts, effects, reply, renewed, verdict>>

profile == Profile[provider]
NoReply == [status |-> "lost", body |-> "blank"]

Init ==
  /\ provider \in Observed
  /\ kind \in profile.kinds
  /\ stage = "idle" /\ attempts = 0 /\ effects = 0
  /\ reply = NoReply /\ renewed = FALSE /\ verdict = "none"

\* Runtime's policy sends a new request, or one whose verdict was retryable.
Starts ==
  /\ stage = "idle" /\ verdict \in {"none", "retryable"}
  /\ attempts < MaxAttempts
  /\ attempts' = attempts + 1

Attempt ==
  /\ Starts
  /\ stage' = "sent" /\ renewed' = FALSE /\ verdict' = "none"
  /\ UNCHANGED <<operation, effects, reply>>

\* ValidateConfig, what the operation checks of its input, and a missing secret end the attempt
\* before anything is sent.
Reject ==
  /\ Starts
  /\ verdict' = "permanent"
  /\ UNCHANGED <<operation, stage, effects, reply, renewed>>

Conclude(result) ==
  /\ stage' = "idle"
  /\ verdict' = result
  /\ UNCHANGED <<operation, attempts, effects, reply, renewed>>

\* The request for a token, an account or a session fails; it is classified for itself.
TokenFails ==
  /\ stage = "sent" /\ profile.token
  /\ \E result \in {"retryable", "permanent"} : Conclude(result)

\* A replay key, or what the operation does, keeps a repetition from adding to the effect.
Absorbed == kind = "update" \/ kind \in profile.keyed

TakesEffect ==
  effects' = CASE kind = "read" -> 0
               [] kind # "read" /\ Absorbed -> 1
               [] OTHER -> effects + 1

Answer(r) ==
  /\ stage = "sent" /\ CanAnswer(profile, r)
  /\ \/ MayHaveTakenEffect(profile, r) /\ TakesEffect
     \/ ~TookEffect(r) /\ UNCHANGED effects
  /\ reply' = r
  /\ stage' = "answered"
  /\ UNCHANGED <<operation, attempts, renewed, verdict>>

\* Mutant: a 5xx, too, renews the token and sends again.
RenewsOnFailure == profile.refreshes /\ reply.status \in {"401", "5xx"} /\ ~renewed
Renews == profile.refreshes /\ reply.status = "401" /\ ~renewed

\* executeWithRefresh: a new token and the same request once more, or the error of the refresh
\* (of the 401 when there is no refresh token).
Renew ==
  /\ stage = "answered" /\ Renews
  /\ \/ /\ stage' = "sent" /\ renewed' = TRUE
        /\ UNCHANGED <<operation, attempts, effects, reply, verdict>>
     \/ \E result \in {"retryable", "permanent"} : Conclude(result)

\* executeStatement: an answer that is not the result yet.
Polls == profile.pending = "polls" /\ reply.status = "2xx" /\ reply.body = "pending"

\* waitForPoll: asks again, or ends with the request's context, whose error bears no class.
Poll ==
  /\ stage = "answered" /\ Polls
  /\ \/ stage' = "sent" /\ UNCHANGED <<operation, attempts, effects, reply, renewed, verdict>>
     \/ Conclude("unclassified")

Judge ==
  /\ stage = "answered" /\ ~Renews /\ ~Polls
  /\ Conclude(Verdict(profile, kind, reply))

Next ==
  \/ Attempt \/ Reject \/ TokenFails \/ Renew \/ Poll \/ Judge
  \/ \E r \in Reply : Answer(r)

Spec == Init /\ [][Next]_vars

-----------------------------------------------------------------------------
(* What is true of every provider, and of which it is not.                 *)

\* Answer 5xx (the last also a lost answer) as retryable although a write may have happened.
ResendOpenWrites ==
  {"adobe_sign", "docusign", "signnow", "fadada", "web_push", "knowledge_base", "stripe"}

\* Call a body that does not decode a permanent error, even of a write that succeeded.
RejectGarbled ==
  {"confluence", "help_scout_docs", "intercom_articles", "notion_docs", "readme", "zendesk_guide",
   "google_play", "datadog_metrics", "posthog", "freee", "money_forward", "stripe", "knowledge_base"}

\* Call an answer without the field that reports the outcome a permanent error.
RejectBare == {"dingtalk", "enterprise_wechat", "slack", "fadada", "sf_express"}

\* Call the error of a tool a permanent error, whatever the tool did before.
RejectPartial == {"mcp"}

\* Decode the body before they look at the status, and call one that does not decode permanent:
\* a proxy's error page makes an outage final.
RejectOutages ==
  {"confluence", "help_scout_docs", "intercom_articles", "notion_docs", "readme",
   "zendesk_guide", "google_play", "datadog_metrics", "posthog", "stripe", "meta_ads",
   "surveymonkey", "trustpilot", "typeform", "moodle", "talentlms", "gitbook", "prometheus",
   "snowflake", "bigquery"}

\* Every variable has its type: only writes have effects, and an attempt, whether it renews the
\* token and sends again or not, has at most one.
TypeOK ==
  /\ provider \in Observed /\ kind \in profile.kinds
  /\ stage \in {"idle", "sent", "answered"}
  /\ attempts \in 0..MaxAttempts /\ effects \in 0..attempts
  /\ reply \in Reply /\ renewed \in BOOLEAN
  /\ verdict \in Verdicts \cup {"none", "unclassified"}
  /\ kind = "read" => effects = 0

\* However Runtime's policy repeats what a provider calls retryable, whatever answers are lost
\* and tokens renewed, a write happens once - but for the providers that call an open outcome
\* retryable and send no replay key.
WriteAppliedOnce ==
  effects > 1 => provider \in ResendOpenWrites \ {"stripe"} /\ kind = "create"

Misread ==
  \/ provider \in RejectGarbled /\ reply.body \in {"garbled", "blank"}
  \/ provider \in RejectBare /\ reply.body \in {"bare", "blank"}
  \/ provider \in RejectPartial /\ reply.body \in {"refused", "limited"}

\* The final verdicts are true: a write called done happened; a write called permanently
\* failed did not happen, in any of its attempts - but for a body the provider misreads and
\* for an earlier attempt whose open outcome it called retryable.
VerdictTruthful ==
  kind # "read" =>
    /\ verdict = "ok" => effects > 0
    /\ verdict = "permanent" /\ effects > 0 => Misread \/ provider \in ResendOpenWrites

\* An outage never makes a read final: a lost answer, a rate limit, a failing upstream is
\* retryable - but for the providers that look at the body first, and what they cannot decode.
OutageRetryable ==
  [][ stage = "answered" /\ stage' = "idle" /\ kind = "read" /\ reply.status \in {"lost", "429", "5xx"}
        => \/ verdict' = "retryable"
           \/ provider \in RejectOutages /\ reply.body \in {"garbled", "blank"} ]_vars

\* A web push is sent once, however often Runtime dispatches it.
\* (notification/connector.json:12 "Durably dispatch an idempotent Web Push to an
\* Integration-owned active subscription.")
PushSentOnce == provider = "web_push" => effects <= 1

Contract == INSTANCE AtomicRequest WITH
  once <- ~(provider \in ResendOpenWrites \ {"stripe"} /\ kind = "create"),
  truthful <- provider \notin ResendOpenWrites \cup RejectGarbled \cup RejectBare \cup RejectPartial,
  told <- Tells(kind, verdict)

\* To Runtime a write is one effect and one true final verdict, step by step: nothing happens
\* between a retryable verdict and the next attempt, nor after a final one.
RequestContract == Contract!Spec
=============================================================================
