--------------------------- MODULE ReaderProfiles ---------------------------
(***************************************************************************)
(* The profiles of the providers that only read: from feedback forms,      *)
(* catalogs, shops, metrics, databases and warehouses.  Their execute      *)
(* functions know no write: whatever may pass is retryable, the rest is    *)
(* permanent.                                                              *)
(***************************************************************************)
EXTENDS ProviderVerdicts

\* Mutant: a rate limit is not worth another attempt.
ImpatientReader == [Standard EXCEPT !.kinds = {"read"}, !.again = {"lost", "5xx"}, !.open = {}]
\* The status is looked at first.
Reader == [Standard EXCEPT !.kinds = {"read"}, !.again = {"lost", "429", "5xx"}, !.open = {}]
\* The body is decoded first: what does not decode is permanent, whatever the status.
EagerReader == [Reader EXCEPT !.bodyFirst = TRUE, !.blankDecodes = FALSE]

\* Audiences, forms, reviews, courses.
MetaAds == EagerReader
SurveyMonkey == EagerReader
Trustpilot == EagerReader
Typeform == EagerReader
Delighted == [Reader EXCEPT !.blankDecodes = FALSE]
DelightedResponses == Reader   \* no body is no response
\* garbled stands for an errorcode, too: it is permanent whatever the status.
Moodle == [EagerReader EXCEPT !.blankDecodes = TRUE]
TalentLMS == [EagerReader EXCEPT !.blankDecodes = TRUE]
GitBook == EagerReader

\* Zoom, too, decodes first, but an undecodable body is worth another attempt.
ZoomWebinar == [Reader EXCEPT !.bodyFirst = TRUE, !.garbled = Always("retryable")]

\* Shops, accounts, rates, addresses, tariffs.
Plaid == [Reader EXCEPT !.blankDecodes = FALSE]
Etsy == [Reader EXCEPT !.blankDecodes = FALSE]
Freightos == [Reader EXCEPT !.blankDecodes = FALSE]
AuthorizedCarrierGateway ==
  [Reader EXCEPT !.blankDecodes = FALSE, !.bare = Always("permanent")]
Nominatim == [Reader EXCEPT !.blankDecodes = FALSE]
NominatimReverse == Reader     \* no body is no address
PortalUnico == [Reader EXCEPT !.blankDecodes = FALSE, !.bare = Always("permanent")]
HSBianma == [Reader EXCEPT !.blankDecodes = FALSE]
\* A second request, for the date of publication, may fail for itself.
ComexStat == [Reader EXCEPT !.blankDecodes = FALSE, !.token = TRUE]
Prometheus == [EagerReader EXCEPT !.envelope = TRUE]

\* Weather and holidays, when the answer is not in the provider's cache.
OpenMeteo == [Reader EXCEPT !.blankDecodes = FALSE, !.bare = Always("permanent")]
HolidaysJP == [Reader EXCEPT !.blankDecodes = FALSE]

\* An identity provider: whatever the status, and whatever does not decode, may pass.
OIDC == [Reader EXCEPT !.again = Statuses \ {"2xx"}, !.garbled = Always("retryable"),
                       !.blankDecodes = FALSE, !.bare = Always("permanent")]

\* Databases: the driver's error is not looked into.
Database == [Reader EXCEPT !.again = Statuses \ {"2xx"}, !.garbled = Always("retryable")]
MySQL == Database
Postgres == Database
SQLServer == Database

\* Warehouses: a statement that still runs is polled by Snowflake; BigQuery's is an error, and
\* the repetition submits a new job.
Warehouse == [EagerReader EXCEPT !.again = {"lost", "408", "429", "5xx"}, !.blankDecodes = TRUE]
Snowflake == [Warehouse EXCEPT !.pending = "polls"]
BigQuery == [Warehouse EXCEPT !.pending = "retryable"]

ReaderProfile ==
  [ meta_ads |-> MetaAds, surveymonkey |-> SurveyMonkey, trustpilot |-> Trustpilot,
    typeform |-> Typeform, delighted |-> Delighted,
    delighted_responses |-> DelightedResponses, moodle |-> Moodle, talentlms |-> TalentLMS,
    gitbook |-> GitBook, zoom_webinar |-> ZoomWebinar, plaid |-> Plaid, etsy |-> Etsy,
    freightos |-> Freightos, authorized_carrier_gateway |-> AuthorizedCarrierGateway,
    nominatim |-> Nominatim, nominatim_reverse |-> NominatimReverse,
    brazil_portal_unico |-> PortalUnico, china_hs_bianma |-> HSBianma,
    comex_stat |-> ComexStat, prometheus |-> Prometheus, mysql |-> MySQL,
    postgres |-> Postgres, sqlserver |-> SQLServer, snowflake |-> Snowflake,
    bigquery |-> BigQuery, open_meteo |-> OpenMeteo, holidays_jp |-> HolidaysJP,
    oidc |-> OIDC ]
=============================================================================
