--------------------------- MODULE WebhookIntake ---------------------------
(***************************************************************************)
(* The way of an upstream's events to the application: an upstream that    *)
(* sends an event, alone or with others, until it is acknowledged; a wire  *)
(* on which a delivery grows old, is overtaken or lost; the provider's     *)
(* VerifyWebhook; and Runtime, which owns replay protection and drops a    *)
(* delivery whose identity it has seen.  An acknowledgment may be lost:    *)
(* the upstream sends again.                                               *)
(***************************************************************************)
EXTENDS WebhookProfiles, Sequences, FiniteSets

CONSTANTS
  Hooked,      \* the observed providers
  Events,      \* the upstream's events
  Attribute,   \* the attributes of an event
  MaxBatch,    \* bound: events in one delivery
  MaxWire      \* bound: deliveries under way at once

ASSUME HookedAssumption == Hooked \subseteq DOMAIN HookProfile
ASSUME AttributeAssumption ==
  /\ DOMAIN Attribute = Events
  /\ \A e, f \in Events : Attribute[e]["event"] = Attribute[f]["event"] => e = f
ASSUME BoundsAssumption == MaxBatch \in Nat \ {0} /\ MaxWire \in Nat \ {0}

VARIABLES
  provider,
  named,      \* the upstream's events carry their own identity
  byType,     \* Runtime tells identities of different event types apart
  pending,    \* emitted and not yet acknowledged
  emitted,
  wire,       \* the deliveries under way: the events they carry and their age
  seen,       \* the identities Runtime remembers
  handed      \* history: how often each event was handed to the application (counted to 2)

setup == <<provider, named, byType>>
vars == <<setup, pending, emitted, wire, seen, handed>>

hook == HookProfile[provider]

\* The deliveries an upstream can send.
Carried == IF hook.batch = "none" THEN 1 ELSE MaxBatch
Batches == {batch \in UNION {[1..n -> pending] : n \in 1..Carried} :
              \A i, j \in DOMAIN batch : batch[i] = batch[j] => i = j}

-----------------------------------------------------------------------------
(* VerifyWebhook.                                                          *)

IdentityAttributes == IF named THEN hook.named ELSE hook.unnamed
EventIdentity(e) == [a \in IdentityAttributes |-> Attribute[e][a]]

\* Of the first event of a delivery, or of all of them.
ExternalID(events) ==
  IF hook.batch = "all" THEN [i \in DOMAIN events |-> EventIdentity(events[i])]
                        ELSE <<EventIdentity(events[1])>>

\* One name stands for the types of several events, and for a type that is not stated.
Typed(events) == (named \/ hook.typed) /\ (hook.batch = "all" => Len(events) = 1)
EventType(events) == IF Typed(events) THEN Attribute[events[1]]["type"] ELSE "change_notification"

\* Mutant: the time of the stamp is part of what recognises a delivery.
StampedIdentity(delivery) == [id |-> ExternalID(delivery.events), type |-> delivery.age]

\* The verified delivery, as Runtime recognises it.
Identity(delivery) ==
  [id |-> ExternalID(delivery.events),
   type |-> IF byType THEN EventType(delivery.events) ELSE "any"]

\* Mutant: an event that nothing identifies is accepted.
Unidentified(delivery) == delivery.age <= hook.window

\* A stamp outside the tolerance and a missing identity are refused.
Verified(delivery) == delivery.age <= hook.window /\ IdentityAttributes # {}

-----------------------------------------------------------------------------
Init ==
  /\ provider \in Hooked /\ named \in BOOLEAN /\ byType \in BOOLEAN
  /\ pending = {} /\ emitted = {} /\ wire = {} /\ seen = {}
  /\ handed = [e \in Events |-> 0]

Emit(e) ==
  /\ e \notin emitted
  /\ emitted' = emitted \cup {e} /\ pending' = pending \cup {e}
  /\ UNCHANGED <<setup, wire, seen, handed>>

\* What is not acknowledged is sent, and sent again, with a new stamp.
Send(batch) ==
  /\ Cardinality(wire) < MaxWire
  /\ wire' = wire \cup {[events |-> batch, age |-> 0]}
  /\ UNCHANGED <<setup, pending, emitted, seen, handed>>

SendSome == \E batch \in Batches : Send(batch)

Delay(delivery) ==
  /\ delivery.age < 2
  /\ wire' = (wire \ {delivery}) \cup {[events |-> delivery.events, age |-> delivery.age + 1]}
  /\ UNCHANGED <<setup, pending, emitted, seen, handed>>

Lose(delivery) ==
  /\ wire' = wire \ {delivery}
  /\ UNCHANGED <<setup, pending, emitted, seen, handed>>

\* VerifyWebhook's error is answered, the upstream keeps the events.
Refuse(delivery) == ~Verified(delivery) /\ Lose(delivery)

Carries(delivery) == {delivery.events[i] : i \in DOMAIN delivery.events}

\* The acknowledgment may get lost.
Acknowledge(delivery) == pending' \in {pending, pending \ Carries(delivery)}

\* The first delivery of its identity is handed to the application as a whole.
Accept(delivery) ==
  /\ Verified(delivery) /\ Identity(delivery) \notin seen
  /\ seen' = seen \cup {Identity(delivery)}
  /\ handed' = [e \in Events |-> IF e \in Carries(delivery) /\ handed[e] < 2
                                   THEN handed[e] + 1 ELSE handed[e]]
  /\ Acknowledge(delivery)
  /\ wire' = wire \ {delivery}
  /\ UNCHANGED <<setup, emitted>>

\* A later one is acknowledged and dropped.
Recognise(delivery) ==
  /\ Verified(delivery) /\ Identity(delivery) \in seen
  /\ Acknowledge(delivery)
  /\ wire' = wire \ {delivery}
  /\ UNCHANGED <<setup, emitted, seen, handed>>

Next ==
  \/ \E e \in Events : Emit(e)
  \/ SendSome
  \/ \E delivery \in wire :
       Delay(delivery) \/ Lose(delivery) \/ Refuse(delivery) \/ Accept(delivery)
         \/ Recognise(delivery)

Spec == Init /\ [][Next]_vars

-----------------------------------------------------------------------------
(* What becomes of the events.                                             *)

\* The object is all that tells events apart, or all when the event's own identity is missing.
ByObject == {"twilio", "whatsapp", "facebook_messenger"}
ByObjectUnnamed ==
  {"tally", "typeform", "persona", "shopify_fulfillment", "zendesk", "quickbooks", "microsoft_teams"}

\* Object and type are, as of two registrations for one webinar.
ByObjectAndType == {"cal_com", "docusign", "calendly", "zoom_webinar"}

\* Only the first event of a delivery is looked at.
FirstOfBatch == {"whatsapp", "facebook_messenger", "quickbooks"}

\* The providers whose identities confuse the two events.
Confused(e, f) ==
  /\ Attribute[e]["object"] = Attribute[f]["object"]
  /\ byType => \/ Attribute[e]["type"] = Attribute[f]["type"]
               \/ provider \in {"zendesk", "microsoft_teams"}
  /\ \/ provider \in ByObject \/ (provider \in ByObjectUnnamed /\ ~named)
     \/ /\ Attribute[e]["type"] = Attribute[f]["type"]
        /\ provider \in ByObjectAndType \/ (provider = "alipay" /\ ~named)
     \/ /\ Attribute[e]["time"] = Attribute[f]["time"]
        /\ provider = "quickbooks"

\* Events are carried and remembered as they are emitted, and what is remembered is identified.
TypeOK ==
  /\ provider \in Hooked /\ named \in BOOLEAN /\ byType \in BOOLEAN
  /\ emitted \subseteq Events /\ pending \subseteq emitted
  /\ \A delivery \in wire :
       /\ delivery.age \in Ages
       /\ \E n \in 1..Carried : delivery.events \in [1..n -> emitted]
  /\ handed \in [Events -> 0..2]
  /\ \A identity \in seen : \A i \in DOMAIN identity.id :
       DOMAIN identity.id[i] \in (SUBSET Attributes) \ {{}}

\* No event is lost to replay protection: it waits at the upstream or reached the application,
\* whatever was lost, late, refused or sent twice - unless the provider confuses it with another
\* one that did, or it came behind one in a delivery of which only the first event is looked at.
EventsAccounted ==
  \A e \in emitted \ pending :
    \/ handed[e] > 0
    \/ \E f \in emitted \ {e} :
         handed[f] > 0 /\ (Confused(e, f) \/ provider \in FirstOfBatch)

\* However often an event is sent, it is handed to the application once - but for the providers
\* whose deliveries carry several events, which may come again in other company.
HandedOnce ==
  \A e \in Events : handed[e] > 1 => provider \in FirstOfBatch \cup {"microsoft_teams"}
=============================================================================
