------------------------ MODULE WebhookIntake_proofs ------------------------
(***************************************************************************)
(* Proofs about WebhookIntake, for every set of events and providers and   *)
(* every size of a delivery: its type invariant, that no event is lost to  *)
(* replay protection, and that none is handed over twice.                  *)
(*                                                                         *)
(* HookFacts shows of each provider which attributes an identity holds,    *)
(* Told draws what two equal identities say of their events; IntakeInv     *)
(* ties what Runtime remembers to what was handed over, both ways.         *)
(***************************************************************************)
EXTENDS WebhookIntake, TLAPS

Tells(name, h) ==
  /\ h.named \in SUBSET Attributes /\ h.unnamed \in SUBSET Attributes
  /\ h.batch = "none" \/ (h.batch = "first" /\ name \in FirstOfBatch)
       \/ (h.batch = "all" /\ name = "microsoft_teams")
  /\ h.typed \/ name = "zendesk"
  /\ \/ "event" \in h.named
     \/ name \in ByObject /\ "object" \in h.named
     \/ name \in ByObjectAndType /\ "object" \in h.named /\ "type" \in h.named
     \/ name = "quickbooks" /\ "object" \in h.named /\ "time" \in h.named
  /\ \/ h.unnamed = {}
     \/ name \in ByObject \cup ByObjectUnnamed /\ "object" \in h.unnamed
     \/ name \in ByObjectAndType \cup {"alipay"} /\ "object" \in h.unnamed /\ "type" \in h.unnamed

\* What each VerifyWebhook's profile tells of the events its identities confuse.
LEMMA HookFacts == \A name \in DOMAIN HookProfile : Tells(name, HookProfile[name])
<1>1. /\ Tells("stripe", StripeHook) /\ Tells("slack", SlackHook)
      /\ Tells("wechat_pay", WeChatPayHook) /\ Tells("feishu", FeishuHook)
      /\ Tells("feishu_token", FeishuTokenHook) /\ Tells("linear", LinearHook)
      /\ Tells("google_calendar", GoogleCalendarHook) /\ Tells("shopify", ShopifyHook)
      /\ Tells("discord", DiscordHook)
  BY DEF Tells, Attributes, Hook, StampedHook, StripeHook, SlackHook, WeChatPayHook, FeishuHook,
         FeishuTokenHook, LinearHook, GoogleCalendarHook, ShopifyHook, DiscordHook
<1>2. /\ Tells("cal_com", CalComHook) /\ Tells("docusign", DocuSignHook)
      /\ Tells("calendly", CalendlyHook) /\ Tells("zoom_webinar", ZoomHook)
      /\ Tells("alipay", AlipayHook)
  BY DEF Tells, Attributes, Hook, ChangeHook, CalComHook, DocuSignHook, CalendlyHook, ZoomHook,
         AlipayHook, ByObjectAndType
<1>3. /\ Tells("tally", TallyHook) /\ Tells("typeform", TypeformHook)
      /\ Tells("persona", PersonaHook) /\ Tells("shopify_fulfillment", ShopifyFulfillmentHook)
      /\ Tells("zendesk", ZendeskHook)
  BY DEF Tells, Attributes, Hook, ObjectHook, TallyHook, TypeformHook, PersonaHook,
         ShopifyFulfillmentHook, ZendeskHook, ByObjectUnnamed, ByObject
<1>4. /\ Tells("twilio", TwilioHook) /\ Tells("whatsapp", WhatsAppHook)
      /\ Tells("facebook_messenger", FacebookMessengerHook)
  BY DEF Tells, Attributes, Hook, TwilioHook, WhatsAppHook, FacebookMessengerHook, ByObject,
         ByObjectUnnamed, FirstOfBatch
<1>5. Tells("quickbooks", QuickBooksHook) /\ Tells("microsoft_teams", MicrosoftTeamsHook)
  BY DEF Tells, Attributes, Hook, ObjectHook, QuickBooksHook, MicrosoftTeamsHook, ByObject,
         ByObjectUnnamed, FirstOfBatch
<1> HIDE DEF Tells
<1> QED  BY <1>1, <1>2, <1>3, <1>4, <1>5 DEF HookProfile

-----------------------------------------------------------------------------
Parts == 1..Carried

\* What Runtime recognises a delivery of these events by.
Mark(events) ==
  [id |-> ExternalID(events), type |-> IF byType THEN EventType(events) ELSE "any"]

\* An identity is remembered when its events were handed over, and of the providers that look at
\* a delivery's only event it is remembered whenever that one was.
Remembered ==
  \A mark \in seen :
    \E n \in Parts : \E events \in [1..n -> emitted] :
      mark = Mark(events) /\ \A i \in 1..n : handed[events[i]] > 0

Single(e) == [i \in 1..1 |-> e]
Kept == hook.batch = "none" => \A e \in Events : handed[e] > 0 => Mark(Single(e)) \in seen

Multiple == FirstOfBatch \cup {"microsoft_teams"}

IntakeInv == TypeOK /\ Remembered /\ Kept /\ EventsAccounted /\ HandedOnce

-----------------------------------------------------------------------------
\* Two events of one identity are one event, or the provider confuses them.
LEMMA Told ==
  ASSUME TypeOK, IdentityAttributes # {}, NEW e \in Events, NEW f \in Events,
         EventIdentity(e) = EventIdentity(f),
         byType => \/ Attribute[e]["type"] = Attribute[f]["type"]
                   \/ provider \in {"zendesk", "microsoft_teams"}
  PROVE  e = f \/ Confused(e, f)
<1>1. Tells(provider, hook)
  BY HookFacts, HookedAssumption DEF TypeOK, hook
<1>2. \A a \in IdentityAttributes : Attribute[e][a] = Attribute[f][a]
  BY DEF EventIdentity
<1>3. CASE "event" \in IdentityAttributes
  BY <1>2, <1>3, AttributeAssumption
<1>4. CASE named /\ "event" \notin IdentityAttributes
  <2>1. "object" \in IdentityAttributes
    BY <1>1, <1>4 DEF Tells, IdentityAttributes
  <2>2. Attribute[e]["object"] = Attribute[f]["object"]
    BY <1>2, <2>1
  <2>3. \/ provider \in ByObject
        \/ provider \in ByObjectAndType /\ "type" \in IdentityAttributes
        \/ provider = "quickbooks" /\ "time" \in IdentityAttributes
    BY <1>1, <1>4 DEF Tells, IdentityAttributes
  <2> QED  BY <1>2, <2>2, <2>3 DEF Confused
<1>5. CASE ~named /\ "event" \notin IdentityAttributes
  <2>1. /\ "object" \in IdentityAttributes
        /\ \/ provider \in ByObject \cup ByObjectUnnamed
           \/ provider \in ByObjectAndType \cup {"alipay"} /\ "type" \in IdentityAttributes
    BY <1>1, <1>5 DEF Tells, IdentityAttributes
  <2>2. Attribute[e]["object"] = Attribute[f]["object"]
    BY <1>2, <2>1
  <2> QED  BY <1>2, <1>5, <2>1, <2>2 DEF Confused
<1> QED  BY <1>3, <1>4, <1>5 DEF TypeOK

\* Deliveries of one mark carry events of one identity each - or their first ones do.
LEMMA SameMark ==
  ASSUME TypeOK, IdentityAttributes # {},
         NEW n \in Parts, NEW ours \in [1..n -> emitted],
         NEW m \in Parts, NEW theirs \in [1..m -> emitted],
         Mark(ours) = Mark(theirs), NEW i \in 1..n
  PROVE  \/ provider \in FirstOfBatch
         \/ \E j \in 1..m : ours[i] = theirs[j] \/ Confused(ours[i], theirs[j])
<1> SUFFICES ASSUME provider \notin FirstOfBatch
             PROVE \E j \in 1..m : ours[i] = theirs[j] \/ Confused(ours[i], theirs[j])
  OBVIOUS
<1>1. Tells(provider, hook)
  BY HookFacts, HookedAssumption DEF TypeOK, hook
<1>2. ExternalID(ours) = ExternalID(theirs) /\ (byType => EventType(ours) = EventType(theirs))
  BY DEF Mark
<1>3. /\ n \in Nat /\ m \in Nat /\ n >= 1 /\ m >= 1 /\ i \in Nat
      /\ DOMAIN ours = 1..n /\ DOMAIN theirs = 1..m
      /\ \A k \in 1..n : ours[k] \in Events
      /\ \A k \in 1..m : theirs[k] \in Events
      /\ (hook.batch = "none" => n = 1 /\ m = 1)
  BY BoundsAssumption DEF Parts, Carried, TypeOK
<1>4. CASE hook.batch = "none"
  <2>1. n = 1 /\ m = 1 /\ i = 1
    BY <1>3, <1>4
  <2>2. <<EventIdentity(ours[1])>> = <<EventIdentity(theirs[1])>>
    BY <1>2, <1>4 DEF ExternalID
  <2>3. EventIdentity(ours[1]) = EventIdentity(theirs[1])
    BY <2>2
  <2>4. byType => \/ Attribute[ours[1]]["type"] = Attribute[theirs[1]]["type"]
                  \/ provider \in {"zendesk", "microsoft_teams"}
    BY <1>1, <1>2, <1>4 DEF EventType, Typed, Tells
  <2>5. ours[1] = theirs[1] \/ Confused(ours[1], theirs[1])
    BY <1>3, <2>1, <2>3, <2>4, Told
  <2> QED  BY <2>1, <2>5
<1>5. CASE hook.batch = "all"
  <2>1. provider = "microsoft_teams"
    BY <1>1, <1>5 DEF Tells
  <2>2. [k \in 1..n |-> EventIdentity(ours[k])] = [k \in 1..m |-> EventIdentity(theirs[k])]
    BY <1>2, <1>3, <1>5 DEF ExternalID
  <2>3. 1..n = 1..m /\ EventIdentity(ours[i]) = EventIdentity(theirs[i])
    BY <2>2
  <2>4. ours[i] = theirs[i] \/ Confused(ours[i], theirs[i])
    BY <1>3, <2>1, <2>3, Told
  <2> QED  BY <2>3, <2>4
<1> QED  BY <1>1, <1>4, <1>5 DEF Tells

-----------------------------------------------------------------------------
\* What a step leaves alone.
LEMMA Stable ==
  ASSUME UNCHANGED setup
  PROVE  /\ hook' = hook /\ Carried' = Carried /\ Parts' = Parts
         /\ IdentityAttributes' = IdentityAttributes
         /\ \A events : Mark(events)' = Mark(events)
         /\ \A e, f : Confused(e, f)' = Confused(e, f)
BY DEF setup, hook, Carried, Parts, IdentityAttributes, Mark, ExternalID, EventIdentity, EventType,
       Typed, Confused

\* Only acceptance adds to what is remembered and handed over; all else keeps the ties.
LEMMA Ties ==
  ASSUME Remembered, Kept, HandedOnce, UNCHANGED <<setup, seen, handed>>, emitted \subseteq emitted'
  PROVE  Remembered' /\ Kept' /\ HandedOnce'
<1>1. Remembered'
  <2> SUFFICES ASSUME NEW mark \in seen
               PROVE \E n \in Parts : \E events \in [1..n -> emitted'] :
                       mark = Mark(events) /\ \A i \in 1..n : handed[events[i]] > 0
    BY Stable DEF Remembered
  <2>1. PICK n \in Parts : \E events \in [1..n -> emitted] :
          mark = Mark(events) /\ \A i \in 1..n : handed[events[i]] > 0
    BY DEF Remembered
  <2>2. PICK events \in [1..n -> emitted] :
          mark = Mark(events) /\ \A i \in 1..n : handed[events[i]] > 0
    BY <2>1
  <2>3. events \in [1..n -> emitted']
    OBVIOUS
  <2> QED  BY <2>2, <2>3
<1>2. Kept'
  BY Stable DEF Kept
<1>3. HandedOnce'
  BY DEF HandedOnce, setup
<1> QED  BY <1>1, <1>2, <1>3

\* And nothing that waits or is accounted for gets lost when nothing more is acknowledged.
LEMMA Accounts ==
  ASSUME EventsAccounted, UNCHANGED <<setup, handed>>, emitted \subseteq emitted',
         emitted' \ pending' \subseteq emitted \ pending
  PROVE  EventsAccounted'
BY Stable DEF EventsAccounted, setup

Retained(d) == d.age \in Ages /\ \E n \in Parts : d.events \in [1..n -> emitted]

\* What is on the wire was emitted and is no longer than the provider's batches.
LEMMA WireTyped ==
  ASSUME TypeOK, NEW d \in wire
  PROVE  Retained(d)
BY DEF TypeOK, Retained, Parts

\* What is remembered stays well formed.
Identified(mark) == \A i \in DOMAIN mark.id : DOMAIN mark.id[i] \in (SUBSET Attributes) \ {{}}

\* A step that keeps the deliveries and the identities typed keeps TypeOK.
LEMMA TypeKept ==
  ASSUME TypeOK, UNCHANGED setup, emitted' = emitted, pending' \in SUBSET pending,
         wire' \subseteq wire, \A mark \in seen' : mark \in seen \/ Identified(mark),
         handed' \in [Events -> 0..2]
  PROVE  TypeOK'
BY Stable DEF TypeOK, setup, Identified

\* What Verified admits has an ExternalID that names something.
LEMMA MarkIdentified ==
  ASSUME TypeOK, NEW d \in wire, Verified(d)
  PROVE  Identified(Mark(d.events))
<1>1. Tells(provider, hook)
  BY HookFacts, HookedAssumption DEF TypeOK, hook
<1>2. IdentityAttributes \in (SUBSET Attributes) \ {{}}
  BY <1>1 DEF Verified, IdentityAttributes, Tells
<1>3. \A e : DOMAIN EventIdentity(e) = IdentityAttributes
  BY DEF EventIdentity
<1>4. CASE hook.batch = "all"
  BY <1>2, <1>3, <1>4 DEF Identified, Mark, ExternalID
<1>5. CASE hook.batch # "all"
  <2>1. Mark(d.events).id = <<EventIdentity(d.events[1])>>
    BY <1>5 DEF Mark, ExternalID
  <2> QED  BY <1>2, <1>3, <2>1 DEF Identified
<1> QED  BY <1>4, <1>5

-----------------------------------------------------------------------------
\* Nothing is emitted, nothing is remembered.
LEMMA InitInv == Init => IntakeInv
<1> SUFFICES ASSUME Init PROVE IntakeInv
  OBVIOUS
<1>1. TypeOK
  BY DEF Init, TypeOK
<1>2. Remembered /\ Kept /\ EventsAccounted /\ HandedOnce
  BY DEF Init, Remembered, Kept, EventsAccounted, HandedOnce
<1> QED  BY <1>1, <1>2 DEF IntakeInv

\* An event that happens at the upstream is pending there.
LEMMA EmitInv ==
  ASSUME IntakeInv, NEW e \in Events, Emit(e)
  PROVE  IntakeInv'
<1>1. Remembered' /\ Kept' /\ HandedOnce'
  BY Ties DEF IntakeInv, Emit
<1>2. EventsAccounted'
  BY Accounts DEF IntakeInv, Emit
<1>3. TypeOK'
  <2>1. \A d \in wire : \E n \in 1..Carried : d.events \in [1..n -> emitted']
    BY DEF IntakeInv, TypeOK, Emit
  <2> QED  BY <2>1, Stable DEF IntakeInv, TypeOK, Emit, setup
<1> QED  BY <1>1, <1>2, <1>3 DEF IntakeInv

\* A delivery carries pending events.
LEMMA SendInv ==
  ASSUME IntakeInv, SendSome
  PROVE  IntakeInv'
<1>1. PICK batch \in Batches : Send(batch)
  BY DEF SendSome
<1>2. Remembered' /\ Kept' /\ HandedOnce' /\ EventsAccounted'
  BY <1>1, Ties, Accounts DEF IntakeInv, Send
<1>3. \E n \in 1..Carried : batch \in [1..n -> emitted]
  BY DEF Batches, IntakeInv, TypeOK
<1>4. TypeOK'
  BY <1>1, <1>3, Stable DEF IntakeInv, TypeOK, Send, setup, Ages
<1> QED  BY <1>2, <1>4 DEF IntakeInv

\* A delivery grows older and carries what it carried.
LEMMA DelayInv ==
  ASSUME IntakeInv, NEW d \in wire, Delay(d)
  PROVE  IntakeInv'
<1>1. Remembered' /\ Kept' /\ HandedOnce' /\ EventsAccounted'
  BY Ties, Accounts DEF IntakeInv, Delay
<1>2. d.age \in Ages /\ \E n \in 1..Carried : d.events \in [1..n -> emitted]
  BY DEF IntakeInv, TypeOK
<1>3. TypeOK'
  BY <1>2, Stable DEF IntakeInv, TypeOK, Delay, setup, Ages
<1> QED  BY <1>1, <1>3 DEF IntakeInv

\* A delivery that is lost, or refused by VerifyWebhook, leaves its events pending.
LEMMA LoseInv ==
  ASSUME IntakeInv, NEW d \in wire, Lose(d)
  PROVE  IntakeInv'
<1>1. Remembered' /\ Kept' /\ HandedOnce' /\ EventsAccounted'
  BY Ties, Accounts DEF IntakeInv, Lose
<1>2. TypeOK'
  BY TypeKept DEF IntakeInv, TypeOK, Lose
<1> QED  BY <1>1, <1>2 DEF IntakeInv

\* What a delivery carries is accounted for once all of it was handed over, or its mark was seen.
LEMMA RecogniseInv ==
  ASSUME IntakeInv, NEW d \in wire, Recognise(d)
  PROVE  IntakeInv'
<1>1. Remembered' /\ Kept' /\ HandedOnce'
  BY Ties DEF IntakeInv, Recognise
<1>2. TypeOK'
  BY TypeKept DEF IntakeInv, TypeOK, Recognise, Acknowledge
<1>3. EventsAccounted'
  <2> SUFFICES ASSUME NEW e \in emitted \ pending'
               PROVE  \/ handed[e] > 0
                      \/ \E f \in emitted \ {e} :
                           handed[f] > 0 /\ (Confused(e, f) \/ provider \in FirstOfBatch)
    BY Stable DEF EventsAccounted, Recognise, setup
  <2>1. CASE e \notin pending
    BY <2>1 DEF IntakeInv, EventsAccounted
  <2>2. CASE e \in pending
    <3>1. PICK i \in DOMAIN d.events : d.events[i] = e
      BY <2>2 DEF Recognise, Acknowledge, Carries
    <3>2. PICK n \in Parts : d.events \in [1..n -> emitted]
      BY DEF IntakeInv, TypeOK, Parts
    <3>3. Mark(d.events) \in seen
      BY DEF Recognise, Identity, Mark
    <3>0. PICK m \in Parts : \E theirs \in [1..m -> emitted] :
            Mark(d.events) = Mark(theirs) /\ \A j \in 1..m : handed[theirs[j]] > 0
      BY <3>3 DEF IntakeInv, Remembered
    <3>4. PICK theirs \in [1..m -> emitted] :
            Mark(d.events) = Mark(theirs) /\ \A j \in 1..m : handed[theirs[j]] > 0
      BY <3>0
    <3>5. \/ provider \in FirstOfBatch
          \/ \E j \in 1..m : e = theirs[j] \/ Confused(e, theirs[j])
      <4>1. IdentityAttributes # {} /\ TypeOK
        BY DEF Recognise, Verified, IntakeInv
      <4>2. i \in 1..n
        BY <3>2
      <4> QED  BY <3>1, <3>2, <3>4, <4>1, <4>2, SameMark
    <3>6. 1 \in 1..m /\ \A j \in 1..m : theirs[j] \in emitted
      BY BoundsAssumption, <3>4 DEF Parts, Carried
    <3> QED  BY <3>4, <3>5, <3>6
  <2> QED  BY <2>1, <2>2
<1> QED  BY <1>1, <1>2, <1>3 DEF IntakeInv

\* The first delivery of an identity hands its events over and has the identity remembered.
LEMMA AcceptInv ==
  ASSUME IntakeInv, NEW d \in wire, Accept(d)
  PROVE  IntakeInv'
<1>0. TypeOK /\ Verified(d) /\ UNCHANGED <<setup, emitted>>
  BY DEF IntakeInv, Accept
<1>1. seen' = seen \cup {Mark(d.events)} /\ Mark(d.events) \notin seen
  BY DEF Accept, Identity, Mark
<1>2. PICK n \in Parts : d.events \in [1..n -> emitted]
  BY <1>0 DEF TypeOK, Parts
<1>3. /\ \A i \in 1..n : d.events[i] \in emitted /\ d.events[i] \in Events
      /\ DOMAIN d.events = 1..n
  BY <1>0, <1>2 DEF TypeOK
<1>4. handed' \in [Events -> 0..2]
  BY <1>0 DEF Accept, TypeOK
<1>5. /\ \A e \in Events : handed[e] > 0 => handed'[e] > 0
      /\ \A e \in Events : e \in Carries(d) => handed'[e] > 0
      /\ \A e \in Events : e \notin Carries(d) => handed'[e] = handed[e]
      /\ \A e \in Events : handed'[e] \in 0..2 /\ handed'[e] <= handed[e] + 1
  BY <1>0 DEF Accept, TypeOK
<1>6. TypeOK'
  <2>1. Identified(Mark(d.events))
    BY <1>0, MarkIdentified
  <2>2. /\ wire' \subseteq wire
        /\ \A mark \in seen' : mark \in seen \/ Identified(mark)
    BY <1>1, <2>1 DEF Accept
  <2>3. pending' \in SUBSET pending
    BY DEF Accept, Acknowledge
  <2> QED  BY <1>0, <1>4, <2>2, <2>3, TypeKept
<1>7. Remembered'
  <2> SUFFICES ASSUME NEW mark \in seen'
               PROVE \E k \in Parts : \E events \in [1..k -> emitted] :
                       mark = Mark(events) /\ \A i \in 1..k : handed'[events[i]] > 0
    BY <1>0, Stable DEF Remembered
  <2>1. CASE mark \in seen
    <3>0. PICK k \in Parts : \E events \in [1..k -> emitted] :
            mark = Mark(events) /\ \A i \in 1..k : handed[events[i]] > 0
      BY <2>1 DEF IntakeInv, Remembered
    <3>1. PICK events \in [1..k -> emitted] :
            mark = Mark(events) /\ \A i \in 1..k : handed[events[i]] > 0
      BY <3>0
    <3>2. \A i \in 1..k : events[i] \in Events
      BY <1>0, <3>1 DEF TypeOK
    <3>3. \A i \in 1..k : handed'[events[i]] > 0
      BY <1>5, <3>1, <3>2
    <3> QED  BY <3>1, <3>3
  <2>2. CASE mark = Mark(d.events)
    <3>1. \A i \in 1..n : handed'[d.events[i]] > 0
      BY <1>3, <1>5 DEF Carries
    <3> QED  BY <1>2, <2>2, <3>1
  <2> QED  BY <1>1, <2>1, <2>2
<1>8. hook.batch = "none" => \E e \in Events : Carries(d) = {e} /\ Mark(Single(e)) = Mark(d.events)
  <2> SUFFICES ASSUME hook.batch = "none"
               PROVE \E e \in Events : Carries(d) = {e} /\ Mark(Single(e)) = Mark(d.events)
    OBVIOUS
  <2>1. n = 1
    BY <1>2 DEF Parts, Carried
  <2>2. d.events = Single(d.events[1])
    BY <1>2, <2>1 DEF Single
  <2>3. Carries(d) = {d.events[1]}
    BY <1>3, <2>1 DEF Carries
  <2> QED  BY <1>3, <2>1, <2>2, <2>3
<1>9. Kept'
  <2> SUFFICES ASSUME hook.batch = "none", NEW e \in Events, handed'[e] > 0
               PROVE  Mark(Single(e)) \in seen'
    BY <1>0, Stable DEF Kept
  <2>1. CASE e \in Carries(d)
    BY <1>1, <1>8, <2>1
  <2>2. CASE e \notin Carries(d)
    BY <1>1, <1>5, <2>2 DEF IntakeInv, Kept
  <2> QED  BY <2>1, <2>2
<1>10. HandedOnce'
  <2> SUFFICES ASSUME NEW e \in Events, handed'[e] > 1, provider \notin Multiple
               PROVE  FALSE
    BY <1>0 DEF HandedOnce, setup, Multiple
  <2>1. hook.batch = "none"
    <3>1. Tells(provider, hook)
      BY <1>0, HookFacts, HookedAssumption DEF TypeOK, hook
    <3> QED  BY <3>1 DEF Tells, Multiple
  <2>2. handed[e] \in 0..2 /\ ~(handed[e] > 1)
    BY <1>0 DEF IntakeInv, HandedOnce, Multiple, TypeOK
  <2>3. e \in Carries(d) /\ handed[e] > 0
    BY <1>5, <2>2
  <2>4. Mark(Single(e)) \in seen
    BY <2>1, <2>3 DEF IntakeInv, Kept
  <2> QED  BY <1>1, <1>8, <2>1, <2>3, <2>4
<1>11. EventsAccounted'
  <2> SUFFICES ASSUME NEW e \in emitted \ pending'
               PROVE  \/ handed'[e] > 0
                      \/ \E f \in emitted \ {e} :
                           handed'[f] > 0 /\ (Confused(e, f) \/ provider \in FirstOfBatch)
    BY <1>0, Stable DEF EventsAccounted, setup
  <2>1. e \in Events /\ \A f \in emitted : f \in Events
    BY <1>0 DEF TypeOK
  <2>2. CASE e \notin pending
    BY <1>5, <2>1, <2>2 DEF IntakeInv, EventsAccounted
  <2>3. CASE e \in pending
    BY <1>5, <2>1, <2>3 DEF Accept, Acknowledge
  <2> QED  BY <2>2, <2>3
<1> QED  BY <1>6, <1>7, <1>9, <1>10, <1>11 DEF IntakeInv

\* Nothing changes.
LEMMA StutterInv ==
  ASSUME IntakeInv, UNCHANGED vars
  PROVE  IntakeInv'
<1>1. Remembered' /\ Kept' /\ HandedOnce' /\ EventsAccounted'
  BY Ties, Accounts DEF IntakeInv, vars
<1>2. TypeOK'
  BY TypeKept DEF IntakeInv, TypeOK, vars
<1> QED  BY <1>1, <1>2 DEF IntakeInv

\* IntakeInv holds of every reachable state: an identity is remembered only with its events handed over.
LEMMA IntakeInvariant == Spec => []IntakeInv
<1>1. IntakeInv /\ [Next]_vars => IntakeInv'
  BY EmitInv, SendInv, DelayInv, LoseInv, AcceptInv, RecogniseInv, StutterInv DEF Next, Refuse
<1> QED  BY InitInv, <1>1, PTL DEF Spec

\* However deliveries are repeated, delayed and lost, what is carried and what is remembered of
\* VerifyWebhook's identities stays well formed; no empty ExternalID is remembered.
THEOREM IntakeTypeCorrect == Spec => []TypeOK
<1>1. IntakeInv => TypeOK
  BY DEF IntakeInv
<1> QED  BY IntakeInvariant, <1>1, PTL

\* Replay protection by the identities VerifyWebhook returns loses no event but those the
\* provider's ExternalID takes for another one.
THEOREM NoEventLost == Spec => []EventsAccounted
<1>1. IntakeInv => EventsAccounted
  BY DEF IntakeInv
<1> QED  BY IntakeInvariant, <1>1, PTL

\* Of the providers that look at a single event, none is handed over twice, however often the
\* upstream sends it.
THEOREM NoEventTwice == Spec => []HandedOnce
<1>1. IntakeInv => HandedOnce
  BY DEF IntakeInv
<1> QED  BY IntakeInvariant, <1>1, PTL
=============================================================================
