-------------------------- MODULE WebhookProfiles --------------------------
(***************************************************************************)
(* What each provider's VerifyWebhook makes of a delivery: how old its     *)
(* stamp may be, which of several events it looks at, and which attributes *)
(* of that event it joins to the ExternalID by which Runtime recognises a  *)
(* repetition.                                                             *)
(*                                                                         *)
(* An event has an identity of its own (event), the object it is about, a  *)
(* type, and the time of the change.  Not every body or header carries the *)
(* event's own identity: named and unnamed tell what the code uses with    *)
(* it, and instead of it.                                                  *)
(***************************************************************************)
EXTENDS Naturals

Attributes == {"event", "object", "type", "time"}

\* Ages of a stamp when it is received: 0 less than a minute, 1 up to five, 2 more.
Ages == 0..2

\* The choices most VerifyWebhook functions make: one event, its own identity, no stamp.
Hook ==
  [ named   |-> {"event"},   \* what identifies an event that carries its own identity
    unnamed |-> {},          \* what identifies one that does not; nothing: it is refused
    typed   |-> TRUE,        \* EventType is the event's, whether it is named or not
    batch   |-> "none",      \* of several events in a delivery, which make its identity
    window  |-> 2 ]          \* the greatest age that is accepted

\* The stamp is signed with the body and must be of the last five minutes.
StampedHook == [Hook EXCEPT !.window = 1]
\* Object and type are all that is looked at.
ChangeHook == [Hook EXCEPT !.named = {"object", "type"}, !.unnamed = {"object", "type"}]
\* The object's identity serves for the event's where that is missing.
ObjectHook == [Hook EXCEPT !.unnamed = {"object"}]

\* Mutant: an event is taken for the customer it is about.
StripeByObject == [StampedHook EXCEPT !.named = {"object"}]
StripeHook == StampedHook
SlackHook == StampedHook
WeChatPayHook == StampedHook
\* With an encrypt key; with a verification token alone nothing is stamped.
FeishuHook == StampedHook
FeishuTokenHook == Hook

\* Linear-Delivery names the event; its stamp is of the last minute.
LinearHook == [Hook EXCEPT !.window = 0]
\* X-Goog-Channel-ID and X-Goog-Message-Number name the push.
GoogleCalendarHook == Hook
ShopifyHook == Hook
DiscordHook == Hook

CalComHook == ChangeHook
DocuSignHook == ChangeHook
CalendlyHook == [ChangeHook EXCEPT !.window = 1]
ZoomHook == [ChangeHook EXCEPT !.window = 1]

TallyHook == ObjectHook
TypeformHook == ObjectHook
PersonaHook == ObjectHook
ShopifyFulfillmentHook == ObjectHook
\* A body without a type is a ticket.updated.
ZendeskHook == [ObjectHook EXCEPT !.typed = FALSE]
\* gmt_payment is of the payment, not of the notification.
AlipayHook == [Hook EXCEPT !.unnamed = {"object", "type"}]

\* The message is all that names its statuses.
TwilioHook == [Hook EXCEPT !.named = {"object"}, !.unnamed = {"object"}]
\* A delivery may carry several events: the first one is looked at, or all are hashed.
WhatsAppHook == [TwilioHook EXCEPT !.batch = "first"]
FacebookMessengerHook == [TwilioHook EXCEPT !.batch = "first"]
QuickBooksHook == [ObjectHook EXCEPT !.named = {"object", "time"}, !.batch = "first"]
MicrosoftTeamsHook == [ObjectHook EXCEPT !.batch = "all"]

HookProfile ==
  [ stripe |-> StripeHook, slack |-> SlackHook, wechat_pay |-> WeChatPayHook,
    feishu |-> FeishuHook, feishu_token |-> FeishuTokenHook, linear |-> LinearHook,
    google_calendar |-> GoogleCalendarHook, shopify |-> ShopifyHook, discord |-> DiscordHook,
    cal_com |-> CalComHook, docusign |-> DocuSignHook, calendly |-> CalendlyHook,
    zoom_webinar |-> ZoomHook, tally |-> TallyHook, typeform |-> TypeformHook,
    persona |-> PersonaHook, shopify_fulfillment |-> ShopifyFulfillmentHook,
    zendesk |-> ZendeskHook, alipay |-> AlipayHook, twilio |-> TwilioHook,
    whatsapp |-> WhatsAppHook, facebook_messenger |-> FacebookMessengerHook,
    quickbooks |-> QuickBooksHook, microsoft_teams |-> MicrosoftTeamsHook ]
=============================================================================
