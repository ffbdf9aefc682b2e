-------------------------- MODULE MCWebhookIntake --------------------------
(* WebhookIntake for TLC: three events of one object, two of them of one type. *)
EXTENDS WebhookIntake

AllHooks == DOMAIN HookProfile
MCEvents == {"e1", "e2", "e3"}
MCAttribute ==
  [e \in MCEvents |-> [event |-> e, object |-> "o", time |-> e,
                       type |-> IF e = "e3" THEN "closed" ELSE "updated"]]
=============================================================================
