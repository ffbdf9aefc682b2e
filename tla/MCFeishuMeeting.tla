-------------------------- MODULE MCFeishuMeeting --------------------------
(* FeishuMeeting for TLC: the bounds are given in the cfg. *)
EXTENDS FeishuMeeting
=============================================================================
