--------------------------- MODULE DurableIngest ---------------------------
(***************************************************************************)
(* What mailbox ingestion promises Runtime, whatever calls it takes.       *)
(* Messages arrive in an order and may be withdrawn.  Ingestion starts     *)
(* somewhere; from there its mark only moves forward, and only over        *)
(* messages that are stored or withdrawn; what it settles with the         *)
(* notification source lies at or below the mark.                          *)
(***************************************************************************)
EXTENDS Naturals

CONSTANTS Msgs, Ids
VARIABLES added, inbox, delivered, mark, start, settled

vars == <<added, inbox, delivered, mark, start, settled>>

Init ==
  /\ added = [m \in Msgs |-> 0] /\ inbox = {}
  /\ delivered = {} /\ mark = 0 /\ start = 0 /\ settled = {}

Receive(m) ==
  /\ added[m] = 0
  /\ \E h \in Ids :
       /\ h > mark /\ \A k \in Msgs : added[k] < h
       /\ added' = [added EXCEPT ![m] = h]
  /\ inbox' = inbox \cup {m}
  /\ UNCHANGED <<delivered, mark, start, settled>>

Withdraw ==
  /\ inbox' \subseteq inbox
  /\ UNCHANGED <<added, delivered, mark, start, settled>>

Covered(from, upto, stored) ==
  \A m \in inbox : from < added[m] /\ added[m] <= upto => m \in stored

Advance ==
  /\ mark' \in Ids /\ mark' >= mark
  /\ start' = IF mark = 0 THEN start' ELSE start
  /\ start' <= mark'
  /\ delivered \subseteq delivered' /\ delivered' \subseteq {m \in Msgs : added[m] # 0}
  /\ Covered(start', mark', delivered')
  /\ UNCHANGED <<added, inbox, settled>>

Settle ==
  /\ settled \subseteq settled'
  /\ \A n \in settled' \ settled : n <= mark
  /\ UNCHANGED <<added, inbox, delivered, mark, start>>

Next == (\E m \in Msgs : Receive(m)) \/ Withdraw \/ Advance \/ Settle

Spec == Init /\ [][Next]_vars
=============================================================================
