---------------------------- MODULE IntentContract ----------------------------
(***************************************************************************)
(* What handle_intent promises its callers, without saying how: intents    *)
(* are worked on one at a time, a bounded number of orders is sent for an  *)
(* intent and only while it is being worked on, and it ends once, filled   *)
(* or failed.                                                              *)
(***************************************************************************)
EXTENDS Naturals

CONSTANTS Intent, \* the intents
          Limit   \* orders that may be sent for one intent

VARIABLES status, \* how each intent stands
          sent    \* how many orders were sent for it

Status == {"new", "working", "filled", "failed"}

Working == {i \in Intent : status[i] = "working"}

Init ==
  /\ status = [i \in Intent |-> "new"]
  /\ sent = [i \in Intent |-> 0]

\* Work on a new intent starts when no other is being worked on.
Begin(i) ==
  /\ status[i] = "new"
  /\ Working = {}
  /\ status' = [status EXCEPT ![i] = "working"]
  /\ UNCHANGED sent

\* An intent that cannot be paid for fails at once.
Refuse(i) ==
  /\ status[i] = "new"
  /\ Working = {}
  /\ status' = [status EXCEPT ![i] = "failed"]
  /\ UNCHANGED sent

SendOrder(i) ==
  /\ status[i] = "working"
  /\ sent[i] < Limit
  /\ sent' = [sent EXCEPT ![i] = @ + 1]
  /\ UNCHANGED status

\* The intent is filled, as a whole or in part; some order must have been sent.
Fill(i) ==
  /\ status[i] = "working"
  /\ sent[i] > 0
  /\ status' = [status EXCEPT ![i] = "filled"]
  /\ UNCHANGED sent

Fail(i) ==
  /\ status[i] = "working"
  /\ status' = [status EXCEPT ![i] = "failed"]
  /\ UNCHANGED sent

Next ==
  \E i \in Intent : Begin(i) \/ Refuse(i) \/ SendOrder(i) \/ Fill(i) \/ Fail(i)

Spec == Init /\ [][Next]_<<status, sent>>
=============================================================================
