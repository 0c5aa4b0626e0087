------------------------------ MODULE TaskPromise ------------------------------
(***************************************************************************)
(* What the backend's tasks promise.  An object (a case, a claim, an       *)
(* incident) passes milestones in its row, on its way to the chain and in  *)
(* the contract.  None is passed before what it rests on, and none is      *)
(* taken back, neither by an answer that comes late nor by a crash.        *)
(***************************************************************************)
CONSTANT Objects

VARIABLE passed   \* the milestones each object has passed

vars == <<passed>>

\* What an event may make true of an object: its row is there, the first of the
\* task's two calls is sent, is final and has created the object, the second is
\* sent, is final and has decided about the object, the row notes the result and
\* shows the decision, a payout is sent.
Events ==
  {{"row"}, {"firstSent"}, {"firstFinal", "created"}, {"secondSent"},
   {"secondFinal", "created", "decided"}, {"noted", "shown"}, {"payoutSent"}}

\* What has been passed before, in an earlier step.
Before(m) ==
  CASE m = "firstSent"   -> {"row"}
    [] m = "firstFinal"  -> {"firstSent"}
    [] m = "secondSent"  -> {"firstFinal"}
    [] m = "secondFinal" -> {"secondSent"}
    [] m = "noted"       -> {"secondFinal"}
    [] m = "shown"       -> {"decided"}
    [] m = "payoutSent"  -> {"shown"}
    [] OTHER             -> {}

\* What is passed in the same step if not before.
With(m) ==
  CASE m = "created" -> {"firstFinal"}
    [] m = "decided" -> {"secondFinal", "created"}
    [] m = "shown"   -> {"noted"}
    [] OTHER         -> {}

Init == passed = [o \in Objects |-> {}]

Pass(o) ==
  LET new == passed'[o] \ passed[o]
  IN  /\ \E event \in Events : new \subseteq event
      /\ \A m \in new :
           Before(m) \subseteq passed[o] /\ With(m) \subseteq passed[o] \cup new
      /\ passed' = [passed EXCEPT ![o] = @ \cup new]

Next == \E o \in Objects : Pass(o)

Spec == Init /\ [][Next]_vars
=============================================================================
