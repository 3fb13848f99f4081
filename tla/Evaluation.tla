----------------------------- MODULE Evaluation -----------------------------
(***************************************************************************)
(* What an evaluation of a component graph promises, without an order, a   *)
(* broker or a way to fail: every component gets at most one verdict, and  *)
(* it gets it on the final verdicts of everything it depends on.           *)
(***************************************************************************)
CONSTANTS
  Component,
  Rules,         \* the components that answer even when requirements are missing
  Requires,      \* Component -> required dependencies
  AtLeastOne,    \* Component -> groups of which one dependency is required
  Optional,      \* Component -> optional dependencies
  Given          \* the components whose results are provided

Verdicts == {"given", "pending", "untried", "present", "unmet", "failed"}

VARIABLE verdict

TypeOK == verdict \in [Component -> Verdicts]

Available(c) == verdict[c] \in {"given", "present"}

Met(c) ==
  /\ \A r \in Requires[c] : Available(r)
  /\ \A g \in AtLeastOne[c] : \E d \in g : Available(d)

Others(c) == (Requires[c] \cup Optional[c] \cup UNION AtLeastOne[c]) \ {c}

Init == verdict = [c \in Component |-> IF c \in Given THEN "given" ELSE "pending"]

\* A component that is not part of the evaluation is passed over.
PassOver(c) ==
  /\ verdict[c] = "pending"
  /\ verdict' = [verdict EXCEPT ![c] = "untried"]

\* A component is tried once everything it depends on is settled.
Try(c) ==
  /\ verdict[c] = "pending"
  /\ \A d \in Others(c) : verdict[d] # "pending"
  /\ \/ /\ Met(c) \/ c \in Rules
        /\ verdict' = [verdict EXCEPT ![c] = "present"]
     \/ /\ ~Met(c) /\ c \notin Rules
        /\ verdict' = [verdict EXCEPT ![c] = "unmet"]
     \/ verdict' = [verdict EXCEPT ![c] = "failed"]

Next == \E c \in Component : PassOver(c) \/ Try(c)

Spec == Init /\ [][Next]_verdict
=============================================================================
