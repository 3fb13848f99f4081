------------------------------ MODULE MCRunAll ------------------------------
(* A small graph for RunAll: a registry point with its datasource, a       *)
(* datasource with a rule, and the datasource that reports what was        *)
(* blacklisted.  The context is provided and is no key of the graph.       *)
EXTENDS RunAll

CONSTANTS ctx, files, point, packages, audit, specs, w1, w2, w3

Nodes == {ctx, files, point, packages, audit, specs}
Keys == Nodes \ {ctx}
OnlyContext == {ctx}
NodeRules == {audit}
NodeDatasources == {files, point, packages, specs}
NodePoints == {point}

NodeRequires ==
  [c \in Component |->
     CASE c \in {files, packages, specs} -> {ctx}
       [] c = audit -> {packages}
       [] OTHER -> {}]

NodeAtLeastOne ==
  [c \in Component |-> IF c = point THEN {{files}} ELSE {}]
NodeOptional == [c \in Component |-> {}]

\* The reporter comes last; the rule looks at specs of two priorities.
NodePrios ==
  [c \in Component |->
     CASE c = specs -> {-1}
       [] c = audit -> {0, 1}
       [] OTHER -> {0}]

Anywhere == {TRUE, FALSE}
OnHost == {TRUE}
Elsewhere == {FALSE}

Caller == {w1}
TwoThreads == {w1, w2}
ThreeThreads == {w1, w2, w3}
TwoLists == {point, packages}
=============================================================================
