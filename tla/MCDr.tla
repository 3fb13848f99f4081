-------------------------------- MODULE MCDr --------------------------------
(* A small system for Dr: two contexts, a helper datasource, three         *)
(* implementations of one registry point, a parser of the point and a rule *)
(* on the parser.                                                          *)
EXTENDS Dr

CONSTANTS host, sac, helper, older, old, new, point, parse, report

Nodes == {host, helper, older, old, new, point, parse, report}

NodeKind ==
  [c \in Component |->
     CASE c \in {host, sac} -> "external"
       [] c \in {helper, older, old, new} -> "datasource"
       [] c = point -> "point"
       [] c = report -> "rule"
       [] OTHER -> "parser"]

\* Two implementations work from the helper; the oldest one is on the host only.
NodeRequires ==
  [c \in Component |->
     CASE c \in {helper, older} -> {host}
       [] c = old -> {helper}
       [] c = parse -> {point}
       [] c = report -> {parse}
       [] OTHER -> {}]

NodeAtLeastOne ==
  [c \in Component |->
     CASE c = new -> {{host, sac} \cap Component}
       [] c = point -> {{older, old, new}}
       [] OTHER -> {}]

NodeOptional == [c \in Component |-> IF c = report THEN {helper} ELSE {}]
NodeRank == [c \in Component |-> CASE c = new -> 1 [] c = old -> 2 [] OTHER -> 3]
AllDelegates == Nodes \ {host}

\* The oldest implementation gives way to the newest one on the host.
NodeIgnore == [c \in Component |-> IF c = older THEN {host} ELSE {}]

HostOnly == {host}
PointOnly == {point}

\* Serialized archives that hold the point and one of its implementations (a
\* manifest persists by prefix of the name), or the point and its parser (parsers
\* have a serializer).
ArchiveNodes == Nodes \cup {sac}
ArchiveOfOld == {sac, point, old}
ArchiveOfParser == {sac, point, parse}

\* In the archive the helper looks at the archive, and at what it helps: a cycle
\* that the pruning breaks.  The report looks at the point as well as at its parser.
ArchiveRequires == [NodeRequires EXCEPT ![helper] = {sac}]
ArchiveOptional == [NodeOptional EXCEPT ![helper] = {old}, ![report] = {helper, point}]
=============================================================================
