--------------------------------- MODULE Dr ---------------------------------
(***************************************************************************)
(* The dependency-resolution engine of insights/core/dr.py: one call of    *)
(* run(components, broker), from the pruning of a serialized archive's     *)
(* graph through toposort_flatten to the loop of run_components.           *)
(*                                                                         *)
(* A component's result is abstracted to the component that produced it: a *)
(* registry point hands on the result of one of its implementations, every *)
(* other component makes its own.  A component that returns Python's None  *)
(* leaves the key in the broker with the value None.                       *)
(***************************************************************************)
EXTENDS Naturals, Sequences, FiniteSets

CONSTANTS
  Component,     \* everything that is a key of the broker or of a graph
  Kind,          \* Component -> "external" | "component" | "parser" | "rule" | "datasource" | "point"
  Requires,      \* Component -> the required dependencies of its delegate
  AtLeastOne,    \* Component -> its "at least one" groups, a set of sets
  Optional,      \* Component -> its optional dependencies
  Rank,          \* Component -> Nat: the place of an implementation in reversed(deps) of its point
  Ignore,        \* Component -> dr.IGNORE: the contexts under which it must not run
  Enabled,       \* the components for which is_enabled holds
  Graph,         \* the keys of the components argument of run
  Seed,          \* the keys of the broker argument of run
  Serialized,    \* SerializedArchiveContext is in that broker
  StoreSkips,    \* broker.store_skips
  Persist,       \* to_persist of the persister that observes the broker
  Absent,        \* "not a key of the broker"
  None           \* the value None

Kinds == {"external", "component", "parser", "rule", "datasource", "point"}

\* Every component registered with a ComponentType has an entry in DELEGATES;
\* contexts and plain strings do not.
Delegates == {c \in Component : Kind[c] # "external"}
Points == {c \in Component : Kind[c] = "point"}
Datasources == {c \in Component : Kind[c] \in {"datasource", "point"}}

ASSUME ComponentAssumption ==
  /\ Kind \in [Component -> Kinds]
  /\ Requires \in [Component -> SUBSET Component]
  /\ AtLeastOne \in [Component -> SUBSET SUBSET Component]
  /\ Optional \in [Component -> SUBSET Component]
  /\ Rank \in [Component -> Nat]
  /\ Enabled \subseteq Component
  /\ Graph \subseteq Delegates
  /\ Seed \subseteq Component
  /\ Serialized \in BOOLEAN
  /\ StoreSkips \in BOOLEAN
  /\ Persist \subseteq Delegates
  /\ Absent \notin Component /\ None \notin Component /\ Absent # None

\* add_ignore has one caller, and it passes execution contexts.
ASSUME IgnoreAssumption ==
  Ignore \in [Component -> SUBSET (Component \ Delegates)]

-----------------------------------------------------------------------------
(* The registered graph.                                                   *)

Dependencies(c) == Requires[c] \cup Optional[c] \cup UNION AtLeastOne[c]
Dependents(d) == {c \in Delegates : d \in Dependencies(c)}

\* A registry point is declared with an empty group, and every implementation is
\* appended to that group once: it depends on nothing else, and not on itself.
ASSUME PointAssumption ==
  \A p \in Points :
    /\ AtLeastOne[p] = {Dependencies(p)}
    /\ p \notin Dependencies(p)
    /\ \A d, e \in Dependencies(p) : Rank[d] = Rank[e] => d = e

\* The walk of get_registry_points goes up from a datasource and down from
\* anything else, and stops at the registry points it meets.
Neighbours(c, up) ==
  IF c \in Points THEN {} ELSE IF up THEN Dependents(c) ELSE Dependencies(c)

\* What the walk from c visits: the least set that holds c and is closed
\* under Neighbours.
Walk(c, up) ==
  {x \in Component : \A S \in SUBSET Component :
      (c \in S /\ \A y \in S : Neighbours(y, up) \subseteq S) => x \in S}

RegistryPoints == [c \in Component |-> Walk(c, c \in Datasources) \cap Points]

\* The kinds of exception run_components and the persister tell apart, and who
\* raised them; what cannot be written is the component's own.
Exceptions == [by : Component, kind : {"content", "blacklisted", "skip", "error", "write"}]

-----------------------------------------------------------------------------
VARIABLES
  pc,            \* "prune", "sort", "run", "done", or how run raised: "cyclic", "keyerror"
  components,    \* the keys still in the components dict
  todo,          \* the snapshot list(components) still to be visited by the pruning loop
  left,          \* toposort: the items not yet given out
  wave,          \* toposort: the rest of the set being flattened
  order,         \* run_order(components)
  pos,           \* index of the loop of run_components
  instances,     \* broker.instances
  missing,       \* the keys of broker.missing_requirements
  exceptions,    \* broker.exceptions
  timed,         \* the keys of broker.exec_times
  observed,      \* the exceptions an observer found on a component when it was called
  blacklisted    \* BLACKLISTED_SPECS

graphVars == <<components, todo>>
sortVars == <<left, wave, order>>
brokerVars == <<instances, missing, exceptions, timed, observed, blacklisted>>
vars == <<pc, graphVars, sortVars, pos, brokerVars>>

InBroker(c) == instances[c] # Absent

Init ==
  /\ pc = IF Serialized THEN "prune" ELSE "sort"
  /\ components = Graph
  /\ todo = IF Serialized THEN Graph ELSE {}
  /\ left = {}
  /\ wave = {}
  /\ order = <<>>
  /\ pos = 1
  /\ instances = [c \in Component |-> IF c \in Seed THEN c ELSE Absent]
  /\ missing = {}
  /\ exceptions = [c \in Component |-> {}]
  /\ timed = {}
  /\ observed = [c \in Component |-> {}]
  /\ blacklisted = {}

-----------------------------------------------------------------------------
(* The pruning loop of run.                                                *)

\* A key that is in the broker has its direct dependencies popped.
PruneGiven(c) ==
  /\ pc = "prune" /\ c \in todo
  /\ InBroker(c) /\ c \in components
  /\ components' = components \ Dependencies(c)
  /\ todo' = todo \ {c}
  /\ UNCHANGED <<pc, sortVars, pos, brokerVars>>

\* components[c] of a plain dict raises when an earlier round popped c.
PruneLost(c) ==
  /\ pc = "prune" /\ c \in todo
  /\ InBroker(c) /\ c \notin components
  /\ pc' = "keyerror"
  /\ UNCHANGED <<graphVars, sortVars, pos, brokerVars>>

PruneKeep(c) ==
  /\ pc = "prune" /\ c \in todo
  /\ ~InBroker(c)
  /\ todo' = todo \ {c}
  /\ UNCHANGED <<pc, components, sortVars, pos, brokerVars>>

PruneEnd ==
  /\ pc = "prune" /\ todo = {}
  /\ pc' = "sort"
  /\ UNCHANGED <<graphVars, sortVars, pos, brokerVars>>

-----------------------------------------------------------------------------
(* toposort_flatten(components, sort=False).                               *)

\* Self dependencies are discarded, and an item that is no key of the dict
\* has no dependencies.
SortDeps(c) == IF c \in components THEN Dependencies(c) \ {c} ELSE {}
Items == components \cup UNION {SortDeps(c) : c \in components}

SortStart ==
  /\ pc = "sort"
  /\ pc' = "sorting"
  /\ left' = Items
  /\ UNCHANGED <<graphVars, wave, order, pos, brokerVars>>

\* Mutant of Free: an item goes out once some of its dependencies have.
FreeByAny == {c \in left : SortDeps(c) = {} \/ ~(SortDeps(c) \subseteq left)}

\* Mutant of Free: the items given out are not taken off the dependencies of the rest.
FreeByNone == {c \in left : SortDeps(c) = {}}

\* The items all of whose dependencies have been given out.
Free == {c \in left : SortDeps(c) \cap left = {}}

NextWave ==
  /\ pc = "sorting" /\ wave = {} /\ Free # {}
  /\ wave' = Free
  /\ left' = left \ Free
  /\ UNCHANGED <<pc, graphVars, order, pos, brokerVars>>

\* list(d) of a set: its items in any order.
Flatten(c) ==
  /\ pc = "sorting" /\ c \in wave
  /\ order' = Append(order, c)
  /\ wave' = wave \ {c}
  /\ UNCHANGED <<pc, graphVars, left, pos, brokerVars>>

SortEnd ==
  /\ pc = "sorting" /\ wave = {} /\ Free = {}
  /\ pc' = IF left = {} THEN "run" ELSE "cyclic"
  /\ UNCHANGED <<graphVars, sortVars, pos, brokerVars>>

-----------------------------------------------------------------------------
(* run_components: one round of its loop per action, the finally block     *)
(* included.                                                               *)

\* Mutant of Attempted: run_components runs what is no key of components, too.
AttemptedAnywhere(c) == ~InBroker(c) /\ c \in Delegates /\ c \in Enabled

Attempted(c) == ~InBroker(c) /\ c \in components /\ c \in Delegates /\ c \in Enabled

Ignored(c) == \E i \in Ignore[c] : InBroker(i)

\* get_missing_dependencies returns nothing.
RequirementsMet(c) ==
  /\ \A r \in Requires[c] : InBroker(r)
  /\ \A g \in AtLeastOne[c] : \E d \in g : InBroker(d)

\* Mutant of Invoked: process does not look at IGNORE.
InvokedUnignored(c) == Attempted(c) /\ RequirementsMet(c)

Invoked(c) == Attempted(c) /\ ~Ignored(c) /\ RequirementsMet(c)

AtComponent(c) == pc = "run" /\ pos \in DOMAIN order /\ c = order[pos]

\* Mutant of Raise: add_exception assigns where it appends.
RaiseOverwriting(es, cs, e) == [x \in Component |-> IF x \in cs THEN {e} ELSE es[x]]

Raise(es, cs, e) == [x \in Component |-> IF x \in cs THEN es[x] \cup {e} ELSE es[x]]

Skipped(es, c) == IF StoreSkips THEN Raise(es, {c}, [by |-> c, kind |-> "skip"]) ELSE es

\* The observers of a registered component find the exceptions es.  The persister
\* notes them, and then may fail to write the result, or some elements of it.
Observe(c, es) ==
  /\ observed' = IF c \in Delegates THEN [observed EXCEPT ![c] = es[c]] ELSE observed
  /\ \/ exceptions' = es
     \/ /\ c \in Persist /\ instances'[c] \notin {Absent, None}
        /\ exceptions' = Raise(es, {c}, [by |-> c, kind |-> "write"])

\* The rest of the finally block: exec_times.
Finally(c) ==
  /\ timed' = timed \cup {c}
  /\ pos' = pos + 1
  /\ UNCHANGED <<pc, graphVars, sortVars>>

NotAttempted(c) ==
  /\ AtComponent(c) /\ ~Attempted(c)
  /\ UNCHANGED <<instances, missing, blacklisted>>
  /\ Observe(c, exceptions) /\ Finally(c)

\* A raised SkipComponent.
SkipRaised(c) ==
  /\ UNCHANGED <<instances, missing, blacklisted>>
  /\ Observe(c, Skipped(exceptions, c)) /\ Finally(c)

SkipIgnored(c) ==
  /\ AtComponent(c) /\ Attempted(c) /\ Ignored(c)
  /\ SkipRaised(c)

MissingRequirement(c) ==
  /\ AtComponent(c) /\ Attempted(c) /\ ~Ignored(c) /\ ~RequirementsMet(c)
  /\ Kind[c] # "rule"
  /\ missing' = missing \cup {c}
  /\ UNCHANGED <<instances, blacklisted>>
  /\ Observe(c, exceptions) /\ Finally(c)

Store(c, v) ==
  /\ instances' = [instances EXCEPT ![c] = v]
  /\ UNCHANGED <<missing, blacklisted>>
  /\ Observe(c, exceptions) /\ Finally(c)

\* A rule turns missing requirements into a "skip" response, which is a result.
SkipResponse(c) ==
  /\ AtComponent(c) /\ Attempted(c) /\ ~Ignored(c) /\ ~RequirementsMet(c)
  /\ Kind[c] = "rule"
  /\ Store(c, c)

Succeed(c) ==
  /\ AtComponent(c) /\ Invoked(c) /\ c \notin Points
  /\ Store(c, c)

\* parser.invoke over a list: the exceptions of single elements, as they come.
ElementErrors(c, kinds) ==
  [exceptions EXCEPT ![c] = @ \cup {[by |-> c, kind |-> k] : k \in kinds}]

ElementKinds == (SUBSET {"content", "error"}) \ {{}}

\* Some elements of the list fail and the parser goes on to the others.
SucceedInPart(c) ==
  /\ AtComponent(c) /\ Invoked(c) /\ Kind[c] = "parser"
  /\ instances' = [instances EXCEPT ![c] = c]
  /\ UNCHANGED <<missing, blacklisted>>
  /\ \E kinds \in ElementKinds : Observe(c, ElementErrors(c, kinds))
  /\ Finally(c)

\* One element fails and the parser does not go on, or none gives a result.
ElementsFail(c) ==
  /\ AtComponent(c) /\ Invoked(c) /\ Kind[c] = "parser"
  /\ UNCHANGED <<instances, missing, blacklisted>>
  /\ \E kinds \in ElementKinds : Observe(c, Skipped(ElementErrors(c, kinds), c))
  /\ Finally(c)

\* A rule's None becomes make_none(), which is a result.
ReturnNone(c) ==
  /\ AtComponent(c) /\ Invoked(c) /\ Kind[c] \in {"component", "parser", "datasource"}
  /\ Store(c, None)

\* RegistryPoint.__call__ takes the last implementation that is in the broker.
\* There is one: the implementations are the point's "at least one" group.
Latest(c) == CHOOSE d \in Dependencies(c) :
                /\ InBroker(d)
                /\ \A e \in Dependencies(c) : InBroker(e) => Rank[d] <= Rank[e]

\* Mutant of PointSucceed: the implementations are not taken from the end.
PointSucceedFirst(c) ==
  /\ AtComponent(c) /\ Invoked(c) /\ c \in Points
  /\ \E d \in Dependencies(c) :
       /\ InBroker(d)
       /\ \A e \in Dependencies(c) : InBroker(e) => Rank[d] >= Rank[e]
       /\ Store(c, instances[d])

PointSucceed(c) ==
  /\ AtComponent(c) /\ Invoked(c) /\ c \in Points
  /\ Store(c, instances[Latest(c)])

\* The component raises SkipComponent itself.
Skip(c) ==
  /\ AtComponent(c) /\ Invoked(c) /\ c \notin Points
  /\ SkipRaised(c)

\* invoke turns a ContentException, a CalledProcessError or, for a datasource,
\* a timeout into an entry in broker.exceptions and a SkipComponent.
ContentFailure(c) ==
  LET e == [by |-> c, kind |-> "content"]
      at == IF c \in Datasources THEN RegistryPoints[c] ELSE {c}
  IN /\ AtComponent(c) /\ Invoked(c) /\ c \notin Points
     /\ UNCHANGED <<instances, missing, blacklisted>>
     /\ Observe(c, Skipped(Raise(exceptions, at, e), c)) /\ Finally(c)

\* Mutant of Blacklisted: the datasource itself is reported.
BlacklistedItself(c) ==
  /\ AtComponent(c) /\ Invoked(c) /\ Kind[c] = "datasource"
  /\ blacklisted' = blacklisted \cup {c}
  /\ UNCHANGED <<instances, missing>>
  /\ Observe(c, Raise(exceptions, {c}, [by |-> c, kind |-> "blacklisted"])) /\ Finally(c)

Blacklisted(c) ==
  /\ AtComponent(c) /\ Invoked(c) /\ Kind[c] = "datasource"
  /\ blacklisted' = blacklisted \cup RegistryPoints[c]
  /\ UNCHANGED <<instances, missing>>
  /\ Observe(c, Raise(exceptions, {c}, [by |-> c, kind |-> "blacklisted"])) /\ Finally(c)

\* Any other exception is recorded on the component and its registry points.
Fail(c) ==
  /\ AtComponent(c) /\ Invoked(c) /\ c \notin Points
  /\ UNCHANGED <<instances, missing, blacklisted>>
  /\ Observe(c, Raise(exceptions, {c} \cup RegistryPoints[c], [by |-> c, kind |-> "error"]))
  /\ Finally(c)

\* Mutant of Return: the loop ends one component early.
ReturnEarly ==
  /\ pc = "run" /\ pos = Len(order)
  /\ pc' = "done"
  /\ UNCHANGED <<graphVars, sortVars, pos, brokerVars>>

Return ==
  /\ pc = "run" /\ pos = Len(order) + 1
  /\ pc' = "done"
  /\ UNCHANGED <<graphVars, sortVars, pos, brokerVars>>

Over == pc \in {"done", "cyclic", "keyerror"}

-----------------------------------------------------------------------------
Prune == (\E c \in Component : PruneGiven(c) \/ PruneLost(c) \/ PruneKeep(c)) \/ PruneEnd

Sort == SortStart \/ NextWave \/ (\E c \in Component : Flatten(c)) \/ SortEnd

RunComponent(c) ==
  \/ NotAttempted(c)
  \/ SkipIgnored(c)
  \/ MissingRequirement(c)
  \/ SkipResponse(c)
  \/ Succeed(c)
  \/ SucceedInPart(c)
  \/ ElementsFail(c)
  \/ ReturnNone(c)
  \/ PointSucceed(c)
  \/ Skip(c)
  \/ ContentFailure(c)
  \/ Blacklisted(c)
  \/ Fail(c)

Run == Prune \/ Sort \/ (\E c \in Component : RunComponent(c)) \/ Return

\* After run has returned or raised nothing happens.
Next == Run \/ (Over /\ UNCHANGED vars)

Spec == Init /\ [][Next]_vars

\* run is an ordinary function call: it keeps taking steps until it returns or
\* raises.
FairSpec == Spec /\ WF_vars(Run)

-----------------------------------------------------------------------------
(* Properties.                                                             *)

TypeOK ==
  /\ pc \in {"prune", "sort", "sorting", "run", "done", "cyclic", "keyerror"}
  /\ components \subseteq Graph /\ todo \subseteq Graph
  /\ left \subseteq Component /\ wave \subseteq Component
  /\ order \in Seq(Component)
  /\ pos \in 1 .. Len(order) + 1
  /\ instances \in [Component -> Component \cup {Absent, None}]
  /\ missing \subseteq Component
  /\ exceptions \in [Component -> SUBSET Exceptions]
  /\ timed \subseteq Component
  /\ observed \in [Component -> SUBSET Exceptions]
  /\ blacklisted \subseteq Points

\* toposort_flatten gives every item of the graph once, each after all its
\* dependencies, whatever order the sets were flattened in.
OrderIsTopological ==
  pc \in {"run", "done"} =>
    /\ {order[i] : i \in DOMAIN order} = Items
    /\ \A i, j \in DOMAIN order : order[i] \in SortDeps(order[j]) => i < j

\* toposort raises ValueError for exactly the graphs that have a cycle, and then
\* nothing has been evaluated.
HasCycle == \E S \in (SUBSET Items) \ {{}} : \A c \in S : SortDeps(c) \cap S # {}

CycleDetected ==
  /\ pc = "cyclic" => HasCycle /\ timed = {}
  /\ pc \in {"run", "done"} => ~HasCycle

\* No verdict of the evaluation is overtaken by what runs after it: judged by
\* the broker at any later time, whatever was found missing is still missing,
\* and whatever was given a result had its requirements and was not ignored.
VerdictStands ==
  \A c \in Component :
    /\ c \in missing => ~RequirementsMet(c) /\ ~Ignored(c) /\ ~InBroker(c)
    /\ InBroker(c) /\ c \notin Seed =>
          /\ c \in components /\ c \in Enabled /\ ~Ignored(c)
          /\ Kind[c] = "rule" \/ RequirementsMet(c)

\* A registry point that has run holds the result of the last of its
\* implementations that has one, now and for the rest of the run.
PointServesLatest ==
  \A p \in Points :
    InBroker(p) /\ p \notin Seed => instances[p] = instances[Latest(p)]

\* In a graph that holds the dependencies and dependents of its components, a failure of
\* a datasource reaches its registry points before their observers are called:
\* what the persister of a registry point writes lacks no collection error of another
\* component.  (What fails when it is written itself comes after that.)
GraphClosed ==
  \A c \in Graph : (Dependencies(c) \cap Delegates) \subseteq Graph

DatasourceErrorsObserved ==
  GraphClosed /\ ~Serialized =>
    \A p \in Points \cap timed : \A e \in exceptions[p] :
      e.by \in Datasources \ {p} => e \in observed[p]

\* The broker is never rewritten: a key keeps its value (Broker.__setitem__
\* raises on a second assignment), and exec_times, missing_requirements and the
\* exceptions only grow.
BrokerOnlyGrows ==
  [][/\ \A c \in Component : InBroker(c) => instances'[c] = instances[c]
     /\ missing \subseteq missing'
     /\ \A c \in Component : exceptions[c] \subseteq exceptions'[c]]_vars

\* run ends, and unless it raised every item was timed and observed, however
\* many components failed.
RunReturns == <>(Over /\ (pc = "done" => timed = Items))

\* The run implements the evaluation of module Evaluation: each component is
\* settled by one round of the loop, after everything it depends on.
verdict ==
  [c \in Component |->
     CASE c \in Seed -> "given"
       [] c \notin Seed /\ c \notin timed -> "pending"
       [] c \notin Seed /\ c \in timed /\ InBroker(c) -> "present"
       [] c \notin Seed /\ c \in timed /\ ~InBroker(c) /\ c \in missing -> "unmet"
       [] OTHER -> IF c \in components /\ c \in Enabled THEN "failed" ELSE "untried"]

Evaluated ==
  INSTANCE Evaluation WITH
    Rules <- {c \in Component : Kind[c] = "rule"},
    Given <- Seed

ImplementsEvaluation == Evaluated!Spec

-----------------------------------------------------------------------------
(* What the documentation says and the code does not do.                   *)

\* run: "Returns: Broker: The broker after evaluation."
NoKeyError == pc # "keyerror"
=============================================================================
