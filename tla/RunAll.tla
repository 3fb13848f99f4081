------------------------------- MODULE RunAll -------------------------------
(***************************************************************************)
(* run_all of insights/core/dr.py: get_subgraphs splits the graph into its *)
(* connected parts, and each part is evaluated by run on one shared        *)
(* broker, one after the other or by the workers of a ThreadPoolExecutor.  *)
(* The persister of insights/core/serde.py observes every component; over  *)
(* a pool it serializes a list by jobs of the same pool.                   *)
(*                                                                         *)
(* Module Dr says in which order run evaluates a part; here a component    *)
(* may be reached as soon as what it depends on has been gone past.  The   *)
(* graph is acyclic and the broker holds no SerializedArchiveContext, so   *)
(* that run does not raise.                                                *)
(***************************************************************************)
EXTENDS Integers, Sequences, FiniteSets

CONSTANTS
  Component,     \* the keys of the graph and all they depend on
  Graph,         \* the keys of the graph
  Rules,         \* components that answer when requirements are missing
  Datasources,   \* datasources and registry points
  Points,        \* the registry points
  Requires,      \* Component -> its required dependencies
  AtLeastOne,    \* Component -> its "at least one" groups
  Optional,      \* Component -> its optional dependencies
  Given,         \* the keys of the broker passed to run_all
  Prios,         \* Component -> the prio of each of its registry points, or {0}
  Reporter,      \* the datasource that reports BLACKLISTED_SPECS
  Hosts,         \* whether HostContext may be, or not be, in the broker
  Worker,        \* the threads of the pool
  Pool,          \* run_all has a pool; without one a single worker stands for the caller
  Persist,       \* the components the persister writes
  ListLength,    \* length of a result that is a list
  Idle           \* a worker that has no job, or nothing in hand

ASSUME GraphAssumption ==
  /\ Graph \subseteq Component
  /\ Requires \in [Component -> SUBSET Component]
  /\ AtLeastOne \in [Component -> SUBSET SUBSET Component]
  /\ Optional \in [Component -> SUBSET Component]
  /\ Given \subseteq Component
  /\ Points \subseteq Datasources /\ Datasources \subseteq Component
  /\ Rules \cap Datasources = {}
  /\ Prios \in [Component -> SUBSET Int]
  /\ \A c \in Component : Prios[c] # {}

ASSUME PoolAssumption ==
  /\ Idle \notin Component
  /\ Pool \in BOOLEAN /\ Hosts \subseteq BOOLEAN
  /\ ListLength \in Nat \ {0}
  /\ ~Pool => \E w \in Worker : Worker = {w}

-----------------------------------------------------------------------------
Dependencies(c) == Requires[c] \cup Optional[c] \cup UNION AtLeastOne[c]

\* Mutant of Neighbours: dependencies outside the graph are followed, too.
NeighboursAnywhere(c) == Dependencies(c) \cup {d \in Graph : c \in Dependencies(d)}

\* Mutant of Neighbours: the walk of get_subgraphs goes down only.
NeighboursBelow(c) == {d \in Graph : d \in Dependencies(c)}

\* The keys on either end of an edge of c.
Neighbours(c) ==
  {d \in Graph : d \in Dependencies(c) \/ c \in Dependencies(d)}

\* The items toposort finds in a part of the graph.
Items(part) == part \cup UNION {Dependencies(c) : c \in part}

RunJob(part) == [kind |-> "run", part |-> part]
WriteJob(w) == [kind |-> "write", for |-> w]

\* A worker without a job can be told from one that has a part to run.
ASSUME JobAssumption == \A part \in SUBSET Graph : RunJob(part) # Idle

-----------------------------------------------------------------------------
VARIABLES
  hosted,        \* HostContext is in the broker
  prio,          \* the sort key get_subgraphs computes for each component
  keys,          \* get_subgraphs: the keys not yet taken
  frontier,      \* get_subgraphs: found and not visited
  seen,          \* get_subgraphs: visited
  parts,         \* the subgraphs handed out
  main,          \* "split", "wait", "returned"
  queue,         \* the jobs of the pool that no worker has taken
  job,           \* what each worker is doing
  left,          \* the items of its part that a worker has not gone past
  hand,          \* the component a worker is evaluating
  met,           \* what get_missing_dependencies told that worker
  unwritten,     \* the elements of a list a worker waits for
  instances,     \* the keys of the broker
  missing,       \* the keys of broker.missing_requirements
  timed,         \* the keys of broker.exec_times
  called,        \* the components whose function has been called
  blacklisted,   \* the datasources whose points are in BLACKLISTED_SPECS
  report         \* what the reporter read of it

splitVars == <<prio, keys, frontier, seen, parts, main>>
poolVars == <<queue, job, left, hand, met, unwritten>>
brokerVars == <<hosted, instances, missing, timed, called, blacklisted, report>>
vars == <<splitVars, poolVars, brokerVars>>

\* get_registry_points returns a set, and the first of its elements decides.
Init ==
  /\ hosted \in Hosts
  /\ prio \in {f \in [Graph -> UNION {Prios[c] : c \in Graph}] :
                 \A c \in Graph : f[c] \in Prios[c]}
  /\ keys = Graph /\ frontier = {} /\ seen = {} /\ parts = {}
  /\ main = "split"
  /\ queue = <<>>
  /\ job = [w \in Worker |-> Idle]
  /\ left = [w \in Worker |-> {}]
  /\ hand = [w \in Worker |-> Idle]
  /\ met = [w \in Worker |-> FALSE]
  /\ unwritten = [w \in Worker |-> 0]
  /\ instances = Given /\ missing = {} /\ timed = {}
  /\ called = {} /\ blacklisted = {} /\ report = {}

-----------------------------------------------------------------------------
(* get_subgraphs and run_all, in the thread of the caller.                 *)

\* Without a pool the generator goes on when the part it gave out has been run.
Splitting ==
  /\ main = "split"
  /\ Pool \/ (queue = <<>> /\ \A w \in Worker : job[w] = Idle)

\* Mutant of TakeKey: the keys are not sorted by prio.
TakeAnyKey(c) ==
  /\ Splitting /\ frontier = {} /\ seen = {}
  /\ c \in keys
  /\ keys' = keys \ {c}
  /\ frontier' = {c}
  /\ UNCHANGED <<prio, seen, parts, main, poolVars, brokerVars>>

\* keys.pop(0) of the sorted keys.
TakeKey(c) ==
  /\ Splitting /\ frontier = {} /\ seen = {}
  /\ c \in keys /\ \A d \in keys : prio[d] <= prio[c]
  /\ keys' = keys \ {c}
  /\ frontier' = {c}
  /\ UNCHANGED <<prio, seen, parts, main, poolVars, brokerVars>>

\* Mutant of Visit: frontier is not cleared of what has been seen.
VisitAgain(c) ==
  /\ Splitting /\ c \in frontier
  /\ seen' = seen \cup {c}
  /\ frontier' = (frontier \cup Neighbours(c)) \ {c}
  /\ UNCHANGED <<prio, keys, parts, main, poolVars, brokerVars>>

Visit(c) ==
  /\ Splitting /\ c \in frontier
  /\ seen' = seen \cup {c}
  /\ frontier' = (frontier \cup Neighbours(c)) \ (seen \cup {c})
  /\ UNCHANGED <<prio, keys, parts, main, poolVars, brokerVars>>

\* Mutant of Submit: the keys of the part stay among the keys.
SubmitKeeping ==
  /\ Splitting /\ frontier = {} /\ seen # {}
  /\ parts' = parts \cup {seen}
  /\ queue' = Append(queue, RunJob(seen))
  /\ seen' = {}
  /\ UNCHANGED <<prio, keys, frontier, main, job, left, hand, met, unwritten, brokerVars>>

Submit ==
  /\ Splitting /\ frontier = {} /\ seen # {}
  /\ parts' = parts \cup {seen}
  /\ queue' = Append(queue, RunJob(seen))
  /\ keys' = keys \ seen
  /\ seen' = {}
  /\ UNCHANGED <<prio, frontier, main, job, left, hand, met, unwritten, brokerVars>>

SplitEnd ==
  /\ Splitting /\ keys = {} /\ frontier = {} /\ seen = {}
  /\ main' = "wait"
  /\ UNCHANGED <<prio, keys, frontier, seen, parts, poolVars, brokerVars>>

\* Every future has its result.
ReturnAll ==
  /\ main = "wait" /\ queue = <<>> /\ \A w \in Worker : job[w] = Idle
  /\ main' = "returned"
  /\ UNCHANGED <<prio, keys, frontier, seen, parts, poolVars, brokerVars>>

-----------------------------------------------------------------------------
(* The workers.                                                            *)

StartRun(w) ==
  /\ job[w] = Idle /\ queue # <<>> /\ Head(queue).kind = "run"
  /\ job' = [job EXCEPT ![w] = Head(queue)]
  /\ left' = [left EXCEPT ![w] = Items(Head(queue).part)]
  /\ queue' = Tail(queue)
  /\ UNCHANGED <<splitVars, hand, met, unwritten, brokerVars>>

\* call_serializer catches what the serializer raises: the job always ends.
Write(w) ==
  /\ job[w] = Idle /\ queue # <<>> /\ Head(queue).kind = "write"
  /\ unwritten' = [unwritten EXCEPT ![Head(queue).for] = @ - 1]
  /\ queue' = Tail(queue)
  /\ UNCHANGED <<splitVars, job, left, hand, met, brokerVars>>

\* Mutant of Reaches: any component may be next.
ReachesAny(w, c) ==
  /\ job[w] # Idle /\ hand[w] = Idle /\ unwritten[w] = 0
  /\ c \in left[w]

\* The next component of the order of run.
Reaches(w, c) ==
  /\ job[w] # Idle /\ hand[w] = Idle /\ unwritten[w] = 0
  /\ c \in left[w]
  /\ c \in job[w].part => (Dependencies(c) \ {c}) \cap left[w] = {}

RequirementsMet(c) ==
  /\ Requires[c] \subseteq instances
  /\ \A g \in AtLeastOne[c] : g \cap instances # {}

GoPast(w, c) ==
  /\ timed' = timed \cup {c}
  /\ left' = [left EXCEPT ![w] = @ \ {c}]

\* A dependency that is no key of the part, or a key that is in the broker.
NotAttempted(w, c) ==
  /\ Reaches(w, c) /\ (c \notin job[w].part \/ c \in instances)
  /\ GoPast(w, c)
  /\ UNCHANGED <<splitVars, queue, job, hand, met, unwritten,
                 hosted, instances, missing, called, blacklisted, report>>

\* process looks at the broker; the component may then run for any time.
Begin(w, c) ==
  /\ Reaches(w, c) /\ c \in job[w].part \ instances
  /\ hand' = [hand EXCEPT ![w] = c]
  /\ met' = [met EXCEPT ![w] = RequirementsMet(c)]
  /\ UNCHANGED <<splitVars, queue, job, left, unwritten, brokerVars>>

\* Mutant of CanCall: the alarm cannot be set in any thread.
CannotOnHost(c) == ~(hosted /\ c \in Datasources)

\* datasource.invoke sets an alarm on a host, which raises ValueError in any
\* thread but the main one.
CanCall(c) == ~(Pool /\ hosted /\ c \in Datasources)

\* The component in hand has no result.
Without(w) ==
  LET c == hand[w] IN
  /\ c # Idle
  /\ GoPast(w, c)
  /\ hand' = [hand EXCEPT ![w] = Idle]
  /\ UNCHANGED <<splitVars, queue, job, met, unwritten, hosted, instances>>

MissingRequirement(w) ==
  /\ ~met[w] /\ hand[w] \notin Rules
  /\ missing' = missing \cup {hand[w]}
  /\ UNCHANGED <<called, blacklisted, report>>
  /\ Without(w)

CannotCall(w) ==
  /\ met[w] /\ ~CanCall(hand[w])
  /\ UNCHANGED <<missing, called, blacklisted, report>>
  /\ Without(w)

\* The component is called and skips or raises.
Fail(w) ==
  /\ met[w] /\ CanCall(hand[w]) /\ hand[w] \notin Points
  /\ called' = called \cup {hand[w]}
  /\ UNCHANGED <<missing, blacklisted, report>>
  /\ Without(w)

Blacklist(w) ==
  /\ met[w] /\ CanCall(hand[w]) /\ hand[w] \in Datasources \ Points
  /\ called' = called \cup {hand[w]}
  /\ blacklisted' = blacklisted \cup {hand[w]}
  /\ UNCHANGED <<missing, report>>
  /\ Without(w)

\* A result is stored (BLACKLISTED_SPECS may hold names from the start, so the
\* reporter may find it filled whatever was blacklisted since); then the persister is called, and a list is serialized
\* by the pool while the worker waits.
Succeed(w) ==
  LET c == hand[w] IN
  /\ c # Idle /\ (met[w] \/ c \in Rules) /\ CanCall(c)
  /\ instances' = instances \cup {c}
  /\ called' = IF met[w] THEN called \cup {c} ELSE called
  /\ report' = IF c = Reporter THEN blacklisted ELSE report
  /\ \E length \in IF Pool /\ c \in Persist THEN {0, ListLength} ELSE {0} :
       /\ unwritten' = [unwritten EXCEPT ![w] = length]
       /\ queue' = queue \o [i \in 1 .. length |-> WriteJob(w)]
  /\ GoPast(w, c)
  /\ hand' = [hand EXCEPT ![w] = Idle]
  /\ UNCHANGED <<splitVars, job, met, hosted, missing, blacklisted>>

EndRun(w) ==
  /\ job[w] # Idle /\ left[w] = {} /\ hand[w] = Idle /\ unwritten[w] = 0
  /\ job' = [job EXCEPT ![w] = Idle]
  /\ UNCHANGED <<splitVars, queue, left, hand, met, unwritten, brokerVars>>

-----------------------------------------------------------------------------
Main == (\E c \in Graph : TakeKey(c) \/ Visit(c)) \/ Submit \/ SplitEnd \/ ReturnAll

Work(w) ==
  \/ StartRun(w)
  \/ Write(w)
  \/ \E c \in Component : NotAttempted(w, c) \/ Begin(w, c)
  \/ MissingRequirement(w)
  \/ CannotCall(w)
  \/ Fail(w)
  \/ Blacklist(w)
  \/ Succeed(w)
  \/ EndRun(w)

Next ==
  \/ Main
  \/ \E w \in Worker : Work(w)
  \/ main = "returned" /\ UNCHANGED vars

Spec == Init /\ [][Next]_vars

\* The caller and every thread keep running while they have something to do.
Fairness == WF_vars(Main) /\ \A w \in Worker : WF_vars(Work(w))
FairSpec == Spec /\ Fairness

-----------------------------------------------------------------------------
(* Properties.                                                             *)

TypeOK ==
  /\ hosted \in Hosts
  /\ prio \in [Graph -> Int]
  /\ keys \subseteq Graph /\ frontier \subseteq Graph /\ seen \subseteq Graph
  /\ parts \subseteq SUBSET Graph
  /\ main \in {"split", "wait", "returned"}
  /\ queue \in Seq([kind : {"run"}, part : parts] \cup [kind : {"write"}, for : Worker])
  /\ job \in [Worker -> [kind : {"run"}, part : parts] \cup {Idle}]
  /\ left \in [Worker -> SUBSET Component]
  /\ hand \in [Worker -> Component \cup {Idle}]
  /\ met \in [Worker -> BOOLEAN]
  /\ unwritten \in [Worker -> 0 .. ListLength]
  /\ instances \subseteq Component /\ missing \subseteq Component
  /\ timed \subseteq Component /\ called \subseteq Component
  /\ blacklisted \subseteq Datasources /\ report \subseteq blacklisted

Closed(S) == \A c \in S : Neighbours(c) \subseteq S

\* The subgraphs get_subgraphs hands out are the connected components of the
\* graph: disjoint, cut off from each other, none of them divisible, and when it
\* is done they are the whole graph.
PartsAreConnectedComponents ==
  /\ \A P \in parts :
       /\ P # {} /\ Closed(P)
       /\ \A C \in SUBSET Graph : Closed(C) /\ C \cap P # {} => P \subseteq C
  /\ \A P, Q \in parts : P # Q => P \cap Q = {}
  /\ main # "split" => UNION parts = Graph

\* No component is evaluated by two workers, or a second time by a later part.
EvaluatedOnce ==
  [][\A w \in Worker :
       hand[w] = Idle /\ hand'[w] # Idle =>
         hand'[w] \notin timed /\ \A v \in Worker : hand[v] # hand'[w]]_vars

\* One after the other the parts are evaluated "as per the prio": what is
\* blacklisted after the report of BLACKLISTED_SPECS was made is in no part with a
\* key of a higher prio than all of the reporter's part.
ReportComplete ==
  ~Pool /\ Reporter \in instances =>
    \A R \in parts : Reporter \in R =>
      \A c \in blacklisted \ report : \E r \in R : prio[c] <= prio[r]

\* _run: without a root "a host collection in which command and file specs are
\* run"; "parallel" only says "to use parallel execution or not".  When run_all
\* returns every datasource that had its requirements has been called.
HostSpecsCalled ==
  main = "returned" =>
    \A c \in Datasources \cap Graph :
      RequirementsMet(c) => c \in called \cup Given

\* collect returns "the full path to the created tar.gz or workspace": run_all
\* comes back, whatever the components do.
RunAllReturns == <>(main = "returned")

\* All the parts together are one evaluation of the whole graph: whichever worker
\* evaluates a component, and whatever the others do between its look at the
\* broker and its result, it is settled on settled dependencies.
verdict ==
  [c \in Component |->
     CASE c \in Given -> "given"
       [] c \notin Given /\ c \notin timed -> "pending"
       [] c \notin Given /\ c \in timed /\ c \in instances -> "present"
       [] c \notin Given /\ c \in timed /\ c \notin instances /\ c \in missing -> "unmet"
       [] OTHER -> IF c \in Graph THEN "failed" ELSE "untried"]

Evaluated == INSTANCE Evaluation

ImplementsEvaluation == Evaluated!Spec
=============================================================================
