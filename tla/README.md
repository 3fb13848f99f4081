# Verification of insights-core

TLA+ modules about the parts of insights-core whose correctness depends on
order, concurrency or failure: the evaluation of component graphs, their
parallel runs, the way of a file from the host to its parsers, and the client:
the update of its own core, registration, schedule and upload. TLC checks small
instances; TLAPS proves the main properties for every value of the constants.
Paths below are relative to `src/`.

## 1. The system

insights-core evaluates a graph of *components* (datasources, registry points,
parsers, combiners, rules). A component names the components it depends on;
the engine orders them, calls each once on a *broker* that holds the results so
far, and goes on whatever fails. `insights.collect` runs the engine on a host
and writes what registry points hold into an archive; `insights.run` runs it
over a host or such an archive for rules. The *client* wraps a collection: it
updates the core, registers the machine, schedules, collects and uploads, in
phases that the packaged wrapper starts as separate processes.

| Component | State | Operations | Interacts with | Hard behaviour | What makes it correct |
|---|---|---|---|---|---|
| Engine: `run`, `toposort`, `run_components` (`insights/core/dr.py`, `contrib/toposort.py`) | the graph, the order, the broker (`instances`, `missing_requirements`, `exceptions`, `exec_times`) | prune, sort, one round per component | every component; observers | set order differs between runs; five ways to fail; graph edited while it is walked | topological order, cycles found, verdicts never overtaken, errors seen by the registry point's observer |
| Runs of many subgraphs: `get_subgraphs`, `run_incremental`, `run_all`, pool (`dr.py`, `insights/__init__.py`) | keys, frontier, seen; the pool's queue and threads; one broker | split, submit, run, return | the engine, the persister | threads on one broker; jobs inside jobs; alarms in threads | parts are the connected components, each component evaluated once, run ends |
| Persister and hydration (`insights/core/serde.py`, `hydration.py`) | files of the archive, the pool | dehydrate, hydrate | observer of the broker | nested use of the pool; partial archives | what was written is read back |
| Plugin types (`insights/core/plugins.py`) | skips and errors per component, the alarm | `invoke` of datasource, parser, rule | called by the engine | errors of one element of a list; the alarm is state of the process | errors under the right key |
| Specs and registry points (`spec_factory.py`, `specs/`) | registries, context handlers, `IGNORE` | declare a spec set | adds dependencies to the engine | meaning depends on import order | one implementation per context, the newest |
| Content providers (`spec_factory.py`, `util/subproc.py`, `util/streams.py`) | lazily loaded content | validate, load, clean, write | cleaner, filters | failure remembered or repeated | loaded once, nothing written unclean |
| Filters (`insights/core/filters.py`) | filters per component, cache | `add_filter`, `get_filters`, load | specs, providers | stale cache | a later filter is seen |
| Cleaner (`insights/cleaner/`) | mappings that grow over a collection | clean a line, report | providers | replacements inside replaced text | a consistent one-to-one mapping |
| Core update (`insights/client/__init__.py`) | two etag files, `newest.egg`, `last_stable.egg` and their signatures | fetch, verify, install, rotate | server, wrapper | crashes between files, releases between requests | an egg and its signature belong together, no downgrade, no lost update, as long as runs update one after the other |
| Registration (`client/client.py`, `support.py`, `connection.py`) | `.registered`, `.unregistered`, `machine-id`, the inventory | register, unregister, status | upload, scheduling | disk and server disagree | the files tell the server's view |
| Upload (`client/client.py`) | archive, `.lastupload` | retry, record | server | lost answers | at most `retries` attempts, success recorded once |
| Scheduling (`client/schedule.py`) | cron link or timers | schedule, remove | registration | partial failure | registered machines are scheduled |
| Phases and configuration (`client/phase/v1.py`, `client/config.py`) | one configuration per process | the four phases | all of the client | early exits | each phase only after the one before |
| Evaluators, formats (`core/evaluators.py`, `formats/`) | collected responses | observe | the engine | called from threads | every response once |
| Cluster, parsers, combiners, parsr, shell | none, or their own data | sequential functions | the engine | none of the above | unit tests |

## 2. Modules

| Module | Models |
|---|---|
| `Evaluation` | what an evaluation promises, without order, broker or errors: each component gets at most one verdict, on the final verdicts of what it depends on |
| `Dr` | one call of `dr.run` |
| `DrProofs` | theorems about `Dr` |
| `RunAll` | `run_all`: the split into subgraphs, the pool, the shared broker, the persister's nested jobs, the report of blacklisted specs |
| `RunAllProofs` | theorems about the split |
| `RunAllWorkProofs` | theorems about the workers: one owner per component, types, refinement of `Evaluation` |
| `RunAllOutcomeProofs` | theorems about what holds when `run_all` returns, about the report, and that it gets there |
| `CoreUpdate` | runs of the client as far as they touch the core and its signature |
| `CoreUpdateProofs` | theorems about `CoreUpdate` |
| `ClientRun` | runs of the client from phase to phase: registration records, machine-id, timers, upload, the inventory of the server |
| `ClientRunProofs` | theorems about the records and the machine-id |
| `ClientRunOutcomeProofs` | theorems about what a run leaves behind and reports |
| `Filters` | filters of datasources and the cache of what was answered |
| `Collect` | the files of one spec: provided, loaded, redacted, filtered, obfuscated, written, listed, hydrated, filtered again; it extends `Filters` |
| `CollectProofs` | theorems about `Filters` and `Collect` |
| `MCDr`, `MCRunAll`, `MCCoreUpdate`, `MCClientRun`, `MCCollect` | the small instances TLC checks |

`Dr` and `RunAll` are both shown to implement `Evaluation` (a refinement by
`INSTANCE`, the verdict of a component computed from the broker).
`Dr` has the order inside one graph and all kinds of failure; `RunAll` takes
any order the dependencies allow and has the threads. They share the graph's
vocabulary (`Requires`, `AtLeastOne`, `Optional`). What one of their datasources
and the observer that persists it do with the files of a spec is `Collect`;
what a run of the client does before and after a collection is `ClientRun`, in
which the collection is one step that succeeds or fails.

### Dr

One action per step of the code: `PruneGiven`, `PruneLost`, `PruneKeep` are the
three outcomes of a round of the loop at `dr.py:1144`; `SortStart`, `NextWave`,
`Flatten`, `SortEnd` are `toposort` and `toposort_flatten(sort=False)`, whose
sets are listed in any order; each other action is one whole round of
`run_components`, its `finally` block (timing, observers) included, and is named
for how the component ended: not attempted, ignored, missing requirements,
success, `None`, skip, content failure, blacklisted, any other exception, or a
rule's "skip" response. A parser over a list records the exceptions of single
elements under its own name and may go on to a result (`SucceedInPart`) or give
none (`ElementsFail`). A registry point takes the result of its last declared
implementation. Results are the component that made them, or `None`; exceptions
are a kind and an author; `observed` is what an observer (the persister) found
when it was called. `Persist` are the components it writes: it may fail to, and
then adds an exception beside the result (`Observe`). Texts, tracebacks and times are left out. Broker keys that
no component has (strings) are not distinguished from contexts.

### RunAll

`TakeKey`, `Visit` and `Submit` are the loop of `get_subgraphs`; without a pool
the generator waits for its caller, so the three need the worker to be idle.
The pool is a first-in-first-out queue and threads. A worker goes past the items
of its part; `Begin` is the look `process` takes at the broker, and the end of
the component (`Succeed`, `Fail`, `Blacklist`, `CannotCall`,
`MissingRequirement`) comes any time later. `Succeed` includes the observer: a
component the persister writes whose result is a list puts one job per element
in the queue of the same pool, and its worker waits for them. `CanCall` is the
alarm of `datasource.invoke`, which only the main thread may set. The priority
of a key is the one of an arbitrary one of its registry points, as
`next(iter(...))` of a set gives it. `IGNORE`, `set_enabled` and the kinds of
exception are left to `Dr`.

### CoreUpdate

The two etag files, the eggs and signatures are functions from `File`; a file
holds a release, nothing, or the `Partial` result of a copy that was begun. Each run
has its own `pc`, the `file` it is about, the etag it asked with and what it has
in its temporary directory, and the steps of any number of runs interleave: a run
only writes its pid (`client/__init__.py:665`), which keeps nobody away. The
steps of the code that read or write a shared file are separate actions, so that
another run, or `Stop` (a crash or an error of the file system), falls between any
two of them. Opening a file for writing empties it before the data is there; the
few bytes of an etag are written at once. An egg is copied in two steps, and who copies
into a file while another one does leaves either content or a mixture (`torn`);
`shutil.move` within one directory is a rename, so a copy that is going on
follows the file it opened (`into`). The server releases, or goes back to an
older release, at any time, also between the request for the core and the one for
the signature. A signature verifies a core if both are of one release; without
the option `gpg` nothing is checked. Which egg the wrapper runs the phases from is
not modelled, nor is the choice of the URL.

`disturbed`, `overlapped` and `withdrawn` are history: no guard reads them. The
code does not keep an egg and its signature together, nor an older core from
replacing a newer one, when two runs update or rotate at one time or the server goes back;
so the properties speak of the time before that, and say so. `Busy` is what counts
as updating: from the first request to the end of `install`, and `rotate_eggs`.
Collections that overlap, with each other or with another run's update, are not excluded.

### ClientRun

Any number of runs, each with a command and with or without `legacy_upload`.
`pc` says where a run is in `pre_update`, `post_update` or `collect_and_output`,
and `todo` what its current call has still to put on disk or to remove. The
calls are constants of the module in the order of the code (`WriteRegistered`,
`WriteUnregistered`, `Forget`, `Identify`, ...); `Write` does one step of one,
`WriteFails` gives it up (the phase fails, or goes on where the code drops the error:
`systemctl`, the record of an accepted upload, `handle_fail_rcs` after a 412), `Kill` ends the run between any two.
A file is there or
not; of the contents only the machine-id counts. The records exist in two
directories, of which the code only ever reads the first: one name stands for
both. `timers` is the cron link or the timers of systemd.

The answers of the server are choices: it knows the machine or not (`Check`), it
does not answer or answers with an error (`CheckFails`), it takes an archive and
the client does not hear of it (`Upload` with `Retry`), it creates a machine and
the answer is lost (`Create` to `bad`), it answers with an error the client does
not look at (`CreateRefused`). `Delist` is somebody who removes the machine on
the server. A request is made under the machine-id of its moment; one that is
named by the machine-id makes it when it is missing (`NameRequest`).
`vouched`, `accepted`, `refused` and `overlapped` are history: no guard reads
them. Nothing in the code keeps two runs apart, so runs overlap; the properties
about records are stated for the time before they first do, since after that
they do not hold (a run that unregisters while another uploads is undone by it).

### Filters and Collect

`Filters` has `FILTERS` and `CACHE` of `filters.py`. `get_filters` walks
the dependents and lets the one it meets last decide on the number of
lines, which `Answers` gives as a choice among the most remote.

In `Collect`, `Register` is a plugin or anybody who asks for filters,
`MakeProviders` the `glob_file`, and then each file goes its own way: `Load`,
and for each line, last to first, `Discard` or `Keep` (redaction, then the
allowlist, which `Charge` uses up), and an address at a time `Find` or
`NotFound`, `Allocate`, `Insert`, the steps of `_ip2db` between which another
thread may run. `Write` and `Dehydrate` end the host's part, `Hydrate` and
`FilterLine` are the analysis. At most `Workers` files are worked on at once.
A line is a record: the keys it contains, whether it is redacted, its addresses.
IPv4 addresses stand for the obfuscators that keep a database. What they, host
names and keywords do to the keys of a line is its field `shown`: the keys its
text has once it is written, which may be fewer or more than it had on the host.
The first filtering looks for `keys`, the second for `shown`. That an address may be
part of another one's text is abstracted from.

## 3. Runs

| Run | Instance | Shows |
|---|---|---|
| `dr_host` | a context, a helper, three implementations of a point (one ignored on the host), a parser, a rule | order, verdicts, latest implementation, errors observed, broker only grows, the run returns, `Evaluation` implemented |
| `dr_archive` | a serialized archive that holds the point and an implementation, with a cycle that the pruning breaks; skips stored | the cycle is not reported, verdicts stand and `Evaluation` is implemented for what is left after pruning |
| `dr_keyerror` | an archive that holds a point and its parser | violated: `NoKeyError` |
| `runall_serial` | three parts of two priorities, no pool, on a host or elsewhere | parts are the connected components, the report of blacklisted specs comes after what it reports, every datasource is called, `Evaluation` implemented |
| `runall_pool` | three threads, two parts that persist a list of two, on a host or elsewhere | no component is evaluated twice under any interleaving, `run_all` returns while a thread is to spare, `Evaluation` implemented |
| `runall_nested` | two threads, two such parts | violated: `RunAllReturns` |
| `update` | two runs that interleave, each any number of times, two releases | pairs verify unless a run was disturbed, no downgrade, as long as no two update at one time |
| `update_none` | the same | violated: `NoneIfNoUpdate` |
| `client` | two runs with any of thirteen options, on a new machine or a registered one | never both records; a registered machine has a machine-id the server vouched for; a run that reports success did upload; an unregistration leaves nothing; nobody puts a record back unasked; the machine-id of a registered machine stays; every run ends |
| `client_refused` | the same | violated: `RegisteredByServer` |
| `collect` | two files, two keys, a point and its implementation, one thread | own filters are never stale; the lines that were asked for survive the cleaner and the second filtering, no others do; replacements are one to one, complete and can be traced back; a collection ends |
| `collect_pool` | the same, two threads | violated: `Reversible` |

Every property of a passing run is broken by a mutant, an operator next to the
definition it changes ("Mutant of ...").

**Bounds.** The graphs have seven to nine components: enough for every kind of
component, a point whose newest implementation fails, two components that
are independent, a dependency outside the graph and a rule over a parser.
`runall_pool` needs one thread more than the parts that persist lists, and
`runall_nested` as many as those parts; the threads of a pool are interchangeable.
`ListLength` is two: a list of one already blocks, two show that jobs of two lists mix.
`update` has two runs, of which the one finds what the other left or overlaps with
it, and two releases, an older and a newer one; how often the runs are repeated,
stopped and the server changes is not bounded (4.45 million states). Without
`~overlapped`, or without `~withdrawn` in `NeverDowngraded`, TLC finds the properties violated
on this instance, so the cases they exclude do occur in it.
`client` has two runs: one leaves the disk behind that the other finds,
whichever way it ended, or the two overlap; what a third finds is what one of them
left. Its thirteen options are every command, and the legacy ones where
`legacy_upload` makes a difference; `Retries` is two, one attempt that is repeated
and one that is the last. `collect` has two files for the database they
share; up to four lines with one, two or no keys and a limit of two, so that a
key is charged, used up and found dead; an address twice in a line and one that
lies in the range of replacements (`StartIp` is 10); a line that obfuscation takes a key
from and one it brings a key into. Without `NotBroughtIn`, its condition on the
latter, TLC finds `AnalysisSeesNeeded` violated.

**Fairness.** `Dr` has weak fairness of `Run`: `run` is a function call, and
every component it calls ends (a datasource on a host has an alarm). `RunAll`
has weak fairness of the caller and of each thread, for the same reasons.
`CoreUpdate` states no liveness. `ClientRun` has weak fairness of every run that
was started: it is a process of its own, and its requests and commands have
timeouts; nothing is assumed of when runs start, of `Kill` or of the server.
`Collect` has weak fairness of the work on files together, not of each thread,
and of the metadata that is written when all are done.

Deadlock is checked except in `runall_nested`, whose subject it is, and in the
runs of `ClientRun` and `Collect`, which really stop: when every run has
ended, or when the parsers have their lines.

## 4. What the runs found

* `dr_keyerror`: the pruning loop of `run` pops keys from the dict and then
  indexes it by a snapshot of its keys; with an archive that holds a point and
  the parser of it, `run` raises `KeyError` in one order of the dict. It cannot when
  no component of the archive depends on another (`NoKeyErrorUnrelated`).
* `runall_nested`: the persister uses `pool.map` from inside jobs of the same
  pool. When all its threads wait there, a parallel collection never returns. They
  cannot when there is one thread more than connected parts that persist lists
  (`NeverAllWait`), and the run has as many as such parts.
* `update_none`: the etag of a core is cached before the core is installed; when
  the request for its signature fails once, the client is told that nothing is
  new until the next release. No crash and no second run is needed. The proof of
  `NoneIfAnswered` showed two more ways: the server's release changes between the answers for
  the core and for its signature, or two runs update at one time and one asks
  before the other has installed what it cached the etag of. With none of them, and
  no run stopped half-way or told not to check signatures, the docstring is right.
* `client_refused`: `InsightsConnection.register` ignores that `create_system` was
  answered with an error, so a legacy registration that the server refuses is
  recorded as one. Off the legacy API that cannot happen (`RegisteredOffLegacy`).
* `collect_pool`: `_ip2db` computes the next free address and inserts it later
  without a lock; two threads give one replacement to two addresses, and the
  report knows only one of them. The guard that would prevent parallel
  collection reads `obfuscate`, which the configuration has reset by then.

Two more became clear while modelling, and are part of the models: a
dependency may return `None` and still counts as present (`dr.py:1090`), though
`ComponentType` promises that a required parameter is not `None`
(`dr.py:654`); and with a pool on a host no datasource is called, since
`signal.signal` raises in a thread (`plugins.py:109`), which is the assumption of
theorem `SpecsCalled`.

## 5. Proofs

**`DrProofs`**, for every component graph that satisfies the assumptions of
`Dr` (each is a fact about how components are registered). The inductive
invariant is `TypeOK`, `PhaseInv` and `BrokerInv`. `PhaseInv` says that what
`toposort` has left, its current wave and the order split the items of the graph,
that the dependencies of what is given out come before it, and that the loop has
timed exactly what is before `pos`; without it nothing is known of the components
the loop has passed. `BrokerInv` says that results that were not provided, and
missing requirements, belong to components the loop has passed. Together they
give the topological order, the stability of every verdict, the latest
implementation of a point, the observed errors, that the broker only grows, and the step simulation of
`Evaluation`. That `toposort` raises for exactly the graphs with a cycle uses
the earliest place of the order that holds an item of the cycle.

Six more theorems follow `run` to its end. `OutcomeInv` says that what the loop has tried
left a trace in the broker, that nobody with missing requirements has an exception, and
that beside a result stands an exception of its own only where an element of a
parser's list failed or the persister could not write it (`Beside`). With the stability
of the verdicts it gives `EveryAttemptAccounted`: with `store_skips` nothing that was tried
is unaccounted for. With `EveryItemTimed` (no item is passed over) that the
returned `missing_requirements` are exactly what the final broker lacks
(`MissingExactly`), though each was computed from an earlier one. `PruneInv` relates the
dict to the keys still to visit; hence the pruned graph does not depend on the
order of the visit, although the loop reads the dict it edits (`PruningOrderImmaterial`), and
`KeyError` needs an archive with two related components (`NoKeyErrorUnrelated`).
`EveryStepShortens` is termination: `StepsLeft` counts the keys to prune, the items
`toposort` has left twice, those of its wave once, and the places of the order
still to come; it is bounded and each step lowers it.

**`RunAllProofs`**, for every graph and pool. Being neighbours is symmetric
because the walk goes both ways along an edge, so no walk from outside a closed
set enters it. `SplitInv` says that the keys, the walk and the parts make up the
graph and are disjoint, that what was visited has its neighbours found, and that
every closed set that meets what was found contains it. A part handed out is
then closed, connected and disjoint from the others.

**`RunAllWorkProofs`**, for every graph, pool, number of threads and
interleaving. `WorkInv` has five parts: the types; a part in the queue is
untouched, there once, and with no worker (`Queued`); no two workers have the
same part, and the items of a part that are not left have been gone past
(`Owned`); what `get_missing_dependencies` said of the component in hand is
still so (`InHand`); results and missing requirements are of components that have
been gone past (`Settled`). `InHand` is the heart: between the look at the broker
and the end of a component other threads store results, but each is of a
component that had not been gone past, while every dependency of the one in hand
has been. The items of a part that are keys of the graph are the part
(`ItemsInGraph`, from `SplitInv`), so what one worker goes past is in no other
part. `EvaluatedOnce` and the step simulation of `Evaluation` follow. For the
types, the jobs of a worker's list in the queue are counted (`CountInv`): they
are as many as the elements it waits for, so the count never goes below zero.

**`RunAllOutcomeProofs`**. A part is in the queue, with a worker, or has been gone
past (`Accounted`), hence nothing is lost when `run_all` returns. With that,
`HostSpecsCalled` holds whenever there is no pool or no host: the theorem's
assumption excludes exactly the alarm in threads, which is then the only
reason a datasource is not called. `ReportComplete` rests on `Tops`: a part holds a
key whose prio is at least that of everything not yet evaluated outside of it,
because the keys are taken in the order of their prio and a part is done before
the next is split off. It needs the reporter not to be provided from outside.

What the threads may do to the result: the other `OutcomeInv` says that a component that
was gone past has its verdict on the broker as it is now, so the returned broker is an
outcome (`IsOutcome`) of the graph and of the components that failed
(`BrokerIsOutcome`). Two outcomes with the same failures are equal, by the least
component on which they differ in an acyclic graph (`OutcomeDecided`). Whatever differs
between two runs thus comes from what components did, never from the split or the schedule.

What is left of liveness without fairness: a waiting thread has a part that persists
lists (`WaitInv`), no two have the same one, so by the pigeonhole principle one is free
if there are enough (`NeverAllWait`); a free thread always has something to do, for in an acyclic graph
some component left waits for no other (`SomebodyGoesOn`; its predicates restate the
guards, as `ENABLED` is out of reach); and each step is one less to take
(`EveryStepAdvances`), lexicographically in the caller's keys, parts and walk, then in the
parts not taken, items left, components in hand, jobs and elements. So a
`run_all` with fair threads enough returns; only the step from these three to
`RunAllReturns` is TLC's.

**`CoreUpdateProofs`**, for any number of runs and of releases. `SoloInv` says that until
two runs have updated or rotated at one time at most one is `Busy`, none copies
into another's file, and who is not updating has nothing in a temporary directory
(`BusyAlone` takes from it that the run that makes a step is the one). `PairInv`
says what that run has done to the pair it is replacing at each `pc` (`Stage`), and
that with no such run egg and signature match; a step is proved to preserve it
by looking at the run that makes it only. `AgeInv` says that nothing is newer than
the server's release and what was fetched is not older than what is installed; stopped
runs do not matter to it. `StableNeverOlder` is the same seen from `last_stable.egg`, step by step.
`InstalledInv` says that both etags are of the core installed last (`Latest`), but for
the one being installed (`Progress`); it is inductive if the signature is answered and the
server's release stays between the two answers of one update (`Answered`, a hypothesis about the
steps of the behaviour), and a core that is reported unmodified is then the installed one.
What happens after two runs have overlapped is in the model, and nothing is proved of it
but the types.

**`ClientRunProofs`**, for any number of runs, any sets of options and any number
of retries. The inductive invariant is `RecordInv`: for each place of a run, and for
what its current call has still to do, what the disk and the server are known to be
(`Pend`) as long as no two runs have overlapped. The opposite of a record is removed
before the record is written; a machine-id is made or
removed only while there is no `.registered`. `NeverBothRecords` and `RegisteredIsVouched`
are its conjuncts; `IdentityKept` follows for each step from the last point.

**`ClientRunOutcomeProofs`**. `OutcomeInv` has three parts. `Fit` says which calls
and options belong to which place of the phases. `Done` says what a run that got so
far has behind it: its archive was accepted and `.lastupload` is written; it holds
with overlapping runs too, as nothing removes the one or the other. `Sole` says
what a run may rely on as long as none have overlapped: the records and the machine-id are
as it left them. By `Fit` only a legacy run comes to a creation the server can refuse
unnoticed, hence `RegisteredOffLegacy`.

**`CollectProofs`**, for every set of files and lines, every limit of lines and
every range of replacements. `FiltersInv`: what the cache answers for a component
contains the component's own filters, whatever order they are registered in.
`FilterInv`: a key has at least as many lines taken as it was charged, and a line that was
passed over with a key came after enough of them; the upper bound comes from
`Division`, which gives each line that was kept a key it was charged to. The second
filtering (`SeenInv`) is given the lines of the first, so it keeps those in which the
key is still to be found, unless the key now is in lines that had it not on the host and
pays for them.
`DbInv`: the replacements in use are an interval from `StartIp` on.
`TextInv`: each address of a line that was taken is a replacement, 127.0.0.1, or
still to be replaced, whatever the number of threads, hence `NoOriginalLeft`. With
`Workers = 1`, the assumption of `ReplacedOneToOne` and `TracedBack`, the address
that is being replaced is the only one (`Alone`) and has no replacement yet
(`Owned`), so replacements are one to one; and as an address from `StartIp` on that
is a replacement is not replaced again, what stands in the text leads back to the
original (`Traced`). With two threads both fail: that is `collect_pool`.
`ReplacementsStand` says the same of time: the database only gets new entries.
`CollectionShortens` needs no such assumption: each step of the work on files brings one file
nearer to its end (its turn, its line, the addresses left in it, the part of
their replacement) and leaves the others alone, so two threads spoil each other's
replacements but cannot keep each other from ending.

All theorems rest on the named assumptions of the modules. Those that assume more
say so in their statement:

| Theorem | Assumption | Why the code justifies it, or what happens otherwise |
|---|---|---|
| `NoKeyErrorUnrelated` | no component of the archive depends on another one of it | otherwise `dr_keyerror` |
| `EveryStepShortens`, `NeverAllWait`, `SomebodyGoesOn` | there are finitely many components | a dict has |
| `SpecsCalled` | no pool, or not on a host | otherwise the alarm |
| `ReportsComplete` | the reporter is not provided from outside | it is a component of the graph that `run_all` evaluates |
| `NeverAllWait`, `SomebodyGoesOn` | no pool, or enough threads | otherwise `runall_nested` |
| `OutcomeDecided`, `SomebodyGoesOn` | the graph is acyclic | otherwise `toposort` raises |
| `PairsCorrect`, `NotDowngraded`, `StableNeverOlder`, `NoneIfAnswered` | no two runs update or rotate at one time (`overlapped`, part of what they state) | a timer starts one run, a user may start another at any time, and no lock keeps them apart; when they meet, TLC shows egg and signature of two releases and an older core over a newer one |
| `NotDowngraded`, `StableNeverOlder` | the server does not go back (`withdrawn`, part of what they state) | otherwise the older release is installed, as the code intends |
| `PairsCorrect`, `NoneIfAnswered` | no run was stopped half-way or told not to check signatures (`disturbed`, part of what they state) | otherwise an egg is left without its signature |
| `NoneIfAnswered` | every step satisfies `Answered` | otherwise `update_none` |
| `AnalysisSees` | the number of lines is the same in the analysis, and obfuscation brought the key into no other line (part of what it states) | otherwise the limit is used up by those lines |
| `RegisteredOffLegacy` | no run uses the legacy API | otherwise `client_refused` |
| `ReplacedOneToOne`, `TracedBack`, `ReplacementsStand` | one thread | otherwise `collect_pool` |

Every safety property and refinement that a passing run checks is also a
theorem. Only model-checked: liveness under fairness (`RunReturns`, `RunAllReturns`,
`RunsEnd`, `CollectionEnds`), which is out of the prover's reach, and what the
violated runs show. Proved of the first two and of the last are the parts without fairness: the
measures (`EveryStepShortens`, `EveryStepAdvances`, `CollectionShortens`), that nothing is left
out at the end (`EveryItemTimed`, `NothingLost`), and for `run_all` that it does
not stand still. `RunsEnd` has no such measure yet: a run that overlaps
with another may have to make again what that one removed.

## 6. Plan

Done: `Evaluation`, `Dr`, `RunAll`, `CoreUpdate`, `ClientRun`, `Filters`,
`Collect`, and their theorems. What could follow:

1. `SpecSet`: registration of spec sets in any import order, context handlers and
   `IGNORE`, as the source of the constants of `Dr`. Abstract specification: on
   each context the newest implementation that handles it is the only one that may run.
2. `ClientRun` composed with `CoreUpdate`: which core each phase runs from.
3. `Collect` with the obfuscators of hostnames, MAC addresses and IPv6, which keep
   a database in the same way, and with providers that run commands.

## 7. Not modelled

* Parsers, combiners, rules and `parsr`: by far the most lines of the repository.
  They are sequential functions from text to data without state that outlives a
  call; their tests compare texts with data, which a model of them would only repeat.
* `contrib/`, `ruamel_yaml`, `gnupg` and other vendored code, except `toposort`,
  which is part of `Dr`.
* Evaluators, formats, cluster evaluation, shell, command line and archive tooling:
  they observe a broker or start a run, and print or pack what they find.
* The registration of specs (`spec_factory.py`, `specs/`), whose result is the
  constants `Requires`, `Optional`, `AtLeastOne` and `Ignore`; and how `config.py`
  merges its sources, whose result is the options of `ClientRun`.
* In `plugins.py`, where `parser.invoke` puts the skip of one element of a list.
* In content providers: commands, containers and streams; a provider of `Collect`
  is a file, which can be read or not.
* In filters: writing them to a file and reading them back.
* In the cleaner: that addresses are replaced by their text. `line.replace`
  (`cleaner/ip.py:81`, `121`) rewrites an address also where it is part of another
  one; the code replaces the longer ones first, but passes over 127.0.0.1, which is
  rewritten with an address that is part of it. In `Collect` addresses are atoms, and
  the properties say nothing of that case. Nor the order of obfuscators of different kinds, and the `RuntimeError` of a dict that
  changes while another thread walks it.
* In the client: what the server's answers say beyond success, failure and
  silence, the permissions of files, and the log.
