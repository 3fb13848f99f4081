------------------------------ MODULE DrProofs ------------------------------
(***************************************************************************)
(* Proofs about module Dr, for every component graph.                      *)
(***************************************************************************)
EXTENDS Dr, FiniteSetTheorems, WellFoundedInduction, TLAPS

\* The items given out so far, and those the loop has gone past.
Given == {order[i] : i \in 1 .. Len(order)}
Past == {order[i] : i \in 1 .. pos - 1}

\* Nothing has been evaluated yet.
Untouched ==
  /\ pos = 1 /\ timed = {} /\ missing = {}
  /\ instances = [c \in Component |-> IF c \in Seed THEN c ELSE Absent]
  /\ exceptions = [c \in Component |-> {}]

\* Toposort: what is left, the current wave and the order split the items, and
\* the order never puts a dependency after its dependent.
SortInv ==
  /\ Items = left \cup wave \cup Given
  /\ left \cap wave = {} /\ left \cap Given = {} /\ wave \cap Given = {}
  /\ \A c \in wave : SortDeps(c) \subseteq Given
  /\ \A j \in 1 .. Len(order) : \A d \in SortDeps(order[j]) :
        \E i \in 1 .. j - 1 : order[i] = d
  /\ \A i, j \in 1 .. Len(order) : order[i] = order[j] => i = j

\* Where the engine stands.
PhaseInv ==
  /\ pc \in {"prune", "sort", "keyerror"} => order = <<>> /\ wave = {} /\ left = {}
  /\ pc \notin {"run", "done"} => Untouched
  /\ pc \in {"sorting", "run", "done"} => SortInv
  /\ pc \in {"run", "done"} => left = {} /\ wave = {}
  /\ pc \in {"run", "done"} => timed = Past
  /\ pc = "cyclic" => /\ left # {} /\ left \subseteq Items
                      /\ \A c \in left : SortDeps(c) \cap left # {}

\* Where the results in the broker come from.
BrokerInv ==
  /\ \A c \in Component : InBroker(c) => c \in Seed \/ c \in timed
  /\ \A c \in Seed : instances[c] = c
  /\ missing \subseteq timed
  /\ missing \subseteq components
  /\ \A c \in Component \ Delegates : InBroker(c) => c \in Seed

IInv == TypeOK /\ PhaseInv /\ BrokerInv

USE DEF Kinds

-----------------------------------------------------------------------------
LEMMA TypeInit == Init => TypeOK
  BY ComponentAssumption DEF Init, TypeOK

\* RegistryPoints names registry points only.
LEMMA RegistryPointsType ==
  ASSUME NEW c \in Component
  PROVE  RegistryPoints[c] \subseteq Points
  BY DEF RegistryPoints

\* Recording an exception keeps the type of broker.exceptions.
LEMMA RaiseType ==
  ASSUME NEW es \in [Component -> SUBSET Exceptions], NEW cs, NEW e \in Exceptions
  PROVE  Raise(es, cs, e) \in [Component -> SUBSET Exceptions]
  BY DEF Raise

LEMMA SortDepsType ==
  ASSUME NEW c \in Component
  PROVE  SortDeps(c) \subseteq Component
  BY ComponentAssumption DEF SortDeps, Dependencies

LEMMA ItemsType == ASSUME TypeOK PROVE Items \subseteq Component
  BY SortDepsType, ComponentAssumption DEF Items, TypeOK, Delegates

LEMMA ExceptionType ==
  ASSUME NEW c \in Component, NEW k \in {"content", "blacklisted", "skip", "error", "write"}
  PROVE  [by |-> c, kind |-> k] \in Exceptions
  BY DEF Exceptions

\* Recording a skip, or the exceptions of elements, keeps the type too.
LEMMA SkippedType ==
  ASSUME NEW es \in [Component -> SUBSET Exceptions], NEW c \in Component
  PROVE  Skipped(es, c) \in [Component -> SUBSET Exceptions]
  BY RaiseType, ExceptionType DEF Skipped

LEMMA ElementErrorsType ==
  ASSUME TypeOK, NEW c \in Component, NEW kinds \in ElementKinds
  PROVE  ElementErrors(c, kinds) \in [Component -> SUBSET Exceptions]
<1>. DEFINE new == {[by |-> c, kind |-> k] : k \in kinds}
<1>1. new \subseteq Exceptions
  BY ExceptionType DEF ElementKinds
<1>2. exceptions[c] \cup new \subseteq Exceptions /\ exceptions \in [Component -> SUBSET Exceptions]
  BY <1>1 DEF TypeOK
<1>. QED  BY <1>2 DEF ElementErrors

\* The observers keep the types of what they note.
LEMMA ObserveType ==
  ASSUME TypeOK, NEW c \in Component, NEW es \in [Component -> SUBSET Exceptions],
         Observe(c, es)
  PROVE  /\ exceptions' \in [Component -> SUBSET Exceptions]
         /\ observed' \in [Component -> SUBSET Exceptions]
<1>1. exceptions' \in [Component -> SUBSET Exceptions]
  <2>1. [by |-> c, kind |-> "write"] \in Exceptions
    BY ExceptionType
  <2>2. Raise(es, {c}, [by |-> c, kind |-> "write"]) \in [Component -> SUBSET Exceptions]
    BY <2>1, RaiseType
  <2>. QED  BY <2>2 DEF Observe
<1>2. observed' \in [Component -> SUBSET Exceptions]
  BY DEF Observe, TypeOK
<1>. QED  BY <1>1, <1>2

\* The finally block keeps the types of what it assigns.
LEMMA FinallyType ==
  ASSUME TypeOK, NEW c \in Component, AtComponent(c), Finally(c)
  PROVE  /\ pc' = pc /\ components' = components /\ todo' = todo
         /\ left' = left /\ wave' = wave /\ order' = order
         /\ timed' \subseteq Component
         /\ pos' \in 1 .. Len(order') + 1
  BY DEF TypeOK, AtComponent, Finally, graphVars, sortVars

\* A set of natural numbers has a least element.
LEMMA LeastNatural ==
  ASSUME NEW T \in SUBSET Nat, T # {}
  PROVE  \E n \in T : \A m \in T : n <= m
<1>1. PICK n \in T : \A m \in T : ~ (<<m, n>> \in OpToRel(<, Nat))
  BY NatLessThanWellFounded, WFMin
<1>2. \A m \in T : ~ (m < n)
  BY <1>1 DEF OpToRel
<1>. QED  BY <1>2

\* A point that is invoked has an implementation in the broker to choose.
LEMMA LatestExists ==
  ASSUME TypeOK, NEW c \in Points, RequirementsMet(c)
  PROVE  \E d \in Dependencies(c) :
           /\ InBroker(d)
           /\ \A e \in Dependencies(c) : InBroker(e) => Rank[d] <= Rank[e]
<1>. DEFINE There == {d \in Dependencies(c) : InBroker(d)}
            Ranks == {Rank[d] : d \in There}
<1>1. There \subseteq Component /\ There # {}
  <2>1. Dependencies(c) \subseteq Component
    BY ComponentAssumption DEF Points, Dependencies
  <2>2. \E d \in Dependencies(c) : InBroker(d)
    BY PointAssumption DEF RequirementsMet
  <2>. QED  BY <2>1, <2>2
<1>2. Ranks \subseteq Nat /\ Ranks # {}
  BY <1>1, ComponentAssumption
<1>3. PICK r \in Ranks : \A s \in Ranks : r <= s
  BY <1>2, LeastNatural
<1>. QED  BY <1>3

LEMMA LatestType ==
  ASSUME TypeOK, NEW c \in Points, RequirementsMet(c)
  PROVE  Latest(c) \in Component /\ InBroker(Latest(c))
<1>1. Dependencies(c) \subseteq Component
  BY ComponentAssumption DEF Points, Dependencies
<1>2. Latest(c) \in Dependencies(c) /\ InBroker(Latest(c))
  BY LatestExists DEF Latest
<1>. QED  BY <1>1, <1>2

LEMMA TypeNext == TypeOK /\ [Next]_vars => TypeOK'
<1> SUFFICES ASSUME TypeOK, [Next]_vars PROVE TypeOK'
  OBVIOUS
<1> USE DEF graphVars, sortVars, brokerVars
<1>1. CASE UNCHANGED vars
  BY <1>1 DEF TypeOK, vars
<1>2. CASE Prune
  BY <1>2 DEF Prune, PruneGiven, PruneLost, PruneKeep, PruneEnd, TypeOK
<1>3. CASE Sort
  <2>1. CASE SortStart
    BY <2>1, ItemsType DEF SortStart, TypeOK
  <2>2. CASE NextWave
    BY <2>2 DEF NextWave, Free, TypeOK
  <2>3. ASSUME NEW c \in Component, Flatten(c) PROVE TypeOK'
    <3>1. c \in wave /\ order' = Append(order, c)
      BY <2>3 DEF Flatten
    <3>2. order' \in Seq(Component) /\ Len(order') = Len(order) + 1
      BY <3>1 DEF TypeOK
    <3>. QED  BY <2>3, <3>2 DEF Flatten, TypeOK
  <2>4. CASE SortEnd
    BY <2>4 DEF SortEnd, TypeOK
  <2>. QED  BY <1>3, <2>1, <2>2, <2>3, <2>4 DEF Sort
<1>4. ASSUME NEW c \in Component, RunComponent(c) PROVE TypeOK'
  <2>. DEFINE Ok == /\ instances' \in [Component -> Component \cup {Absent, None}]
                    /\ missing' \subseteq Component
                    /\ exceptions' \in [Component -> SUBSET Exceptions]
                    /\ observed' \in [Component -> SUBSET Exceptions]
                    /\ blacklisted' \subseteq Points
                    /\ AtComponent(c) /\ Finally(c)
  <2>0. exceptions \in [Component -> SUBSET Exceptions]
    BY DEF TypeOK
  <2>s. ASSUME AtComponent(c), SkipRaised(c) PROVE Ok
    <3>1. Skipped(exceptions, c) \in [Component -> SUBSET Exceptions]
      BY <2>0, SkippedType
    <3>. QED  BY <2>s, <3>1, ObserveType DEF SkipRaised, TypeOK
  <2>v. ASSUME AtComponent(c), NEW v \in Component \cup {Absent, None}, Store(c, v) PROVE Ok
    <3>1. instances' \in [Component -> Component \cup {Absent, None}]
      BY <2>v DEF Store, TypeOK
    <3>. QED  BY <2>v, <2>0, <3>1, ObserveType DEF Store, TypeOK
  <2>1. CASE NotAttempted(c)
    <3>. Ok
      BY <2>1, <2>0, ObserveType DEF NotAttempted, TypeOK
    <3>. QED  BY FinallyType DEF TypeOK
  <2>2. CASE SkipIgnored(c)
    <3>. Ok
      BY <2>2, <2>s DEF SkipIgnored
    <3>. QED  BY FinallyType DEF TypeOK
  <2>3. CASE MissingRequirement(c)
    <3>. Ok
      BY <2>3, <2>0, ObserveType DEF MissingRequirement, TypeOK
    <3>. QED  BY FinallyType DEF TypeOK
  <2>4. CASE SkipResponse(c)
    <3>. Ok
      BY <2>4, <2>v DEF SkipResponse
    <3>. QED  BY FinallyType DEF TypeOK
  <2>5. CASE Succeed(c)
    <3>. Ok
      BY <2>5, <2>v DEF Succeed
    <3>. QED  BY FinallyType DEF TypeOK
  <2>6. CASE ReturnNone(c)
    <3>. Ok
      BY <2>6, <2>v DEF ReturnNone
    <3>. QED  BY FinallyType DEF TypeOK
  <2>7. CASE PointSucceed(c)
    <3>1. Latest(c) \in Component
      BY <2>7, LatestType DEF PointSucceed, Invoked
    <3>. Ok
      BY <2>7, <2>v, <3>1 DEF PointSucceed, TypeOK
    <3>. QED  BY FinallyType DEF TypeOK
  <2>8. CASE Skip(c)
    <3>. Ok
      BY <2>8, <2>s DEF Skip
    <3>. QED  BY FinallyType DEF TypeOK
  <2>9. CASE ContentFailure(c)
    <3>. DEFINE at == IF c \in Datasources THEN RegistryPoints[c] ELSE {c}
                recorded == Raise(exceptions, at, [by |-> c, kind |-> "content"])
    <3>1. recorded \in [Component -> SUBSET Exceptions]
      BY <2>0, ExceptionType, RaiseType
    <3>2. Skipped(recorded, c) \in [Component -> SUBSET Exceptions]
      BY <3>1, SkippedType
    <3>. Ok
      BY <2>9, <3>2, ObserveType DEF ContentFailure, TypeOK
    <3>. QED  BY FinallyType DEF TypeOK
  <2>10. CASE Blacklisted(c)
    <3>1. Raise(exceptions, {c}, [by |-> c, kind |-> "blacklisted"])
            \in [Component -> SUBSET Exceptions]
      BY <2>0, ExceptionType, RaiseType
    <3>. Ok
      BY <2>10, <3>1, ObserveType, RegistryPointsType DEF Blacklisted, TypeOK
    <3>. QED  BY FinallyType DEF TypeOK
  <2>11. CASE Fail(c)
    <3>1. Raise(exceptions, {c} \cup RegistryPoints[c], [by |-> c, kind |-> "error"])
            \in [Component -> SUBSET Exceptions]
      BY <2>0, ExceptionType, RaiseType
    <3>. Ok
      BY <2>11, <3>1, ObserveType DEF Fail, TypeOK
    <3>. QED  BY FinallyType DEF TypeOK
  <2>12. CASE SucceedInPart(c)
    <3>1. PICK kinds \in ElementKinds : Observe(c, ElementErrors(c, kinds))
      BY <2>12 DEF SucceedInPart
    <3>2. instances' \in [Component -> Component \cup {Absent, None}]
      BY <2>12 DEF SucceedInPart, TypeOK
    <3>. Ok
      BY <2>12, <3>1, <3>2, ElementErrorsType, ObserveType DEF SucceedInPart, TypeOK
    <3>. QED  BY FinallyType DEF TypeOK
  <2>13. CASE ElementsFail(c)
    <3>1. PICK kinds \in ElementKinds : Observe(c, Skipped(ElementErrors(c, kinds), c))
      BY <2>13 DEF ElementsFail
    <3>2. Skipped(ElementErrors(c, kinds), c) \in [Component -> SUBSET Exceptions]
      BY ElementErrorsType, SkippedType
    <3>. Ok
      BY <2>13, <3>1, <3>2, ObserveType DEF ElementsFail, TypeOK
    <3>. QED  BY FinallyType DEF TypeOK
  <2>. QED
    BY <1>4, <2>1, <2>2, <2>3, <2>4, <2>5, <2>6, <2>7, <2>8, <2>9, <2>10, <2>11,
       <2>12, <2>13
    DEF RunComponent
<1>5. CASE Return
  BY <1>5 DEF Return, TypeOK
<1>. QED  BY <1>1, <1>2, <1>3, <1>4, <1>5 DEF Next, Run

\* The engine's variables keep their types.
THEOREM TypeCorrect == Spec => []TypeOK
  BY TypeInit, TypeNext, PTL DEF Spec

-----------------------------------------------------------------------------
LEMMA InitIInv == Init => IInv
<1>. SUFFICES ASSUME Init PROVE IInv
  OBVIOUS
<1>1. PhaseInv
  BY DEF Init, PhaseInv, Untouched
<1>2. BrokerInv
  BY ComponentAssumption DEF Init, BrokerInv, InBroker
<1>. QED  BY TypeInit, <1>1, <1>2 DEF IInv

\* While the components are kept, so are the items and their dependencies.
LEMMA SameGraph ==
  ASSUME components' = components
  PROVE  Items' = Items /\ \A c : SortDeps(c)' = SortDeps(c)
  BY DEF Items, SortDeps

\* The component the loop is at has not been run, and all it depends on has.
LEMMA AtFresh ==
  ASSUME IInv, NEW c \in Component, AtComponent(c)
  PROVE  /\ c \notin timed /\ SortDeps(c) \subseteq timed /\ timed = Past
         /\ pos \in 1 .. Len(order)
<1>1. pc = "run" /\ pos \in 1 .. Len(order) /\ c = order[pos] /\ pos \in Nat
  BY DEF AtComponent, IInv, TypeOK
<1>2. timed = Past /\ SortInv
  BY <1>1 DEF IInv, PhaseInv
<1>3. c \notin Past
  BY <1>1, <1>2 DEF SortInv, Past
<1>4. SortDeps(c) \subseteq Past
  BY <1>1, <1>2 DEF SortInv, Past
<1>. QED  BY <1>1, <1>2, <1>3, <1>4

LEMMA PhaseNext == IInv /\ [Next]_vars => PhaseInv'
<1> SUFFICES ASSUME IInv, [Next]_vars PROVE PhaseInv'
  OBVIOUS
<1> USE DEF graphVars, sortVars, brokerVars
<1>1. CASE UNCHANGED vars
  <2>1. Items' = Items /\ (\A c : SortDeps(c)' = SortDeps(c)) /\ Given' = Given /\ Past' = Past
    BY <1>1, SameGraph DEF vars, Given, Past
  <2>2. SortInv => SortInv'
    BY <1>1, <2>1 DEF SortInv, vars
  <2>3. Untouched => Untouched'
    BY <1>1 DEF Untouched, vars
  <2>. QED  BY <1>1, <2>1, <2>2, <2>3 DEF IInv, PhaseInv, vars
<1>2. CASE Prune
  BY <1>2 DEF Prune, PruneGiven, PruneLost, PruneKeep, PruneEnd, IInv, PhaseInv, Untouched
<1>3. CASE SortStart
  BY <1>3, SameGraph DEF SortStart, IInv, PhaseInv, SortInv, Untouched, Given, Past
<1>4. CASE NextWave
  <2>1. SortInv /\ Untouched /\ pc = "sorting"
    BY <1>4 DEF NextWave, IInv, PhaseInv
  <2>2. Items' = Items /\ (\A c : SortDeps(c)' = SortDeps(c)) /\ Given' = Given
    BY <1>4, SameGraph DEF NextWave, Given
  <2>3. \A c \in Free : SortDeps(c) \subseteq Given
    <3>. SUFFICES ASSUME NEW c \in Free, NEW d \in SortDeps(c) PROVE d \in Given
      OBVIOUS
    <3>1. d \in Items
      <4>1. c \in components
        BY DEF SortDeps
      <4>. QED  BY <4>1 DEF Items
    <3>. QED  BY <1>4, <2>1, <3>1 DEF NextWave, SortInv, Free
  <2>4. Free \subseteq left
    BY DEF Free
  <2>5. SortInv'
    BY <1>4, <2>1, <2>2, <2>3, <2>4 DEF NextWave, SortInv
  <2>. QED  BY <1>4, <2>1, <2>5 DEF NextWave, PhaseInv, Untouched
<1>5. ASSUME NEW c \in Component, Flatten(c) PROVE PhaseInv'
  <2>1. SortInv /\ Untouched /\ pc = "sorting" /\ order \in Seq(Component)
    BY <1>5 DEF Flatten, IInv, PhaseInv, TypeOK
  <2>2. Items' = Items /\ (\A d : SortDeps(d)' = SortDeps(d))
    BY <1>5, SameGraph DEF Flatten
  <2>3. /\ Len(order') = Len(order) + 1 /\ order'[Len(order) + 1] = c
        /\ \A i \in 1 .. Len(order) : order'[i] = order[i]
        /\ Len(order) \in Nat
    BY <1>5, <2>1 DEF Flatten
  <2>4. Given' = Given \cup {c}
    BY <2>3 DEF Given
  <2>5. c \in wave /\ c \notin Given /\ wave' = wave \ {c} /\ left' = left
    BY <1>5, <2>1 DEF Flatten, SortInv
  <2>6. \A j \in 1 .. Len(order') : \A d \in SortDeps(order'[j]) :
           \E i \in 1 .. j - 1 : order'[i] = d
    <3>. SUFFICES ASSUME NEW j \in 1 .. Len(order'), NEW d \in SortDeps(order'[j])
                  PROVE  \E i \in 1 .. j - 1 : order'[i] = d
      OBVIOUS
    <3>1. CASE j \in 1 .. Len(order)
      <4>1. order'[j] = order[j]
        BY <3>1, <2>3
      <4>2. PICK i \in 1 .. j - 1 : order[i] = d
        BY <3>1, <4>1, <2>1 DEF SortInv
      <4>3. i \in 1 .. Len(order)
        BY <3>1, <2>3
      <4>. QED  BY <4>2, <4>3, <2>3
    <3>2. CASE j = Len(order) + 1
      <4>1. d \in Given
        BY <3>2, <2>1, <2>3, <2>5 DEF SortInv
      <4>. QED  BY <3>2, <4>1, <2>3 DEF Given
    <3>. QED  BY <3>1, <3>2, <2>3
  <2>7. \A i, j \in 1 .. Len(order') : order'[i] = order'[j] => i = j
    BY <2>1, <2>3, <2>5 DEF SortInv, Given
  <2>8. SortInv'
    BY <2>1, <2>2, <2>4, <2>5, <2>6, <2>7 DEF SortInv
  <2>. QED  BY <1>5, <2>1, <2>8 DEF Flatten, PhaseInv, Untouched
<1>6. CASE SortEnd
  <2>1. SortInv /\ Untouched /\ pc = "sorting" /\ wave = {}
    BY <1>6 DEF SortEnd, IInv, PhaseInv
  <2>2. Items' = Items /\ (\A d : SortDeps(d)' = SortDeps(d)) /\ Given' = Given
    BY <1>6, SameGraph DEF SortEnd, Given
  <2>3. SortInv' /\ Untouched'
    BY <1>6, <2>1, <2>2 DEF SortEnd, SortInv, Untouched
  <2>4. left \subseteq Items /\ \A c \in left : SortDeps(c) \cap left # {}
    BY <1>6, <2>1 DEF SortEnd, SortInv, Free
  <2>5. Past' = {}
    BY <2>3 DEF Past, Untouched
  <2>. QED  BY <1>6, <2>1, <2>2, <2>3, <2>4, <2>5 DEF SortEnd, PhaseInv, Untouched
<1>7. ASSUME NEW c \in Component, RunComponent(c) PROVE PhaseInv'
  <2>1. AtComponent(c) /\ Finally(c)
    BY <1>7 DEF RunComponent, NotAttempted, SkipRaised, SkipIgnored, MissingRequirement, Store,
                SkipResponse, Succeed, SucceedInPart, ElementsFail, ReturnNone, PointSucceed, Skip, ContentFailure,
                Blacklisted, Fail
  <2>2. /\ pc = "run" /\ c = order[pos] /\ timed = Past
        /\ pos \in 1 .. Len(order) /\ SortInv /\ left = {} /\ wave = {}
    BY <2>1, AtFresh DEF AtComponent, IInv, PhaseInv
  <2>3. /\ pc' = pc /\ order' = order /\ left' = left /\ wave' = wave
        /\ pos' = pos + 1 /\ timed' = timed \cup {c}
        /\ Items' = Items /\ (\A d : SortDeps(d)' = SortDeps(d)) /\ Given' = Given
    BY <2>1, SameGraph DEF Finally, Given
  <2>4. Past' = Past \cup {c}
    BY <2>2, <2>3 DEF Past
  <2>5. SortInv'
    BY <2>2, <2>3 DEF SortInv
  <2>. QED  BY <2>2, <2>3, <2>4, <2>5 DEF PhaseInv
<1>8. CASE Return
  <2>1. SortInv /\ Items' = Items /\ (\A d : SortDeps(d)' = SortDeps(d)) /\ Given' = Given
    BY <1>8, SameGraph DEF Return, Given, IInv, PhaseInv
  <2>2. SortInv'
    BY <1>8, <2>1 DEF Return, SortInv
  <2>. QED  BY <1>8, <2>2 DEF Return, IInv, PhaseInv, Past
<1>. QED  BY <1>1, <1>2, <1>3, <1>4, <1>5, <1>6, <1>7, <1>8 DEF Next, Run, Sort

-----------------------------------------------------------------------------
\* What a round of the loop does to the results: nothing, or it finds
\* requirements missing, or it stores a result.
FindsMissing(c) ==
  /\ Attempted(c) /\ ~Ignored(c) /\ ~RequirementsMet(c) /\ Kind[c] # "rule"
  /\ instances' = instances /\ missing' = missing \cup {c}

StoresResult(c) ==
  /\ Attempted(c) /\ ~Ignored(c) /\ (RequirementsMet(c) \/ Kind[c] = "rule")
  /\ \E v \in Component \cup {None} : instances' = [instances EXCEPT ![c] = v]
  /\ missing' = missing

LEMMA RoundEffect ==
  ASSUME TypeOK, NEW c \in Component, RunComponent(c)
  PROVE  /\ AtComponent(c) /\ timed' = timed \cup {c} /\ components' = components
         /\ \/ instances' = instances /\ missing' = missing
            \/ FindsMissing(c)
            \/ StoresResult(c)
<1>1. CASE NotAttempted(c) \/ SkipIgnored(c) \/ Skip(c) \/ ContentFailure(c)
           \/ Blacklisted(c) \/ Fail(c) \/ ElementsFail(c)
  BY <1>1 DEF NotAttempted, SkipIgnored, Skip, SkipRaised, ContentFailure, Blacklisted, Fail,
              ElementsFail, Finally, graphVars
<1>2. CASE MissingRequirement(c)
  BY <1>2 DEF MissingRequirement, FindsMissing, Finally, graphVars
<1>3. ASSUME NEW v \in Component \cup {None}, Store(c, v), AtComponent(c), Attempted(c),
             ~Ignored(c), RequirementsMet(c) \/ Kind[c] = "rule"
      PROVE  /\ AtComponent(c) /\ timed' = timed \cup {c} /\ components' = components
             /\ StoresResult(c)
  BY <1>3 DEF Store, StoresResult, Finally, graphVars
<1>4. CASE SkipResponse(c)
  BY <1>4, <1>3 DEF SkipResponse
<1>5. CASE Succeed(c)
  BY <1>5, <1>3 DEF Succeed, Invoked
<1>6. CASE ReturnNone(c)
  BY <1>6, <1>3 DEF ReturnNone, Invoked
<1>7. CASE PointSucceed(c)
  <2>1. c \in Points /\ RequirementsMet(c)
    BY <1>7 DEF PointSucceed, Invoked
  <2>2. instances[Latest(c)] \in Component \cup {None}
    BY <2>1, LatestType DEF InBroker, TypeOK
  <2>. QED  BY <1>7, <1>3, <2>2 DEF PointSucceed, Invoked
<1>8. CASE SucceedInPart(c)
  BY <1>8 DEF SucceedInPart, Invoked, StoresResult, Finally, graphVars
<1>. QED  BY <1>1, <1>2, <1>4, <1>5, <1>6, <1>7, <1>8 DEF RunComponent

\* Every other step leaves the broker alone.
LEMMA OtherEffect ==
  ASSUME TypeOK, PhaseInv, Prune \/ Sort \/ Return \/ UNCHANGED vars
  PROVE  /\ UNCHANGED <<instances, missing, timed>>
         /\ components' = components \/ timed = {}
  BY DEF Prune, PruneGiven, PruneLost, PruneKeep, PruneEnd, Sort, SortStart, NextWave, Flatten,
         SortEnd, Return, vars, brokerVars, graphVars, PhaseInv, Untouched

LEMMA NextSplit ==
  [Next]_vars => \/ Prune \/ Sort \/ Return \/ UNCHANGED vars
                 \/ \E c \in Component : RunComponent(c)
  BY DEF Next, Run

LEMMA BrokerNext == IInv /\ [Next]_vars => BrokerInv'
<1> SUFFICES ASSUME IInv, [Next]_vars PROVE BrokerInv'
  OBVIOUS
<1>1. CASE Prune \/ Sort \/ Return \/ UNCHANGED vars
  BY <1>1, OtherEffect DEF IInv, BrokerInv, InBroker
<1>2. ASSUME NEW c \in Component, RunComponent(c) PROVE BrokerInv'
  <2>1. /\ timed' = timed \cup {c} /\ components' = components
        /\ \/ instances' = instances /\ missing' = missing
           \/ FindsMissing(c)
           \/ StoresResult(c)
    BY <1>2, RoundEffect DEF IInv
  <2>2. CASE instances' = instances /\ missing' = missing
    BY <2>1, <2>2 DEF IInv, BrokerInv, InBroker
  <2>3. CASE FindsMissing(c)
    BY <2>1, <2>3 DEF FindsMissing, Attempted, IInv, BrokerInv, InBroker
  <2>4. CASE StoresResult(c)
    <3>1. c \in Delegates /\ c \notin Seed
      BY <2>4, ComponentAssumption DEF StoresResult, Attempted, IInv, BrokerInv, InBroker
    <3>2. \A x \in Component : x # c => instances'[x] = instances[x]
      BY <2>4 DEF StoresResult, IInv, TypeOK
    <3>. QED  BY <2>1, <2>4, <3>1, <3>2 DEF StoresResult, IInv, BrokerInv, InBroker
  <2>. QED  BY <2>1, <2>2, <2>3, <2>4
<1>. QED  BY <1>1, <1>2, NextSplit

\* The inductive invariant: toposort's bookkeeping, and results only where the
\* loop has been.
THEOREM Inductive == Spec => []IInv
<1>1. IInv /\ [Next]_vars => IInv'
  BY TypeNext, PhaseNext, BrokerNext DEF IInv
<1>. QED  BY InitIInv, <1>1, PTL DEF Spec

\* The order given to run_components is complete and topological, for every
\* graph and every order in which the sets of toposort are listed.
THEOREM TopologicalOrder == Spec => []OrderIsTopological
<1>1. IInv => OrderIsTopological
  <2>. SUFFICES ASSUME IInv, pc \in {"run", "done"}
                PROVE  /\ {order[i] : i \in DOMAIN order} = Items
                       /\ \A i, j \in DOMAIN order : order[i] \in SortDeps(order[j]) => i < j
    BY DEF OrderIsTopological
  <2>1. SortInv /\ left = {} /\ wave = {} /\ DOMAIN order = 1 .. Len(order) /\ Len(order) \in Nat
    BY DEF IInv, PhaseInv, TypeOK
  <2>2. {order[i] : i \in DOMAIN order} = Items
    BY <2>1 DEF SortInv, Given
  <2>3. ASSUME NEW i \in 1 .. Len(order), NEW j \in 1 .. Len(order), order[i] \in SortDeps(order[j])
        PROVE  i < j
    <3>1. PICK k \in 1 .. j - 1 : order[k] = order[i]
      BY <2>1, <2>3 DEF SortInv
    <3>2. k \in 1 .. Len(order)
      BY <2>1
    <3>3. k = i
      BY <2>1, <3>1, <3>2 DEF SortInv
    <3>. QED  BY <3>3
  <2>. QED  BY <2>1, <2>2, <2>3
<1>. QED  BY Inductive, <1>1, PTL

\* toposort raises ValueError for exactly the graphs with a cycle, before any
\* component has been evaluated.
THEOREM CyclesDetected == Spec => []CycleDetected
<1>1. ASSUME IInv, pc = "cyclic" PROVE HasCycle /\ timed = {}
  <2>1. left # {} /\ left \subseteq Items /\ \A c \in left : SortDeps(c) \cap left # {}
    BY <1>1 DEF IInv, PhaseInv
  <2>2. HasCycle
    BY <2>1 DEF HasCycle
  <2>. QED  BY <1>1, <2>2 DEF IInv, PhaseInv, Untouched
<1>2. ASSUME IInv, pc \in {"run", "done"}, HasCycle PROVE FALSE
  <2>1. SortInv /\ left = {} /\ wave = {} /\ Len(order) \in Nat
    BY <1>2 DEF IInv, PhaseInv, TypeOK
  <2>2. PICK S \in (SUBSET Items) \ {{}} : \A c \in S : SortDeps(c) \cap S # {}
    BY <1>2 DEF HasCycle
  <2>. DEFINE At == {i \in 1 .. Len(order) : order[i] \in S}
  <2>3. At \in SUBSET Nat /\ At # {}
    BY <2>1, <2>2 DEF SortInv, Given
  <2>4. PICK i \in At : \A j \in At : i <= j
    BY <2>3, LeastNatural
  <2>5. PICK d \in SortDeps(order[i]) : d \in S
    BY <2>2
  <2>6. PICK k \in 1 .. i - 1 : order[k] = d
    BY <2>1, <2>5 DEF SortInv
  <2>7. k \in At
    BY <2>1, <2>5, <2>6
  <2>. QED  BY <2>1, <2>4, <2>6, <2>7
<1>3. IInv => CycleDetected
  BY <1>1, <1>2 DEF CycleDetected
<1>. QED  BY Inductive, <1>3, PTL

-----------------------------------------------------------------------------
\* A component the loop has gone past has nothing left to wait for: whatever it
\* depends on has been gone past too.
LEMMA PastDeps ==
  ASSUME IInv, pc \in {"run", "done"}, NEW x \in timed
  PROVE  SortDeps(x) \subseteq timed
<1>1. timed = Past /\ SortInv /\ pos \in 1 .. Len(order) + 1 /\ Len(order) \in Nat
  BY DEF IInv, PhaseInv, TypeOK
<1>2. PICK j \in 1 .. pos - 1 : order[j] = x
  BY <1>1 DEF Past
<1>3. ASSUME NEW d \in SortDeps(x) PROVE d \in Past
  <2>1. j \in 1 .. Len(order) /\ d \in SortDeps(order[j])
    BY <1>1, <1>2, <1>3
  <2>2. PICK i \in 1 .. j - 1 : order[i] = d
    BY <1>1, <2>1 DEF SortInv
  <2>. QED  BY <1>1, <2>2 DEF Past
<1>. QED  BY <1>1, <1>3

\* The contexts a component ignores are not results of the run.
LEMMA IgnoredStable ==
  ASSUME TypeOK, NEW c \in Delegates, NEW v, instances' = [instances EXCEPT ![c] = v],
         NEW x \in Component
  PROVE  Ignored(x)' <=> Ignored(x)
  BY IgnoreAssumption DEF Ignored, InBroker, TypeOK, Delegates

\* A result can only help to meet requirements, and only those of components
\* that depend on it.
LEMMA RequirementsGrow ==
  ASSUME TypeOK, NEW c \in Component, NEW v \in Component \cup {None},
         instances' = [instances EXCEPT ![c] = v], NEW x \in Component
  PROVE  /\ RequirementsMet(x) => RequirementsMet(x)'
         /\ c \notin Dependencies(x) => (RequirementsMet(x)' => RequirementsMet(x))
<1>1. \A d \in Component : InBroker(d) => InBroker(d)'
  BY ComponentAssumption DEF InBroker, TypeOK
<1>2. \A d \in Component : d # c => (InBroker(d)' <=> InBroker(d))
  BY DEF InBroker, TypeOK
<1>3. /\ Requires[x] \subseteq Dependencies(x) /\ Requires[x] \subseteq Component
      /\ \A g \in AtLeastOne[x] : g \subseteq Dependencies(x) /\ g \subseteq Component
  BY ComponentAssumption DEF Dependencies
<1>4. RequirementsMet(x) => RequirementsMet(x)'
  BY <1>1, <1>3 DEF RequirementsMet
<1>5. ASSUME c \notin Dependencies(x), RequirementsMet(x)' PROVE RequirementsMet(x)
  <2>1. \A r \in Requires[x] : InBroker(r)
    BY <1>2, <1>3, <1>5 DEF RequirementsMet
  <2>2. ASSUME NEW g \in AtLeastOne[x] PROVE \E d \in g : InBroker(d)
    <3>1. PICK d \in g : InBroker(d)'
      BY <1>5 DEF RequirementsMet
    <3>. QED  BY <1>2, <1>3, <1>5, <3>1
  <2>. QED  BY <2>1, <2>2 DEF RequirementsMet
<1>. QED  BY <1>4, <1>5

LEMMA VerdictStandsInit == Init => VerdictStands
  BY DEF Init, VerdictStands, InBroker

LEMMA VerdictStandsNext == IInv /\ VerdictStands /\ [Next]_vars => VerdictStands'
<1> SUFFICES ASSUME IInv, VerdictStands, [Next]_vars PROVE VerdictStands'
  OBVIOUS
<1>1. CASE Prune \/ Sort \/ Return \/ UNCHANGED vars
  <2>1. UNCHANGED <<instances, missing, timed>> /\ (components' = components \/ timed = {})
    BY <1>1, OtherEffect DEF IInv
  <2>2. \A x \in Component : InBroker(x) => x \in Seed \/ x \in timed
    BY DEF IInv, BrokerInv
  <2>. QED  BY <2>1, <2>2 DEF VerdictStands, InBroker, RequirementsMet, Ignored
<1>2. ASSUME NEW c \in Component, RunComponent(c) PROVE VerdictStands'
  <2>1. /\ AtComponent(c) /\ components' = components
        /\ \/ instances' = instances /\ missing' = missing
           \/ FindsMissing(c)
           \/ StoresResult(c)
    BY <1>2, RoundEffect DEF IInv
  <2>2. CASE instances' = instances /\ missing' = missing
    BY <2>1, <2>2 DEF VerdictStands, InBroker, RequirementsMet, Ignored
  <2>3. CASE FindsMissing(c)
    BY <2>1, <2>3 DEF FindsMissing, Attempted, VerdictStands, InBroker, RequirementsMet, Ignored
  <2>4. CASE StoresResult(c)
    <3>1. PICK v \in Component \cup {None} : instances' = [instances EXCEPT ![c] = v]
      BY <2>4 DEF StoresResult
    <3>2. c \in Delegates /\ c \in components /\ c \in Enabled /\ ~InBroker(c) /\ ~Ignored(c)
      BY <2>4 DEF StoresResult, Attempted
    <3>3. c \notin timed /\ pc = "run"
      BY <2>1, AtFresh DEF AtComponent
    <3>. SUFFICES ASSUME NEW x \in Component
                  PROVE /\ x \in missing' => ~RequirementsMet(x)' /\ ~Ignored(x)' /\ ~InBroker(x)'
                        /\ InBroker(x)' /\ x \notin Seed =>
                              /\ x \in components' /\ x \in Enabled /\ ~Ignored(x)'
                              /\ Kind[x] = "rule" \/ RequirementsMet(x)'
      BY DEF VerdictStands
    <3>4. Ignored(x)' <=> Ignored(x)
      BY <3>1, <3>2, IgnoredStable DEF IInv
    <3>5. ASSUME x \in missing' PROVE ~RequirementsMet(x)' /\ ~InBroker(x)'
      <4>1. x \in missing /\ x \in timed /\ x \in components /\ x # c
        BY <2>4, <3>3, <3>5 DEF StoresResult, IInv, BrokerInv
      <4>2. c \notin Dependencies(x)
        BY <4>1, <3>3, PastDeps DEF SortDeps
      <4>3. ~RequirementsMet(x) /\ ~InBroker(x)
        BY <4>1 DEF VerdictStands
      <4>4. ~RequirementsMet(x)'
        BY <3>1, <4>2, <4>3, RequirementsGrow DEF IInv
      <4>. QED  BY <3>1, <4>1, <4>3, <4>4 DEF InBroker, IInv, TypeOK
    <3>6. CASE x = c
      <4>1. RequirementsMet(c) => RequirementsMet(c)'
        BY <3>1, RequirementsGrow DEF IInv
      <4>. QED  BY <2>1, <2>4, <3>2, <3>4, <3>5, <3>6, <4>1 DEF StoresResult, VerdictStands
    <3>7. CASE x # c
      <4>1. RequirementsMet(x) => RequirementsMet(x)'
        BY <3>1, RequirementsGrow DEF IInv
      <4>2. InBroker(x)' <=> InBroker(x)
        BY <3>1, <3>7 DEF InBroker, IInv, TypeOK
      <4>3. x \in missing' <=> x \in missing
        BY <2>4 DEF StoresResult
      <4>. QED  BY <2>1, <3>4, <3>5, <4>1, <4>2, <4>3 DEF VerdictStands
    <3>. QED  BY <3>6, <3>7
  <2>. QED  BY <2>1, <2>2, <2>3, <2>4
<1>. QED  BY <1>1, <1>2, NextSplit

\* Whatever order the graph was evaluated in, a verdict on a component is never
\* overtaken by a later result.
THEOREM VerdictsStand == Spec => []VerdictStands
<1>1. IInv /\ VerdictStands /\ [Next]_vars => VerdictStands'
  BY VerdictStandsNext
<1>. QED  BY Inductive, VerdictStandsInit, <1>1, PTL DEF Spec

-----------------------------------------------------------------------------
(* The engine implements the evaluation.                                   *)

LEMMA VerdictValue ==
  ASSUME NEW c \in Component
  PROVE  verdict[c] = IF c \in Seed THEN "given"
                      ELSE IF c \notin timed THEN "pending"
                      ELSE IF InBroker(c) THEN "present"
                      ELSE IF c \in missing THEN "unmet"
                      ELSE IF c \in components /\ c \in Enabled THEN "failed" ELSE "untried"
  BY DEF verdict

LEMMA VerdictValueNext ==
  ASSUME NEW c \in Component
  PROVE  verdict'[c] = IF c \in Seed THEN "given"
                       ELSE IF c \notin timed' THEN "pending"
                       ELSE IF InBroker(c)' THEN "present"
                       ELSE IF c \in missing' THEN "unmet"
                       ELSE IF c \in components' /\ c \in Enabled THEN "failed" ELSE "untried"
  BY DEF verdict

\* Being available to the evaluation is being in the broker.
LEMMA AvailableIsInBroker ==
  ASSUME IInv, NEW c \in Component
  PROVE  Evaluated!Available(c) <=> InBroker(c)
<1>1. c \in Seed => InBroker(c)
  BY ComponentAssumption DEF IInv, BrokerInv, InBroker
<1>2. InBroker(c) => c \in Seed \/ c \in timed
  BY DEF IInv, BrokerInv
<1>. QED  BY <1>1, <1>2, VerdictValue DEF Evaluated!Available

LEMMA MetIsRequirementsMet ==
  ASSUME IInv, NEW c \in Component
  PROVE  Evaluated!Met(c) <=> RequirementsMet(c)
<1>1. Requires[c] \subseteq Component /\ \A g \in AtLeastOne[c] : g \subseteq Component
  BY ComponentAssumption
<1>. QED  BY <1>1, AvailableIsInBroker DEF Evaluated!Met, RequirementsMet

LEMMA RoundSettles ==
  ASSUME IInv, NEW c \in Component, RunComponent(c)
  PROVE  [Evaluated!Next]_verdict
<1>1. /\ AtComponent(c) /\ timed' = timed \cup {c} /\ components' = components
      /\ \/ instances' = instances /\ missing' = missing
         \/ FindsMissing(c)
         \/ StoresResult(c)
  BY RoundEffect DEF IInv
<1>2. c \notin timed /\ c \notin missing /\ SortDeps(c) \subseteq timed
  BY <1>1, AtFresh DEF IInv, BrokerInv
<1>3. InBroker(c) => c \in Seed
  BY <1>2 DEF IInv, BrokerInv
<1>5. ASSUME NEW x \in Component, x # c PROVE verdict'[x] = verdict[x]
  <2>1. x \in timed' <=> x \in timed
    BY <1>1, <1>5
  <2>2. (InBroker(x)' <=> InBroker(x)) /\ (x \in missing' <=> x \in missing)
    BY <1>1, <1>5 DEF FindsMissing, StoresResult, InBroker, IInv, TypeOK
  <2>3. verdict[x] = IF x \in Seed THEN "given"
                     ELSE IF x \notin timed THEN "pending"
                     ELSE IF InBroker(x) THEN "present"
                     ELSE IF x \in missing THEN "unmet"
                     ELSE IF x \in components /\ x \in Enabled THEN "failed" ELSE "untried"
    BY VerdictValue
  <2>4. verdict'[x] = IF x \in Seed THEN "given"
                      ELSE IF x \notin timed' THEN "pending"
                      ELSE IF InBroker(x)' THEN "present"
                      ELSE IF x \in missing' THEN "unmet"
                      ELSE IF x \in components' /\ x \in Enabled THEN "failed" ELSE "untried"
    BY VerdictValueNext
  <2>. QED  BY <1>1, <2>1, <2>2, <2>3, <2>4
<1>6. verdict \in [Component -> Evaluated!Verdicts] /\ DOMAIN verdict' = Component
  BY DEF verdict, Evaluated!Verdicts
<1>e. ASSUME NEW v, verdict'[c] = v PROVE verdict' = [verdict EXCEPT ![c] = v]
  BY <1>5, <1>6, <1>e DEF verdict
<1>7. CASE c \in Seed
  <2>1. verdict'[c] = verdict[c]
    BY <1>7, VerdictValue, VerdictValueNext
  <2>. QED  BY <1>5, <2>1 DEF verdict
<1>8. CASE c \notin Seed
  <2>1. verdict[c] = "pending" /\ ~InBroker(c)
    BY <1>2, <1>3, <1>8, VerdictValue
  <2>2. CASE c \notin components \/ c \notin Enabled
    <3>1. instances' = instances /\ missing' = missing
      BY <1>1, <2>2 DEF FindsMissing, StoresResult, Attempted
    <3>2. verdict'[c] = "untried"
      BY <1>1, <1>2, <1>8, <2>1, <2>2, <3>1, VerdictValueNext DEF InBroker
    <3>3. Evaluated!PassOver(c)
      BY <1>e, <2>1, <3>2 DEF Evaluated!PassOver
    <3>. QED  BY <3>3 DEF Evaluated!Next
  <2>3. CASE c \in components /\ c \in Enabled
    <3>1. \A d \in Evaluated!Others(c) : verdict[d] # "pending"
      <4>1. Evaluated!Others(c) = SortDeps(c)
        BY <2>3 DEF Evaluated!Others, SortDeps, Dependencies
      <4>. QED  BY <1>2, <4>1, VerdictValue DEF IInv, TypeOK
    <3>2. CASE instances' = instances /\ missing' = missing
      <4>1. verdict'[c] = "failed"
        BY <1>1, <1>2, <1>8, <2>1, <2>3, <3>2, VerdictValueNext DEF InBroker
      <4>2. Evaluated!Try(c)
        BY <1>e, <2>1, <3>1, <4>1 DEF Evaluated!Try
      <4>. QED  BY <4>2 DEF Evaluated!Next
    <3>3. CASE FindsMissing(c)
      <4>1. verdict'[c] = "unmet"
        BY <1>1, <1>2, <1>8, <2>1, <3>3, VerdictValueNext DEF FindsMissing, InBroker
      <4>2. ~Evaluated!Met(c) /\ c \notin {x \in Component : Kind[x] = "rule"}
        BY <3>3, MetIsRequirementsMet DEF FindsMissing
      <4>3. Evaluated!Try(c)
        BY <1>e, <2>1, <3>1, <4>1, <4>2 DEF Evaluated!Try
      <4>. QED  BY <4>3 DEF Evaluated!Next
    <3>4. CASE StoresResult(c)
      <4>1. InBroker(c)'
        BY <3>4, ComponentAssumption DEF StoresResult, InBroker, IInv, TypeOK
      <4>2. verdict'[c] = "present"
        BY <1>1, <1>8, <4>1, VerdictValueNext
      <4>3. Evaluated!Met(c) \/ c \in {x \in Component : Kind[x] = "rule"}
        BY <3>4, MetIsRequirementsMet DEF StoresResult
      <4>4. Evaluated!Try(c)
        BY <1>e, <2>1, <3>1, <4>2, <4>3 DEF Evaluated!Try
      <4>. QED  BY <4>4 DEF Evaluated!Next
    <3>. QED  BY <1>1, <3>2, <3>3, <3>4
  <2>. QED  BY <2>2, <2>3
<1>. QED  BY <1>7, <1>8

\* Every step of the engine is a step of the evaluation or leaves it alone.
THEOREM EvaluationImplemented == Spec => ImplementsEvaluation
<1>1. Init => Evaluated!Init
  BY DEF Init, Evaluated!Init, verdict
<1>2. IInv /\ [Next]_vars => [Evaluated!Next]_verdict
  <2>. SUFFICES ASSUME IInv, [Next]_vars PROVE [Evaluated!Next]_verdict
    OBVIOUS
  <2>1. CASE Prune \/ Sort \/ Return \/ UNCHANGED vars
    <3>1. UNCHANGED <<instances, missing, timed>> /\ (components' = components \/ timed = {})
      BY <2>1, OtherEffect DEF IInv
    <3>2. \A x \in Component : verdict'[x] = verdict[x]
      BY <3>1, VerdictValue, VerdictValueNext DEF InBroker
    <3>. QED  BY <3>2 DEF verdict
  <2>2. ASSUME NEW c \in Component, RunComponent(c) PROVE [Evaluated!Next]_verdict
    BY <2>2, RoundSettles
  <2>. QED  BY <2>1, <2>2, NextSplit
<1>. QED  BY <1>1, <1>2, Inductive, PTL DEF Spec, ImplementsEvaluation, Evaluated!Spec

-----------------------------------------------------------------------------
(* Registry points.                                                        *)

\* The implementation a point serves stays the same while the results of its
\* implementations do.
LEMMA LatestStable ==
  ASSUME TypeOK, NEW p \in Points, RequirementsMet(p),
         \A d \in Dependencies(p) : instances'[d] = instances[d]
  PROVE  Latest(p) \in Dependencies(p) /\ Latest(p)' = Latest(p)
<1>. DEFINE Last(d) == /\ InBroker(d)
                       /\ \A e \in Dependencies(p) : InBroker(e) => Rank[d] <= Rank[e]
<1>1. \E d \in Dependencies(p) : Last(d)
  BY LatestExists
<1>2. Latest(p) \in Dependencies(p) /\ Last(Latest(p))
  BY <1>1 DEF Latest
<1>3. \A d \in Dependencies(p) : instances'[d] # Absent <=> InBroker(d)
  BY DEF InBroker
<1>4. \E d \in Dependencies(p) :
        /\ instances'[d] # Absent
        /\ \A e \in Dependencies(p) : instances'[e] # Absent => Rank[d] <= Rank[e]
  BY <1>1, <1>3
<1>5. /\ Latest(p)' \in Dependencies(p) /\ instances'[Latest(p)'] # Absent
      /\ \A e \in Dependencies(p) : instances'[e] # Absent => Rank[Latest(p)'] <= Rank[e]
  BY <1>4 DEF Latest, InBroker
<1>6. Rank[Latest(p)] = Rank[Latest(p)']
  <2>1. Rank[Latest(p)] <= Rank[Latest(p)'] /\ Rank[Latest(p)'] <= Rank[Latest(p)]
    BY <1>2, <1>3, <1>5
  <2>2. Rank[Latest(p)] \in Nat /\ Rank[Latest(p)'] \in Nat
    BY <1>2, <1>5, ComponentAssumption DEF Dependencies, Points
  <2>. QED  BY <2>1, <2>2
<1>. QED  BY <1>2, <1>5, <1>6, PointAssumption

LEMMA PointServesLatestNext ==
  IInv /\ VerdictStands /\ PointServesLatest /\ [Next]_vars => PointServesLatest'
<1> SUFFICES ASSUME IInv, VerdictStands, PointServesLatest, [Next]_vars,
                    NEW p \in Points, InBroker(p)', p \notin Seed
             PROVE  instances'[p] = instances'[Latest(p)']
  BY DEF PointServesLatest
<1>0. p \in Component /\ Kind[p] = "point"
  BY DEF Points
<1>1. ASSUME InBroker(p), \A d \in Dependencies(p) : instances'[d] = instances[d],
             instances'[p] = instances[p]
      PROVE  instances'[p] = instances'[Latest(p)']
  <2>1. RequirementsMet(p)
    BY <1>0, <1>1 DEF VerdictStands
  <2>2. Latest(p) \in Dependencies(p) /\ Latest(p)' = Latest(p)
    BY <1>1, <2>1, LatestStable DEF IInv
  <2>3. instances[p] = instances[Latest(p)]
    BY <1>1 DEF PointServesLatest
  <2>. QED  BY <1>1, <2>2, <2>3
<1>2. CASE instances' = instances
  BY <1>1, <1>2 DEF InBroker
<1>3. ASSUME NEW c \in Component, RunComponent(c), StoresResult(c)
      PROVE  instances'[p] = instances'[Latest(p)']
  <2>1. \A x \in Component : x # c => instances'[x] = instances[x]
    BY <1>3 DEF StoresResult, IInv, TypeOK
  <2>2. c \notin timed /\ pc = "run" /\ ~InBroker(c)
    BY <1>3, RoundEffect, AtFresh DEF IInv, AtComponent, StoresResult, Attempted
  <2>3. Dependencies(p) \subseteq Component
    BY <1>0, ComponentAssumption DEF Dependencies
  <2>4. CASE p = c
    <3>1. c \notin Dependencies(c)
      BY <2>4, PointAssumption
    <3>2. RequirementsMet(c)
      BY <1>0, <1>3, <2>4 DEF StoresResult
    <3>3. Latest(c) \in Dependencies(c) /\ Latest(c)' = Latest(c)
      BY <2>1, <2>3, <2>4, <3>1, <3>2, LatestStable DEF IInv
    <3>4. PointSucceed(c)
      BY <1>0, <1>3, <2>2, <2>4, ComponentAssumption
      DEF RunComponent, StoresResult, NotAttempted, SkipIgnored, Skip, SkipRaised, ContentFailure,
          Blacklisted, Fail, MissingRequirement, SkipResponse, Succeed, SucceedInPart,
          ElementsFail, ReturnNone, Points
    <3>5. instances'[c] = instances[Latest(c)]
      BY <3>4 DEF PointSucceed, Store, IInv, TypeOK
    <3>. QED  BY <2>1, <2>3, <2>4, <3>1, <3>3, <3>5
  <2>5. CASE p # c
    <3>1. InBroker(p)
      BY <1>0, <2>1, <2>5 DEF InBroker
    <3>2. p \in timed /\ p \in components
      BY <1>0, <3>1 DEF VerdictStands, IInv, BrokerInv
    <3>3. Dependencies(p) \subseteq timed
      BY <2>2, <3>2, PastDeps, PointAssumption DEF SortDeps
    <3>. QED  BY <1>0, <1>1, <2>1, <2>2, <2>3, <2>5, <3>1, <3>3
  <2>. QED  BY <2>4, <2>5
<1>4. CASE Prune \/ Sort \/ Return \/ UNCHANGED vars
  BY <1>2, <1>4, OtherEffect DEF IInv
<1>5. ASSUME NEW c \in Component, RunComponent(c)
      PROVE  instances'[p] = instances'[Latest(p)']
  BY <1>2, <1>3, <1>5, RoundEffect DEF IInv, FindsMissing
<1>. QED  BY <1>4, <1>5, NextSplit

\* A registry point serves the last declared of the implementations that gave a
\* result, however the implementations were ordered in time.
THEOREM LatestServed == Spec => []PointServesLatest
<1>1. Init => PointServesLatest
  BY DEF Init, PointServesLatest, InBroker, Points
<1>2. IInv /\ VerdictStands /\ PointServesLatest /\ [Next]_vars => PointServesLatest'
  BY PointServesLatestNext
<1>. QED  BY Inductive, VerdictsStand, <1>1, <1>2, PTL DEF Spec

-----------------------------------------------------------------------------
(* Collection errors.                                                      *)

\* Without a serialized archive the graph is not pruned.
Unpruned == ~Serialized => pc # "prune" /\ components = Graph

LEMMA UnprunedNext == Unpruned /\ [Next]_vars => Unpruned'
<1>1. ASSUME NEW c \in Component, RunComponent(c) PROVE UNCHANGED <<pc, components>>
  BY <1>1 DEF RunComponent, NotAttempted, SkipRaised, SkipIgnored, MissingRequirement, Store,
              SkipResponse, Succeed, SucceedInPart, ElementsFail, ReturnNone, PointSucceed, Skip, ContentFailure,
              Blacklisted, Fail, Finally, graphVars
<1>. QED
  BY <1>1 DEF Unpruned, Next, Run, Prune, PruneGiven, PruneLost, PruneKeep, PruneEnd, Sort,
              SortStart, NextWave, Flatten, SortEnd, Return, vars, graphVars

\* Going up from a component the loop has not reached never leads to one it has.
LEMMA UpwardLater ==
  ASSUME IInv, GraphClosed, components = Graph, pc = "run",
         NEW c \in Component \ timed, NEW p \in Walk(c, TRUE)
  PROVE  p \notin timed
<1>. DEFINE S == Component \ timed
<1>1. ASSUME NEW y \in S, NEW x \in Dependents(y), x \in timed PROVE FALSE
  <2>1. x \in Delegates /\ y \in Dependencies(x) /\ y # x
    BY <1>1 DEF Dependents
  <2>2. x \in Items
    BY <1>1 DEF IInv, PhaseInv, SortInv, Past, Given, TypeOK
  <2>3. x \in components
    <3>1. CASE x \in components
      BY <3>1
    <3>2. CASE x \notin components
      <4>1. PICK z \in components : x \in SortDeps(z)
        BY <2>2, <3>2 DEF Items
      <4>2. z \in Graph /\ x \in Dependencies(z)
        BY <4>1 DEF SortDeps
      <4>. QED  BY <2>1, <4>2 DEF GraphClosed
    <3>. QED  BY <3>1, <3>2
  <2>4. y \in SortDeps(x)
    BY <2>1, <2>3 DEF SortDeps
  <2>. QED  BY <1>1, <2>4, PastDeps
<1>2. \A y \in S : Neighbours(y, TRUE) \subseteq S
  <2>1. \A y \in S : Dependents(y) \subseteq Component
    BY DEF Dependents, Delegates
  <2>. QED  BY <1>1, <2>1 DEF Neighbours
<1>. QED  BY <1>2 DEF Walk

\* What a round of c records of its own: on c, or on a registry point the walk of
\* get_registry_points reaches from it, and with a result only for an element of a list.
OwnError(c, x, e) ==
  /\ e.by = c /\ (x = c \/ x \in RegistryPoints[c])
  /\ Attempted(c) /\ missing' = missing
  /\ instances' = instances \/ (x = c /\ Kind[c] = "parser" /\ e.kind \in {"content", "error"})

Adds(c, es) ==
  /\ es \in [Component -> SUBSET Exceptions]
  /\ \A x \in Component : /\ exceptions[x] \subseteq es[x]
                          /\ \A e \in es[x] \ exceptions[x] : OwnError(c, x, e)

LEMMA RaiseAdds ==
  ASSUME NEW c \in Component, NEW es, Adds(c, es), NEW cs, NEW e \in Exceptions,
         \A x \in cs : OwnError(c, x, e)
  PROVE  Adds(c, Raise(es, cs, e))
<1>1. Raise(es, cs, e) \in [Component -> SUBSET Exceptions]
  BY RaiseType DEF Adds
<1>2. ASSUME NEW x \in Component
      PROVE  Raise(es, cs, e)[x] = IF x \in cs THEN es[x] \cup {e} ELSE es[x]
  BY DEF Raise
<1>. QED  BY <1>1, <1>2 DEF Adds

\* A component that gives no result may add errors of its own, and then skip.
LEMMA SkippedAdds ==
  ASSUME NEW c \in Component, NEW es, Adds(c, es),
         Attempted(c), UNCHANGED <<instances, missing>>
  PROVE  Adds(c, Skipped(es, c))
<1>1. [by |-> c, kind |-> "skip"] \in Exceptions
  BY ExceptionType
<1>2. OwnError(c, c, [by |-> c, kind |-> "skip"])
  BY DEF OwnError
<1>. QED  BY <1>1, <1>2, RaiseAdds DEF Skipped

LEMMA ElementErrorsAdd ==
  ASSUME TypeOK, NEW c \in Component, NEW kinds \in ElementKinds,
         Attempted(c), missing' = missing, Kind[c] = "parser"
  PROVE  Adds(c, ElementErrors(c, kinds))
<1>. DEFINE new == {[by |-> c, kind |-> k] : k \in kinds}
<1>1. ElementErrors(c, kinds) \in [Component -> SUBSET Exceptions]
  BY ElementErrorsType
<1>2. ASSUME NEW e \in new PROVE OwnError(c, c, e)
  BY <1>2 DEF OwnError, ElementKinds
<1>3. ASSUME NEW x \in Component
      PROVE  ElementErrors(c, kinds)[x] = IF x = c THEN exceptions[x] \cup new ELSE exceptions[x]
  BY DEF ElementErrors, TypeOK
<1>. HIDE DEF new
<1>. QED  BY <1>1, <1>2, <1>3 DEF Adds

\* The observers of a round find what the component recorded.
LEMMA RoundObserves ==
  ASSUME TypeOK, NEW c \in Component, RunComponent(c)
  PROVE  \E es : Observe(c, es) /\ Adds(c, es)
<1>0. Adds(c, exceptions)
  BY DEF Adds, TypeOK
<1>1. ASSUME SkipRaised(c), Attempted(c) PROVE \E es : Observe(c, es) /\ Adds(c, es)
  BY <1>0, <1>1, SkippedAdds DEF SkipRaised
<1>2. CASE SkipIgnored(c) \/ Skip(c)
  BY <1>1, <1>2 DEF SkipIgnored, Skip, Invoked
<1>3. CASE ContentFailure(c)
  <2>. DEFINE e == [by |-> c, kind |-> "content"]
              at == IF c \in Datasources THEN RegistryPoints[c] ELSE {c}
  <2>1. e \in Exceptions /\ \A x \in at : OwnError(c, x, e)
    BY <1>3, ExceptionType DEF ContentFailure, OwnError, Invoked
  <2>2. Adds(c, Raise(exceptions, at, e))
    BY <1>0, <2>1, RaiseAdds
  <2>3. Attempted(c) /\ UNCHANGED <<instances, missing>>
        /\ Observe(c, Skipped(Raise(exceptions, at, e), c))
    BY <1>3 DEF ContentFailure, Invoked
  <2>. QED  BY <2>2, <2>3, SkippedAdds
<1>4. CASE Blacklisted(c)
  <2>. DEFINE e == [by |-> c, kind |-> "blacklisted"]
  <2>1. e \in Exceptions /\ \A x \in {c} : OwnError(c, x, e)
    BY <1>4, ExceptionType DEF Blacklisted, OwnError, Invoked
  <2>2. Adds(c, Raise(exceptions, {c}, e))
    BY <1>0, <2>1, RaiseAdds
  <2>. QED  BY <1>4, <2>2 DEF Blacklisted
<1>5. CASE Fail(c)
  <2>. DEFINE e == [by |-> c, kind |-> "error"]
              at == {c} \cup RegistryPoints[c]
  <2>1. e \in Exceptions /\ \A x \in at : OwnError(c, x, e)
    BY <1>5, ExceptionType DEF Fail, OwnError, Invoked
  <2>2. Adds(c, Raise(exceptions, at, e))
    BY <1>0, <2>1, RaiseAdds
  <2>. QED  BY <1>5, <2>2 DEF Fail
<1>6. CASE SucceedInPart(c)
  <2>1. PICK kinds \in ElementKinds : Observe(c, ElementErrors(c, kinds))
    BY <1>6 DEF SucceedInPart
  <2>2. Adds(c, ElementErrors(c, kinds))
    BY <1>6, ElementErrorsAdd DEF SucceedInPart, Invoked
  <2>. QED  BY <2>1, <2>2
<1>7. CASE ElementsFail(c)
  <2>1. PICK kinds \in ElementKinds : Observe(c, Skipped(ElementErrors(c, kinds), c))
    BY <1>7 DEF ElementsFail
  <2>2. Attempted(c) /\ UNCHANGED <<instances, missing>> /\ Kind[c] = "parser"
    BY <1>7 DEF ElementsFail, Invoked
  <2>3. Adds(c, ElementErrors(c, kinds))
    BY <2>2, ElementErrorsAdd
  <2>. QED  BY <2>1, <2>2, <2>3, SkippedAdds
<1>8. CASE \/ NotAttempted(c) \/ MissingRequirement(c) \/ SkipResponse(c) \/ Succeed(c)
           \/ ReturnNone(c) \/ PointSucceed(c)
  BY <1>0, <1>8 DEF NotAttempted, MissingRequirement, SkipResponse, Succeed, ReturnNone,
                    PointSucceed, Store
<1>. QED  BY <1>2, <1>3, <1>4, <1>5, <1>6, <1>7, <1>8 DEF RunComponent

\* What could not be written is recorded after the observers ran, on a component
\* with a result.
OwnWrite(c, x, e) ==
  /\ e.by = c /\ x = c /\ e.kind = "write" /\ c \in Persist
  /\ instances'[c] \notin {Absent, None}

LEMMA ObserveAdds ==
  ASSUME NEW c \in Component, NEW es, Observe(c, es), NEW x \in Component
  PROVE  /\ es[x] \subseteq exceptions'[x]
         /\ \A e \in exceptions'[x] \ es[x] : OwnWrite(c, x, e)
<1>1. CASE exceptions' = es
  BY <1>1
<1>2. CASE /\ c \in Persist /\ instances'[c] \notin {Absent, None}
           /\ exceptions' = Raise(es, {c}, [by |-> c, kind |-> "write"])
  <2>1. exceptions'[x] = IF x = c THEN es[x] \cup {[by |-> c, kind |-> "write"]} ELSE es[x]
    BY <1>2 DEF Raise
  <2>2. OwnWrite(c, c, [by |-> c, kind |-> "write"])
    BY <1>2 DEF OwnWrite
  <2>. QED  BY <2>1, <2>2
<1>. QED  BY <1>1, <1>2 DEF Observe

\* All that a round adds to broker.exceptions.
LEMMA RoundErrors ==
  ASSUME TypeOK, NEW c \in Component, RunComponent(c), NEW p \in Component,
         NEW e \in exceptions'[p], e \notin exceptions[p]
  PROVE  OwnError(c, p, e) \/ OwnWrite(c, p, e)
<1>1. PICK es : Observe(c, es) /\ Adds(c, es)
  BY RoundObserves
<1>. QED  BY <1>1, ObserveAdds DEF Adds

LEMMA ErrorsObservedNext ==
  IInv /\ Unpruned /\ DatasourceErrorsObserved /\ [Next]_vars => DatasourceErrorsObserved'
<1> SUFFICES ASSUME IInv, Unpruned, DatasourceErrorsObserved, [Next]_vars,
                    GraphClosed, ~Serialized,
                    NEW p \in Points, p \in timed', NEW e \in exceptions'[p], e.by \in Datasources \ {p}
             PROVE  e \in observed'[p]
  BY DEF DatasourceErrorsObserved, GraphClosed
<1>1. CASE UNCHANGED <<exceptions, timed, observed>>
  BY <1>1 DEF DatasourceErrorsObserved
<1>2. CASE Prune \/ Sort \/ Return \/ UNCHANGED vars
  BY <1>1, <1>2 DEF Prune, PruneGiven, PruneLost, PruneKeep, PruneEnd, Sort, SortStart, NextWave,
                    Flatten, SortEnd, Return, vars, brokerVars
<1>3. ASSUME NEW c \in Component, RunComponent(c) PROVE e \in observed'[p]
  <2>1. AtComponent(c) /\ Finally(c) /\ timed' = timed \cup {c}
    BY <1>3 DEF RunComponent, NotAttempted, SkipRaised, SkipIgnored, MissingRequirement, Store,
                SkipResponse, Succeed, SucceedInPart, ElementsFail, ReturnNone, PointSucceed, Skip, ContentFailure,
                Blacklisted, Fail, Finally
  <2>4. PICK es : Observe(c, es) /\ Adds(c, es)
    BY <1>3, RoundObserves DEF IInv
  <2>5. observed' = IF c \in Delegates THEN [observed EXCEPT ![c] = es[c]] ELSE observed
    BY <2>4 DEF Observe
  <2>2. CASE p = c
    <3>1. observed'[p] = es[p]
      BY <2>2, <2>5 DEF Points, Delegates, IInv, TypeOK
    <3>2. e \notin es[p] => e.by = p
      BY <2>2, <2>4, ObserveAdds DEF OwnWrite
    <3>. QED  BY <3>1, <3>2
  <2>3. CASE p # c
    <3>1. p \in timed /\ observed'[p] = observed[p]
      BY <2>1, <2>3, <2>5 DEF Points, IInv, TypeOK
    <3>2. CASE e \in exceptions[p]
      BY <3>1, <3>2 DEF DatasourceErrorsObserved
    <3>3. CASE e \notin exceptions[p]
      <4>1. c \in Datasources /\ p \in RegistryPoints[c]
        BY <1>3, <2>3, <3>3, RoundErrors DEF IInv, Points, OwnError, OwnWrite
      <4>2. p \in Walk(c, TRUE)
        BY <4>1 DEF RegistryPoints
      <4>3. c \in Component \ timed /\ pc = "run"
        BY <2>1, AtFresh DEF AtComponent
      <4>. QED  BY <3>1, <4>2, <4>3, UpwardLater DEF Unpruned
    <3>. QED  BY <3>2, <3>3
  <2>. QED  BY <2>2, <2>3
<1>. QED  BY <1>2, <1>3, NextSplit

\* What an observer finds on a registry point includes every failure of the
\* datasources behind it: none arrives after the point was observed.
THEOREM ErrorsObserved == Spec => []DatasourceErrorsObserved
<1>1. Init => Unpruned /\ DatasourceErrorsObserved
  BY DEF Init, Unpruned, DatasourceErrorsObserved
<1>2. IInv /\ (Unpruned /\ DatasourceErrorsObserved) /\ [Next]_vars
        => (Unpruned /\ DatasourceErrorsObserved)'
  BY UnprunedNext, ErrorsObservedNext
<1>. QED  BY Inductive, <1>1, <1>2, PTL DEF Spec

-----------------------------------------------------------------------------
(* The broker is never rewritten.                                          *)

LEMMA RoundKeepsExceptions ==
  ASSUME TypeOK, NEW c \in Component, RunComponent(c), NEW x \in Component
  PROVE  exceptions[x] \subseteq exceptions'[x]
<1>1. PICK es : Observe(c, es) /\ Adds(c, es)
  BY RoundObserves
<1>. QED  BY <1>1, ObserveAdds DEF Adds

\* No step of the engine takes a result, a missing requirement or an exception back.
THEOREM BrokerGrows == Spec => BrokerOnlyGrows
<1>1. ASSUME IInv, [Next]_vars
      PROVE  /\ \A x \in Component : InBroker(x) => instances'[x] = instances[x]
             /\ missing \subseteq missing'
             /\ \A x \in Component : exceptions[x] \subseteq exceptions'[x]
  <2>1. CASE Prune \/ Sort \/ Return \/ UNCHANGED vars
    <3>1. UNCHANGED <<instances, missing>>
      BY <1>1, <2>1, OtherEffect DEF IInv
    <3>2. exceptions' = exceptions
      BY <2>1 DEF Prune, PruneGiven, PruneLost, PruneKeep, PruneEnd, Sort, SortStart, NextWave,
                  Flatten, SortEnd, Return, vars, brokerVars
    <3>. QED  BY <3>1, <3>2
  <2>2. ASSUME NEW c \in Component, RunComponent(c)
        PROVE  /\ \A x \in Component : InBroker(x) => instances'[x] = instances[x]
               /\ missing \subseteq missing'
               /\ \A x \in Component : exceptions[x] \subseteq exceptions'[x]
    <3>1. /\ \A x \in Component : InBroker(x) => instances'[x] = instances[x]
          /\ missing \subseteq missing'
      <4>1. \/ instances' = instances /\ missing' = missing
            \/ FindsMissing(c)
            \/ StoresResult(c)
        BY <1>1, <2>2, RoundEffect DEF IInv
      <4>2. CASE StoresResult(c)
        <5>1. \A x \in Component : x # c => instances'[x] = instances[x]
          BY <1>1, <4>2 DEF StoresResult, IInv, TypeOK
        <5>2. ~InBroker(c) /\ missing' = missing
          BY <4>2 DEF StoresResult, Attempted
        <5>3. \A x \in Component : InBroker(x) => instances'[x] = instances[x]
          BY <5>1, <5>2
        <5>. QED  BY <5>2, <5>3
      <4>3. CASE instances' = instances /\ missing \subseteq missing'
        BY <4>3
      <4>4. FindsMissing(c) => instances' = instances /\ missing \subseteq missing'
        BY DEF FindsMissing
      <4>. QED  BY <4>1, <4>2, <4>3, <4>4
    <3>. QED  BY <1>1, <2>2, <3>1, RoundKeepsExceptions DEF IInv
  <2>. QED  BY <1>1, <2>1, <2>2, NextSplit
<1>2. IInv /\ [Next]_vars =>
        [/\ \A c \in Component : instances[c] # Absent => instances'[c] = instances[c]
         /\ missing \subseteq missing'
         /\ \A c \in Component : exceptions[c] \subseteq exceptions'[c]]_vars
  BY <1>1 DEF InBroker
<1>. QED  BY Inductive, <1>2, PTL DEF Spec, BrokerOnlyGrows, InBroker

-----------------------------------------------------------------------------
(* What run leaves in its broker.                                          *)

\* The components the engine has tried.
Tried == (timed \cap components \cap Enabled) \ Seed

\* The exceptions that may stand beside a result of their component: of an element
\* of a list a parser went over, and of a result that could not be written.
Beside(e) ==
  \/ Kind[e.by] = "parser" /\ e.kind \in {"content", "error"}
  \/ e.by \in Persist /\ e.kind = "write"

\* What a tried component left behind: what is missing is reported, nothing is
\* silent when skips are stored, and what raised has no missing requirement, and
\* a result only where one may stand beside the exception.
OutcomeInv ==
  /\ \A c \in Tried : ~Ignored(c) /\ ~RequirementsMet(c) =>
        IF Kind[c] = "rule" THEN InBroker(c) ELSE c \in missing
  /\ \A c \in missing : c \in Tried /\ Kind[c] # "rule"
  /\ StoreSkips => \A c \in Tried :
        InBroker(c) \/ c \in missing \/ \E e \in exceptions[c] : e.by = c
  /\ \A x \in Component : \A e \in exceptions[x] :
        /\ e.by \in timed \ missing
        /\ x = e.by \/ x \in RegistryPoints[e.by]
        /\ InBroker(e.by) => x = e.by /\ Beside(e)

\* An attempt reports what it found missing, and with store_skips it leaves a
\* trace in every case.
LEMMA AttemptLeavesTrace ==
  ASSUME TypeOK, NEW c \in Component, RunComponent(c), Attempted(c)
  PROVE  /\ ~Ignored(c) /\ ~RequirementsMet(c) =>
              IF Kind[c] = "rule" THEN InBroker(c)' ELSE c \in missing'
         /\ StoreSkips => InBroker(c)' \/ c \in missing' \/ \E e \in exceptions'[c] : e.by = c
<1>1. ASSUME NEW v \in Component \cup {None}, Store(c, v) PROVE InBroker(c)'
  BY <1>1, ComponentAssumption DEF Store, InBroker, TypeOK
<1>2. ASSUME NEW es, Observe(c, es), NEW e \in es[c], e.by = c
      PROVE  \E f \in exceptions'[c] : f.by = c
  BY <1>2, ObserveAdds
<1>a. ASSUME NEW es, NEW cs, c \in cs, NEW k, Observe(c, Raise(es, cs, [by |-> c, kind |-> k]))
      PROVE  \E e \in exceptions'[c] : e.by = c
  <2>1. Raise(es, cs, [by |-> c, kind |-> k])[c] = es[c] \cup {[by |-> c, kind |-> k]}
    BY <1>a DEF Raise
  <2>2. [by |-> c, kind |-> k] \in Raise(es, cs, [by |-> c, kind |-> k])[c]
    BY <2>1
  <2>. QED  BY <1>a, <1>2, <2>2
<1>b. ASSUME NEW es, Observe(c, Skipped(es, c)), StoreSkips PROVE \E e \in exceptions'[c] : e.by = c
  BY <1>a, <1>b DEF Skipped
<1>3. CASE SkipIgnored(c) \/ Skip(c)
  BY <1>b, <1>3 DEF SkipIgnored, Skip, Invoked, SkipRaised
<1>4. CASE ContentFailure(c)
  BY <1>b, <1>4 DEF ContentFailure, Invoked
<1>5. CASE Blacklisted(c) \/ Fail(c)
  BY <1>a, <1>5 DEF Blacklisted, Fail, Invoked
<1>11. CASE ElementsFail(c)
  BY <1>b, <1>11 DEF ElementsFail, Invoked
<1>12. CASE SucceedInPart(c)
  BY <1>12, ComponentAssumption DEF SucceedInPart, Invoked, InBroker, TypeOK
<1>6. CASE MissingRequirement(c)
  BY <1>6 DEF MissingRequirement
<1>7. CASE SkipResponse(c) \/ Succeed(c)
  BY <1>1, <1>7 DEF SkipResponse, Succeed, Invoked
<1>8. CASE ReturnNone(c)
  BY <1>1, <1>8 DEF ReturnNone, Invoked
<1>9. CASE PointSucceed(c)
  <2>1. c \in Points /\ RequirementsMet(c)
    BY <1>9 DEF PointSucceed, Invoked
  <2>2. instances[Latest(c)] \in Component \cup {None}
    BY <2>1, LatestType DEF InBroker, TypeOK
  <2>. QED  BY <1>1, <1>9, <2>1, <2>2 DEF PointSucceed
<1>10. ~NotAttempted(c)
  BY DEF NotAttempted
<1>. QED
  BY <1>3, <1>4, <1>5, <1>6, <1>7, <1>8, <1>9, <1>10, <1>11, <1>12 DEF RunComponent

LEMMA OutcomeNext == IInv /\ VerdictStands /\ OutcomeInv /\ [Next]_vars => OutcomeInv'
<1> SUFFICES ASSUME IInv, VerdictStands, OutcomeInv, [Next]_vars PROVE OutcomeInv'
  OBVIOUS
<1>1. CASE Prune \/ Sort \/ Return \/ UNCHANGED vars
  <2>1. UNCHANGED <<instances, missing, timed>> /\ (components' = components \/ timed = {})
    BY <1>1, OtherEffect DEF IInv
  <2>2. exceptions' = exceptions
    BY <1>1 DEF Prune, PruneGiven, PruneLost, PruneKeep, PruneEnd, Sort, SortStart, NextWave,
                Flatten, SortEnd, Return, vars, brokerVars
  <2>3. Tried' = Tried
    BY <2>1 DEF Tried
  <2>. QED  BY <2>1, <2>2, <2>3 DEF OutcomeInv, InBroker, RequirementsMet, Ignored
<1>2. ASSUME NEW c \in Component, RunComponent(c) PROVE OutcomeInv'
  <2>1. /\ AtComponent(c) /\ timed' = timed \cup {c} /\ components' = components
        /\ \/ instances' = instances /\ missing' = missing
           \/ FindsMissing(c)
           \/ StoresResult(c)
    BY <1>2, RoundEffect DEF IInv
  <2>2. c \notin timed /\ c \notin missing /\ c \notin Tried /\ pc = "run"
    BY <2>1, AtFresh DEF IInv, BrokerInv, AtComponent, Tried
  <2>3. Tried' = IF Attempted(c) THEN Tried \cup {c} ELSE Tried
    <3>1. InBroker(c) <=> c \in Seed
      BY <2>2, ComponentAssumption DEF IInv, BrokerInv, InBroker
    <3>2. components \subseteq Delegates
      BY ComponentAssumption DEF IInv, TypeOK
    <3>. QED  BY <2>1, <3>1, <3>2 DEF Tried, Attempted
  <2>4. \A x \in Component : x # c => (InBroker(x)' <=> InBroker(x)) /\ (x \in missing' <=> x \in missing)
    BY <2>1 DEF FindsMissing, StoresResult, InBroker, IInv, TypeOK
  <2>5. ASSUME NEW x \in Component PROVE (Ignored(x)' <=> Ignored(x)) /\ (RequirementsMet(x) => RequirementsMet(x)')
    <3>1. CASE instances' = instances
      BY <3>1 DEF Ignored, RequirementsMet, InBroker
    <3>2. CASE StoresResult(c)
      <4>1. PICK v \in Component \cup {None} : instances' = [instances EXCEPT ![c] = v]
        BY <3>2 DEF StoresResult
      <4>2. c \in Delegates
        BY <3>2 DEF StoresResult, Attempted
      <4>. QED  BY <4>1, <4>2, IgnoredStable, RequirementsGrow DEF IInv
    <3>. QED  BY <2>1, <3>1, <3>2 DEF FindsMissing
  <2>6. \A x \in Tried : x # c /\ x \in Component
    BY <2>2 DEF Tried, IInv, TypeOK
  <2>7. Attempted(c) => /\ ~Ignored(c)' /\ ~RequirementsMet(c)' =>
                              IF Kind[c] = "rule" THEN InBroker(c)' ELSE c \in missing'
                        /\ StoreSkips => InBroker(c)' \/ c \in missing' \/ \E e \in exceptions'[c] : e.by = c
    BY <1>2, <2>5, AttemptLeavesTrace DEF IInv
  <2>8. \A x \in Tried' : ~Ignored(x)' /\ ~RequirementsMet(x)' =>
          IF Kind[x] = "rule" THEN InBroker(x)' ELSE x \in missing'
    BY <2>3, <2>4, <2>5, <2>6, <2>7 DEF OutcomeInv
  <2>9. \A x \in missing' : x \in Tried' /\ Kind[x] # "rule"
    BY <2>1, <2>3 DEF OutcomeInv, FindsMissing, StoresResult
  <2>10. \A x \in Component : exceptions[x] \subseteq exceptions'[x]
    BY <1>2, RoundKeepsExceptions DEF IInv
  <2>11. StoreSkips => \A x \in Tried' :
           InBroker(x)' \/ x \in missing' \/ \E e \in exceptions'[x] : e.by = x
    BY <2>3, <2>4, <2>6, <2>7, <2>10 DEF OutcomeInv
  <2>12. ASSUME NEW x \in Component, NEW e \in exceptions'[x]
         PROVE  /\ e.by \in timed' \ missing'
                /\ x = e.by \/ x \in RegistryPoints[e.by]
                /\ InBroker(e.by)' => x = e.by /\ Beside(e)
    <3>1. CASE e \in exceptions[x]
      <4>1. e.by \in timed /\ e.by # c /\ e.by \in Component
        BY <2>2, <3>1 DEF OutcomeInv, IInv, TypeOK
      <4>. QED  BY <2>1, <2>4, <3>1, <4>1 DEF OutcomeInv
    <3>2. CASE OwnError(c, x, e)
      <4>1. e.by = c /\ c \in timed' /\ c \notin missing'
        BY <2>1, <2>2, <3>2 DEF OwnError
      <4>2. instances' = instances => ~InBroker(c)'
        BY <3>2 DEF OwnError, Attempted, InBroker
      <4>. QED  BY <3>2, <4>1, <4>2 DEF OwnError, Beside
    <3>3. CASE OwnWrite(c, x, e)
      <4>1. InBroker(c)'
        BY <3>3 DEF OwnWrite, InBroker
      <4>2. ~FindsMissing(c)
        BY <4>1 DEF FindsMissing, Attempted, InBroker
      <4>3. c \in timed' \ missing'
        BY <2>1, <2>2, <4>2 DEF StoresResult
      <4>. QED  BY <3>3, <4>3 DEF OwnWrite, Beside
    <3>. QED  BY <1>2, <3>1, <3>2, <3>3, RoundErrors DEF IInv
  <2>. QED  BY <2>8, <2>9, <2>11, <2>12 DEF OutcomeInv
<1>. QED  BY <1>1, <1>2, NextSplit

LEMMA OutcomeAlways == Spec => []OutcomeInv
<1>1. Init => OutcomeInv
  BY DEF Init, OutcomeInv, Tried
<1>2. IInv /\ VerdictStands /\ OutcomeInv /\ [Next]_vars => OutcomeInv'
  BY OutcomeNext
<1>. QED  BY Inductive, VerdictsStand, <1>1, <1>2, PTL DEF Spec

\* With store_skips no component the engine tried is unaccounted for: it has a
\* result, or its missing requirements are recorded, or an exception of its own is.
\* What has missing requirements has neither of the others, and what has a result
\* has an exception of its own only where one element of a list failed or the result
\* could not be written.
THEOREM EveryAttemptAccounted ==
  Spec => [](/\ StoreSkips => \A c \in Tried :
                   InBroker(c) \/ c \in missing \/ \E e \in exceptions[c] : e.by = c
             /\ \A c \in missing : ~InBroker(c) /\ ~\E e \in exceptions[c] : e.by = c
             /\ \A c \in Component : InBroker(c) =>
                   \A e \in exceptions[c] : e.by = c => Beside(e))
<1>1. OutcomeInv /\ VerdictStands /\ IInv
        => /\ StoreSkips => \A c \in Tried :
                 InBroker(c) \/ c \in missing \/ \E e \in exceptions[c] : e.by = c
           /\ \A c \in missing : ~InBroker(c) /\ ~\E e \in exceptions[c] : e.by = c
           /\ \A c \in Component : InBroker(c) =>
                 \A e \in exceptions[c] : e.by = c => Beside(e)
  BY DEF OutcomeInv, VerdictStands, Tried, IInv, TypeOK
<1>. QED  BY Inductive, VerdictsStand, OutcomeAlways, <1>1, PTL

\* run misses no item: when it returns, every item of the graph was timed.
THEOREM EveryItemTimed == Spec => [](pc = "done" => timed = Items)
<1>. DEFINE AtEnd == pc = "done" => pos = Len(order) + 1
<1>1. Init => AtEnd
  BY DEF Init
<1>2. AtEnd /\ [Next]_vars => AtEnd'
  <2>1. ASSUME NEW c \in Component, RunComponent(c) PROVE pc = "run" /\ pc' = pc
    BY <2>1 DEF RunComponent, NotAttempted, SkipRaised, SkipIgnored, MissingRequirement, Store,
                SkipResponse, Succeed, SucceedInPart, ElementsFail, ReturnNone, PointSucceed, Skip, ContentFailure,
                Blacklisted, Fail, Finally, AtComponent
  <2>. QED
    BY <2>1 DEF Next, Run, Prune, PruneGiven, PruneLost, PruneKeep, PruneEnd, Sort, SortStart,
                NextWave, Flatten, SortEnd, Return, vars, sortVars
<1>3. ASSUME IInv, AtEnd, pc = "done" PROVE timed = Items
  <2>1. pos - 1 = Len(order)
    BY <1>3 DEF IInv, TypeOK
  <2>2. Past = Given
    BY <2>1 DEF Past, Given
  <2>. QED  BY <1>3, <2>2 DEF IInv, PhaseInv, SortInv
<1>. QED  BY Inductive, <1>1, <1>2, <1>3, PTL DEF Spec

\* The broker run returns names exactly the components whose requirements are
\* missing: judged by the final broker, none is left out and none is too many,
\* in whatever order the graph was evaluated.
THEOREM MissingExactly ==
  Spec => [](pc = "done" =>
               missing = {c \in (components \cap Enabled) \ Seed :
                             Kind[c] # "rule" /\ ~Ignored(c) /\ ~RequirementsMet(c)})
<1>1. ASSUME IInv, VerdictStands, OutcomeInv, pc = "done" => timed = Items, pc = "done"
      PROVE  missing = {c \in (components \cap Enabled) \ Seed :
                           Kind[c] # "rule" /\ ~Ignored(c) /\ ~RequirementsMet(c)}
  <2>1. components \subseteq timed
    BY <1>1 DEF Items
  <2>2. missing \subseteq Component
    BY <1>1 DEF IInv, TypeOK
  <2>. QED  BY <1>1, <2>1, <2>2 DEF OutcomeInv, VerdictStands, Tried
<1>. QED  BY Inductive, VerdictsStand, OutcomeAlways, EveryItemTimed, <1>1, PTL

-----------------------------------------------------------------------------
(* The pruning of a serialized archive's graph.                            *)

\* What the keys in ks take off the graph.
Pruned(ks) == UNION {Dependencies(c) : c \in ks}

PruneInv ==
  Serialized =>
    /\ pc = "prune" => components = Graph \ Pruned((Graph \cap Seed) \ todo)
    /\ pc \notin {"prune", "keyerror"} => components = Graph \ Pruned(Graph \cap Seed)

LEMMA SeedInBroker ==
  ASSUME Untouched, NEW c \in Component
  PROVE  InBroker(c) <=> c \in Seed
  BY ComponentAssumption DEF Untouched, InBroker

LEMMA PruneNext == IInv /\ PruneInv /\ [Next]_vars => PruneInv'
<1> SUFFICES ASSUME IInv, PruneInv, [Next]_vars, Serialized PROVE PruneInv'
  BY DEF PruneInv
<1>1. ASSUME NEW c \in Component, PruneGiven(c) PROVE PruneInv'
  <2>1. c \in Graph \cap Seed /\ c \in todo
    BY <1>1, SeedInBroker DEF PruneGiven, IInv, PhaseInv, TypeOK
  <2>2. (Graph \cap Seed) \ todo' = ((Graph \cap Seed) \ todo) \cup {c}
    BY <1>1, <2>1 DEF PruneGiven
  <2>3. Pruned((Graph \cap Seed) \ todo') = Pruned((Graph \cap Seed) \ todo) \cup Dependencies(c)
    BY <2>2 DEF Pruned
  <2>. QED  BY <1>1, <2>3 DEF PruneGiven, PruneInv
<1>2. ASSUME NEW c \in Component, PruneKeep(c) PROVE PruneInv'
  <2>1. c \notin Seed
    BY <1>2, SeedInBroker DEF PruneKeep, IInv, PhaseInv
  <2>2. (Graph \cap Seed) \ todo' = (Graph \cap Seed) \ todo
    BY <1>2, <2>1 DEF PruneKeep
  <2>. QED  BY <1>2, <2>2 DEF PruneKeep, PruneInv
<1>3. ASSUME NEW c \in Component, PruneLost(c) PROVE PruneInv'
  BY <1>3 DEF PruneLost, PruneInv
<1>4. CASE PruneEnd
  <2>1. (Graph \cap Seed) \ todo = Graph \cap Seed
    BY <1>4 DEF PruneEnd
  <2>. QED  BY <1>4, <2>1 DEF PruneEnd, PruneInv, graphVars
<1>5. CASE Sort
  BY <1>5 DEF Sort, SortStart, NextWave, Flatten, SortEnd, PruneInv, graphVars
<1>6. ASSUME NEW c \in Component, RunComponent(c) PROVE PruneInv'
  <2>1. AtComponent(c) /\ Finally(c)
    BY <1>6 DEF RunComponent, NotAttempted, SkipRaised, SkipIgnored, MissingRequirement, Store,
                SkipResponse, Succeed, SucceedInPart, ElementsFail, ReturnNone, PointSucceed, Skip, ContentFailure,
                Blacklisted, Fail
  <2>. QED  BY <2>1 DEF AtComponent, Finally, PruneInv, graphVars
<1>7. CASE Return \/ UNCHANGED vars
  BY <1>7 DEF Return, PruneInv, graphVars, vars
<1>. QED  BY <1>1, <1>2, <1>3, <1>4, <1>5, <1>6, <1>7, NextSplit DEF Prune

\* The graph that is evaluated for a serialized archive does not depend on the
\* order the keys of the components dict were visited in: it is the graph
\* without what the archive's components depend on.
THEOREM PruningOrderImmaterial ==
  Spec => [](Serialized /\ pc \notin {"prune", "keyerror"}
               => components = Graph \ UNION {Dependencies(c) : c \in Graph \cap Seed})
<1>1. Init => PruneInv
  BY ComponentAssumption DEF Init, PruneInv, Pruned
<1>2. IInv /\ PruneInv /\ [Next]_vars => PruneInv'
  BY PruneNext
<1>3. PruneInv => (Serialized /\ pc \notin {"prune", "keyerror"}
                     => components = Graph \ UNION {Dependencies(c) : c \in Graph \cap Seed})
  BY DEF PruneInv, Pruned
<1>. QED  BY Inductive, <1>1, <1>2, <1>3, PTL DEF Spec

\* The pruning raises KeyError only for an archive that holds a component
\* together with something it depends on: an archive of which no component
\* depends on another is always evaluated.
THEOREM NoKeyErrorUnrelated ==
  ASSUME \A c, d \in Graph \cap Seed : d \in Dependencies(c) => c = d
  PROVE  Spec => []NoKeyError
<1>. DEFINE Kept == NoKeyError /\ (pc = "prune" => todo \cap Seed \subseteq components)
<1>1. Init => Kept
  BY DEF Init, NoKeyError
<1>2. ASSUME IInv, Kept, [Next]_vars PROVE Kept'
  <2>1. ASSUME NEW c \in Component, PruneGiven(c) PROVE Kept'
    <3>1. c \in Graph \cap Seed /\ todo \subseteq Graph
      BY <1>2, <2>1, SeedInBroker DEF PruneGiven, IInv, PhaseInv, TypeOK
    <3>. QED  BY <1>2, <2>1, <3>1 DEF PruneGiven, NoKeyError
  <2>2. ASSUME NEW c \in Component, PruneLost(c) PROVE FALSE
    BY <1>2, <2>2, SeedInBroker DEF PruneLost, IInv, PhaseInv
  <2>3. ASSUME NEW c \in Component, PruneKeep(c) PROVE Kept'
    BY <1>2, <2>3 DEF PruneKeep, NoKeyError
  <2>4. CASE PruneEnd \/ Sort \/ Return \/ UNCHANGED vars
    BY <1>2, <2>4 DEF PruneEnd, Sort, SortStart, NextWave, Flatten, SortEnd, Return, vars,
                      graphVars, NoKeyError
  <2>5. ASSUME NEW c \in Component, RunComponent(c) PROVE Kept'
    <3>1. AtComponent(c) /\ Finally(c)
      BY <2>5 DEF RunComponent, NotAttempted, SkipRaised, SkipIgnored, MissingRequirement, Store,
                  SkipResponse, Succeed, SucceedInPart, ElementsFail, ReturnNone, PointSucceed, Skip, ContentFailure,
                  Blacklisted, Fail
    <3>. QED  BY <3>1 DEF AtComponent, Finally, NoKeyError
  <2>. QED  BY <1>2, <2>1, <2>2, <2>3, <2>4, <2>5, NextSplit DEF Prune
<1>. QED  BY Inductive, <1>1, <1>2, PTL DEF Spec

-----------------------------------------------------------------------------
(* Termination.                                                            *)

\* How many components there are, and how many steps a run can still take, at most.
Size == Cardinality(Component)

StepsLeft ==
  CASE pc = "prune" -> Cardinality(todo) + 3 * Size + 5
    [] pc = "sort" -> 3 * Size + 4
    [] pc = "sorting" -> 2 * Cardinality(left) + Cardinality(wave) + Size + 2
    [] pc = "run" -> Len(order) + 2 - pos
    [] OTHER -> 0

\* The sets of a run are finite, and toposort gives out nothing twice.
LEMMA Sizes ==
  ASSUME IsFiniteSet(Component), TypeOK
  PROVE  /\ Size \in Nat
         /\ \A S \in SUBSET Component :
              IsFiniteSet(S) /\ Cardinality(S) \in Nat /\ Cardinality(S) <= Size
         /\ SortInv => Len(order) <= Size
<1>1. Size \in Nat
  BY FS_CardinalityType DEF Size
<1>2. ASSUME NEW S \in SUBSET Component
      PROVE  IsFiniteSet(S) /\ Cardinality(S) \in Nat /\ Cardinality(S) <= Size
  BY FS_Subset, FS_CardinalityType DEF Size
<1>3. ASSUME SortInv PROVE Len(order) <= Size
  <2>1. Len(order) \in Nat /\ order \in [1 .. Len(order) -> Component]
    BY DEF TypeOK
  <2>2. order \in Injection(1 .. Len(order), Component)
    BY <1>3, <2>1 DEF SortInv, Injection, IsInjective
  <2>3. Cardinality(1 .. Len(order)) <= Size
    BY <2>2, FS_Injection DEF Size
  <2>4. Cardinality(1 .. Len(order)) = Len(order)
    BY <2>1, FS_Interval
  <2>. QED  BY <2>3, <2>4
<1>. QED  BY <1>1, <1>2, <1>3

LEMMA PruneShorter ==
  ASSUME IsFiniteSet(Component), IInv, Prune
  PROVE  StepsLeft' < StepsLeft
<1>1. /\ Size \in Nat /\ pc = "prune" /\ todo \in SUBSET Component
      /\ IsFiniteSet(todo) /\ Cardinality(todo) \in Nat
  BY Sizes, ComponentAssumption
     DEF Prune, PruneGiven, PruneLost, PruneKeep, PruneEnd, IInv, TypeOK, Delegates
<1>2. StepsLeft = Cardinality(todo) + 3 * Size + 5
  BY <1>1 DEF StepsLeft
<1>3. ASSUME NEW c \in todo, todo' = todo \ {c}, pc' = pc
      PROVE  StepsLeft' < StepsLeft
  <2>1. Cardinality(todo') = Cardinality(todo) - 1
    BY <1>1, <1>3, FS_RemoveElement
  <2>2. StepsLeft' = Cardinality(todo') + 3 * Size + 5
    BY <1>1, <1>3 DEF StepsLeft, Size
  <2>. QED  BY <1>1, <1>2, <2>1, <2>2
<1>4. ASSUME pc' \in {"sort", "keyerror"}
      PROVE  StepsLeft' < StepsLeft
  <2>1. StepsLeft' \in {0, 3 * Size + 4}
    BY <1>4 DEF StepsLeft, Size
  <2>. QED  BY <1>1, <1>2, <2>1
<1>. QED  BY <1>3, <1>4 DEF Prune, PruneGiven, PruneLost, PruneKeep, PruneEnd

LEMMA SortShorter ==
  ASSUME IsFiniteSet(Component), IInv, Sort
  PROVE  StepsLeft' < StepsLeft
<1>1. /\ Size \in Nat /\ left \in SUBSET Component /\ wave \in SUBSET Component
      /\ IsFiniteSet(left) /\ Cardinality(left) \in Nat /\ Cardinality(left) <= Size
      /\ IsFiniteSet(wave) /\ Cardinality(wave) \in Nat
  BY Sizes DEF IInv, TypeOK
<1>2. pc = "sorting" => StepsLeft = 2 * Cardinality(left) + Cardinality(wave) + Size + 2
  BY DEF StepsLeft
<1>3. pc' = "sorting" =>
        StepsLeft' = 2 * Cardinality(left') + Cardinality(wave') + Size + 2
  BY DEF StepsLeft, Size
<1>4. CASE SortStart
  <2>1. StepsLeft = 3 * Size + 4
    BY <1>4 DEF StepsLeft, SortStart
  <2>2. left' \in SUBSET Component /\ wave' = {} /\ pc' = "sorting"
    BY <1>4, ItemsType DEF SortStart, IInv, PhaseInv
  <2>3. Cardinality(left') \in Nat /\ Cardinality(left') <= Size /\ Cardinality(wave') = 0
    BY <2>2, Sizes, FS_EmptySet DEF IInv
  <2>. QED  BY <1>1, <1>3, <2>1, <2>2, <2>3
<1>5. CASE NextWave
  <2>1. /\ pc = "sorting" /\ pc' = pc /\ wave = {} /\ Free # {} /\ Free \subseteq left
        /\ wave' = Free /\ left' = left \ Free
    BY <1>5 DEF NextWave, Free
  <2>2. IsFiniteSet(Free) /\ Cardinality(Free) \in Nat /\ Cardinality(Free) # 0
    BY <1>1, <2>1, Sizes, FS_EmptySet DEF IInv
  <2>3. left \cap Free = Free
    BY <2>1
  <2>4. Cardinality(left') = Cardinality(left) - Cardinality(Free)
    <3>1. Cardinality(left \ Free) = Cardinality(left) - Cardinality(left \cap Free)
      BY <1>1, FS_Difference
    <3>. QED  BY <2>1, <2>3, <3>1
  <2>5. Cardinality(wave) = 0
    BY <2>1, FS_EmptySet
  <2>. QED  BY <1>1, <1>2, <1>3, <2>1, <2>2, <2>4, <2>5
<1>6. ASSUME NEW c \in Component, Flatten(c)
      PROVE  StepsLeft' < StepsLeft
  <2>1. /\ pc = "sorting" /\ pc' = pc /\ left' = left /\ c \in wave /\ wave' = wave \ {c}
    BY <1>6 DEF Flatten
  <2>2. Cardinality(wave') = Cardinality(wave) - 1
    BY <1>1, <2>1, FS_RemoveElement
  <2>. QED  BY <1>1, <1>2, <1>3, <2>1, <2>2
<1>7. CASE SortEnd
  <2>1. pc = "sorting" /\ pc' \in {"run", "cyclic"} /\ order' = order /\ pos' = pos
    BY <1>7 DEF SortEnd, sortVars
  <2>2. pos = 1 /\ Len(order) \in Nat /\ Len(order) <= Size
    BY <2>1, Sizes DEF IInv, PhaseInv, Untouched, TypeOK
  <2>3. StepsLeft' \in {0, Len(order) + 1}
    BY <2>1, <2>2 DEF StepsLeft
  <2>. QED  BY <1>1, <1>2, <2>1, <2>2, <2>3
<1>. QED  BY <1>4, <1>5, <1>6, <1>7 DEF Sort

LEMMA RoundShorter ==
  ASSUME IInv, Return \/ \E c \in Component : RunComponent(c)
  PROVE  StepsLeft' < StepsLeft
<1>1. Len(order) \in Nat /\ pos \in 1 .. Len(order) + 1
  BY DEF IInv, TypeOK
<1>2. CASE Return
  <2>1. pc = "run" /\ pc' = "done"
    BY <1>2 DEF Return
  <2>2. StepsLeft = Len(order) + 2 - pos /\ StepsLeft' = 0
    BY <2>1 DEF StepsLeft
  <2>. QED  BY <1>1, <2>2
<1>3. ASSUME NEW c \in Component, RunComponent(c)
      PROVE  StepsLeft' < StepsLeft
  <2>1. AtComponent(c) /\ Finally(c)
    BY <1>3 DEF RunComponent, NotAttempted, SkipRaised, SkipIgnored, MissingRequirement, Store,
                SkipResponse, Succeed, SucceedInPart, ElementsFail, ReturnNone, PointSucceed, Skip, ContentFailure,
                Blacklisted, Fail
  <2>2. pc = "run" /\ pc' = "run" /\ order' = order /\ pos' = pos + 1
    BY <2>1 DEF AtComponent, Finally, sortVars
  <2>3. StepsLeft = Len(order) + 2 - pos /\ StepsLeft' = Len(order) + 2 - (pos + 1)
    BY <2>2 DEF StepsLeft
  <2>. QED  BY <1>1, <2>3
<1>. QED  BY <1>2, <1>3

\* run ends: every step it takes, whichever set is flattened how and whichever
\* component fails, leaves fewer steps to take, of at most four for each
\* component and a few more.
THEOREM EveryStepShortens ==
  ASSUME IsFiniteSet(Component)
  PROVE  Spec => /\ [](StepsLeft \in 0 .. 4 * Size + 5)
                 /\ [][StepsLeft' < StepsLeft]_vars
<1>1. ASSUME IInv PROVE StepsLeft \in 0 .. 4 * Size + 5
  <2>1. /\ Size \in Nat /\ Cardinality(todo) \in 0 .. Size
        /\ Cardinality(left) \in 0 .. Size /\ Cardinality(wave) \in 0 .. Size
    BY <1>1, Sizes, ComponentAssumption DEF IInv, TypeOK, Delegates
  <2>2. pc = "run" => Len(order) <= Size
    BY <1>1, Sizes DEF IInv, PhaseInv
  <2>3. Len(order) \in Nat /\ pos \in 1 .. Len(order) + 1
    BY <1>1 DEF IInv, TypeOK
  <2>4. CASE pc \in {"prune", "sort"}
    BY <2>1, <2>4 DEF StepsLeft
  <2>5. CASE pc = "sorting"
    BY <2>1, <2>5 DEF StepsLeft
  <2>6. CASE pc = "run"
    BY <2>1, <2>2, <2>3, <2>6 DEF StepsLeft
  <2>7. CASE pc \notin {"prune", "sort", "sorting", "run"}
    BY <2>1, <2>7 DEF StepsLeft
  <2>. QED  BY <2>4, <2>5, <2>6, <2>7
<1>2. IInv /\ [Next]_vars => [StepsLeft' < StepsLeft]_vars
  <2>. SUFFICES ASSUME IInv, [Next]_vars, vars' # vars
                PROVE  StepsLeft' < StepsLeft
    OBVIOUS
  <2>. QED  BY PruneShorter, SortShorter, RoundShorter, NextSplit
<1>. QED  BY Inductive, <1>1, <1>2, PTL DEF Spec
=============================================================================
