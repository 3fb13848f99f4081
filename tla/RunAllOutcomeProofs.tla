------------------------- MODULE RunAllOutcomeProofs ------------------------
(***************************************************************************)
(* What a caller of run_all may rely on when it returns: no part has been  *)
(* lost; where the alarm can be set every datasource that had its          *)
(* requirements has been called; and without a pool the report of the      *)
(* blacklisted specs lacks none of a higher prio than its part.            *)
(***************************************************************************)
EXTENDS RunAllWorkProofs, WellFoundedInduction

\* A part waits, is with a worker, or has been gone past.
PartKept(P) ==
  \/ \E i \in DOMAIN queue : queue[i].kind = "run" /\ queue[i].part = P
  \/ \E w \in Worker : job[w] # Idle /\ job[w].part = P
  \/ P \subseteq timed

AllDone == queue = <<>> /\ \A w \in Worker : job[w] = Idle

Accounted ==
  /\ \A P \in parts : PartKept(P)
  /\ main = "returned" => AllDone

LEMMA DonePartsTimed ==
  ASSUME Accounted, AllDone, NEW P \in parts
  PROVE  P \subseteq timed
BY DEF Accounted, AllDone, PartKept

LEMMA InitAccounted == Init => Accounted
BY DEF Init, Accounted

LEMMA SameKept ==
  ASSUME NEW P, PartKept(P), queue' = queue, job' = job, timed \subseteq timed'
  PROVE  PartKept(P)'
BY DEF PartKept

LEMMA SubmitKept ==
  ASSUME SplitInv, WorkInv, Accounted, Submit, NEW P \in parts'
  PROVE  PartKept(P)'
<1>1. /\ parts' = parts \cup {seen} /\ queue' = Append(queue, RunJob(seen))
      /\ UNCHANGED <<job, timed>>
  BY DEF Submit, brokerVars
<1>2. queue \in Seq(Jobs) /\ Len(queue) \in Nat /\ DOMAIN queue = 1 .. Len(queue)
  BY LenProperties DEF WorkInv, WorkType
<1>3. /\ DOMAIN queue' = 1 .. Len(queue) + 1
      /\ \A i \in DOMAIN queue : i \in DOMAIN queue' /\ queue'[i] = queue[i]
      /\ queue'[Len(queue) + 1] = RunJob(seen) /\ Len(queue) + 1 \in DOMAIN queue'
  BY <1>1, <1>2
<1>4. CASE P = seen
  BY <1>3, <1>4, RunJobFields DEF PartKept
<1>5. CASE P \in parts
  BY <1>1, <1>3, <1>5 DEF Accounted, PartKept
<1> QED
  BY <1>1, <1>4, <1>5

\* A job that is no longer in the queue has been taken.
LEMMA TakenKept ==
  ASSUME WorkInv, queue # <<>>, queue' = Tail(queue), timed' = timed, NEW P, PartKept(P),
         \A w \in Worker : job[w] # Idle => job'[w] = job[w],
         Head(queue).kind = "run" /\ Head(queue).part = P =>
           \E w \in Worker : job'[w] # Idle /\ job'[w].part = P
  PROVE  PartKept(P)'
<1>1. CASE \E w \in Worker : job[w] # Idle /\ job[w].part = P
  BY <1>1 DEF PartKept
<1>2. CASE P \subseteq timed
  BY <1>2 DEF PartKept
<1>3. ASSUME NEW i \in DOMAIN queue, queue[i].kind = "run", queue[i].part = P
      PROVE  PartKept(P)'
  <2>1. queue \in Seq(Jobs) /\ DOMAIN queue = 1 .. Len(queue) /\ Len(queue) \in Nat
    BY LenProperties DEF WorkInv, WorkType
  <2>2. /\ Head(queue) = queue[1] /\ Tail(queue) \in Seq(Jobs)
        /\ Len(Tail(queue)) = Len(queue) - 1
        /\ \A j \in 1 .. Len(Tail(queue)) : Tail(queue)[j] = queue[j + 1]
    BY <2>1, HeadTailProperties
  <2>3. CASE i = 1
    BY <1>3, <2>2, <2>3 DEF PartKept
  <2>4. CASE i # 1
    <3>1. i - 1 \in 1 .. Len(Tail(queue)) /\ i - 1 + 1 = i
      BY <2>1, <2>2, <2>4
    <3>2. DOMAIN Tail(queue) = 1 .. Len(Tail(queue))
      BY <2>2, LenProperties
    <3>3. i - 1 \in DOMAIN queue' /\ queue'[i - 1] = queue[i]
      BY <2>2, <3>1, <3>2
    <3> QED
      BY <1>3, <3>3 DEF PartKept
  <2> QED
    BY <2>3, <2>4
<1> QED
  BY <1>1, <1>2, <1>3 DEF PartKept

LEMMA StartRunKept ==
  ASSUME WorkInv, NEW w \in Worker, StartRun(w), NEW P, PartKept(P)
  PROVE  PartKept(P)'
<1>1. /\ job[w] = Idle /\ queue # <<>> /\ Head(queue).kind = "run"
      /\ job' = [job EXCEPT ![w] = Head(queue)]
      /\ queue' = Tail(queue) /\ timed' = timed
  BY DEF StartRun, brokerVars
<1>2. job \in [Worker -> RunJobs \cup {Idle}] /\ Head(queue) \in Jobs
  BY <1>1, TakenOff DEF WorkInv, WorkType
<1>3. Head(queue) = RunJob(Head(queue).part) /\ Head(queue).part \in SUBSET Graph
  BY <1>1, <1>2 DEF Jobs, RunJobs, RunJob
<1>4. Head(queue) # Idle
  BY <1>3, JobAssumption
<1> QED
  BY <1>1, <1>2, <1>4, TakenKept

LEMMA WriteKept ==
  ASSUME WorkInv, NEW w \in Worker, Write(w), NEW P, PartKept(P)
  PROVE  PartKept(P)'
<1>1. /\ queue # <<>> /\ Head(queue).kind = "write" /\ queue' = Tail(queue)
      /\ UNCHANGED <<job, timed>>
  BY DEF Write, brokerVars
<1> QED
  BY <1>1, TakenKept

LEMMA EndRunKept ==
  ASSUME WorkInv, NEW w \in Worker, EndRun(w), NEW P, PartKept(P)
  PROVE  PartKept(P)'
<1>1. /\ job[w] # Idle /\ left[w] = {} /\ job' = [job EXCEPT ![w] = Idle]
      /\ UNCHANGED <<queue, timed>>
  BY DEF EndRun, brokerVars
<1>2. job \in [Worker -> RunJobs \cup {Idle}]
  BY DEF WorkInv, WorkType
<1>3. job[w].part \subseteq timed
  BY <1>1 DEF WorkInv, Owned, Items
<1> QED
  BY <1>1, <1>2, <1>3 DEF PartKept

LEMMA PastKept ==
  ASSUME NEW w \in Worker, NEW c, Past(w, c), NEW P, PartKept(P)
  PROVE  PartKept(P)'
<1>1. /\ job' = job /\ timed' = timed \cup {c}
      /\ \A i \in DOMAIN queue : i \in DOMAIN queue' /\ queue'[i] = queue[i]
  BY DEF Past, GoPast
<1> QED
  BY <1>1 DEF PartKept

\* When the caller has been told that everything is done, no worker moves.
LEMMA WorkNotDone ==
  ASSUME SplitInv, WorkInv, NEW w \in Worker, Work(w)
  PROVE  ~AllDone
<1>1. CASE StartRun(w) \/ Write(w)
  BY <1>1 DEF StartRun, Write, AllDone
<1>2. CASE EndRun(w) \/ \E c \in Component : NotAttempted(w, c) \/ Begin(w, c)
  BY <1>2 DEF EndRun, NotAttempted, Begin, Reaches, AllDone
<1>3. CASE MissingRequirement(w) \/ CannotCall(w) \/ Fail(w) \/ Blacklist(w) \/ Succeed(w)
  BY <1>3, WithoutPast, SucceedPast DEF Past, AllDone
<1> QED
  BY <1>1, <1>2, <1>3 DEF Work

LEMMA NextAccounted ==
  ASSUME SplitInv, WorkInv, Accounted, [Next]_vars
  PROVE  Accounted'
<1>1. CASE Submit
  <2>1. main' # "returned"
    BY <1>1 DEF Submit, Splitting
  <2> QED
    BY <1>1, <2>1, SubmitKept DEF Accounted
<1>2. CASE SplitEnd \/ ReturnAll \/ UNCHANGED vars \/ \E c \in Graph : TakeKey(c) \/ Visit(c)
  <2>1. UNCHANGED <<parts, queue, job, timed>>
    BY <1>2 DEF SplitEnd, ReturnAll, TakeKey, Visit, vars, splitVars, poolVars, brokerVars
  <2>2. main' = "returned" => AllDone
    BY <1>2 DEF Accounted, AllDone, Splitting, SplitEnd, ReturnAll, TakeKey, Visit, vars, splitVars
  <2>3. AllDone' <=> AllDone
    BY <2>1 DEF AllDone
  <2> QED
    BY <2>1, <2>2, <2>3, SameKept DEF Accounted
<1>3. ASSUME NEW w \in Worker, Work(w)
      PROVE  Accounted'
  <2>1. main' # "returned" /\ parts' = parts
    BY <1>3, WorkNotDone, WorkSplit DEF Accounted, splitVars
  <2> SUFFICES ASSUME NEW P \in parts PROVE PartKept(P)'
    BY <2>1 DEF Accounted
  <2>2. PartKept(P)
    BY DEF Accounted
  <2>3. CASE StartRun(w) \/ Write(w) \/ EndRun(w)
    BY <2>2, <2>3, StartRunKept, WriteKept, EndRunKept
  <2>4. ASSUME NEW c \in Component, NotAttempted(w, c)
        PROVE  PartKept(P)'
    BY <2>2, <2>4, NotAttemptedPast, PastKept
  <2>5. ASSUME NEW c \in Component, Begin(w, c)
        PROVE  PartKept(P)'
    BY <2>2, <2>5, SameKept DEF Begin, brokerVars
  <2>6. CASE MissingRequirement(w) \/ CannotCall(w) \/ Fail(w) \/ Blacklist(w) \/ Succeed(w)
    BY <2>2, <2>6, WithoutPast, SucceedPast, PastKept
  <2> QED
    BY <1>3, <2>3, <2>4, <2>5, <2>6 DEF Work
<1> QED
  BY <1>1, <1>2, <1>3 DEF Next, Main

\* No part is lost between the generator, the queue and the workers: when run_all
\* returns, every component of the graph has been gone past.
THEOREM NothingLost == Spec => [](main = "returned" => Graph \subseteq timed)
<1>1. SplitInv /\ WorkInv /\ Accounted /\ [Next]_vars => Accounted'
  BY NextAccounted
<1>2. SplitInv /\ Accounted => (main = "returned" => Graph \subseteq timed)
  <2> SUFFICES ASSUME SplitInv, Accounted, main = "returned" PROVE Graph \subseteq timed
    OBVIOUS
  <2>1. AllDone
    BY DEF Accounted
  <2>2. Graph = UNION parts
    BY DEF SplitInv, SplitCover
  <2> QED
    BY <2>1, <2>2, DonePartsTimed
<1> QED
  BY InitAccounted, SplitInductive, WorkInductive, <1>1, <1>2, PTL DEF Spec
-----------------------------------------------------------------------------
(* Every datasource that can be called has been.                           *)

\* What has been gone past comes after what it depends on.
DependenciesPast == \A c \in timed \cap Graph : Dependencies(c) \ {c} \subseteq timed

\* The alarm can be set: in the main thread, or because there is none to set.
AlarmWorks == ~Pool \/ Hosts \subseteq {FALSE}

CalledInv ==
  /\ DependenciesPast
  /\ hosted \in Hosts
  /\ AlarmWorks =>
       \A c \in Datasources \cap Graph \cap timed :
         c \notin Given /\ RequirementsMet(c) => c \in called

LEMMA InitCalled == Init => CalledInv
BY DEF Init, CalledInv, DependenciesPast

LEMMA QuietCalled ==
  ASSUME CalledInv, UNCHANGED <<hosted, timed, called, instances>>
  PROVE  CalledInv'
<1>1. DependenciesPast' /\ hosted' \in Hosts
  BY DEF CalledInv, DependenciesPast, Dependencies
<1>2. ASSUME NEW c
      PROVE  RequirementsMet(c)' <=> RequirementsMet(c)
  BY DEF RequirementsMet
<1> QED
  BY <1>1, <1>2 DEF CalledInv

\* A datasource whose requirements are met is called before it is gone past.
LEMMA PastCalled ==
  ASSUME SplitInv, WorkInv, CalledInv, NEW w \in Worker, NEW c \in Component, Past(w, c),
         called \subseteq called', hosted' = hosted,
         c \in job[w].part => (Dependencies(c) \ {c}) \cap left[w] = {},
         hand[w] = Idle => c \notin job[w].part \/ c \in instances,
         AlarmWorks /\ hand[w] = c /\ c \in Datasources =>
           \/ c \in called'
           \/ ~RequirementsMet(c) /\ instances' = instances
  PROVE  CalledInv'
<1>1. /\ job[w] # Idle /\ c \in left[w] /\ hand[w] \in {c, Idle} /\ c # Idle
      /\ timed' = timed \cup {c}
      /\ instances' = instances \/ (c = hand[w] /\ instances' = instances \cup {c})
  BY PoolAssumption DEF Past, GoPast
<1>2. /\ job[w].part \in parts /\ c \in Items(job[w].part)
      /\ Items(job[w].part) \ left[w] \subseteq timed
      /\ job[w].part \cap left[w] \cap timed = {}
  BY <1>1 DEF WorkInv, Owned
<1>3. c \in Graph => c \in job[w].part /\ c \notin timed
  BY <1>1, <1>2, ItemsInGraph
<1>4. c \in Graph => Dependencies(c) \ {c} \subseteq timed
  BY <1>2, <1>3 DEF Items
<1>5. DependenciesPast'
  <2> SUFFICES ASSUME NEW x \in timed' \cap Graph
               PROVE  Dependencies(x) \ {x} \subseteq timed'
    BY DEF DependenciesPast, Dependencies
  <2> QED
    BY <1>1, <1>4 DEF CalledInv, DependenciesPast
<1>6. ASSUME AlarmWorks, NEW x \in Datasources, x \in Graph, x \in timed', x \notin Given,
             RequirementsMet(x)'
      PROVE  x \in called'
  <2>1. x \in Component
    BY GraphAssumption
  <2>2. CASE x # c
    <3>1. x \in timed /\ Dependencies(x) \ {x} \subseteq timed
      BY <1>1, <1>6, <2>2 DEF CalledInv, DependenciesPast
    <3>2. \A d \in Dependencies(x) : d \in instances' <=> d \in instances
      <4>1. c = hand[w] => c \notin timed
        BY <1>1, HandFresh
      <4> QED
        BY <1>1, <2>2, <3>1, <4>1
    <3>3. RequirementsMet(x)
      BY <1>6, <2>1, <3>2, RequirementsStable
    <3> QED
      BY <1>6, <3>1, <3>3 DEF CalledInv
  <2>3. CASE x = c
    <3>1. c \in job[w].part /\ c \notin timed
      BY <1>3, <1>6, <2>3
    <3>2. c \notin instances
      BY <1>6, <2>3, <3>1 DEF WorkInv, Settled
    <3>3. hand[w] = c
      BY <1>1, <3>1, <3>2
    <3>4. CASE ~RequirementsMet(c) /\ instances' = instances
      <4>1. RequirementsMet(c)' <=> RequirementsMet(c)
        BY <3>4, RequirementsStable
      <4> QED
        BY <1>6, <2>3, <3>4, <4>1
    <3> QED
      BY <1>6, <2>3, <3>3, <3>4
  <2> QED
    BY <2>2, <2>3
<1> QED
  BY <1>5, <1>6 DEF CalledInv

LEMMA NextCalled ==
  ASSUME SplitInv, WorkInv, CalledInv, [Next]_vars
  PROVE  CalledInv'
<1>1. CASE Main \/ UNCHANGED vars
  BY <1>1, QuietCalled
  DEF Main, TakeKey, Visit, Submit, SplitEnd, ReturnAll, vars, brokerVars
<1>2. ASSUME NEW w \in Worker, Work(w)
      PROVE  CalledInv'
  <2>1. CASE StartRun(w) \/ Write(w) \/ EndRun(w) \/ \E c \in Component : Begin(w, c)
    BY <2>1, QuietCalled DEF StartRun, Write, EndRun, Begin, brokerVars
  <2>2. ASSUME NEW c \in Component, NotAttempted(w, c)
        PROVE  CalledInv'
    <3>1. UNCHANGED <<hosted, called>> /\ c # Idle
          /\ (c \in job[w].part => (Dependencies(c) \ {c}) \cap left[w] = {})
      BY <2>2, PoolAssumption DEF NotAttempted, Reaches
    <3> QED
      BY <2>2, <3>1, NotAttemptedPast, PastCalled
  <2>3. ASSUME MissingRequirement(w) \/ CannotCall(w) \/ Fail(w) \/ Blacklist(w) \/ Succeed(w)
        PROVE  CalledInv'
    <3>1. hand[w] # Idle /\ Past(w, hand[w]) /\ hand[w] \in Component
      BY <2>3, WithoutPast, SucceedPast, HandFresh
    <3>2. /\ (Dependencies(hand[w]) \ {hand[w]}) \cap left[w] = {}
          /\ met[w] <=> RequirementsMet(hand[w])
      BY <3>1 DEF WorkInv, InHand
    <3>3. called \subseteq called' /\ hosted' = hosted
      BY <2>3 DEF MissingRequirement, CannotCall, Fail, Blacklist, Succeed, Without
    <3>4. AlarmWorks => CanCall(hand[w])
      BY DEF AlarmWorks, CanCall, CalledInv
    <3>5. ASSUME AlarmWorks, hand[w] \in Datasources
          PROVE  \/ hand[w] \in called'
                 \/ ~RequirementsMet(hand[w]) /\ instances' = instances
      <4>1. CASE MissingRequirement(w)
        BY <3>2, <4>1 DEF MissingRequirement, Without
      <4>2. CASE CannotCall(w)
        BY <3>4, <3>5, <4>2 DEF CannotCall
      <4>3. CASE Fail(w) \/ Blacklist(w)
        BY <4>3 DEF Fail, Blacklist
      <4>4. CASE Succeed(w)
        BY <3>5, <4>4, GraphAssumption DEF Succeed
      <4> QED
        BY <2>3, <4>1, <4>2, <4>3, <4>4
    <3> QED
      BY <3>1, <3>2, <3>3, <3>5, PastCalled
  <2> QED
    BY <1>2, <2>1, <2>2, <2>3 DEF Work
<1> QED
  BY <1>1, <1>2 DEF Next

\* Without a pool, or away from a host, run_all does not return before every
\* datasource that had its requirements was called: the alarm is the only obstacle.
THEOREM SpecsCalled ==
  ASSUME ~Pool \/ Hosts \subseteq {FALSE}
  PROVE  Spec => []HostSpecsCalled
<1>1. SplitInv /\ WorkInv /\ CalledInv /\ [Next]_vars => CalledInv'
  BY NextCalled
<1>2. CalledInv /\ (main = "returned" => Graph \subseteq timed) => HostSpecsCalled
  BY DEF CalledInv, AlarmWorks, HostSpecsCalled
<1> QED
  BY InitCalled, SplitInductive, WorkInductive, NothingLost, <1>1, <1>2, PTL DEF Spec

-----------------------------------------------------------------------------
(* The report of the blacklisted specs.                                    *)

\* Without a pool the parts come in the order of the prio of their first key.
Tops ==
  /\ prio \in [Graph -> Int]
  /\ Found # {} => \E k \in Found : \A d \in keys : prio[d] <= prio[k]
  /\ ~Pool => \A P \in parts :
       \E k \in P : \A x \in Graph \ (timed \cup P) : prio[x] <= prio[k]

ReportInv ==
  /\ Tops
  /\ blacklisted \subseteq Graph /\ report \subseteq blacklisted
  /\ ReportComplete

LEMMA InitReport ==
  ASSUME Reporter \notin Given, Init
  PROVE  ReportInv
<1>1. /\ frontier = {} /\ seen = {} /\ parts = {} /\ instances = Given
      /\ blacklisted = {} /\ report = {}
  BY DEF Init
<1>2. prio \in [Graph -> Int]
  BY InitCount DEF RestType
<1>3. Tops
  BY <1>1, <1>2 DEF Tops, Found
<1> QED
  BY <1>1, <1>3 DEF ReportInv, ReportComplete

LEMMA MainTops ==
  ASSUME SplitInv, WorkInv, Accounted, Tops, Main
  PROVE  Tops'
<1>1. /\ UNCHANGED <<prio, timed>>
      /\ prio \in [Graph -> Int]
  BY DEF Main, TakeKey, Visit, Submit, SplitEnd, ReturnAll, brokerVars, Tops
<1>2. ASSUME NEW c \in Graph, TakeKey(c)
      PROVE  Tops'
  <2>1. /\ frontier = {} /\ seen = {} /\ frontier' = {c} /\ seen' = seen /\ parts' = parts
        /\ keys' = keys \ {c} /\ \A d \in keys : prio[d] <= prio[c]
    BY <1>2 DEF TakeKey
  <2>2. Found' = {c}
    BY <2>1 DEF Found
  <2>3. \E k \in Found' : \A d \in keys' : prio'[d] <= prio'[k]
    BY <1>1, <2>1, <2>2
  <2> QED
    BY <1>1, <2>1, <2>3 DEF Tops
<1>3. ASSUME NEW c \in Graph, Visit(c)
      PROVE  Tops'
  <2>1. /\ c \in frontier /\ seen' = seen \cup {c} /\ keys' = keys /\ parts' = parts
        /\ frontier' = (frontier \cup Neighbours(c)) \ (seen \cup {c})
    BY <1>3 DEF Visit
  <2>2. Found # {} /\ Found \subseteq Found'
    BY <2>1 DEF Found
  <2>3. \E k \in Found' : \A d \in keys' : prio'[d] <= prio'[k]
    BY <1>1, <2>1, <2>2 DEF Tops
  <2> QED
    BY <1>1, <2>1, <2>3 DEF Tops
<1>4. CASE Submit
  <2>1. /\ frontier = {} /\ seen # {} /\ Splitting
        /\ parts' = parts \cup {seen} /\ keys' = keys \ seen
        /\ seen' = {} /\ frontier' = frontier
    BY <1>4 DEF Submit
  <2>2. Found = seen /\ Found' = {}
    BY <2>1 DEF Found
  <2>3. ASSUME ~Pool
        PROVE  \E k \in seen : \A x \in Graph \ (timed \cup seen) : prio[x] <= prio[k]
    <3>1. AllDone
      BY <2>1, <2>3 DEF Splitting, AllDone
    <3>2. UNION parts \subseteq timed
      BY <3>1, DonePartsTimed
    <3>3. Graph \ (timed \cup seen) \subseteq keys
      BY <2>2, <3>2 DEF SplitInv, SplitCover
    <3>4. PICK k \in seen : \A d \in keys : prio[d] <= prio[k]
      BY <2>1, <2>2 DEF Tops
    <3> QED
      BY <3>3, <3>4
  <2>4. ~Pool => \A P \in parts' :
          \E k \in P : \A x \in Graph \ (timed' \cup P) : prio'[x] <= prio'[k]
    BY <1>1, <2>1, <2>3 DEF Tops
  <2> QED
    BY <1>1, <2>2, <2>4 DEF Tops
<1>5. CASE SplitEnd \/ ReturnAll
  <2>1. UNCHANGED <<keys, frontier, seen, parts>>
    BY <1>5 DEF SplitEnd, ReturnAll
  <2>2. Found' = Found
    BY <2>1 DEF Found
  <2> QED
    BY <1>1, <2>1, <2>2 DEF Tops
<1> QED
  BY <1>2, <1>3, <1>4, <1>5 DEF Main

LEMMA WorkTops ==
  ASSUME Tops, UNCHANGED splitVars, timed \subseteq timed'
  PROVE  Tops'
<1>1. Found' = Found /\ UNCHANGED <<prio, keys, parts>>
  BY DEF Found, splitVars
<1> QED
  BY <1>1 DEF Tops

\* A part that is handed out after the report does not hold the reporter.
LEMMA MainReport ==
  ASSUME SplitInv, WorkInv, Reporter \notin Given, ReportInv, Main, Tops'
  PROVE  ReportInv'
<1>1. UNCHANGED <<prio, instances, timed, blacklisted, report>>
  BY DEF Main, TakeKey, Visit, Submit, SplitEnd, ReturnAll, brokerVars
<1>2. parts' = parts \/ (parts' = parts \cup {seen} /\ Submit)
  BY DEF Main, TakeKey, Visit, Submit, SplitEnd, ReturnAll
<1>3. Reporter \in instances => Reporter \in UNION parts
  BY DEF ReportInv, WorkInv, Settled, Owned
<1>4. \A P \in parts : P \cap seen = {}
  BY DEF SplitInv, SplitCover, Found
<1>5. Reporter \in instances => Reporter \notin seen
  BY <1>3, <1>4
<1>6. ReportComplete'
  BY <1>1, <1>2, <1>5 DEF ReportInv, ReportComplete
<1> QED
  BY <1>1, <1>6 DEF ReportInv

LEMMA WorkReport ==
  ASSUME SplitInv, WorkInv, ReportInv, Tops', NEW w \in Worker, Work(w)
  PROVE  ReportInv'
<1>1. prio' = prio /\ parts' = parts
  BY WorkSplit DEF splitVars
<1>2. CASE UNCHANGED <<instances, blacklisted, report>>
  BY <1>1, <1>2 DEF ReportInv, ReportComplete
<1>3. CASE StartRun(w) \/ Write(w) \/ EndRun(w)
           \/ \E c \in Component : NotAttempted(w, c) \/ Begin(w, c)
  BY <1>2, <1>3 DEF StartRun, Write, EndRun, NotAttempted, Begin, brokerVars
<1>4. CASE MissingRequirement(w) \/ CannotCall(w) \/ Fail(w)
  BY <1>2, <1>4 DEF MissingRequirement, CannotCall, Fail, Without
<1>5. CASE Blacklist(w)
  <2>1. /\ blacklisted' = blacklisted \cup {hand[w]} /\ report' = report
        /\ instances' = instances
    BY <1>5 DEF Blacklist, Without
  <2>2. hand[w] \in Graph /\ hand[w] \notin timed
    BY <1>5, WithoutPast, HandFresh
  <2>3. ReportComplete'
    <3> SUFFICES ASSUME ~Pool, Reporter \in instances, NEW R \in parts, Reporter \in R,
                        NEW c \in blacklisted' \ report'
                 PROVE  \E r \in R : prio[c] <= prio[r]
      BY <1>1, <2>1 DEF ReportComplete
    <3>1. CASE c \in blacklisted \ report
      BY <3>1 DEF ReportInv, ReportComplete
    <3>2. CASE c = hand[w] /\ c \in R
      BY <2>2, <3>2 DEF ReportInv, Tops
    <3>3. CASE c = hand[w] /\ c \notin R
      BY <2>2, <3>3 DEF ReportInv, Tops
    <3> QED
      BY <2>1, <3>1, <3>2, <3>3
  <2> QED
    BY <2>1, <2>2, <2>3 DEF ReportInv
<1>6. CASE Succeed(w)
  <2>1. /\ instances' = instances \cup {hand[w]} /\ blacklisted' = blacklisted
        /\ report' = IF hand[w] = Reporter THEN blacklisted ELSE report
    BY <1>6 DEF Succeed
  <2>2. ReportComplete'
    BY <1>1, <2>1 DEF ReportInv, ReportComplete
  <2> QED
    BY <2>1, <2>2 DEF ReportInv
<1> QED
  BY <1>3, <1>4, <1>5, <1>6 DEF Work

LEMMA WorkTimed ==
  ASSUME SplitInv, WorkInv, NEW w \in Worker, Work(w)
  PROVE  timed \subseteq timed'
<1>1. CASE StartRun(w) \/ Write(w) \/ EndRun(w) \/ \E c \in Component : Begin(w, c)
  BY <1>1 DEF StartRun, Write, EndRun, Begin, brokerVars
<1>2. CASE \/ MissingRequirement(w) \/ CannotCall(w) \/ Fail(w) \/ Blacklist(w) \/ Succeed(w)
           \/ \E c \in Component : NotAttempted(w, c)
  BY <1>2, WithoutPast, SucceedPast, NotAttemptedPast DEF Past, GoPast
<1> QED
  BY <1>1, <1>2 DEF Work

\* Without a pool the report lacks nothing that was blacklisted in a part of a higher
\* prio, for every graph and every choice get_registry_points leaves open.
THEOREM ReportsComplete ==
  ASSUME Reporter \notin Given
  PROVE  Spec => []ReportComplete
<1>1. SplitInv /\ WorkInv /\ Accounted /\ ReportInv /\ [Next]_vars => ReportInv'
  <2> SUFFICES ASSUME SplitInv, WorkInv, Accounted, ReportInv, [Next]_vars PROVE ReportInv'
    OBVIOUS
  <2>1. CASE Main
    BY <2>1, MainTops, MainReport DEF ReportInv
  <2>2. ASSUME NEW w \in Worker, Work(w)
        PROVE  ReportInv'
    BY <2>2, WorkTimed, WorkSplit, WorkTops, WorkReport DEF ReportInv
  <2>3. CASE UNCHANGED vars
    <3>1. UNCHANGED <<splitVars, timed, instances, blacklisted, report>>
      BY <2>3 DEF vars, brokerVars
    <3>2. Tops'
      BY <3>1, WorkTops DEF ReportInv
    <3> QED
      BY <3>1, <3>2 DEF ReportInv, ReportComplete, splitVars
  <2> QED
    BY <2>1, <2>2, <2>3 DEF Next
<1>2. SplitInv /\ WorkInv /\ Accounted /\ [Next]_vars => Accounted'
  BY NextAccounted
<1>3. ReportInv => ReportComplete
  BY DEF ReportInv
<1> QED
  BY InitAccounted, InitReport, SplitInductive, WorkInductive, <1>1, <1>2, <1>3, PTL DEF Spec

-----------------------------------------------------------------------------
(* The broker run_all returns.                                             *)

\* The requirements of c, judged by the results in I.
MetBy(c, I) == Requires[c] \subseteq I /\ \A g \in AtLeastOne[c] : g \cap I # {}

\* What was called for nothing, and what no thread of the pool can call.
Failed == {c \in Graph : c \in called \ instances \/ ~CanCall(c)}

\* The results an evaluation leaves when F are the components that fail.
IsOutcome(I, F) ==
  I = Given \cup {c \in Graph : (MetBy(c, I \ {c}) \/ c \in Rules) /\ c \notin F}

\* What a component that has been gone past left behind agrees with the broker
\* as it is now.
OutcomeInv ==
  /\ DependenciesPast
  /\ \A c \in (timed \cap Graph) \ Given :
       /\ c \in instances => (MetBy(c, instances \ {c}) \/ c \in Rules) /\ CanCall(c)
       /\ c \in missing <=> ~MetBy(c, instances \ {c}) /\ c \notin Rules
       /\ c \notin instances /\ (MetBy(c, instances \ {c}) \/ c \in Rules)
            => c \in called \/ ~CanCall(c)

LEMMA InitOutcome == Init => OutcomeInv
BY DEF Init, OutcomeInv, DependenciesPast

\* Only the other dependencies of a component decide whether it is met.
LEMMA MetByStable ==
  ASSUME NEW c \in Component, NEW I, NEW J,
         \A d \in Dependencies(c) \ {c} : d \in I <=> d \in J
  PROVE  MetBy(c, I \ {c}) <=> MetBy(c, J \ {c})
BY GraphAssumption DEF MetBy, Dependencies

LEMMA MetByRequirements ==
  ASSUME NEW c, c \notin instances
  PROVE  MetBy(c, instances \ {c}) <=> RequirementsMet(c)
BY DEF MetBy, RequirementsMet

LEMMA QuietOutcome ==
  ASSUME OutcomeInv, UNCHANGED <<hosted, instances, missing, timed, called>>
  PROVE  OutcomeInv'
<1>1. DependenciesPast'
  BY DEF OutcomeInv, DependenciesPast, Dependencies
<1>2. ASSUME NEW c
      PROVE  CanCall(c)' <=> CanCall(c)
  BY DEF CanCall
<1> QED
  BY <1>1, <1>2 DEF OutcomeInv, MetBy

\* How the evaluation of the component in the hand of w ends.
Ends(w) ==
  \/ /\ RequirementsMet(hand[w]) \/ hand[w] \in Rules
     /\ CanCall(hand[w])
     /\ instances' = instances \cup {hand[w]} /\ missing' = missing
  \/ /\ ~RequirementsMet(hand[w]) /\ hand[w] \notin Rules
     /\ instances' = instances /\ missing' = missing \cup {hand[w]}
  \/ /\ RequirementsMet(hand[w])
     /\ instances' = instances /\ missing' = missing
     /\ hand[w] \in called' \/ ~CanCall(hand[w])

LEMMA PastOutcome ==
  ASSUME SplitInv, WorkInv, OutcomeInv, NEW w \in Worker, NEW c \in Component, Past(w, c),
         called \subseteq called', hosted' = hosted,
         c \in job[w].part => (Dependencies(c) \ {c}) \cap left[w] = {},
         hand[w] = Idle => /\ c \notin job[w].part \/ c \in instances
                           /\ UNCHANGED <<instances, missing>>,
         hand[w] = c => Ends(w)
  PROVE  OutcomeInv'
<1>1. /\ job[w] # Idle /\ c \in left[w] /\ hand[w] \in {c, Idle} /\ c # Idle
      /\ timed' = timed \cup {c}
  BY PoolAssumption DEF Past, GoPast
<1>2. /\ job[w].part \in parts /\ c \in Items(job[w].part)
      /\ Items(job[w].part) \ left[w] \subseteq timed
      /\ job[w].part \cap left[w] \cap timed = {}
  BY <1>1 DEF WorkInv, Owned
<1>3. c \in Graph => c \in job[w].part /\ c \notin timed
  BY <1>1, <1>2, ItemsInGraph
<1>4. c \in Graph => Dependencies(c) \ {c} \subseteq timed
  BY <1>2, <1>3 DEF Items
<1>5. DependenciesPast'
  <2> SUFFICES ASSUME NEW x \in timed' \cap Graph
               PROVE  Dependencies(x) \ {x} \subseteq timed'
    BY DEF DependenciesPast, Dependencies
  <2> QED
    BY <1>1, <1>4 DEF OutcomeInv, DependenciesPast
<1>6. \A x : CanCall(x)' <=> CanCall(x)
  BY DEF CanCall
<1>7. /\ \A x : x # c => (x \in instances' <=> x \in instances) /\ (x \in missing' <=> x \in missing)
      /\ instances' # instances => c \notin timed
  BY <1>1, HandFresh DEF Ends
<1>8. ASSUME NEW x \in timed' \cap Graph, x \notin Given
      PROVE  /\ x \in instances' => (MetBy(x, instances' \ {x}) \/ x \in Rules) /\ CanCall(x)
             /\ x \in missing' <=> ~MetBy(x, instances' \ {x}) /\ x \notin Rules
             /\ x \notin instances' /\ (MetBy(x, instances' \ {x}) \/ x \in Rules)
                  => x \in called' \/ ~CanCall(x)
  <2>1. x \in Component
    BY GraphAssumption
  <2>2. CASE x # c
    <3>1. x \in timed /\ Dependencies(x) \ {x} \subseteq timed
      BY <1>1, <2>2 DEF OutcomeInv, DependenciesPast
    <3>2. \A d \in Dependencies(x) \ {x} : d \in instances' <=> d \in instances
      BY <1>7, <3>1
    <3>3. MetBy(x, instances' \ {x}) <=> MetBy(x, instances \ {x})
      BY <2>1, <3>2, MetByStable
    <3> QED
      BY <1>7, <1>8, <2>2, <3>1, <3>3 DEF OutcomeInv
  <2>3. CASE x = c
    <3>1. c \in job[w].part /\ c \notin timed
      BY <1>3, <2>3
    <3>2. c \notin instances
      BY <1>8, <2>3, <3>1 DEF WorkInv, Settled
    <3>3. c \notin missing
      BY <3>1 DEF WorkInv, Settled
    <3>4. hand[w] = c /\ Ends(w)
      BY <1>1, <3>1, <3>2
    <3>5. MetBy(c, instances \ {c}) <=> RequirementsMet(c)
      BY <3>2, MetByRequirements
    <3>6. instances' \ {c} = instances \ {c}
      BY <3>4 DEF Ends
    <3> QED
      BY <2>3, <3>2, <3>3, <3>4, <3>5, <3>6 DEF Ends
  <2> QED
    BY <2>2, <2>3
<1>9. \A x : MetBy(x, instances \ {x})' <=> MetBy(x, instances' \ {x})
  BY DEF MetBy
<1> QED
  BY <1>5, <1>6, <1>8, <1>9 DEF OutcomeInv

\* Each way a worker lays a component down is one of the ends.
LEMMA HandEnds ==
  ASSUME SplitInv, WorkInv, NEW w \in Worker,
         MissingRequirement(w) \/ CannotCall(w) \/ Fail(w) \/ Blacklist(w) \/ Succeed(w)
  PROVE  Ends(w) /\ called \subseteq called' /\ hosted' = hosted
<1>1. hand[w] # Idle
  BY WithoutPast, SucceedPast
<1>2. met[w] <=> RequirementsMet(hand[w])
  BY <1>1 DEF WorkInv, InHand
<1>3. CASE MissingRequirement(w)
  BY <1>2, <1>3 DEF MissingRequirement, Without, Ends
<1>4. CASE CannotCall(w)
  BY <1>2, <1>4 DEF CannotCall, Without, Ends
<1>5. CASE Fail(w) \/ Blacklist(w)
  BY <1>2, <1>5 DEF Fail, Blacklist, Without, Ends
<1>6. CASE Succeed(w)
  BY <1>2, <1>6 DEF Succeed, Ends
<1> QED
  BY <1>3, <1>4, <1>5, <1>6

LEMMA NextOutcome ==
  ASSUME SplitInv, WorkInv, OutcomeInv, [Next]_vars
  PROVE  OutcomeInv'
<1>1. CASE Main \/ UNCHANGED vars
  BY <1>1, QuietOutcome
  DEF Main, TakeKey, Visit, Submit, SplitEnd, ReturnAll, vars, brokerVars
<1>2. ASSUME NEW w \in Worker, Work(w)
      PROVE  OutcomeInv'
  <2>1. CASE StartRun(w) \/ Write(w) \/ EndRun(w) \/ \E c \in Component : Begin(w, c)
    BY <2>1, QuietOutcome DEF StartRun, Write, EndRun, Begin, brokerVars
  <2>2. ASSUME NEW c \in Component, NotAttempted(w, c)
        PROVE  OutcomeInv'
    <3>1. UNCHANGED <<hosted, called>> /\ c # Idle /\ hand[w] = Idle
          /\ (c \in job[w].part => (Dependencies(c) \ {c}) \cap left[w] = {})
      BY <2>2, PoolAssumption DEF NotAttempted, Reaches
    <3> QED
      BY <2>2, <3>1, NotAttemptedPast, PastOutcome
  <2>3. ASSUME MissingRequirement(w) \/ CannotCall(w) \/ Fail(w) \/ Blacklist(w) \/ Succeed(w)
        PROVE  OutcomeInv'
    <3>1. hand[w] # Idle /\ Past(w, hand[w]) /\ hand[w] \in Component
      BY <2>3, WithoutPast, SucceedPast, HandFresh
    <3>2. (Dependencies(hand[w]) \ {hand[w]}) \cap left[w] = {}
      BY <3>1 DEF WorkInv, InHand
    <3> QED
      BY <2>3, <3>1, <3>2, HandEnds, PastOutcome
  <2> QED
    BY <1>2, <2>1, <2>2, <2>3 DEF Work
<1> QED
  BY <1>1, <1>2 DEF Next

LEMMA OutcomeAlways == Spec => []OutcomeInv
<1>1. SplitInv /\ WorkInv /\ OutcomeInv /\ [Next]_vars => OutcomeInv'
  BY NextOutcome
<1> QED
  BY InitOutcome, SplitInductive, WorkInductive, <1>1, PTL DEF Spec

\* The broker run_all returns is the outcome of an evaluation of the graph in
\* which those components fail that were called without a result or that no
\* thread can call, and what it says is missing is what lacks requirements in it:
\* the split into parts, the threads and their order leave no other trace.
THEOREM BrokerIsOutcome ==
  Spec => [](main = "returned" =>
               /\ IsOutcome(instances, Failed)
               /\ missing = {c \in Graph \ (Given \cup Rules) : ~RequirementsMet(c)})
<1>1. ASSUME SplitInv, WorkInv, OutcomeInv, Graph \subseteq timed
      PROVE  /\ IsOutcome(instances, Failed)
             /\ missing = {c \in Graph \ (Given \cup Rules) : ~RequirementsMet(c)}
  <2>1. Given \subseteq instances /\ instances \subseteq Given \cup Graph
        /\ missing \subseteq Graph /\ missing \cap instances = {}
    BY <1>1 DEF WorkInv, Settled
  <2>2. ASSUME NEW c \in Graph, c \notin Given
        PROVE  c \in instances <=> (MetBy(c, instances \ {c}) \/ c \in Rules) /\ c \notin Failed
    BY <1>1, <2>2 DEF OutcomeInv, Failed
  <2>3. IsOutcome(instances, Failed)
    BY <2>1, <2>2 DEF IsOutcome
  <2>4. ASSUME NEW c \in Graph \ (Given \cup Rules)
        PROVE  c \in missing <=> ~RequirementsMet(c)
    <3>1. CASE c \in instances
      <4>1. MetBy(c, instances \ {c}) => RequirementsMet(c)
        BY DEF MetBy, RequirementsMet
      <4> QED
        BY <1>1, <2>1, <3>1, <4>1 DEF OutcomeInv
    <3>2. CASE c \notin instances
      BY <1>1, <3>2, MetByRequirements DEF OutcomeInv
    <3> QED
      BY <3>1, <3>2
  <2>5. \A c \in missing : c \in Graph \ (Given \cup Rules)
    BY <1>1, <2>1 DEF OutcomeInv
  <2> QED
    BY <2>1, <2>3, <2>4, <2>5
<1> QED
  BY SplitInductive, WorkInductive, NothingLost, OutcomeAlways, <1>1, PTL

\* Every set of keys has one that waits for none of the others: what toposort,
\* which discards self dependencies, finds or raises for.
Acyclic ==
  \A S \in (SUBSET Graph) \ {{}} : \E c \in S : (Dependencies(c) \ {c}) \cap S = {}

\* Of an acyclic graph two evaluations in which the same components fail leave
\* the same results: an outcome is decided by what fails, not by when it ran.
THEOREM OutcomeDecided ==
  ASSUME Acyclic, NEW F, NEW I, NEW J, IsOutcome(I, F), IsOutcome(J, F)
  PROVE  I = J
<1> DEFINE Apart == {c \in Graph : (c \in I) # (c \in J)}
<1>1. \A c : c \notin Graph => (c \in I <=> c \in J)
  BY DEF IsOutcome
<1>2. CASE Apart = {}
  BY <1>1, <1>2
<1>3. CASE Apart # {}
  <2>1. PICK c \in Apart : (Dependencies(c) \ {c}) \cap Apart = {}
    BY <1>3 DEF Acyclic
  <2>2. \A d \in Dependencies(c) \ {c} : d \in I <=> d \in J
    BY <1>1, <2>1
  <2>3. c \in Component /\ c \in Graph
    BY GraphAssumption
  <2>4. MetBy(c, I \ {c}) <=> MetBy(c, J \ {c})
    BY <2>2, <2>3, MetByStable
  <2>5. c \in I <=> c \in J
    BY <2>3, <2>4 DEF IsOutcome
  <2> QED
    BY <2>5
<1> QED
  BY <1>2, <1>3

-----------------------------------------------------------------------------
(* The pool cannot stand still while it has threads enough.                *)

\* The parts with a component whose list the persister may write by the pool.
ListParts ==
  {P \in SUBSET Graph : P # {} /\ Closed(P) /\ Connected(P) /\ P \cap Persist # {}}

\* The pool has a thread more than there are such parts.
EnoughThreads ==
  IsFiniteSet(Worker) /\ Cardinality(ListParts) < Cardinality(Worker)

\* Only a thread that runs such a part waits, and only for a pool.
WaitInv ==
  \A w \in Worker : unwritten[w] > 0 =>
    Pool /\ job[w] # Idle /\ job[w].part \cap Persist # {}

LEMMA InitWait == Init => WaitInv
BY DEF Init, WaitInv

LEMMA SameWait ==
  ASSUME WaitInv, job' = job, unwritten' = unwritten
  PROVE  WaitInv'
BY DEF WaitInv

LEMMA NextWait ==
  ASSUME SplitInv, WorkInv, CountInv, WaitInv, [Next]_vars
  PROVE  WaitInv'
<1>1. /\ unwritten \in [Worker -> 0 .. ListLength] /\ ListLength \in Nat
      /\ job \in [Worker -> RunJobs \cup {Idle}]
  BY PoolAssumption DEF CountInv, WorkInv, WorkType
<1>2. CASE Main \/ UNCHANGED vars
  BY <1>2, SameWait DEF Main, TakeKey, Visit, Submit, SplitEnd, ReturnAll, vars, poolVars
<1>3. ASSUME NEW w \in Worker, Work(w)
      PROVE  WaitInv'
  <2>1. CASE StartRun(w)
    <3>1. /\ job[w] = Idle /\ job' = [job EXCEPT ![w] = Head(queue)] /\ unwritten' = unwritten
      BY <2>1 DEF StartRun
    <3>2. ~(unwritten[w] > 0)
      BY <3>1 DEF WaitInv
    <3>3. \A v \in Worker : v # w => job'[v] = job[v]
      BY <1>1, <3>1
    <3> QED
      BY <3>1, <3>2, <3>3 DEF WaitInv
  <2>2. CASE Write(w)
    <3>1. job' = job /\ unwritten' = [unwritten EXCEPT ![Head(queue).for] = @ - 1]
      BY <2>2 DEF Write
    <3>2. \A v \in Worker : unwritten'[v] > 0 => unwritten[v] > 0
      BY <1>1, <3>1
    <3> QED
      BY <3>1, <3>2 DEF WaitInv
  <2>3. CASE Succeed(w)
    <3>1. job' = job /\ hand[w] # Idle
      BY <2>3 DEF Succeed
    <3>2. job[w] # Idle /\ hand[w] \in job[w].part
      BY <3>1 DEF WorkInv, InHand
    <3>3. \A v \in Worker : v # w => unwritten'[v] = unwritten[v]
      BY <1>1, <2>3 DEF Succeed
    <3>4. unwritten'[w] > 0 => Pool /\ hand[w] \in Persist
      BY <1>1, <2>3 DEF Succeed
    <3> QED
      BY <3>1, <3>2, <3>3, <3>4 DEF WaitInv
  <2>4. CASE EndRun(w)
    <3>1. unwritten[w] = 0 /\ unwritten' = unwritten /\ job' = [job EXCEPT ![w] = Idle]
      BY <2>4 DEF EndRun
    <3> QED
      BY <1>1, <3>1 DEF WaitInv
  <2>5. CASE \E c \in Component : NotAttempted(w, c) \/ Begin(w, c)
    BY <2>5, SameWait DEF NotAttempted, Begin
  <2>6. CASE MissingRequirement(w) \/ CannotCall(w) \/ Fail(w) \/ Blacklist(w)
    BY <2>6, SameWait DEF MissingRequirement, CannotCall, Fail, Blacklist, Without
  <2> QED
    BY <1>3, <2>1, <2>2, <2>3, <2>4, <2>5, <2>6 DEF Work
<1> QED
  BY <1>2, <1>3 DEF Next

LEMMA WaitAlways == Spec => [](CountInv /\ WaitInv)
<1>1. SplitInv /\ WorkInv /\ (CountInv /\ WaitInv) /\ [Next]_vars => (CountInv /\ WaitInv)'
  BY NextCount, NextWait
<1>2. Init => CountInv /\ WaitInv
  BY InitCount, InitWait
<1> QED
  BY SplitInductive, WorkInductive, <1>1, <1>2, PTL DEF Spec

LEMMA SomeoneFree ==
  ASSUME SplitInv, WorkInv, CountInv, WaitInv, IsFiniteSet(Graph), ~Pool \/ EnoughThreads
  PROVE  \E w \in Worker : unwritten[w] = 0
<1> SUFFICES ASSUME \A w \in Worker : unwritten[w] # 0 PROVE FALSE
  OBVIOUS
<1>1. \A w \in Worker : unwritten[w] > 0
  BY PoolAssumption DEF CountInv
<1>2. CASE ~Pool
  BY <1>1, <1>2, PoolAssumption DEF WaitInv
<1>3. CASE EnoughThreads
  <2> DEFINE f == [w \in Worker |-> job[w].part]
  <2>1. f \in [Worker -> ListParts]
    <3>1. ASSUME NEW w \in Worker PROVE job[w].part \in ListParts
      <4>1. job[w] # Idle /\ job[w].part \cap Persist # {} /\ job[w].part \in parts
        BY <1>1 DEF WaitInv, WorkInv, Owned
      <4> QED
        BY <4>1 DEF ListParts, SplitInv, SplitType, SplitWalk
    <3> QED
      BY <3>1
  <2>2. IsFiniteSet(ListParts)
    <3>1. IsFiniteSet(SUBSET Graph) /\ ListParts \in SUBSET SUBSET Graph
      BY FS_SUBSET DEF ListParts
    <3> QED
      BY <3>1, FS_Subset
  <2>3. \E v, w \in Worker : v # w /\ f[v] = f[w]
    <3> HIDE DEF f
    <3> QED
      BY <1>3, <2>1, <2>2, FS_PigeonHole DEF EnoughThreads
  <2> QED
    BY <1>1, <2>3 DEF WaitInv, WorkInv, Owned
<1> QED
  BY <1>2, <1>3

\* The threads of the pool never all wait for the elements of a list when there
\* is one more of them than connected parts that persist lists.  (The run with as
\* many threads as such parts shows the bound to be exact.)
THEOREM NeverAllWait ==
  ASSUME IsFiniteSet(Graph), ~Pool \/ EnoughThreads
  PROVE  Spec => [](\E w \in Worker : unwritten[w] = 0)
<1>1. SplitInv /\ WorkInv /\ CountInv /\ WaitInv => \E w \in Worker : unwritten[w] = 0
  BY SomeoneFree
<1> QED
  BY SplitInductive, WorkInductive, WaitAlways, <1>1, PTL

\* The guards of a worker's actions, and of the caller's: a worker has a job to
\* take or, with nothing to wait for, a component to lay down, to take up or none
\* left; the caller has a key to take, something found, a part to hand out, or
\* everything done.
WorkerReady(w) ==
  \/ job[w] = Idle /\ queue # <<>>
  \/ /\ job[w] # Idle /\ unwritten[w] = 0
     /\ hand[w] # Idle \/ left[w] = {} \/ \E c \in Component : Reaches(w, c)

CallerReady ==
  \/ /\ Splitting
     /\ \/ frontier # {} \/ seen # {} \/ keys = {}
        \/ \E c \in keys : \A d \in keys : prio[d] <= prio[c]
  \/ main = "wait" /\ AllDone

\* A worker that has components left and nothing to wait for reaches one.
LEMMA LeftReached ==
  ASSUME SplitInv, WorkInv, Acyclic, NEW w \in Worker, job[w] # Idle, hand[w] = Idle,
         unwritten[w] = 0, left[w] # {}
  PROVE  \E c \in Component : Reaches(w, c)
<1>1. left[w] \subseteq Component
  BY DEF WorkInv, WorkType
<1>2. CASE \E c \in left[w] : c \notin job[w].part
  BY <1>1, <1>2 DEF Reaches
<1>3. CASE left[w] \subseteq job[w].part
  <2>1. left[w] \in (SUBSET Graph) \ {{}}
    BY <1>3 DEF WorkInv, Owned, SplitInv, SplitType
  <2>2. PICK c \in left[w] : (Dependencies(c) \ {c}) \cap left[w] = {}
    BY <2>1 DEF Acyclic
  <2> QED
    BY <1>1, <2>2 DEF Reaches
<1> QED
  BY <1>2, <1>3

\* A finite set of keys has one of the highest prio.
LEMMA TopKey ==
  ASSUME prio \in [Graph -> Int], keys \subseteq Graph, keys # {}, IsFiniteSet(Graph)
  PROVE  \E c \in keys : \A d \in keys : prio[d] <= prio[c]
<1> DEFINE Above(c) == {d \in keys : prio[d] > prio[c]}
           T == {Above(c) : c \in keys}
<1>1. IsFiniteSet(keys)
  BY FS_Subset
<1>2. T \subseteq FiniteSubsetsOf(keys) /\ T # {}
  <2>1. ASSUME NEW c \in keys
        PROVE  Above(c) \in FiniteSubsetsOf(keys)
    <3>1. Above(c) \in SUBSET keys
      OBVIOUS
    <3> HIDE DEF Above
    <3> QED
      BY <1>1, <3>1, FS_Subset DEF FiniteSubsetsOf
  <2> HIDE DEF Above
  <2> QED
    BY <2>1
<1>3. IsWellFoundedOn(StrictSubsetOrdering(keys), FiniteSubsetsOf(keys))
  BY FS_StrictSubsetOrderingWellFounded
<1>4. PICK A \in T : \A B \in T : ~(<<B, A>> \in StrictSubsetOrdering(keys))
  <2> HIDE DEF T
  <2> QED
    BY <1>2, <1>3, WFMin
<1>5. PICK c \in keys : A = Above(c)
  BY <1>4
<1>6. ASSUME NEW d \in keys, prio[d] > prio[c]
      PROVE  FALSE
  <2>1. Above(d) \subseteq Above(c) /\ d \in Above(c) /\ d \notin Above(d)
    BY <1>6
  <2>2. <<Above(d), Above(c)>> \in StrictSubsetOrdering(keys)
    BY <2>1 DEF StrictSubsetOrdering
  <2> QED
    BY <1>4, <1>5, <2>2
<1> QED
  BY <1>6

\* Until run_all returns somebody can go on: a worker or the caller.  Only a pool
\* without threads enough for its lists comes to a standstill.
THEOREM SomebodyGoesOn ==
  ASSUME IsFiniteSet(Graph), Acyclic, ~Pool \/ EnoughThreads
  PROVE  Spec => [](main # "returned" => CallerReady \/ \E w \in Worker : WorkerReady(w))
<1>1. ASSUME SplitInv, WorkInv, CountInv, WaitInv, RestType, main # "returned",
             \A w \in Worker : ~WorkerReady(w)
      PROVE  CallerReady
  <2>1. \A w \in Worker : job[w] # Idle => unwritten[w] # 0
    BY <1>1, LeftReached DEF WorkerReady
  <2>2. queue = <<>>
    <3>1. PICK w \in Worker : unwritten[w] = 0
      BY <1>1, SomeoneFree
    <3> QED
      BY <1>1, <2>1, <3>1 DEF WorkerReady
  <2>3. ASSUME NEW w \in Worker
        PROVE  job[w] = Idle
    <3>1. WritesIn(queue, w) = {}
      BY <2>2 DEF WritesIn
    <3>2. unwritten[w] = 0
      BY <1>1, <3>1, FS_EmptySet DEF CountInv
    <3> QED
      BY <2>1, <3>2
  <2>4. CASE main = "wait"
    BY <2>2, <2>3, <2>4 DEF CallerReady, AllDone
  <2>5. CASE main = "split"
    <3>1. Splitting
      BY <2>2, <2>3, <2>5 DEF Splitting
    <3>2. keys # {} => \E c \in keys : \A d \in keys : prio[d] <= prio[c]
      BY <1>1, TopKey DEF RestType, SplitInv, SplitType
    <3> QED
      BY <3>1, <3>2 DEF CallerReady
  <2> QED
    BY <1>1, <2>4, <2>5 DEF RestType
<1>2. SplitInv /\ WorkInv /\ CountInv /\ WaitInv /\ RestType
        => (main # "returned" => CallerReady \/ \E w \in Worker : WorkerReady(w))
  BY <1>1
<1>3. WorkInv /\ RestType /\ [Next]_vars => RestType'
  BY NextRest
<1>4. Init => RestType
  BY InitCount
<1> QED
  BY SplitInductive, WorkInductive, WaitAlways, <1>2, <1>3, <1>4, PTL DEF Spec

-----------------------------------------------------------------------------
(* Termination.                                                            *)

Smaller(new, old) == new \subseteq old /\ new # old

\* The parts no worker has taken, the items the workers have left, the workers with
\* nothing in hand and those with a job.
Waiting == {queue[i].part : i \in {n \in DOMAIN queue : queue[n].kind = "run"}}
Ahead == {x \in Worker \X Component : x[2] \in left[x[1]]}
Empty == {w \in Worker : hand[w] = Idle}
Busy == {w \in Worker : job[w] # Idle}
Phase == IF main = "split" THEN 2 ELSE IF main = "wait" THEN 1 ELSE 0

\* The caller has fewer keys to take or, with these, more parts or, with those, found
\* more of the next one.
CallerAdvances ==
  \/ Phase' < Phase
  \/ /\ main' = main
     /\ \/ Smaller(keys', keys)
        \/ keys' = keys /\ Smaller(parts, parts')
        \/ keys' = keys /\ parts' = parts /\ Smaller(seen, seen')

\* The workers have fewer parts to take or, with these, fewer items left or, with
\* those, more in hand, then fewer parts to end, then fewer elements to write.
WorkersAdvance ==
  /\ UNCHANGED <<main, keys, parts, seen>>
  /\ \/ Smaller(Waiting', Waiting)
     \/ Waiting' = Waiting /\ Smaller(Ahead', Ahead)
     \/ /\ Waiting' = Waiting /\ Ahead' = Ahead
        /\ \/ Smaller(Empty', Empty)
           \/ Empty' = Empty /\ Smaller(Busy', Busy)
           \/ Empty' = Empty /\ Busy' = Busy /\ Len(queue') < Len(queue)

LEMMA CallerSteps ==
  ASSUME SplitInv, frontier \cap seen = {}, Main
  PROVE  CallerAdvances
<1>1. CASE \E c \in Graph : TakeKey(c)
  BY <1>1 DEF TakeKey, CallerAdvances, Smaller
<1>2. ASSUME NEW c \in Graph, Visit(c)
      PROVE  CallerAdvances
  <2>1. c \in frontier /\ seen' = seen \cup {c} /\ UNCHANGED <<main, keys, parts>>
    BY <1>2 DEF Visit
  <2> QED
    BY <2>1 DEF CallerAdvances, Smaller
<1>3. CASE Submit
  <2>1. /\ seen # {} /\ parts' = parts \cup {seen} /\ keys' = keys \ seen /\ main' = main
    BY <1>3 DEF Submit
  <2>2. seen \notin parts
    BY <2>1 DEF SplitInv, SplitCover, Found
  <2> QED
    BY <2>1, <2>2 DEF CallerAdvances, Smaller
<1>4. CASE SplitEnd \/ ReturnAll
  BY <1>4 DEF SplitEnd, ReturnAll, Splitting, CallerAdvances, Phase
<1> QED
  BY <1>1, <1>2, <1>3, <1>4 DEF Main

\* A job that is taken leaves the others.
LEMMA TakenWaits ==
  ASSUME WorkInv, queue # <<>>, queue' = Tail(queue)
  PROVE  /\ Waiting' \subseteq Waiting /\ Len(queue') < Len(queue)
         /\ Head(queue).kind = "run" =>
              Head(queue).part \in Waiting /\ Head(queue).part \notin Waiting'
<1>1. queue \in Seq(Jobs) /\ Len(Tail(queue)) = Len(queue) - 1 /\ Len(queue) \in Nat
  BY HeadTailProperties, LenProperties DEF WorkInv, WorkType
<1>2. /\ 1 \in DOMAIN queue /\ Head(queue) = queue[1]
      /\ \A i \in DOMAIN queue' : i + 1 \in DOMAIN queue /\ queue'[i] = queue[i + 1] /\ i + 1 # 1
  BY TakenOff
<1>3. Waiting' \subseteq Waiting
  BY <1>2 DEF Waiting
<1>4. ASSUME Head(queue).kind = "run"
      PROVE  Head(queue).part \in Waiting /\ Head(queue).part \notin Waiting'
  <2>1. 1 \in DOMAIN queue /\ queue[1].kind = "run"
    BY <1>2, <1>4
  <2>2. \A i \in DOMAIN queue' : queue'[i].kind = "run" => queue'[i].part # queue[1].part
    BY <1>2, <2>1 DEF WorkInv, Queued
  <2> QED
    BY <1>2, <2>1, <2>2 DEF Waiting
<1> QED
  BY <1>1, <1>3, <1>4

\* What is left gets less when a worker goes past an item.
LEMMA PastAdvances ==
  ASSUME WorkInv, NEW w \in Worker, NEW c \in Component, Past(w, c),
         UNCHANGED <<main, keys, parts, seen>>
  PROVE  WorkersAdvance
<1>1. /\ c \in left[w] /\ left' = [left EXCEPT ![w] = @ \ {c}]
      /\ \A i \in DOMAIN queue' :
           queue'[i].kind = "run" => i \in DOMAIN queue /\ queue'[i] = queue[i]
  BY DEF Past, GoPast
<1>2. Waiting' \subseteq Waiting
  BY <1>1 DEF Waiting
<1>3. left \in [Worker -> SUBSET Component]
  BY DEF WorkInv, WorkType
<1>4. Ahead' = Ahead \ {<<w, c>>} /\ <<w, c>> \in Ahead
  BY <1>1, <1>3 DEF Ahead
<1>5. Smaller(Ahead', Ahead)
  BY <1>4 DEF Smaller
<1> QED
  BY <1>2, <1>5 DEF WorkersAdvance, Smaller

LEMMA WorkerSteps ==
  ASSUME SplitInv, WorkInv, NEW w \in Worker, Work(w)
  PROVE  WorkersAdvance
<1>1. UNCHANGED <<main, keys, parts, seen>>
  BY DEF Work, StartRun, Write, NotAttempted, Begin, MissingRequirement, CannotCall, Fail,
         Blacklist, Without, Succeed, EndRun, splitVars
<1>2. CASE StartRun(w)
  <2>1. queue # <<>> /\ queue' = Tail(queue) /\ Head(queue).kind = "run"
    BY <1>2 DEF StartRun
  <2> QED
    BY <1>1, <2>1, TakenWaits DEF WorkersAdvance, Smaller
<1>3. CASE Write(w)
  <2>1. queue # <<>> /\ queue' = Tail(queue) /\ UNCHANGED <<job, left, hand>>
    BY <1>3 DEF Write
  <2>2. Ahead' = Ahead /\ Empty' = Empty /\ Busy' = Busy
    BY <2>1 DEF Ahead, Empty, Busy
  <2> QED
    BY <1>1, <2>1, <2>2, TakenWaits DEF WorkersAdvance, Smaller
<1>4. ASSUME NEW c \in Component, NotAttempted(w, c)
      PROVE  WorkersAdvance
  BY <1>1, <1>4, NotAttemptedPast, PastAdvances
<1>5. ASSUME NEW c \in Component, Begin(w, c)
      PROVE  WorkersAdvance
  <2>1. /\ hand[w] = Idle /\ c # Idle /\ hand' = [hand EXCEPT ![w] = c]
        /\ UNCHANGED <<queue, left>>
    BY <1>5, PoolAssumption DEF Begin, Reaches
  <2>2. Waiting' = Waiting /\ Ahead' = Ahead
    BY <2>1 DEF Waiting, Ahead
  <2>3. Empty' = Empty \ {w} /\ w \in Empty
    BY <2>1 DEF Empty, WorkInv, WorkType
  <2> QED
    BY <1>1, <2>2, <2>3 DEF WorkersAdvance, Smaller
<1>6. CASE MissingRequirement(w) \/ CannotCall(w) \/ Fail(w) \/ Blacklist(w) \/ Succeed(w)
  <2>1. hand[w] \in Component /\ Past(w, hand[w])
    BY <1>6, WithoutPast, SucceedPast, HandFresh
  <2> QED
    BY <1>1, <2>1, PastAdvances
<1>7. CASE EndRun(w)
  <2>1. job[w] # Idle /\ job' = [job EXCEPT ![w] = Idle] /\ UNCHANGED <<queue, left, hand>>
    BY <1>7 DEF EndRun
  <2>2. Waiting' = Waiting /\ Ahead' = Ahead /\ Empty' = Empty
    BY <2>1 DEF Waiting, Ahead, Empty
  <2>3. Busy' = Busy \ {w} /\ w \in Busy
    BY <2>1 DEF Busy, WorkInv, WorkType
  <2> QED
    BY <1>1, <2>2, <2>3 DEF WorkersAdvance, Smaller
<1> QED
  BY <1>2, <1>3, <1>4, <1>5, <1>6, <1>7 DEF Work

\* Nothing is done twice: every step of the caller or of a worker, in whichever
\* order they are taken, is one less to take.  All the sets are of keys, items,
\* parts and workers, so on a finite graph no run_all takes infinitely many steps.
THEOREM EveryStepAdvances == Spec => [][CallerAdvances \/ WorkersAdvance]_vars
<1>1. SplitInv /\ WorkInv /\ frontier \cap seen = {} /\ [Next]_vars
        => [CallerAdvances \/ WorkersAdvance]_vars
  BY CallerSteps, WorkerSteps DEF Next
<1>2. ASSUME frontier \cap seen = {}, [Next]_vars
      PROVE  (frontier \cap seen = {})'
  <2>1. CASE Main
    BY <1>2, <2>1 DEF Main, TakeKey, Visit, Submit, SplitEnd, ReturnAll
  <2>2. ASSUME NEW w \in Worker, Work(w)
        PROVE  frontier' = frontier /\ seen' = seen
    BY <2>2 DEF Work, StartRun, Write, NotAttempted, Begin, MissingRequirement, CannotCall, Fail,
           Blacklist, Without, Succeed, EndRun, splitVars
  <2> QED
    BY <1>2, <2>1, <2>2 DEF Next, vars, splitVars
<1>3. Init => frontier \cap seen = {}
  BY DEF Init
<1> QED
  BY SplitInductive, WorkInductive, <1>1, <1>2, <1>3, PTL DEF Spec
=============================================================================
