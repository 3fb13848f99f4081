-------------------------- MODULE RunAllWorkProofs --------------------------
(***************************************************************************)
(* The workers of run_all, for every graph, pool and interleaving: a part  *)
(* waits in the queue, is with one worker or has been run, and what one    *)
(* worker stores never bears on what another has in hand.  From that, each *)
(* component is evaluated once and all the parts together are an           *)
(* evaluation of the whole graph.                                          *)
(***************************************************************************)
EXTENDS RunAllProofs, SequenceTheorems, FiniteSetTheorems

RunJobs == [kind : {"run"}, part : SUBSET Graph]
Jobs == RunJobs \cup [kind : {"write"}, for : Worker]

WorkType ==
  /\ queue \in Seq(Jobs)
  /\ job \in [Worker -> RunJobs \cup {Idle}]
  /\ left \in [Worker -> SUBSET Component]
  /\ hand \in [Worker -> Component \cup {Idle}]
  /\ met \in [Worker -> BOOLEAN]
  /\ instances \subseteq Component
  /\ missing \subseteq Component
  /\ timed \subseteq Component

\* A part in the queue is untouched, and nowhere else.
Queued ==
  /\ \A i \in DOMAIN queue : queue[i].kind = "run" =>
       /\ queue[i].part \in parts
       /\ queue[i].part \cap timed = {}
       /\ \A w \in Worker : job[w] # Idle => job[w].part # queue[i].part
  /\ \A i, j \in DOMAIN queue :
       queue[i].kind = "run" /\ queue[j].kind = "run" /\ i # j =>
         queue[i].part # queue[j].part

\* No two workers have one part, and a worker has gone past exactly what is not left.
Owned ==
  /\ timed \cap Graph \subseteq UNION parts
  /\ \A w \in Worker : job[w] # Idle =>
       /\ job[w].part \in parts
       /\ left[w] \subseteq Items(job[w].part)
       /\ Items(job[w].part) \ left[w] \subseteq timed
       /\ job[w].part \cap left[w] \cap timed = {}
  /\ \A v, w \in Worker :
       v # w /\ job[v] # Idle /\ job[w] # Idle => job[v].part # job[w].part

\* What get_missing_dependencies said of the component in hand is still so.
InHand ==
  \A w \in Worker : hand[w] # Idle =>
    /\ job[w] # Idle
    /\ hand[w] \in (job[w].part \cap left[w]) \ instances
    /\ (Dependencies(hand[w]) \ {hand[w]}) \cap left[w] = {}
    /\ met[w] <=> RequirementsMet(hand[w])

\* Results and missing requirements are of components that have been timed.
Settled ==
  /\ Given \subseteq instances /\ instances \subseteq Given \cup (timed \cap Graph)
  /\ missing \subseteq timed \cap Graph
  /\ missing \cap instances = {}

WorkInv == WorkType /\ Queued /\ Owned /\ InHand /\ Settled

-----------------------------------------------------------------------------
LEMMA DependenciesType ==
  ASSUME NEW c \in Component
  PROVE  Dependencies(c) \subseteq Component
BY GraphAssumption DEF Dependencies

LEMMA ItemsType ==
  ASSUME NEW P \in SUBSET Graph
  PROVE  P \subseteq Items(P) /\ Items(P) \subseteq Component
<1>1. \A c \in P : Dependencies(c) \subseteq Component
  BY DependenciesType, GraphAssumption
<1> QED
  BY <1>1, GraphAssumption DEF Items

\* The items of a part that are keys of the graph are the part.
LEMMA ItemsInGraph ==
  ASSUME SplitInv, NEW P \in parts, NEW c \in Items(P), c \in Graph
  PROVE  c \in P
<1>1. P \subseteq Graph /\ Closed(P)
  BY DEF SplitInv, SplitType, SplitWalk
<1>2. CASE c \notin P
  <2>1. PICK p \in P : c \in Dependencies(p)
    BY <1>2 DEF Items
  <2>2. c \in Neighbours(p)
    BY <2>1 DEF Neighbours
  <2> QED
    BY <1>1, <2>2 DEF Closed
<1> QED
  BY <1>2

\* The requirements of a component depend on its dependencies alone.
LEMMA RequirementsStable ==
  ASSUME NEW c \in Component,
         \A d \in Dependencies(c) : d \in instances' <=> d \in instances
  PROVE  RequirementsMet(c)' <=> RequirementsMet(c)
BY DEF RequirementsMet, Dependencies

LEMMA RunJobFields ==
  ASSUME NEW P
  PROVE  RunJob(P).kind = "run" /\ RunJob(P).part = P
BY DEF RunJob

LEMMA WriteJobFields ==
  ASSUME NEW w \in Worker
  PROVE  WriteJob(w) \in Jobs /\ WriteJob(w).kind = "write"
BY DEF WriteJob, Jobs

-----------------------------------------------------------------------------
LEMMA InitWork == Init => WorkInv
<1> SUFFICES ASSUME Init PROVE WorkInv
  OBVIOUS
<1>1. /\ queue = <<>> /\ parts = {}
      /\ job = [w \in Worker |-> Idle] /\ left = [w \in Worker |-> {}]
      /\ hand = [w \in Worker |-> Idle] /\ met = [w \in Worker |-> FALSE]
      /\ instances = Given /\ missing = {} /\ timed = {}
  BY DEF Init
<1>2. WorkType
  <2>1. queue \in Seq(Jobs)
    BY <1>1, EmptySeq
  <2>2. job \in [Worker -> RunJobs \cup {Idle}]
    BY <1>1
  <2>3. left \in [Worker -> SUBSET Component]
    BY <1>1
  <2>4. hand \in [Worker -> Component \cup {Idle}]
    BY <1>1
  <2>5. met \in [Worker -> BOOLEAN]
    BY <1>1
  <2> QED
    BY <1>1, <2>1, <2>2, <2>3, <2>4, <2>5, GraphAssumption DEF WorkType
<1>3. Queued
  BY <1>1 DEF Queued
<1>4. Owned
  BY <1>1 DEF Owned
<1>5. InHand
  BY <1>1 DEF InHand
<1>6. Settled
  BY <1>1 DEF Settled
<1> QED
  BY <1>2, <1>3, <1>4, <1>5, <1>6 DEF WorkInv

LEMMA QuietWork ==
  ASSUME WorkInv, UNCHANGED <<parts, queue, job, left, hand, met, instances, missing, timed>>
  PROVE  WorkInv'
<1>1. WorkType' /\ Queued' /\ Owned' /\ Settled'
  BY DEF WorkInv, WorkType, Queued, Owned, Settled
<1>2. InHand'
  BY DEF WorkInv, InHand, RequirementsMet
<1> QED
  BY <1>1, <1>2 DEF WorkInv

\* A part that is handed out has not been touched.
LEMMA SubmitWork ==
  ASSUME SplitInv, WorkInv, Submit
  PROVE  WorkInv'
<1>1. /\ seen # {} /\ parts' = parts \cup {seen}
      /\ queue' = Append(queue, RunJob(seen))
      /\ UNCHANGED <<job, left, hand, met, instances, missing, timed>>
  BY DEF Submit, brokerVars
<1>2. seen \subseteq Graph /\ \A P \in parts : P \cap seen = {}
  BY DEF SplitInv, SplitType, SplitCover, Found
<1>3. seen \notin parts /\ seen \cap timed = {}
  BY <1>1, <1>2 DEF WorkInv, Owned
<1>4. queue \in Seq(Jobs) /\ RunJob(seen) \in Jobs
  BY <1>2 DEF WorkInv, WorkType, Jobs, RunJobs, RunJob
<1>5. /\ queue' \in Seq(Jobs) /\ DOMAIN queue' = 1 .. Len(queue) + 1
      /\ DOMAIN queue = 1 .. Len(queue) /\ Len(queue) \in Nat
      /\ \A i \in DOMAIN queue : queue'[i] = queue[i]
      /\ queue'[Len(queue) + 1] = RunJob(seen)
  BY <1>1, <1>4, AppendProperties, LenProperties
<1>6. WorkType'
  BY <1>1, <1>5 DEF WorkInv, WorkType
<1>7. Queued'
  <2>1. ASSUME NEW i \in DOMAIN queue', queue'[i].kind = "run"
        PROVE  /\ queue'[i].part \in parts'
               /\ queue'[i].part \cap timed' = {}
               /\ \A w \in Worker : job'[w] # Idle => job'[w].part # queue'[i].part
    <3>1. CASE i \in DOMAIN queue
      BY <1>1, <1>5, <2>1, <3>1 DEF WorkInv, Queued
    <3>2. CASE i = Len(queue) + 1
      BY <1>1, <1>3, <1>5, <3>2, RunJobFields DEF WorkInv, Owned
    <3> QED
      BY <1>5, <3>1, <3>2
  <2>2. ASSUME NEW i \in DOMAIN queue', NEW j \in DOMAIN queue', i # j,
               queue'[i].kind = "run", queue'[j].kind = "run"
        PROVE  queue'[i].part # queue'[j].part
    <3>1. CASE i \in DOMAIN queue /\ j \in DOMAIN queue
      BY <1>5, <2>2, <3>1 DEF WorkInv, Queued
    <3>2. CASE i \in DOMAIN queue /\ j = Len(queue) + 1
      BY <1>3, <1>5, <2>2, <3>2, RunJobFields DEF WorkInv, Queued
    <3>3. CASE i = Len(queue) + 1 /\ j \in DOMAIN queue
      BY <1>3, <1>5, <2>2, <3>3, RunJobFields DEF WorkInv, Queued
    <3> QED
      BY <1>5, <2>2, <3>1, <3>2, <3>3
  <2> QED
    BY <2>1, <2>2 DEF Queued
<1>8. Owned'
  BY <1>1 DEF WorkInv, Owned
<1>9. InHand' /\ Settled'
  BY <1>1 DEF WorkInv, InHand, RequirementsMet, Settled
<1> QED
  BY <1>6, <1>7, <1>8, <1>9 DEF WorkInv

\* Taking a job off the queue.
LEMMA TakenOff ==
  ASSUME WorkInv, queue # <<>>, queue' = Tail(queue)
  PROVE  /\ queue' \in Seq(Jobs) /\ Head(queue) \in Jobs
         /\ 1 \in DOMAIN queue /\ Head(queue) = queue[1]
         /\ \A i \in DOMAIN queue' :
              i + 1 \in DOMAIN queue /\ queue'[i] = queue[i + 1] /\ i + 1 # 1
         /\ \A i, j \in DOMAIN queue' : i # j => i + 1 # j + 1
<1>1. queue \in Seq(Jobs)
  BY DEF WorkInv, WorkType
<1>2. queue' \in Seq(Jobs) /\ Head(queue) \in Jobs /\ Len(queue') = Len(queue) - 1
      /\ \A i \in 1 .. Len(queue') : queue'[i] = queue[i + 1]
  BY <1>1, HeadTailProperties
<1>3. DOMAIN queue = 1 .. Len(queue) /\ DOMAIN queue' = 1 .. Len(queue')
      /\ Len(queue) \in Nat \ {0}
  BY <1>1, <1>2, LenProperties, EmptySeq
<1> QED
  BY <1>1, <1>2, <1>3

LEMMA WriteWork ==
  ASSUME WorkInv, NEW w \in Worker, Write(w)
  PROVE  WorkInv'
<1>1. /\ queue # <<>> /\ queue' = Tail(queue)
      /\ UNCHANGED <<parts, job, left, hand, met, instances, missing, timed>>
  BY DEF Write, splitVars, brokerVars
<1>2. WorkType'
  BY <1>1, TakenOff DEF WorkInv, WorkType
<1>3. Queued'
  BY <1>1, TakenOff DEF WorkInv, Queued
<1>4. Owned' /\ Settled'
  BY <1>1 DEF WorkInv, Owned, Settled
<1>5. InHand'
  BY <1>1 DEF WorkInv, InHand, RequirementsMet
<1> QED
  BY <1>2, <1>3, <1>4, <1>5 DEF WorkInv
LEMMA StartRunWork ==
  ASSUME WorkInv, NEW w \in Worker, StartRun(w)
  PROVE  WorkInv'
<1> DEFINE P == queue[1].part
<1>1. /\ job[w] = Idle /\ queue # <<>> /\ Head(queue).kind = "run"
      /\ job' = [job EXCEPT ![w] = Head(queue)]
      /\ left' = [left EXCEPT ![w] = Items(Head(queue).part)]
      /\ queue' = Tail(queue)
      /\ UNCHANGED <<parts, hand, met, instances, missing, timed>>
  BY DEF StartRun, splitVars, brokerVars
<1>2. /\ 1 \in DOMAIN queue /\ Head(queue) = queue[1] /\ queue[1].kind = "run"
      /\ queue[1] \in Jobs
  BY <1>1, TakenOff
<1>3. queue[1] \in RunJobs /\ P \in SUBSET Graph
  BY <1>2 DEF Jobs, RunJobs
<1>4. /\ P \in parts /\ P \cap timed = {}
      /\ \A v \in Worker : job[v] # Idle => job[v].part # P
      /\ \A i \in DOMAIN queue : i # 1 /\ queue[i].kind = "run" => queue[i].part # P
  BY <1>2 DEF WorkInv, Queued
<1>5. job \in [Worker -> RunJobs \cup {Idle}] /\ left \in [Worker -> SUBSET Component]
  BY DEF WorkInv, WorkType
<1>6. /\ job'[w] = queue[1] /\ left'[w] = Items(P)
      /\ \A v \in Worker : v # w => job'[v] = job[v] /\ left'[v] = left[v]
  BY <1>1, <1>2, <1>5
<1>7. Items(P) \subseteq Component
  BY <1>3, ItemsType
<1>8. WorkType'
  <2>1. job' \in [Worker -> RunJobs \cup {Idle}]
    BY <1>1, <1>2, <1>3, <1>5
  <2>2. left' \in [Worker -> SUBSET Component]
    BY <1>1, <1>2, <1>5, <1>7
  <2>3. queue' \in Seq(Jobs)
    BY <1>1, TakenOff
  <2> QED
    BY <1>1, <2>1, <2>2, <2>3 DEF WorkInv, WorkType
<1>9. Queued'
  <2>1. ASSUME NEW i \in DOMAIN queue', queue'[i].kind = "run"
        PROVE  /\ queue'[i].part \in parts'
               /\ queue'[i].part \cap timed' = {}
               /\ \A v \in Worker : job'[v] # Idle => job'[v].part # queue'[i].part
    <3>1. i + 1 \in DOMAIN queue /\ queue'[i] = queue[i + 1] /\ i + 1 # 1
      BY <1>1, TakenOff
    <3>2. /\ queue'[i].part \in parts /\ queue'[i].part \cap timed = {}
          /\ \A v \in Worker : job[v] # Idle => job[v].part # queue'[i].part
      BY <2>1, <3>1 DEF WorkInv, Queued
    <3>3. queue'[i].part # P
      BY <1>4, <2>1, <3>1
    <3> QED
      BY <1>1, <1>6, <3>2, <3>3
  <2>2. ASSUME NEW i \in DOMAIN queue', NEW j \in DOMAIN queue', i # j,
               queue'[i].kind = "run", queue'[j].kind = "run"
        PROVE  queue'[i].part # queue'[j].part
    BY <1>1, <2>2, TakenOff DEF WorkInv, Queued
  <2> QED
    BY <2>1, <2>2 DEF Queued
<1>10. Owned'
  <2>1. timed' \cap Graph \subseteq UNION (parts')
    BY <1>1 DEF WorkInv, Owned
  <2>2. ASSUME NEW v \in Worker, job'[v] # Idle
        PROVE  /\ job'[v].part \in parts'
               /\ left'[v] \subseteq Items(job'[v].part)
               /\ Items(job'[v].part) \ left'[v] \subseteq timed'
               /\ job'[v].part \cap left'[v] \cap timed' = {}
    <3>1. CASE v = w
      BY <1>1, <1>4, <1>6, <3>1
    <3>2. CASE v # w
      <4>1. job'[v] = job[v] /\ left'[v] = left[v] /\ job[v] # Idle
        BY <1>6, <2>2, <3>2
      <4> QED
        BY <1>1, <4>1 DEF WorkInv, Owned
    <3> QED
      BY <3>1, <3>2
  <2>3. ASSUME NEW u \in Worker, NEW v \in Worker, u # v, job'[u] # Idle, job'[v] # Idle
        PROVE  job'[u].part # job'[v].part
    BY <1>4, <1>6, <2>3 DEF WorkInv, Owned
  <2> QED
    BY <2>1, <2>2, <2>3 DEF Owned, Items
<1>11. InHand'
  <2>1. hand[w] = Idle
    BY <1>1 DEF WorkInv, InHand
  <2> SUFFICES ASSUME NEW v \in Worker, hand[v] # Idle
               PROVE  /\ job'[v] # Idle
                      /\ hand[v] \in (job'[v].part \cap left'[v]) \ instances'
                      /\ (Dependencies(hand[v]) \ {hand[v]}) \cap left'[v] = {}
                      /\ met[v] <=> RequirementsMet(hand[v])'
    BY <1>1 DEF InHand, RequirementsMet
  <2>2. v # w
    BY <2>1
  <2>3. RequirementsMet(hand[v])' <=> RequirementsMet(hand[v])
    BY <1>1 DEF RequirementsMet
  <2> QED
    BY <1>1, <1>6, <2>2, <2>3 DEF WorkInv, InHand
<1>12. Settled'
  BY <1>1 DEF WorkInv, Settled
<1> QED
  BY <1>8, <1>9, <1>10, <1>11, <1>12 DEF WorkInv

LEMMA EndRunWork ==
  ASSUME WorkInv, NEW w \in Worker, EndRun(w)
  PROVE  WorkInv'
<1>1. /\ hand[w] = Idle /\ job' = [job EXCEPT ![w] = Idle]
      /\ UNCHANGED <<parts, queue, left, hand, met, instances, missing, timed>>
  BY DEF EndRun, splitVars, brokerVars
<1>2. job \in [Worker -> RunJobs \cup {Idle}]
  BY DEF WorkInv, WorkType
<1>3. job'[w] = Idle /\ \A v \in Worker : v # w => job'[v] = job[v]
  BY <1>1, <1>2
<1>4. WorkType'
  <2>1. job' \in [Worker -> RunJobs \cup {Idle}]
    BY <1>1, <1>2
  <2> QED
    BY <1>1, <2>1 DEF WorkInv, WorkType
<1>5. Queued'
  BY <1>1, <1>3 DEF WorkInv, Queued
<1>6. Owned'
  BY <1>1, <1>3 DEF WorkInv, Owned
<1>7. InHand'
  BY <1>1, <1>3 DEF WorkInv, InHand, RequirementsMet
<1>8. Settled'
  BY <1>1 DEF WorkInv, Settled
<1> QED
  BY <1>4, <1>5, <1>6, <1>7, <1>8 DEF WorkInv

\* The look at the broker.
LEMMA BeginWork ==
  ASSUME WorkInv, NEW w \in Worker, NEW c \in Component, Begin(w, c)
  PROVE  WorkInv'
<1>1. /\ job[w] # Idle /\ hand[w] = Idle
      /\ c \in (job[w].part \cap left[w]) \ instances
      /\ (Dependencies(c) \ {c}) \cap left[w] = {}
      /\ hand' = [hand EXCEPT ![w] = c]
      /\ met' = [met EXCEPT ![w] = RequirementsMet(c)]
      /\ UNCHANGED <<parts, queue, job, left, instances, missing, timed>>
  BY DEF Begin, Reaches, splitVars, brokerVars
<1>2. hand \in [Worker -> Component \cup {Idle}] /\ met \in [Worker -> BOOLEAN]
  BY DEF WorkInv, WorkType
<1>3. RequirementsMet(c) \in BOOLEAN
  BY DEF RequirementsMet
<1>4. WorkType'
  <2>1. hand' \in [Worker -> Component \cup {Idle}]
    BY <1>1, <1>2
  <2>2. met' \in [Worker -> BOOLEAN]
    BY <1>1, <1>2, <1>3
  <2> QED
    BY <1>1, <2>1, <2>2 DEF WorkInv, WorkType
<1>5. Queued' /\ Owned' /\ Settled'
  BY <1>1 DEF WorkInv, Queued, Owned, Settled
<1>6. InHand'
  <2> SUFFICES ASSUME NEW v \in Worker, hand'[v] # Idle
               PROVE  /\ job[v] # Idle
                      /\ hand'[v] \in (job[v].part \cap left[v]) \ instances
                      /\ (Dependencies(hand'[v]) \ {hand'[v]}) \cap left[v] = {}
                      /\ met'[v] <=> RequirementsMet(hand'[v])
    BY <1>1 DEF InHand, RequirementsMet
  <2>1. CASE v = w
    <3>1. hand'[v] = c /\ met'[v] = RequirementsMet(c)
      BY <1>1, <1>2, <2>1
    <3> QED
      BY <1>1, <2>1, <3>1
  <2>2. CASE v # w
    <3>1. hand'[v] = hand[v] /\ met'[v] = met[v]
      BY <1>1, <1>2, <2>2
    <3> QED
      BY <3>1 DEF WorkInv, InHand
  <2> QED
    BY <2>1, <2>2
<1> QED
  BY <1>4, <1>5, <1>6 DEF WorkInv
-----------------------------------------------------------------------------
(* A worker goes past an item.                                             *)

\* What NotAttempted and every end of a component have in common.
Past(w, c) ==
  /\ job[w] # Idle /\ c \in left[w]
  /\ hand[w] \in {c, Idle}
  /\ hand' = [hand EXCEPT ![w] = Idle]
  /\ GoPast(w, c)
  /\ UNCHANGED <<parts, job, met>>
  /\ queue' \in Seq(Jobs)
  /\ \A i \in DOMAIN queue : i \in DOMAIN queue' /\ queue'[i] = queue[i]
  /\ \A i \in DOMAIN queue' :
       queue'[i].kind = "run" => i \in DOMAIN queue /\ queue'[i] = queue[i]
  /\ \/ instances' = instances /\ missing' = missing
     \/ c = hand[w] /\ c # Idle /\ instances' = instances \cup {c} /\ missing' = missing
     \/ c = hand[w] /\ c # Idle /\ instances' = instances /\ missing' = missing \cup {c}

\* What a worker has left is in no other part.
LEMMA Alone ==
  ASSUME SplitInv, WorkInv, NEW w \in Worker, job[w] # Idle, NEW c \in left[w],
         NEW Q \in parts, Q # job[w].part
  PROVE  c \notin Q
<1>1. job[w].part \in parts /\ c \in Items(job[w].part)
  BY DEF WorkInv, Owned
<1>2. Q \subseteq Graph /\ Q \cap job[w].part = {}
  BY <1>1 DEF SplitInv, SplitType, SplitCover
<1> QED
  BY <1>1, <1>2, ItemsInGraph

LEMMA HandFresh ==
  ASSUME SplitInv, WorkInv, NEW w \in Worker, hand[w] # Idle
  PROVE  /\ hand[w] \in Component /\ hand[w] \in Graph /\ job[w] # Idle
         /\ hand[w] \in job[w].part /\ hand[w] \in left[w]
         /\ hand[w] \notin timed /\ hand[w] \notin instances /\ hand[w] \notin missing
         /\ hand[w] \notin Given
<1>1. job[w] # Idle /\ hand[w] \in (job[w].part \cap left[w]) \ instances
  BY DEF WorkInv, InHand
<1>2. job[w].part \in parts /\ job[w].part \cap left[w] \cap timed = {}
  BY <1>1 DEF WorkInv, Owned
<1>3. job[w].part \subseteq Graph
  BY <1>2 DEF SplitInv, SplitType
<1> QED
  BY <1>1, <1>2, <1>3, GraphAssumption DEF WorkInv, Settled

LEMMA PastWork ==
  ASSUME SplitInv, WorkInv, NEW w \in Worker, NEW c \in Component, Past(w, c)
  PROVE  WorkInv'
<1>1. /\ job[w] # Idle /\ c \in left[w] /\ hand[w] \in {c, Idle}
      /\ hand' = [hand EXCEPT ![w] = Idle]
      /\ timed' = timed \cup {c} /\ left' = [left EXCEPT ![w] = @ \ {c}]
      /\ parts' = parts /\ job' = job /\ met' = met
      /\ queue' \in Seq(Jobs)
      /\ \A i \in DOMAIN queue' :
           queue'[i].kind = "run" => i \in DOMAIN queue /\ queue'[i] = queue[i]
  BY DEF Past, GoPast
<1>2. \/ instances' = instances /\ missing' = missing
      \/ c = hand[w] /\ c # Idle /\ instances' = instances \cup {c} /\ missing' = missing
      \/ c = hand[w] /\ c # Idle /\ instances' = instances /\ missing' = missing \cup {c}
  BY DEF Past
<1>3. left \in [Worker -> SUBSET Component] /\ hand \in [Worker -> Component \cup {Idle}]
  BY DEF WorkInv, WorkType
<1>4. /\ left'[w] = left[w] \ {c} /\ hand'[w] = Idle
      /\ \A v \in Worker : v # w => left'[v] = left[v] /\ hand'[v] = hand[v]
  BY <1>1, <1>3
<1>5. job[w].part \in parts /\ c \in Items(job[w].part)
  BY <1>1 DEF WorkInv, Owned
<1>6. \A Q \in parts : Q # job[w].part => c \notin Q
  BY <1>1, Alone
<1>7. c \in Graph => c \in job[w].part
  BY <1>5, ItemsInGraph
<1>8. WorkType'
  <2>1. left' \in [Worker -> SUBSET Component]
    BY <1>1, <1>3
  <2>2. hand' \in [Worker -> Component \cup {Idle}]
    BY <1>1, <1>3
  <2>3. instances' \subseteq Component /\ missing' \subseteq Component /\ timed' \subseteq Component
    BY <1>1, <1>2 DEF WorkInv, WorkType
  <2> QED
    BY <1>1, <2>1, <2>2, <2>3 DEF WorkInv, WorkType
<1>9. Queued'
  <2>1. ASSUME NEW i \in DOMAIN queue', queue'[i].kind = "run"
        PROVE  /\ queue'[i].part \in parts'
               /\ queue'[i].part \cap timed' = {}
               /\ \A v \in Worker : job'[v] # Idle => job'[v].part # queue'[i].part
    <3>1. i \in DOMAIN queue /\ queue'[i] = queue[i]
      BY <1>1, <2>1
    <3>2. /\ queue[i].part \in parts /\ queue[i].part \cap timed = {}
          /\ \A v \in Worker : job[v] # Idle => job[v].part # queue[i].part
      BY <2>1, <3>1 DEF WorkInv, Queued
    <3>3. c \notin queue[i].part
      BY <1>1, <1>6, <3>2
    <3> QED
      BY <1>1, <3>1, <3>2, <3>3
  <2>2. ASSUME NEW i \in DOMAIN queue', NEW j \in DOMAIN queue', i # j,
               queue'[i].kind = "run", queue'[j].kind = "run"
        PROVE  queue'[i].part # queue'[j].part
    BY <1>1, <2>2 DEF WorkInv, Queued
  <2> QED
    BY <2>1, <2>2 DEF Queued
<1>10. Owned'
  <2>1. timed' \cap Graph \subseteq UNION (parts')
    BY <1>1, <1>5, <1>7 DEF WorkInv, Owned
  <2>2. ASSUME NEW v \in Worker, job[v] # Idle
        PROVE  /\ job[v].part \in parts
               /\ left'[v] \subseteq Items(job[v].part)
               /\ Items(job[v].part) \ left'[v] \subseteq timed'
               /\ job[v].part \cap left'[v] \cap timed' = {}
    <3>1. /\ job[v].part \in parts /\ left[v] \subseteq Items(job[v].part)
          /\ Items(job[v].part) \ left[v] \subseteq timed
          /\ job[v].part \cap left[v] \cap timed = {}
      BY <2>2 DEF WorkInv, Owned
    <3>2. CASE v = w
      BY <1>1, <1>4, <3>1, <3>2
    <3>3. CASE v # w
      <4>1. c \notin job[v].part
        BY <1>1, <1>6, <2>2, <3>1, <3>3 DEF WorkInv, Owned
      <4> QED
        BY <1>1, <1>4, <3>1, <3>3, <4>1
    <3> QED
      BY <3>2, <3>3
  <2>3. ASSUME NEW u \in Worker, NEW v \in Worker, u # v, job[u] # Idle, job[v] # Idle
        PROVE  job[u].part # job[v].part
    BY <2>3 DEF WorkInv, Owned
  <2> QED
    BY <1>1, <2>1, <2>2, <2>3 DEF Owned, Items
<1>11. InHand'
  <2> SUFFICES ASSUME NEW v \in Worker, hand'[v] # Idle
               PROVE  /\ job[v] # Idle
                      /\ hand'[v] \in (job[v].part \cap left'[v]) \ instances'
                      /\ (Dependencies(hand'[v]) \ {hand'[v]}) \cap left'[v] = {}
                      /\ met[v] <=> RequirementsMet(hand[v])'
    BY <1>1 DEF InHand, RequirementsMet
  <2>1. v # w /\ hand'[v] = hand[v] /\ left'[v] = left[v] /\ hand[v] # Idle
    BY <1>4
  <2>2. PICK h \in Component : h = hand[v]
    BY <2>1, HandFresh
  <2>3. /\ job[v] # Idle /\ h \in (job[v].part \cap left[v]) \ instances
        /\ (Dependencies(h) \ {h}) \cap left[v] = {}
        /\ met[v] <=> RequirementsMet(h)
    BY <2>1, <2>2 DEF WorkInv, InHand
  <2>4. job[v].part # job[w].part /\ job[v].part \in parts
        /\ Items(job[v].part) \ left[v] \subseteq timed
    BY <1>1, <2>1, <2>3 DEF WorkInv, Owned
  <2>5. c \notin job[v].part /\ c # h
    BY <1>6, <2>3, <2>4
  <2>6. c \in Dependencies(h) => c \in timed
    BY <2>3, <2>4, <2>5 DEF Items
  <2>7. c = hand[w] /\ c # Idle => c \notin timed
    BY HandFresh
  <2>8. \A d \in Dependencies(h) : d \in instances' <=> d \in instances
    BY <1>2, <2>6, <2>7
  <2>9. RequirementsMet(h)' <=> RequirementsMet(h)
    BY <2>8, RequirementsStable
  <2>10. h \notin instances'
    BY <1>2, <2>3, <2>5
  <2>11. RequirementsMet(hand[v])' <=> RequirementsMet(h)'
    BY <2>1, <2>2 DEF RequirementsMet
  <2> QED
    BY <2>1, <2>2, <2>3, <2>9, <2>10, <2>11
<1>12. Settled'
  <2>1. CASE instances' = instances /\ missing' = missing
    BY <1>1, <2>1 DEF WorkInv, Settled
  <2>2. CASE c = hand[w] /\ c # Idle
    BY <1>1, <1>2, <2>2, HandFresh DEF WorkInv, Settled
  <2> QED
    BY <1>2, <2>1, <2>2
<1> QED
  BY <1>8, <1>9, <1>10, <1>11, <1>12 DEF WorkInv
LEMMA NotAttemptedPast ==
  ASSUME WorkInv, NEW w \in Worker, NEW c \in Component, NotAttempted(w, c)
  PROVE  /\ Past(w, c) /\ hand[w] = Idle /\ (c \notin job[w].part \/ c \in instances)
         /\ instances' = instances /\ missing' = missing
<1>1. /\ job[w] # Idle /\ hand[w] = Idle /\ c \in left[w]
      /\ c \notin job[w].part \/ c \in instances
      /\ GoPast(w, c)
      /\ UNCHANGED <<parts, queue, job, hand, met, instances, missing>>
  BY DEF NotAttempted, Reaches, splitVars
<1>2. queue \in Seq(Jobs) /\ hand \in [Worker -> Component \cup {Idle}]
  BY DEF WorkInv, WorkType
<1>3. hand' = [hand EXCEPT ![w] = Idle]
  BY <1>1, <1>2
<1> QED
  BY <1>1, <1>2, <1>3 DEF Past

\* A component ends without a result.
LEMMA WithoutPast ==
  ASSUME SplitInv, WorkInv, NEW w \in Worker,
         MissingRequirement(w) \/ CannotCall(w) \/ Fail(w) \/ Blacklist(w)
  PROVE  /\ hand[w] # Idle /\ Past(w, hand[w]) /\ instances' = instances
         /\ \/ missing' = missing
            \/ ~RequirementsMet(hand[w]) /\ hand[w] \notin Rules
<1>1. /\ Without(w)
      /\ \/ missing' = missing
         \/ ~met[w] /\ hand[w] \notin Rules /\ missing' = missing \cup {hand[w]}
  <2>1. CASE MissingRequirement(w)
    BY <2>1 DEF MissingRequirement
  <2>2. CASE CannotCall(w) \/ Fail(w) \/ Blacklist(w)
    BY <2>2 DEF CannotCall, Fail, Blacklist
  <2> QED
    BY <2>1, <2>2
<1>2. /\ hand[w] # Idle /\ GoPast(w, hand[w]) /\ hand' = [hand EXCEPT ![w] = Idle]
      /\ UNCHANGED <<parts, queue, job, met, instances>>
  BY <1>1 DEF Without, splitVars
<1>3. job[w] # Idle /\ hand[w] \in left[w]
  BY <1>2, HandFresh
<1>4. met[w] <=> RequirementsMet(hand[w])
  BY <1>2 DEF WorkInv, InHand
<1>5. queue \in Seq(Jobs)
  BY DEF WorkInv, WorkType
<1>6. Past(w, hand[w])
  BY <1>1, <1>2, <1>3, <1>5 DEF Past
<1> QED
  BY <1>1, <1>2, <1>4, <1>6

LEMMA SucceedPast ==
  ASSUME SplitInv, WorkInv, NEW w \in Worker, Succeed(w)
  PROVE  /\ hand[w] # Idle /\ Past(w, hand[w])
         /\ instances' = instances \cup {hand[w]} /\ missing' = missing
         /\ RequirementsMet(hand[w]) \/ hand[w] \in Rules
<1>1. /\ hand[w] # Idle /\ (met[w] \/ hand[w] \in Rules)
      /\ instances' = instances \cup {hand[w]}
      /\ GoPast(w, hand[w]) /\ hand' = [hand EXCEPT ![w] = Idle]
      /\ UNCHANGED <<parts, job, met, missing>>
  BY DEF Succeed, splitVars
<1>2. PICK length \in {0, ListLength} :
        queue' = queue \o [i \in 1 .. length |-> WriteJob(w)]
  BY DEF Succeed
<1>3. length \in Nat
  BY <1>2, PoolAssumption
<1> DEFINE written == [i \in 1 .. length |-> WriteJob(w)]
<1>4. /\ written \in Seq(Jobs) /\ Len(written) = length
      /\ \A i \in 1 .. length : written[i].kind = "write"
  BY <1>3, WriteJobFields
<1> HIDE DEF written
<1>5. queue \in Seq(Jobs) /\ Len(queue) \in Nat /\ DOMAIN queue = 1 .. Len(queue)
  BY LenProperties DEF WorkInv, WorkType
<1>6. queue' = queue \o written
  BY <1>2 DEF written
<1>7. /\ queue' \in Seq(Jobs) /\ Len(queue') = Len(queue) + length
      /\ \A i \in 1 .. Len(queue) + length :
           queue'[i] = IF i <= Len(queue) THEN queue[i] ELSE written[i - Len(queue)]
  BY <1>4, <1>5, <1>6, ConcatProperties
<1>8. DOMAIN queue' = 1 .. Len(queue) + length
  BY <1>7, LenProperties
<1>9. ASSUME NEW i \in DOMAIN queue', queue'[i].kind = "run"
      PROVE  i \in DOMAIN queue /\ queue'[i] = queue[i]
  <2>1. CASE i <= Len(queue)
    BY <1>5, <1>7, <1>8, <2>1
  <2>2. CASE ~(i <= Len(queue))
    <3>1. i - Len(queue) \in 1 .. length /\ queue'[i] = written[i - Len(queue)]
      BY <1>3, <1>5, <1>7, <1>8, <2>2
    <3> QED
      BY <1>4, <1>9, <3>1
  <2> QED
    BY <2>1, <2>2
<1>10. job[w] # Idle /\ hand[w] \in left[w]
  BY <1>1, HandFresh
<1>11. met[w] <=> RequirementsMet(hand[w])
  BY <1>1 DEF WorkInv, InHand
<1>12. \A i \in DOMAIN queue : i \in DOMAIN queue' /\ queue'[i] = queue[i]
  BY <1>3, <1>5, <1>7, <1>8
<1>13. Past(w, hand[w])
  BY <1>1, <1>7, <1>9, <1>10, <1>12 DEF Past
<1> QED
  BY <1>1, <1>11, <1>13

LEMMA NextWork ==
  ASSUME SplitInv, WorkInv, [Next]_vars
  PROVE  WorkInv'
<1>1. CASE Submit
  BY <1>1, SubmitWork
<1>2. CASE SplitEnd \/ ReturnAll \/ UNCHANGED vars \/ \E c \in Graph : TakeKey(c) \/ Visit(c)
  BY <1>2, QuietWork DEF SplitEnd, ReturnAll, TakeKey, Visit, vars, splitVars, poolVars, brokerVars
<1>3. ASSUME NEW w \in Worker, Work(w)
      PROVE  WorkInv'
  <2>1. CASE StartRun(w) \/ Write(w) \/ EndRun(w)
    BY <2>1, StartRunWork, WriteWork, EndRunWork
  <2>2. ASSUME NEW c \in Component, NotAttempted(w, c)
        PROVE  WorkInv'
    BY <2>2, NotAttemptedPast, PastWork
  <2>3. ASSUME NEW c \in Component, Begin(w, c)
        PROVE  WorkInv'
    BY <2>3, BeginWork
  <2>4. CASE MissingRequirement(w) \/ CannotCall(w) \/ Fail(w) \/ Blacklist(w)
    BY <2>4, WithoutPast, HandFresh, PastWork
  <2>5. CASE Succeed(w)
    BY <2>5, SucceedPast, HandFresh, PastWork
  <2> QED
    BY <1>3, <2>1, <2>2, <2>3, <2>4, <2>5 DEF Work
<1> QED
  BY <1>1, <1>2, <1>3 DEF Next, Main

\* A part is in the queue, with one worker or done, and the broker is behind what
\* the workers have gone past: for every graph, pool and interleaving.
THEOREM WorkInductive == Spec => []WorkInv
<1>1. SplitInv /\ WorkInv /\ [Next]_vars => WorkInv'
  BY NextWork
<1> QED
  BY InitWork, SplitInductive, <1>1, PTL DEF Spec
\* Only Begin puts a component into a hand.
LEMMA TakenUp ==
  ASSUME SplitInv, WorkInv, [Next]_vars, NEW w \in Worker, hand[w] = Idle, hand'[w] # Idle
  PROVE  \E c \in Component : Begin(w, c) /\ c = hand'[w]
<1>1. hand \in [Worker -> Component \cup {Idle}]
  BY DEF WorkInv, WorkType
<1>2. CASE hand' = hand
  BY <1>2
<1>3. ASSUME NEW v \in Worker, hand' = [hand EXCEPT ![v] = Idle]
      PROVE  FALSE
  BY <1>1, <1>3
<1>4. CASE Main \/ UNCHANGED vars
  BY <1>2, <1>4 DEF Main, TakeKey, Visit, Submit, SplitEnd, ReturnAll, vars, poolVars
<1>5. ASSUME NEW v \in Worker, Work(v)
      PROVE  \E c \in Component : Begin(w, c) /\ c = hand'[w]
  <2>1. CASE StartRun(v) \/ Write(v) \/ EndRun(v) \/ \E c \in Component : NotAttempted(v, c)
    BY <1>2, <2>1 DEF StartRun, Write, EndRun, NotAttempted
  <2>2. CASE MissingRequirement(v) \/ CannotCall(v) \/ Fail(v) \/ Blacklist(v) \/ Succeed(v)
    BY <1>3, <2>2, WithoutPast, SucceedPast DEF Past
  <2>3. ASSUME NEW d \in Component, Begin(v, d)
        PROVE  \E c \in Component : Begin(w, c) /\ c = hand'[w]
    <3>1. hand' = [hand EXCEPT ![v] = d]
      BY <2>3 DEF Begin
    <3>2. v = w /\ hand'[w] = d
      BY <1>1, <3>1
    <3> QED
      BY <2>3, <3>2
  <2> QED
    BY <1>5, <2>1, <2>2, <2>3 DEF Work
<1> QED
  BY <1>4, <1>5 DEF Next

\* Whatever the pool and the split do, a component that a worker takes up has not
\* been evaluated and is in no other hand.
THEOREM OnceEvaluated == Spec => EvaluatedOnce
<1>1. ASSUME SplitInv, WorkInv, [Next]_vars, NEW w \in Worker, hand[w] = Idle, hand'[w] # Idle
      PROVE  hand'[w] \notin timed /\ \A v \in Worker : hand[v] # hand'[w]
  <2>1. PICK c \in Component : Begin(w, c) /\ c = hand'[w]
    BY <1>1, TakenUp
  <2>2. job[w] # Idle /\ c \in job[w].part /\ c \in left[w]
    BY <2>1 DEF Begin, Reaches
  <2>3. c \notin timed
    BY <1>1, <2>2 DEF WorkInv, Owned
  <2>4. ASSUME NEW v \in Worker, hand[v] = c
        PROVE  FALSE
    <3>1. v # w /\ hand[v] # Idle
      BY <1>1, <2>4, PoolAssumption
    <3>2. job[v] # Idle /\ c \in job[v].part
      BY <1>1, <2>4, <3>1, HandFresh
    <3>3. job[v].part \in parts /\ job[v].part # job[w].part
      BY <1>1, <2>2, <3>1, <3>2 DEF WorkInv, Owned
    <3> QED
      BY <1>1, <2>2, <3>2, <3>3, Alone
  <2> QED
    BY <2>1, <2>3, <2>4
<1>2. SplitInv /\ WorkInv /\ [Next]_vars =>
        [\A w \in Worker :
           hand[w] = Idle /\ hand'[w] # Idle =>
             hand'[w] \notin timed /\ \A v \in Worker : hand[v] # hand'[w]]_vars
  BY <1>1
<1> QED
  BY SplitInductive, WorkInductive, <1>2, PTL DEF Spec, EvaluatedOnce

-----------------------------------------------------------------------------
(* All the parts together are one evaluation.                              *)

LEMMA VerdictValue ==
  ASSUME NEW c \in Component
  PROVE  verdict[c] = IF c \in Given THEN "given"
                      ELSE IF c \notin timed THEN "pending"
                      ELSE IF c \in instances THEN "present"
                      ELSE IF c \in missing THEN "unmet"
                      ELSE IF c \in Graph THEN "failed" ELSE "untried"
BY DEF verdict

LEMMA VerdictValueNext ==
  ASSUME NEW c \in Component
  PROVE  verdict'[c] = IF c \in Given THEN "given"
                       ELSE IF c \notin timed' THEN "pending"
                       ELSE IF c \in instances' THEN "present"
                       ELSE IF c \in missing' THEN "unmet"
                       ELSE IF c \in Graph THEN "failed" ELSE "untried"
BY DEF verdict

\* Being available to the evaluation is being in the broker.
LEMMA MetIsRequirementsMet ==
  ASSUME WorkInv, NEW c \in Component
  PROVE  Evaluated!Met(c) <=> RequirementsMet(c)
<1>1. \A d \in Component : Evaluated!Available(d) <=> d \in instances
  <2> SUFFICES ASSUME NEW d \in Component
               PROVE  Evaluated!Available(d) <=> d \in instances
    OBVIOUS
  <2>1. (d \in Given => d \in instances) /\ (d \in instances => d \in Given \/ d \in timed)
    BY DEF WorkInv, Settled
  <2> QED
    BY <2>1, VerdictValue DEF Evaluated!Available
<1>2. Requires[c] \subseteq Component /\ \A g \in AtLeastOne[c] : g \subseteq Component
  BY GraphAssumption
<1> QED
  BY <1>1, <1>2 DEF Evaluated!Met, RequirementsMet

\* A worker that goes past an item settles it, or leaves the verdicts alone.
LEMMA PastSettles ==
  ASSUME SplitInv, WorkInv, NEW w \in Worker, NEW c \in Component, Past(w, c),
         hand[w] = Idle => c \notin job[w].part \/ c \in instances,
         instances' = instances \/ RequirementsMet(c) \/ c \in Rules,
         missing' = missing \/ (~RequirementsMet(c) /\ c \notin Rules)
  PROVE  [Evaluated!Next]_verdict
<1>1. /\ job[w] # Idle /\ c \in left[w] /\ hand[w] \in {c, Idle} /\ c # Idle
      /\ timed' = timed \cup {c}
      /\ \/ instances' = instances /\ missing' = missing
         \/ c = hand[w] /\ instances' = instances \cup {c} /\ missing' = missing
         \/ c = hand[w] /\ instances' = instances /\ missing' = missing \cup {c}
  BY PoolAssumption DEF Past, GoPast
<1>2. /\ job[w].part \in parts /\ c \in Items(job[w].part)
      /\ Items(job[w].part) \ left[w] \subseteq timed
  BY <1>1 DEF WorkInv, Owned
<1>3. ASSUME NEW x \in Component, x # c PROVE verdict'[x] = verdict[x]
  BY <1>1, <1>3, VerdictValue, VerdictValueNext
<1>4. verdict \in [Component -> Evaluated!Verdicts] /\ DOMAIN verdict' = Component
  BY DEF verdict, Evaluated!Verdicts
<1>5. ASSUME NEW v, verdict'[c] = v PROVE verdict' = [verdict EXCEPT ![c] = v]
  BY <1>3, <1>4, <1>5 DEF verdict
<1>6. CASE hand[w] = Idle /\ (c \in Given \/ c \in timed)
  <2>1. verdict'[c] = verdict[c]
    BY <1>1, <1>6, VerdictValue, VerdictValueNext
  <2> QED
    BY <1>3, <2>1 DEF verdict
<1>7. CASE hand[w] = Idle /\ c \notin Given /\ c \notin timed
  <2>1. instances' = instances /\ missing' = missing /\ c \notin instances /\ c \notin missing
    BY <1>1, <1>7 DEF WorkInv, Settled
  <2>2. c \notin Graph
    BY <1>2, <1>7, <2>1, ItemsInGraph
  <2>3. verdict[c] = "pending" /\ verdict'[c] = "untried"
    BY <1>1, <1>7, <2>1, <2>2, VerdictValue, VerdictValueNext
  <2>4. Evaluated!PassOver(c)
    BY <1>5, <2>3 DEF Evaluated!PassOver
  <2> QED
    BY <2>4 DEF Evaluated!Next
<1>8. CASE hand[w] = c
  <2>1. /\ c \in Graph /\ c \in job[w].part /\ c \notin timed /\ c \notin instances
        /\ c \notin missing /\ c \notin Given
    BY <1>1, <1>8, HandFresh
  <2>2. verdict[c] = "pending"
    BY <2>1, VerdictValue
  <2>3. \A d \in Evaluated!Others(c) : verdict[d] # "pending"
    <3>1. Evaluated!Others(c) = Dependencies(c) \ {c}
      BY DEF Evaluated!Others, Dependencies
    <3>2. Dependencies(c) \subseteq Items(job[w].part) /\ Dependencies(c) \subseteq Component
      BY <2>1, DependenciesType DEF Items
    <3>3. (Dependencies(c) \ {c}) \cap left[w] = {}
      BY <1>1, <1>8 DEF WorkInv, InHand
    <3>4. Dependencies(c) \ {c} \subseteq timed
      BY <1>2, <3>2, <3>3
    <3> QED
      BY <3>1, <3>2, <3>4, VerdictValue
  <2>4. CASE instances' = instances /\ missing' = missing
    <3>1. verdict'[c] = "failed"
      BY <1>1, <2>1, <2>4, VerdictValueNext
    <3>2. Evaluated!Try(c)
      BY <1>5, <2>2, <2>3, <3>1 DEF Evaluated!Try
    <3> QED
      BY <3>2 DEF Evaluated!Next
  <2>5. CASE instances' = instances \cup {c} /\ missing' = missing
    <3>1. verdict'[c] = "present"
      BY <1>1, <2>1, <2>5, VerdictValueNext
    <3>2. Evaluated!Met(c) \/ c \in Rules
      BY <2>1, <2>5, MetIsRequirementsMet
    <3>3. Evaluated!Try(c)
      BY <1>5, <2>2, <2>3, <3>1, <3>2 DEF Evaluated!Try
    <3> QED
      BY <3>3 DEF Evaluated!Next
  <2>6. CASE instances' = instances /\ missing' = missing \cup {c}
    <3>1. verdict'[c] = "unmet"
      BY <1>1, <2>1, <2>6, VerdictValueNext
    <3>2. ~Evaluated!Met(c) /\ c \notin Rules
      BY <2>1, <2>6, MetIsRequirementsMet
    <3>3. Evaluated!Try(c)
      BY <1>5, <2>2, <2>3, <3>1, <3>2 DEF Evaluated!Try
    <3> QED
      BY <3>3 DEF Evaluated!Next
  <2> QED
    BY <1>1, <2>4, <2>5, <2>6
<1> QED
  BY <1>1, <1>6, <1>7, <1>8

\* Every step of the caller and of the workers is a step of the evaluation or
\* leaves it alone.
THEOREM EvaluationImplemented == Spec => ImplementsEvaluation
<1>1. Init => Evaluated!Init
  BY DEF Init, Evaluated!Init, verdict
<1>2. SplitInv /\ WorkInv /\ [Next]_vars => [Evaluated!Next]_verdict
  <2> SUFFICES ASSUME SplitInv, WorkInv, [Next]_vars PROVE [Evaluated!Next]_verdict
    OBVIOUS
  <2>1. CASE UNCHANGED <<instances, missing, timed>>
    <3>1. \A x \in Component : verdict'[x] = verdict[x]
      BY <2>1, VerdictValue, VerdictValueNext
    <3> QED
      BY <3>1 DEF verdict
  <2>2. CASE Main \/ UNCHANGED vars
    BY <2>1, <2>2 DEF Main, TakeKey, Visit, Submit, SplitEnd, ReturnAll, vars, brokerVars
  <2>3. ASSUME NEW w \in Worker, Work(w)
        PROVE  [Evaluated!Next]_verdict
    <3>1. CASE StartRun(w) \/ Write(w) \/ EndRun(w) \/ \E c \in Component : Begin(w, c)
      BY <2>1, <3>1 DEF StartRun, Write, EndRun, Begin, brokerVars
    <3>2. ASSUME NEW c \in Component, NotAttempted(w, c)
          PROVE  [Evaluated!Next]_verdict
      BY <3>2, NotAttemptedPast, PastSettles
    <3>3. CASE MissingRequirement(w) \/ CannotCall(w) \/ Fail(w) \/ Blacklist(w)
      BY <3>3, WithoutPast, HandFresh, PastSettles
    <3>4. CASE Succeed(w)
      BY <3>4, SucceedPast, HandFresh, PastSettles
    <3> QED
      BY <2>3, <3>1, <3>2, <3>3, <3>4 DEF Work
  <2> QED
    BY <2>2, <2>3 DEF Next
<1> QED
  BY <1>1, <1>2, SplitInductive, WorkInductive, PTL DEF Spec, ImplementsEvaluation, Evaluated!Spec
-----------------------------------------------------------------------------
(* The types, which need the jobs of a list to be accounted for: a worker  *)
(* waits for as many elements as there are jobs of its list in the queue.  *)

WritesIn(q, w) == {i \in DOMAIN q : q[i] = WriteJob(w)}

CountInv ==
  /\ unwritten \in [Worker -> 0 .. ListLength]
  /\ \A w \in Worker : Cardinality(WritesIn(queue, w)) = unwritten[w]
  /\ \A w \in Worker : hand[w] # Idle => unwritten[w] = 0

\* What nothing else depends on.
RestType ==
  /\ hosted \in Hosts
  /\ prio \in [Graph -> Int]
  /\ main \in {"split", "wait", "returned"}
  /\ called \subseteq Component
  /\ blacklisted \subseteq Datasources /\ report \subseteq blacklisted

LEMMA WritesFinite ==
  ASSUME NEW q \in Seq(Jobs), NEW w
  PROVE  IsFiniteSet(WritesIn(q, w)) /\ Cardinality(WritesIn(q, w)) \in Nat
<1>1. DOMAIN q = 1 .. Len(q) /\ Len(q) \in Nat
  BY LenProperties
<1>2. IsFiniteSet(1 .. Len(q))
  BY <1>1, FS_Interval
<1>3. WritesIn(q, w) \in SUBSET (1 .. Len(q))
  BY <1>1 DEF WritesIn
<1>4. IsFiniteSet(WritesIn(q, w))
  BY <1>2, <1>3, FS_Subset
<1> QED
  BY <1>4, FS_CardinalityType

LEMMA WriteJobsDiffer ==
  ASSUME NEW v, NEW w, NEW P
  PROVE  /\ WriteJob(v) = WriteJob(w) => v = w
         /\ RunJob(P) # WriteJob(w)
BY DEF WriteJob, RunJob

\* A job taken off the queue is one less of its kind.
LEMMA WritesInTail ==
  ASSUME NEW q \in Seq(Jobs), q # <<>>, NEW w
  PROVE  Cardinality(WritesIn(Tail(q), w)) =
           IF Head(q) = WriteJob(w) THEN Cardinality(WritesIn(q, w)) - 1
                                    ELSE Cardinality(WritesIn(q, w))
<1> DEFINE S == WritesIn(q, w)
           T == WritesIn(Tail(q), w)
           f == [i \in T |-> i + 1]
<1>1. /\ Tail(q) \in Seq(Jobs) /\ Len(Tail(q)) = Len(q) - 1 /\ Head(q) = q[1]
      /\ \A i \in 1 .. Len(Tail(q)) : Tail(q)[i] = q[i + 1]
  BY HeadTailProperties
<1>2. /\ DOMAIN q = 1 .. Len(q) /\ Len(q) \in Nat \ {0}
      /\ DOMAIN Tail(q) = 1 .. Len(q) - 1
  BY <1>1, LenProperties, EmptySeq
<1>3. T = {i \in 1 .. Len(q) - 1 : q[i + 1] = WriteJob(w)}
  BY <1>1, <1>2 DEF WritesIn
<1>4. S = {i \in 1 .. Len(q) : q[i] = WriteJob(w)}
  BY <1>2 DEF WritesIn
<1>5. 1 \in S <=> Head(q) = WriteJob(w)
  BY <1>1, <1>2, <1>4
<1> HIDE DEF S, T
<1>6. f \in Bijection(T, S \ {1})
  <2>1. \A i \in T : i \in Int /\ i + 1 \in S \ {1}
    BY <1>2, <1>3, <1>4
  <2>2. f \in [T -> S \ {1}]
    BY <2>1
  <2>3. \A i, j \in T : f[i] = f[j] => i = j
    BY <2>1
  <2>4. ASSUME NEW k \in S \ {1}
        PROVE  \E i \in T : f[i] = k
    <3>1. k - 1 \in T /\ k - 1 + 1 = k
      BY <1>2, <1>3, <1>4
    <3> QED
      BY <3>1
  <2> QED
    BY <2>2, <2>3, <2>4 DEF Bijection, Injection, IsInjective, Surjection
<1>7. IsFiniteSet(S) /\ IsFiniteSet(T)
  BY <1>1, WritesFinite DEF S, T
<1>8. Cardinality(T) = Cardinality(S \ {1})
  BY <1>6, <1>7, FS_Bijection DEF ExistsBijection
<1>9. Cardinality(S \ {1}) = IF 1 \in S THEN Cardinality(S) - 1 ELSE Cardinality(S)
  BY <1>7, FS_RemoveElement
<1> QED
  BY <1>5, <1>8, <1>9 DEF S, T

\* The jobs of a list are added for the worker that waits for them.
LEMMA WritesInAdded ==
  ASSUME NEW q \in Seq(Jobs), NEW v \in Worker, NEW n \in Nat, NEW w \in Worker,
         v = w => Cardinality(WritesIn(q, w)) = 0
  PROVE  Cardinality(WritesIn(q \o [i \in 1 .. n |-> WriteJob(v)], w)) =
           IF v = w THEN n ELSE Cardinality(WritesIn(q, w))
<1> DEFINE written == [i \in 1 .. n |-> WriteJob(v)]
           r == q \o written
<1>1. /\ written \in Seq(Jobs) /\ Len(written) = n
      /\ \A i \in 1 .. n : written[i] = WriteJob(v)
  BY WriteJobFields
<1>2. DOMAIN q = 1 .. Len(q) /\ Len(q) \in Nat
  BY LenProperties
<1> HIDE DEF written
<1>3. /\ r \in Seq(Jobs) /\ Len(r) = Len(q) + n
      /\ \A i \in 1 .. Len(q) + n :
           r[i] = IF i <= Len(q) THEN q[i] ELSE written[i - Len(q)]
  BY <1>1, ConcatProperties
<1>4. DOMAIN r = 1 .. Len(q) + n
  BY <1>3, LenProperties
<1> HIDE DEF r
<1>5. \A i \in 1 .. Len(q) : r[i] = q[i]
  BY <1>2, <1>3
<1>6. \A i \in Len(q) + 1 .. Len(q) + n : r[i] = WriteJob(v)
  <2> SUFFICES ASSUME NEW i \in Len(q) + 1 .. Len(q) + n
               PROVE  r[i] = WriteJob(v)
    OBVIOUS
  <2>1. i - Len(q) \in 1 .. n /\ ~(i <= Len(q)) /\ i \in 1 .. Len(q) + n
    BY <1>2
  <2> QED
    BY <1>1, <1>3, <2>1
<1>7. CASE v = w
  <2>1. WritesIn(q, w) = {}
    BY <1>7, WritesFinite, FS_EmptySet
  <2>2. \A i \in 1 .. Len(q) : q[i] # WriteJob(w)
    BY <1>2, <2>1 DEF WritesIn
  <2>3. WritesIn(r, w) = Len(q) + 1 .. Len(q) + n
    BY <1>2, <1>4, <1>5, <1>6, <1>7, <2>2 DEF WritesIn
  <2>4. Cardinality(Len(q) + 1 .. Len(q) + n) = n
    BY <1>2, FS_Interval
  <2> QED
    BY <1>7, <2>3, <2>4 DEF r, written
<1>8. CASE v # w
  <2>1. WritesIn(r, w) = WritesIn(q, w)
    BY <1>2, <1>4, <1>5, <1>6, <1>8, WriteJobsDiffer DEF WritesIn
  <2> QED
    BY <1>8, <2>1 DEF r, written
<1> QED
  BY <1>7, <1>8
LEMMA InitCount == Init => CountInv /\ RestType
<1> SUFFICES ASSUME Init PROVE CountInv /\ RestType
  OBVIOUS
<1>1. /\ queue = <<>> /\ hand = [w \in Worker |-> Idle] /\ unwritten = [w \in Worker |-> 0]
      /\ hosted \in Hosts /\ main = "split"
      /\ called = {} /\ blacklisted = {} /\ report = {}
  BY DEF Init
<1>2. unwritten \in [Worker -> 0 .. ListLength]
  BY <1>1, PoolAssumption
<1>3. ASSUME NEW w \in Worker
      PROVE  Cardinality(WritesIn(queue, w)) = 0
  <2>1. WritesIn(queue, w) = {}
    BY <1>1 DEF WritesIn
  <2> QED
    BY <2>1, FS_EmptySet
<1>4. CountInv
  BY <1>1, <1>2, <1>3 DEF CountInv
<1>5. prio \in [Graph -> Int]
  <2>1. /\ prio \in [Graph -> UNION {Prios[c] : c \in Graph}]
        /\ \A c \in Graph : prio[c] \in Prios[c]
    BY DEF Init
  <2>2. \A c \in Graph : Prios[c] \subseteq Int
    BY GraphAssumption
  <2> QED
    BY <2>1, <2>2
<1> QED
  BY <1>1, <1>4, <1>5 DEF RestType

LEMMA NextRest ==
  ASSUME WorkInv, RestType, [Next]_vars
  PROVE  RestType'
<1>1. \A w \in Worker : hand[w] \in Component \cup {Idle}
  BY DEF WorkInv, WorkType
<1>2. CASE Main \/ UNCHANGED vars
  BY <1>2 DEF RestType, Main, TakeKey, Visit, Submit, SplitEnd, ReturnAll, vars, splitVars, brokerVars
<1>3. ASSUME NEW w \in Worker, Work(w)
      PROVE  RestType'
  <2>1. CASE StartRun(w) \/ Write(w) \/ EndRun(w)
             \/ \E c \in Component : NotAttempted(w, c) \/ Begin(w, c)
    BY <2>1 DEF RestType, StartRun, Write, EndRun, NotAttempted, Begin, splitVars, brokerVars
  <2>2. CASE MissingRequirement(w) \/ CannotCall(w)
    BY <2>2 DEF RestType, MissingRequirement, CannotCall, Without, splitVars
  <2>3. CASE Fail(w) \/ Blacklist(w)
    BY <1>1, <2>3 DEF RestType, Fail, Blacklist, Without, splitVars
  <2>4. CASE Succeed(w)
    BY <1>1, <2>4 DEF RestType, Succeed, splitVars
  <2> QED
    BY <1>3, <2>1, <2>2, <2>3, <2>4 DEF Work
<1> QED
  BY <1>2, <1>3 DEF Next

LEMMA SameCount ==
  ASSUME CountInv, queue' = queue, unwritten' = unwritten,
         \A w \in Worker : hand'[w] # Idle => hand[w] # Idle \/ unwritten[w] = 0
  PROVE  CountInv'
BY DEF CountInv, WritesIn

LEMMA SubmitCount ==
  ASSUME WorkInv, CountInv, Submit
  PROVE  CountInv'
<1>1. queue' = Append(queue, RunJob(seen)) /\ UNCHANGED <<hand, unwritten>>
  BY DEF Submit
<1>2. queue \in Seq(Jobs) /\ DOMAIN queue = 1 .. Len(queue) /\ Len(queue) \in Nat
  BY LenProperties DEF WorkInv, WorkType
<1>3. /\ DOMAIN queue' = 1 .. Len(queue) + 1
      /\ \A i \in 1 .. Len(queue) : queue'[i] = queue[i]
      /\ queue'[Len(queue) + 1] = RunJob(seen)
  BY <1>1, <1>2
<1>4. ASSUME NEW w \in Worker
      PROVE  WritesIn(queue', w) = WritesIn(queue, w)
  BY <1>2, <1>3, WriteJobsDiffer DEF WritesIn
<1> QED
  BY <1>1, <1>4 DEF CountInv

LEMMA StartRunCount ==
  ASSUME WorkInv, CountInv, NEW w \in Worker, StartRun(w)
  PROVE  CountInv'
<1>1. /\ queue # <<>> /\ Head(queue).kind = "run" /\ queue' = Tail(queue)
      /\ UNCHANGED <<hand, unwritten>>
  BY DEF StartRun
<1>2. queue \in Seq(Jobs)
  BY DEF WorkInv, WorkType
<1>3. ASSUME NEW v \in Worker
      PROVE  Cardinality(WritesIn(queue', v)) = Cardinality(WritesIn(queue, v))
  BY <1>1, <1>2, WritesInTail, WriteJobFields
<1> QED
  BY <1>1, <1>3 DEF CountInv

\* A worker whose list has a job in the queue still waits for an element.
LEMMA WriteCount ==
  ASSUME WorkInv, CountInv, NEW w \in Worker, Write(w)
  PROVE  CountInv'
<1>1. /\ queue # <<>> /\ Head(queue).kind = "write" /\ queue' = Tail(queue)
      /\ unwritten' = [unwritten EXCEPT ![Head(queue).for] = @ - 1]
      /\ hand' = hand
  BY DEF Write
<1>2. queue \in Seq(Jobs) /\ Head(queue) \in Jobs /\ 1 \in DOMAIN queue /\ Head(queue) = queue[1]
  BY <1>1, TakenOff DEF WorkInv, WorkType
<1>3. PICK v \in Worker : Head(queue) = WriteJob(v)
  BY <1>1, <1>2 DEF Jobs, RunJobs, WriteJob
<1>4. Head(queue).for = v
  BY <1>3 DEF WriteJob
<1>5. unwritten \in [Worker -> 0 .. ListLength] /\ ListLength \in Nat
  BY PoolAssumption DEF CountInv
<1>6. ASSUME NEW u \in Worker
      PROVE  Cardinality(WritesIn(queue', u)) = IF u = v THEN unwritten[u] - 1 ELSE unwritten[u]
  <2>1. Cardinality(WritesIn(queue, u)) = unwritten[u]
    BY DEF CountInv
  <2> QED
    BY <1>1, <1>2, <1>3, <2>1, WritesInTail, WriteJobsDiffer
<1>7. unwritten[v] # 0
  <2>1. 1 \in WritesIn(queue, v)
    BY <1>2, <1>3 DEF WritesIn
  <2> QED
    BY <1>2, <2>1, WritesFinite, FS_EmptySet DEF CountInv
<1>8. unwritten' \in [Worker -> 0 .. ListLength]
  BY <1>1, <1>4, <1>5, <1>7
<1>9. \A u \in Worker : unwritten'[u] = IF u = v THEN unwritten[u] - 1 ELSE unwritten[u]
  BY <1>1, <1>4, <1>5
<1>10. \A u \in Worker : hand[u] # Idle => u # v
  BY <1>7 DEF CountInv
<1> QED
  BY <1>1, <1>6, <1>8, <1>9, <1>10 DEF CountInv

LEMMA SucceedCount ==
  ASSUME WorkInv, CountInv, NEW w \in Worker, Succeed(w)
  PROVE  CountInv'
<1>1. hand[w] # Idle /\ hand' = [hand EXCEPT ![w] = Idle]
  BY DEF Succeed
<1>2. PICK length \in {0, ListLength} :
        /\ unwritten' = [unwritten EXCEPT ![w] = length]
        /\ queue' = queue \o [i \in 1 .. length |-> WriteJob(w)]
  BY DEF Succeed
<1>3. length \in 0 .. ListLength /\ length \in Nat
  BY <1>2, PoolAssumption
<1>4. /\ unwritten \in [Worker -> 0 .. ListLength] /\ unwritten[w] = 0
      /\ \A v \in Worker : Cardinality(WritesIn(queue, v)) = unwritten[v]
      /\ \A v \in Worker : hand[v] # Idle => unwritten[v] = 0
  BY <1>1 DEF CountInv
<1>5. queue \in Seq(Jobs) /\ hand \in [Worker -> Component \cup {Idle}]
  BY DEF WorkInv, WorkType
<1>6. unwritten' \in [Worker -> 0 .. ListLength]
      /\ \A v \in Worker : unwritten'[v] = IF v = w THEN length ELSE unwritten[v]
  BY <1>2, <1>3, <1>4
<1>7. ASSUME NEW v \in Worker
      PROVE  Cardinality(WritesIn(queue', v)) = unwritten'[v]
  <2>1. w = v => Cardinality(WritesIn(queue, v)) = 0
    BY <1>4
  <2>2. Cardinality(WritesIn(queue', v)) =
          IF w = v THEN length ELSE Cardinality(WritesIn(queue, v))
    BY <1>2, <1>3, <1>5, <2>1, WritesInAdded
  <2> QED
    BY <1>4, <1>6, <2>2
<1>8. \A v \in Worker : hand'[v] # Idle => v # w /\ hand[v] # Idle
  BY <1>1, <1>5
<1> QED
  BY <1>4, <1>6, <1>7, <1>8 DEF CountInv

LEMMA NextCount ==
  ASSUME SplitInv, WorkInv, CountInv, [Next]_vars
  PROVE  CountInv'
<1>1. hand \in [Worker -> Component \cup {Idle}]
  BY DEF WorkInv, WorkType
<1>2. CASE SplitEnd \/ ReturnAll \/ UNCHANGED vars \/ \E c \in Graph : TakeKey(c) \/ Visit(c)
  BY <1>2, SameCount DEF SplitEnd, ReturnAll, TakeKey, Visit, vars, poolVars
<1>3. CASE Submit
  BY <1>3, SubmitCount
<1>4. ASSUME NEW w \in Worker, Work(w)
      PROVE  CountInv'
  <2>1. CASE StartRun(w) \/ Write(w) \/ Succeed(w)
    BY <2>1, StartRunCount, WriteCount, SucceedCount
  <2>2. CASE EndRun(w) \/ \E c \in Component : NotAttempted(w, c)
    BY <2>2, SameCount DEF EndRun, NotAttempted
  <2>3. ASSUME NEW c \in Component, Begin(w, c)
        PROVE  CountInv'
    BY <1>1, <2>3, SameCount DEF Begin, Reaches
  <2>4. CASE MissingRequirement(w) \/ CannotCall(w) \/ Fail(w) \/ Blacklist(w)
    <3>1. Without(w)
      BY <2>4 DEF MissingRequirement, CannotCall, Fail, Blacklist
    <3> QED
      BY <1>1, <3>1, SameCount DEF Without
  <2> QED
    BY <1>4, <2>1, <2>2, <2>3, <2>4 DEF Work
<1> QED
  BY <1>2, <1>3, <1>4 DEF Next, Main

\* Every job in the queue and with a worker is of a part that was handed out or of a
\* list whose worker waits, and no worker waits for fewer elements than none.
THEOREM TypeCorrect == Spec => []TypeOK
<1>1. CountInv /\ RestType /\ SplitInv /\ WorkInv /\ [Next]_vars => (CountInv /\ RestType)'
  BY NextCount, NextRest
<1>2. CountInv /\ RestType /\ SplitInv /\ WorkInv => TypeOK
  <2> SUFFICES ASSUME CountInv, RestType, SplitInv, WorkInv PROVE TypeOK
    OBVIOUS
  <2> DEFINE PartJobs == [kind : {"run"}, part : parts]
             Waiting == PartJobs \cup [kind : {"write"}, for : Worker]
  <2>1. queue \in Seq(Waiting)
    <3>1. /\ queue \in Seq(Jobs) /\ Len(queue) \in Nat /\ DOMAIN queue = 1 .. Len(queue)
          /\ queue \in [1 .. Len(queue) -> Jobs]
      BY LenProperties DEF WorkInv, WorkType
    <3>2. ASSUME NEW i \in 1 .. Len(queue)
          PROVE  queue[i] \in Waiting
      <4>1. queue[i] \in Jobs
        BY <3>1
      <4>2. queue[i].kind = "run" => queue[i].part \in parts
        BY <3>1 DEF WorkInv, Queued
      <4> QED
        BY <4>1, <4>2 DEF Jobs, RunJobs
    <3> HIDE DEF Waiting
    <3>3. queue \in [1 .. Len(queue) -> Waiting]
      BY <3>1, <3>2
    <3> QED
      BY <3>1, <3>3
  <2>2. job \in [Worker -> PartJobs \cup {Idle}]
    <3>1. job \in [Worker -> RunJobs \cup {Idle}]
      BY DEF WorkInv, WorkType
    <3>2. ASSUME NEW w \in Worker
          PROVE  job[w] \in PartJobs \cup {Idle}
      <4>1. job[w] # Idle => job[w].part \in parts /\ job[w] \in RunJobs
        BY <3>1 DEF WorkInv, Owned
      <4> QED
        BY <4>1 DEF RunJobs
    <3> HIDE DEF PartJobs
    <3> QED
      BY <3>1, <3>2
  <2>3. keys \subseteq Graph /\ frontier \subseteq Graph /\ seen \subseteq Graph
        /\ parts \subseteq SUBSET Graph
    BY DEF SplitInv, SplitType
  <2>4. /\ left \in [Worker -> SUBSET Component]
        /\ hand \in [Worker -> Component \cup {Idle}]
        /\ met \in [Worker -> BOOLEAN]
        /\ instances \subseteq Component /\ missing \subseteq Component
        /\ timed \subseteq Component
    BY DEF WorkInv, WorkType
  <2> QED
    BY <2>1, <2>2, <2>3, <2>4 DEF TypeOK, RestType, CountInv
<1> QED
  BY InitCount, SplitInductive, WorkInductive, <1>1, <1>2, PTL DEF Spec
=============================================================================
