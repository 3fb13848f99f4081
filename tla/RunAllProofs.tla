---------------------------- MODULE RunAllProofs ----------------------------
(***************************************************************************)
(* What get_subgraphs hands to the workers, for every graph: its connected *)
(* components.  The walk from a key goes both ways along the edges, so     *)
(* being neighbours is symmetric; hence what is left of the graph when     *)
(* closed parts are taken away is closed again, and no later walk enters   *)
(* an earlier part.                                                        *)
(***************************************************************************)
EXTENDS RunAll, TLAPS

\* What the walk under way has found.
Found == frontier \cup seen

\* No closed set of keys that meets S leaves a part of it out.
Connected(S) ==
  \A C \in SUBSET Graph : Closed(C) /\ C \cap S # {} => S \subseteq C

SplitType ==
  /\ keys \subseteq Graph /\ frontier \subseteq Graph /\ seen \subseteq Graph
  /\ parts \subseteq SUBSET Graph

\* The keys, the walk and the parts are the graph, and do not mix.
SplitCover ==
  /\ Graph = keys \cup Found \cup UNION parts
  /\ \A P \in parts : P \cap (keys \cup Found) = {}
  /\ \A P, Q \in parts : P # Q => P \cap Q = {}
  /\ main # "split" => keys = {} /\ Found = {}

\* What the walk has visited has its neighbours among what it has found.
SplitWalk ==
  /\ \A c \in seen : Neighbours(c) \subseteq Found
  /\ Connected(Found)
  /\ \A P \in parts : P # {} /\ Closed(P) /\ Connected(P)

SplitInv == SplitType /\ SplitCover /\ SplitWalk

-----------------------------------------------------------------------------
LEMMA NeighboursSymmetric ==
  ASSUME NEW c \in Graph, NEW d \in Graph
  PROVE  d \in Neighbours(c) <=> c \in Neighbours(d)
BY DEF Neighbours

LEMMA NeighboursInGraph ==
  ASSUME NEW c
  PROVE  Neighbours(c) \subseteq Graph
BY DEF Neighbours

\* A walk that starts at a key outside closed parts stays outside of them.
LEMMA StaysOutside ==
  ASSUME NEW P \in SUBSET Graph, Closed(P), NEW c \in Graph, c \notin P
  PROVE  Neighbours(c) \cap P = {}
<1> SUFFICES ASSUME NEW d \in P, d \in Neighbours(c)
             PROVE  FALSE
  OBVIOUS
<1>1. c \in Neighbours(d)
  BY NeighboursSymmetric
<1> QED
  BY <1>1 DEF Closed

LEMMA InitSplit == Init => SplitInv
<1> SUFFICES ASSUME Init PROVE SplitInv
  OBVIOUS
<1>1. keys = Graph /\ frontier = {} /\ seen = {} /\ parts = {} /\ main = "split"
  BY DEF Init
<1> QED
  BY <1>1 DEF SplitInv, SplitType, SplitCover, SplitWalk, Found, Connected, Closed

\* A single key is connected.
LEMMA TakeKeySplit ==
  ASSUME SplitInv, NEW c \in Graph, TakeKey(c)
  PROVE  SplitInv'
<1>1. /\ frontier = {} /\ seen = {} /\ c \in keys /\ main = "split"
      /\ keys' = keys \ {c} /\ frontier' = {c}
      /\ seen' = seen /\ parts' = parts /\ main' = main
  BY DEF TakeKey, Splitting
<1>2. SplitType'
  BY <1>1 DEF SplitInv, SplitType
<1>3. Found = {} /\ Found' = {c}
  BY <1>1 DEF Found
<1>4. SplitCover'
  BY <1>1, <1>3 DEF SplitInv, SplitCover
<1>5. Connected(Found)'
  BY <1>3 DEF Connected
<1>6. SplitWalk'
  BY <1>1, <1>5 DEF SplitInv, SplitWalk, Connected, Closed
<1> QED
  BY <1>2, <1>4, <1>6 DEF SplitInv

\* What a visit adds hangs together with what was found before.
LEMMA VisitSplit ==
  ASSUME SplitInv, NEW c \in Graph, Visit(c)
  PROVE  SplitInv'
<1>1. /\ c \in frontier /\ main = "split"
      /\ seen' = seen \cup {c}
      /\ frontier' = (frontier \cup Neighbours(c)) \ (seen \cup {c})
      /\ keys' = keys /\ parts' = parts /\ main' = main
  BY DEF Visit, Splitting
<1>2. Found' = Found \cup Neighbours(c)
  BY <1>1 DEF Found
<1>3. SplitType'
  BY <1>1, NeighboursInGraph DEF SplitInv, SplitType
<1>4. ASSUME NEW P \in parts
      PROVE  P \cap Found' = {}
  <2>1. P \in SUBSET Graph /\ Closed(P) /\ P \cap Found = {}
    BY DEF SplitInv, SplitType, SplitCover, SplitWalk
  <2>2. c \notin P
    BY <1>1, <2>1 DEF Found
  <2> QED
    BY <1>2, <2>1, <2>2, StaysOutside
<1>5. SplitCover'
  <2>1. Graph = keys' \cup Found' \cup UNION (parts')
    <3>1. Graph = keys \cup Found \cup UNION parts
      BY DEF SplitInv, SplitCover
    <3>2. Neighbours(c) \subseteq Graph
      BY NeighboursInGraph
    <3> QED
      BY <1>1, <1>2, <3>1, <3>2
  <2>2. \A P \in parts' : P \cap (keys' \cup Found') = {}
    BY <1>1, <1>4 DEF SplitInv, SplitCover
  <2> QED
    BY <1>1, <2>1, <2>2 DEF SplitInv, SplitCover
<1>6. Connected(Found)'
  <2> SUFFICES ASSUME NEW C \in SUBSET Graph, Closed(C), C \cap Found' # {}
               PROVE  Found' \subseteq C
    BY DEF Connected, Closed
  <2>1. C \cap Found # {}
    <3>1. CASE C \cap Neighbours(c) # {}
      <4>1. PICK d \in C : d \in Neighbours(c)
        BY <3>1
      <4>2. c \in C
        BY <4>1, NeighboursSymmetric DEF Closed
      <4> QED
        BY <1>1, <4>2 DEF Found
    <3> QED
      BY <1>2, <3>1
  <2>2. Found \subseteq C
    BY <2>1 DEF SplitInv, SplitWalk, Connected
  <2>3. Neighbours(c) \subseteq C
    BY <1>1, <2>2 DEF Found, Closed
  <2> QED
    BY <1>2, <2>2, <2>3
<1>7. \A d \in seen' : Neighbours(d) \subseteq Found'
  BY <1>1, <1>2 DEF SplitInv, SplitWalk
<1>8. \A P \in parts' : P # {} /\ Closed(P) /\ Connected(P)
  BY <1>1 DEF SplitInv, SplitWalk
<1>9. SplitWalk'
  BY <1>6, <1>7, <1>8 DEF SplitWalk, Connected, Closed, Neighbours
<1> QED
  BY <1>3, <1>5, <1>9 DEF SplitInv

\* When nothing found is unvisited, what was visited is closed.
LEMMA SubmitSplit ==
  ASSUME SplitInv, Submit
  PROVE  SplitInv'
<1>1. /\ frontier = {} /\ seen # {} /\ main = "split"
      /\ parts' = parts \cup {seen} /\ keys' = keys \ seen /\ seen' = {}
      /\ frontier' = frontier /\ main' = main
  BY DEF Submit, Splitting
<1>2. Found = seen /\ Found' = {}
  BY <1>1 DEF Found
<1>3. SplitType'
  BY <1>1 DEF SplitInv, SplitType
<1>4. SplitCover'
  <2>1. Graph = keys' \cup Found' \cup UNION (parts')
    BY <1>1, <1>2 DEF SplitInv, SplitCover
  <2>2. \A P \in parts' : P \cap (keys' \cup Found') = {}
    BY <1>1, <1>2 DEF SplitInv, SplitCover
  <2>3. \A P, Q \in parts' : P # Q => P \cap Q = {}
    BY <1>1, <1>2 DEF SplitInv, SplitCover
  <2> QED
    BY <1>1, <2>1, <2>2, <2>3 DEF SplitCover
<1>5. seen # {} /\ Closed(seen) /\ Connected(seen)
  BY <1>1, <1>2 DEF SplitInv, SplitWalk, Closed
<1>6. \A P \in parts' : P # {} /\ Closed(P) /\ Connected(P)
  BY <1>1, <1>5 DEF SplitInv, SplitWalk
<1>7. Connected(Found)'
  BY <1>2 DEF Connected
<1>8. SplitWalk'
  BY <1>1, <1>6, <1>7 DEF SplitWalk, Connected, Closed, Neighbours
<1> QED
  BY <1>3, <1>4, <1>8 DEF SplitInv

LEMMA SplitEndSplit ==
  ASSUME SplitInv, SplitEnd
  PROVE  SplitInv'
<1>1. /\ keys = {} /\ frontier = {} /\ seen = {}
      /\ keys' = keys /\ frontier' = frontier /\ seen' = seen /\ parts' = parts
  BY DEF SplitEnd
<1> QED
  BY <1>1 DEF SplitInv, SplitType, SplitCover, SplitWalk, Found, Connected, Closed, Neighbours

\* The workers, and the caller once it waits, leave the split alone.
LEMMA OtherSplit ==
  ASSUME SplitInv, UNCHANGED <<keys, frontier, seen, parts>>,
         main' = main \/ (main = "wait" /\ main' = "returned")
  PROVE  SplitInv'
<1>1. Found' = Found
  BY DEF Found
<1>2. SplitType' /\ SplitCover'
  BY <1>1 DEF SplitInv, SplitType, SplitCover
<1>3. SplitWalk'
  BY <1>1 DEF SplitInv, SplitWalk, Connected, Closed, Neighbours
<1> QED
  BY <1>2, <1>3 DEF SplitInv

LEMMA WorkSplit ==
  ASSUME NEW w \in Worker, Work(w)
  PROVE  UNCHANGED splitVars
BY DEF Work, StartRun, Write, NotAttempted, Begin, MissingRequirement, CannotCall,
       Fail, Blacklist, Succeed, EndRun, Without

LEMMA NextSplit ==
  ASSUME SplitInv, [Next]_vars
  PROVE  SplitInv'
<1>1. ASSUME NEW c \in Graph, TakeKey(c)
      PROVE  SplitInv'
  BY <1>1, TakeKeySplit
<1>2. ASSUME NEW c \in Graph, Visit(c)
      PROVE  SplitInv'
  BY <1>2, VisitSplit
<1>3. CASE Submit
  BY <1>3, SubmitSplit
<1>4. CASE SplitEnd
  BY <1>4, SplitEndSplit
<1>5. CASE ReturnAll
  BY <1>5, OtherSplit DEF ReturnAll
<1>6. ASSUME NEW w \in Worker, Work(w)
      PROVE  SplitInv'
  BY <1>6, WorkSplit, OtherSplit DEF splitVars
<1>7. CASE UNCHANGED vars
  BY <1>7, OtherSplit DEF vars, splitVars
<1> QED
  BY <1>1, <1>2, <1>3, <1>4, <1>5, <1>6, <1>7 DEF Next, Main

\* The split of the graph, with the walk under way, for every graph.
THEOREM SplitInductive == Spec => []SplitInv
<1>1. SplitInv /\ [Next]_vars => SplitInv'
  BY NextSplit
<1> QED
  BY InitSplit, <1>1, PTL DEF Spec

\* run_all evaluates exactly the connected components of the graph, each handed
\* out once, whatever the workers do meanwhile.
THEOREM PartsConnected == Spec => []PartsAreConnectedComponents
<1>1. SplitInv => PartsAreConnectedComponents
  <2> SUFFICES ASSUME SplitInv PROVE PartsAreConnectedComponents
    OBVIOUS
  <2>1. \A P \in parts :
          /\ P # {} /\ Closed(P)
          /\ \A C \in SUBSET Graph : Closed(C) /\ C \cap P # {} => P \subseteq C
    BY DEF SplitInv, SplitWalk, Connected
  <2>2. \A P, Q \in parts : P # Q => P \cap Q = {}
    BY DEF SplitInv, SplitCover
  <2>3. main # "split" => UNION parts = Graph
    BY DEF SplitInv, SplitCover
  <2> QED
    BY <2>1, <2>2, <2>3 DEF PartsAreConnectedComponents
<1> QED
  BY SplitInductive, <1>1, PTL
=============================================================================
