-------------------------- MODULE CoreUpdateProofs --------------------------
(***************************************************************************)
(* For any number of runs and releases: the type of the state, that        *)
(* undisturbed runs leave pairs that verify, that no egg replaces a newer  *)
(* one, and when an etag that is answered by 304 is of a core that is      *)
(* installed.  The last three are about runs that update and rotate one    *)
(* after the other.                                                        *)
(***************************************************************************)
EXTENDS CoreUpdate, TLAPS

\* Every variable keeps its type.
THEOREM TypeCorrect == Spec => []TypeOK
<1>1. Init => TypeOK
  <2> SUFFICES ASSUME Init PROVE TypeOK
    OBVIOUS
  <2>1. Nothing \in [File -> Release \cup {None}] /\ Nothing \in [File -> Release \cup {None, Partial}]
    BY DEF Nothing
  <2>2. released \in 0 .. MaxRelease
    BY ReleaseAssumption DEF Init, None
  <2>3. "core" \in File
    BY DEF File
  <2> QED
    BY <2>1, <2>2, <2>3 DEF Init, TypeOK
<1> USE ReleaseAssumption DEF TypeOK, File, Goto
<1>2. TypeOK /\ [Next]_vars => TypeOK'
  <2> SUFFICES ASSUME TypeOK, [Next]_vars
               PROVE  TypeOK'
    OBVIOUS
  <2>1. CASE Publish
    BY <2>1 DEF Publish, disk, mine, Release
  <2>2. ASSUME NEW r \in Run, NEW at \in {"idle", "collect"}, Leave(r, at),
               UNCHANGED <<released, etag, overlapped, withdrawn>>, disturbed' \in BOOLEAN,
               newest' \in [File -> Release \cup {None, Partial}],
               stable' \in [File -> Release \cup {None, Partial}]
        PROVE  TypeOK'
    <3>1. Nothing \in [File -> Release \cup {None}]
      BY DEF Nothing
    <3> QED
      BY <2>2, <3>1 DEF Leave
  <2>3. ASSUME NEW r \in Run, NEW content \in Release \cup {None, Partial}, Put(r, content)
        PROVE  newest' \in [File -> Release \cup {None, Partial}] /\ stable' \in [File -> Release \cup {None, Partial}]
    BY <2>3 DEF Put
  <2>4. ASSUME NEW f \in File, Move(f)
        PROVE  /\ newest' \in [File -> Release \cup {None, Partial}]
               /\ stable' \in [File -> Release \cup {None, Partial}]
               /\ into' \in [Run -> {"newest", "stable", "gone"}]
    BY <2>4 DEF Move, Moved
  <2>5. ASSUME NEW r \in Run PROVE Written(r) \in Release \cup {None, Partial}
    BY DEF Written
  <2>6. ASSUME NEW r \in Run, StartRun(r) \/ Stop(r)
        PROVE  TypeOK'
    <3>1. CASE StartRun(r)
      BY <3>1 DEF StartRun, disk, mine, history
    <3>2. CASE Stop(r)
      <4>1. newest' \in [File -> Release \cup {None, Partial}] /\ stable' \in [File -> Release \cup {None, Partial}]
        BY <3>2, <2>3, <2>5 DEF Stop
      <4> QED
        BY <3>2, <4>1, <2>2 DEF Stop
    <3> QED
      BY <2>6, <3>1, <3>2
  <2>7. ASSUME NEW r \in Run, Update(r)
        PROVE  TypeOK'
    <3>1. CASE UpdateOff(r) \/ VerifyFails(r) \/ CopyMissing(r)
      BY <3>1, <2>2 DEF UpdateOff, VerifyFails, CopyMissing, disk, history
    <3>2. CASE Request(r)
      BY <3>2 DEF Request, NoteOverlap, disk
    <3>3. CASE FetchFails(r) \/ FetchUnmodified(r)
      <4>1. CASE file[r] = "core"
        BY <3>3, <4>1, <2>2 DEF FetchFails, FetchUnmodified, NotFetched, disk, history
      <4>2. CASE file[r] # "core"
        BY <3>3, <4>2 DEF FetchFails, FetchUnmodified, NotFetched, disk, history, None
      <4> QED
        BY <4>1, <4>2
    <3>4. CASE Fetch(r)
      <4>1. released \in Release
        BY <3>4 DEF Fetch, Release, None
      <4> QED
        BY <3>4, <4>1 DEF Fetch, disk, history
    <3>5. CASE OpenEtag(r)
      BY <3>5 DEF OpenEtag, mine, history
    <3>6. CASE CacheEtag(r)
      BY <3>6 DEF CacheEtag, mine, history
    <3>7. CASE Verify(r)
      BY <3>7 DEF Verify, disk, mine
    <3>8. CASE Copy(r)
      <4>1. torn' \subseteq Run
        BY <3>8 DEF Copy, Writers
      <4> QED
        BY <3>8, <4>1 DEF Copy, history
    <3>9. CASE CopyEnd(r)
      <4>1. newest' \in [File -> Release \cup {None, Partial}] /\ stable' \in [File -> Release \cup {None, Partial}]
        BY <3>9, <2>3, <2>5 DEF CopyEnd
      <4>2. CASE file[r] = "core"
        BY <3>9, <4>1, <4>2 DEF CopyEnd, history
      <4>3. CASE file[r] # "core"
        BY <3>9, <4>1, <4>3, <2>2 DEF CopyEnd, history
      <4> QED
        BY <4>2, <4>3
    <3> QED
      BY <2>7, <3>1, <3>2, <3>3, <3>4, <3>5, <3>6, <3>7, <3>8, <3>9 DEF Update
  <2>8. ASSUME NEW r \in Run, Collect(r)
        PROVE  TypeOK'
    <3>1. CASE CollectFails(r) \/ NothingToRotate(r)
      BY <3>1, <2>2 DEF CollectFails, NothingToRotate, disk, history
    <3>2. CASE Rotate(r)
      BY <3>2, <2>4 DEF Rotate, NoteOverlap
    <3>3. CASE RotateSig(r)
      <4>1. CASE newest["sig"] = None
        BY <3>3, <4>1 DEF RotateSig, history
      <4>2. CASE newest["sig"] # None
        BY <3>3, <4>2, <2>4 DEF RotateSig, history
      <4> QED
        BY <4>1, <4>2
    <3> QED
      BY <2>8, <3>1, <3>2, <3>3 DEF Collect
  <2>9. CASE UNCHANGED vars
    BY <2>9 DEF vars, disk, mine, history
  <2> QED
    BY <2>1, <2>6, <2>7, <2>8, <2>9 DEF Next
<1> QED
  BY <1>1, <1>2, PTL DEF Spec

-----------------------------------------------------------------------------
(* Runs that update and rotate one after the other.                        *)

\* A run that does not update has nothing in a temporary directory; as long as no
\* two have been busy at one time, none is, and each copies into newest.egg alone.
SoloInv ==
  /\ \A r \in Run : ~Busy(r) \/ pc[r] = "rotate" => fetched[r] = Nothing
  /\ ~overlapped =>
       /\ \A q, r \in Run : Busy(q) /\ Busy(r) => q = r
       /\ torn = {}
       /\ \A r \in Run : into[r] = "newest"

\* Who ends an update or a phase leaves nothing behind, and nobody else is touched.
LEMMA LeaveKeepsSolo ==
  ASSUME TypeOK, SoloInv, NEW r \in Run, NEW at \in {"idle", "collect"}, Leave(r, at),
         overlapped' = overlapped
  PROVE  SoloInv'
<1> USE DEF TypeOK, SoloInv, Busy, Goto, Leave
<1>1. ASSUME NEW q \in Run, q # r
      PROVE  (Busy(q)' <=> Busy(q)) /\ pc'[q] = pc[q] /\ fetched'[q] = fetched[q] /\ into'[q] = into[q]
  BY <1>1
<1>2. ~Busy(r)' /\ fetched'[r] = Nothing /\ into'[r] = "newest"
  OBVIOUS
<1> QED
  BY <1>1, <1>2

LEMMA SoloInductive == Spec => []SoloInv
<1>1. Init => SoloInv
  BY DEF Init, SoloInv, Busy
<1>2. TypeOK /\ SoloInv /\ [Next]_vars => SoloInv'
  <2> SUFFICES ASSUME TypeOK, SoloInv, [Next]_vars
               PROVE  SoloInv'
    OBVIOUS
  <2>1. CASE UNCHANGED vars
    BY <2>1 DEF vars, disk, mine, history, SoloInv, Busy
  <2>2. CASE Publish
    BY <2>2 DEF Publish, mine, SoloInv, Busy
  <2>3. ASSUME NEW r \in Run, StartRun(r)
        PROVE  SoloInv'
    BY <2>3 DEF StartRun, mine, history, TypeOK, SoloInv, Busy, Goto
  <2>4. ASSUME NEW r \in Run, Stop(r)
        PROVE  SoloInv'
    BY <2>4, LeaveKeepsSolo DEF Stop
  <2>5. ASSUME NEW r \in Run, Update(r)
        PROVE  SoloInv'
    <3> USE DEF TypeOK, SoloInv, Busy, Goto
    <3>1. CASE UpdateOff(r) \/ VerifyFails(r) \/ CopyMissing(r)
      BY <3>1, LeaveKeepsSolo DEF UpdateOff, VerifyFails, CopyMissing, history
    <3>2. CASE Request(r)
      BY <3>2 DEF Request, NoteOverlap
    <3>3. CASE FetchFails(r) \/ FetchUnmodified(r)
      <4>1. CASE file[r] = "core"
        BY <3>3, <4>1, LeaveKeepsSolo DEF FetchFails, FetchUnmodified, NotFetched, history
      <4>2. CASE file[r] # "core"
        BY <3>3, <4>2 DEF FetchFails, FetchUnmodified, NotFetched, history, File
      <4> QED
        BY <4>1, <4>2
    <3>4. CASE Fetch(r)
      BY <3>4 DEF Fetch, history
    <3>5. CASE OpenEtag(r)
      BY <3>5 DEF OpenEtag, mine, history
    <3>6. CASE CacheEtag(r)
      <4>1. Busy(r) /\ Busy(r)'
        BY <3>6 DEF CacheEtag
      <4>2. \A q \in Run \ {r} : Busy(q)' <=> Busy(q)
        BY <3>6 DEF CacheEtag
      <4>3. \A q \in Run : pc'[q] = "rotate" <=> pc[q] = "rotate"
        BY <3>6 DEF CacheEtag
      <4> QED
        BY ONLY <3>6, <4>1, <4>2, <4>3, SoloInv DEF CacheEtag, mine, history, SoloInv
    <3>7. CASE Verify(r)
      BY <3>7 DEF Verify, mine
    <3>8. CASE Copy(r)
      <4>1. ~overlapped => Writers(file[r]) = {}
        BY <3>8 DEF Copy, Writers
      <4> QED
        BY <3>8, <4>1 DEF Copy, history
    <3>9. CASE CopyEnd(r)
      <4>1. CASE file[r] = "core"
        BY <3>9, <4>1 DEF CopyEnd, history
      <4>2. CASE file[r] # "core"
        BY <3>9, <4>2, LeaveKeepsSolo DEF CopyEnd, history
      <4> QED
        BY <4>1, <4>2
    <3> QED
      BY <2>5, <3>1, <3>2, <3>3, <3>4, <3>5, <3>6, <3>7, <3>8, <3>9 DEF Update
  <2>6. ASSUME NEW r \in Run, Collect(r)
        PROVE  SoloInv'
    <3> USE DEF TypeOK, SoloInv, Busy, Goto
    <3>1. CASE CollectFails(r) \/ NothingToRotate(r)
      BY <3>1, LeaveKeepsSolo DEF CollectFails, NothingToRotate, history
    <3>2. CASE Rotate(r)
      BY <3>2 DEF Rotate, NoteOverlap, Move
    <3>3. CASE RotateSig(r)
      BY <3>3 DEF RotateSig, Move, history
    <3> QED
      BY <2>6, <3>1, <3>2, <3>3 DEF Collect
  <2> QED
    BY <2>1, <2>2, <2>3, <2>4, <2>5, <2>6 DEF Next
<1> QED
  BY TypeCorrect, <1>1, <1>2, PTL DEF Spec

\* The one that is busy is alone with the files: a step of it leaves the other
\* runs where they are, and ends a copy with what it has fetched.
LEMMA BusyAlone ==
  ASSUME TypeOK, SoloInv, NEW r \in Run, ~overlapped', Update(r) \/ Collect(r) \/ Stop(r)
  PROVE  /\ ~overlapped
         /\ Busy(r) \/ Busy(r)' => \A q \in Run \ {r} : ~Busy(q)
         /\ \A q \in Run \ {r} : /\ pc'[q] = pc[q] /\ file'[q] = file[q]
                                 /\ fetched'[q] = fetched[q] /\ asked'[q] = asked[q]
         /\ CopyEnd(r) => /\ newest' = [newest EXCEPT ![file[r]] = fetched[r][file[r]]]
                          /\ stable' = stable
<1>1. ~overlapped
  BY DEF Update, Collect, Stop, UpdateOff, Request, NoteOverlap, FetchFails, FetchUnmodified,
         NotFetched, Fetch, OpenEtag, CacheEtag, VerifyFails, Verify, CopyMissing, Copy, CopyEnd,
         CollectFails, NothingToRotate, Rotate, RotateSig, history, TypeOK
<1>2. \A q \in Run \ {r} : pc'[q] = pc[q] /\ file'[q] = file[q] /\ fetched'[q] = fetched[q] /\ asked'[q] = asked[q]
  <2> USE DEF TypeOK, Goto
  <2>1. CASE Stop(r) \/ Collect(r)
    BY <2>1 DEF Stop, Collect, CollectFails, NothingToRotate, Rotate, RotateSig, Leave
  <2>2. CASE UpdateOff(r) \/ Request(r) \/ FetchFails(r) \/ FetchUnmodified(r) \/ Fetch(r)
    BY <2>2 DEF UpdateOff, Request, FetchFails, FetchUnmodified, NotFetched, Fetch, Leave, mine
  <2>3. CASE OpenEtag(r) \/ CacheEtag(r) \/ VerifyFails(r) \/ Verify(r) \/ CopyMissing(r)
    BY <2>3 DEF OpenEtag, CacheEtag, VerifyFails, Verify, CopyMissing, Leave, mine
  <2>4. CASE Copy(r) \/ CopyEnd(r)
    BY <2>4 DEF Copy, CopyEnd, Leave
  <2> QED
    BY <2>1, <2>2, <2>3, <2>4 DEF Update
<1>3. Busy(r) \/ Busy(r)' => \A q \in Run \ {r} : ~Busy(q)
  <2>1. CASE Busy(r)
    BY <1>1, <2>1 DEF SoloInv
  <2>2. CASE ~Busy(r) /\ Busy(r)'
    <3>1. CASE Request(r) \/ Rotate(r)
      BY <3>1 DEF Request, Rotate, NoteOverlap
    <3>2. CASE Stop(r) \/ UpdateOff(r) \/ CollectFails(r) \/ NothingToRotate(r)
      BY <2>2, <3>2 DEF Stop, UpdateOff, CollectFails, NothingToRotate, Leave, Goto, Busy, TypeOK
    <3>3. CASE ~Request(r) /\ ~Rotate(r) /\ ~Stop(r) /\ ~UpdateOff(r) /\ ~CollectFails(r)
                 /\ ~NothingToRotate(r)
      BY <2>2, <3>3 DEF Update, Collect, FetchFails, FetchUnmodified, Fetch, OpenEtag, CacheEtag,
                        VerifyFails, Verify, CopyMissing, Copy, CopyEnd, RotateSig, Busy
    <3> QED
      BY <3>1, <3>2, <3>3
  <2> QED
    BY <2>1, <2>2
<1>4. CopyEnd(r) => /\ newest' = [newest EXCEPT ![file[r]] = fetched[r][file[r]]]
                    /\ stable' = stable
  BY <1>1 DEF CopyEnd, Put, SoloInv, TypeOK
<1> QED
  BY <1>1, <1>2, <1>3, <1>4

-----------------------------------------------------------------------------
(* Pairs of an egg and its signature.                                      *)

Settled == newest["core"] = newest["sig"] /\ stable["core"] = stable["sig"]

\* What an undisturbed update or rotation has done so far to the files.
Stage(r) ==
  /\ pc[r] # "rotate" => stable["core"] = stable["sig"]
  /\ pc[r] = "rotate" => /\ newest["core"] = None
                         /\ newest["sig"] # None
                         /\ stable["core"] = newest["sig"]
  /\ pc[r] \in {"copy", "copying"} => fetched[r]["sig"] = fetched[r]["core"]
  /\ pc[r] = "copying" => fetched[r]["core"] # None
  /\ pc[r] \in {"copy", "copying"} /\ file[r] = "sig" =>
       newest["core"] = fetched[r]["core"] /\ fetched[r]["core"] # None
  /\ pc[r] \notin {"copying", "rotate"} /\ ~(pc[r] = "copy" /\ file[r] = "sig") =>
       newest["core"] = newest["sig"]

PairInv ==
  ~disturbed /\ ~overlapped =>
    /\ \A r \in Run : Busy(r) => Stage(r)
    /\ (\A r \in Run : ~Busy(r)) => Settled

\* It is enough to look at the run that made the step.
LEMMA PairOfStep ==
  ASSUME TypeOK, SoloInv, PairInv, ~disturbed, ~overlapped', NEW r \in Run,
         Update(r) \/ Collect(r) \/ Stop(r),
         Busy(r) \/ Busy(r)' \/ UNCHANGED <<newest, stable>>,
         Busy(r)' => Stage(r)',
         Busy(r) /\ ~Busy(r)' => Settled'
  PROVE  PairInv'
<1>1. /\ ~overlapped
      /\ Busy(r) \/ Busy(r)' => \A q \in Run \ {r} : ~Busy(q)
      /\ \A q \in Run \ {r} : pc'[q] = pc[q] /\ file'[q] = file[q] /\ fetched'[q] = fetched[q] /\ asked'[q] = asked[q]
  BY BusyAlone
<1>2. \A q \in Run \ {r} : Busy(q)' <=> Busy(q)
  BY <1>1 DEF Busy
<1>3. CASE Busy(r) \/ Busy(r)'
  BY <1>1, <1>2, <1>3 DEF PairInv
<1>4. CASE ~Busy(r) /\ ~Busy(r)'
  <2>1. ASSUME NEW q \in Run, Busy(q)' PROVE Stage(q)'
    BY <1>1, <1>2, <1>4, <2>1 DEF PairInv, Stage
  <2>2. (\A q \in Run : ~Busy(q)') => Settled'
    BY <1>1, <1>2, <1>4 DEF PairInv, Settled
  <2> QED
    BY <2>1, <2>2 DEF PairInv
<1> QED
  BY <1>3, <1>4

LEMMA PairInductive == Spec => []PairInv
<1>1. Init => PairInv
  BY DEF Init, PairInv, Busy, Settled, Nothing, File
<1>2. TypeOK /\ SoloInv /\ PairInv /\ [Next]_vars => PairInv'
  <2> SUFFICES ASSUME TypeOK, SoloInv, PairInv, [Next]_vars
               PROVE  PairInv'
    OBVIOUS
  <2>1. CASE UNCHANGED vars
    BY <2>1 DEF vars, disk, mine, history, PairInv, Busy, Stage, Settled
  <2>2. CASE Publish
    BY <2>2 DEF Publish, disk, mine, PairInv, Busy, Stage, Settled
  <2>3. ASSUME NEW r \in Run, StartRun(r)
        PROVE  PairInv'
    <3>1. \A q \in Run : Busy(q)' <=> Busy(q)
      BY <2>3 DEF StartRun, Goto, Busy, TypeOK
    <3>2. ASSUME NEW q \in Run, Busy(q) PROVE pc'[q] = pc[q] /\ file'[q] = file[q]
      BY <2>3, <3>2 DEF StartRun, Goto, Busy, TypeOK
    <3> QED
      BY <2>3, <3>1, <3>2 DEF StartRun, disk, mine, history, PairInv, Stage, Settled
  <2>4. ASSUME NEW r \in Run, Update(r) \/ Collect(r) \/ Stop(r), ~disturbed', ~overlapped'
        PROVE  PairInv'
    <3>1. ~disturbed
      BY <2>4 DEF Update, Collect, Stop, UpdateOff, Request, FetchFails, FetchUnmodified,
           NotFetched, Fetch, OpenEtag, CacheEtag, VerifyFails, Verify, CopyMissing, Copy, CopyEnd,
           CollectFails, NothingToRotate, Rotate, RotateSig, history, TypeOK
    <3>2. /\ ~overlapped
          /\ Busy(r) \/ Busy(r)' => \A q \in Run \ {r} : ~Busy(q)
      BY <2>4, BusyAlone
    <3>3. /\ Busy(r) => Stage(r)
          /\ ~Busy(r) /\ Busy(r)' => Settled
      BY <3>1, <3>2 DEF PairInv
    <3> USE DEF TypeOK, File, Goto, Busy, Settled
    <3>4. Busy(r)' => Stage(r)'
      <4> USE DEF Stage
      <4>1. CASE Request(r)
        BY <3>3, <4>1 DEF Request, disk
      <4>2. CASE UpdateOff(r) \/ VerifyFails(r) \/ CopyMissing(r) \/ CollectFails(r) \/ NothingToRotate(r) \/ Stop(r)
        BY <4>2 DEF UpdateOff, VerifyFails, CopyMissing, CollectFails, NothingToRotate, Stop, Leave
      <4>3. CASE FetchFails(r) \/ FetchUnmodified(r)
        BY <3>3, <4>3 DEF FetchFails, FetchUnmodified, NotFetched, Leave, disk
      <4>4. CASE Fetch(r)
        BY <3>3, <4>4 DEF Fetch, disk
      <4>5. CASE OpenEtag(r) \/ CacheEtag(r)
        BY <3>3, <4>5 DEF OpenEtag, CacheEtag, mine
      <4>6. CASE Verify(r)
        BY <2>4, <3>3, <4>6 DEF Verify, Verified, disk, mine
      <4>7. CASE Copy(r)
        BY <3>3, <4>7 DEF Copy
      <4>8. CASE CopyEnd(r)
        <5>1. newest' = [newest EXCEPT ![file[r]] = fetched[r][file[r]]] /\ stable' = stable
          BY <2>4, <4>8, BusyAlone
        <5>2. CASE file[r] = "core"
          BY <3>3, <4>8, <5>1, <5>2 DEF CopyEnd
        <5>3. CASE file[r] # "core"
          BY <4>8, <5>3 DEF CopyEnd, Leave
        <5> QED
          BY <5>2, <5>3
      <4>9. CASE Rotate(r)
        BY <3>3, <4>9 DEF Rotate, Move
      <4>10. CASE RotateSig(r)
        BY <4>10 DEF RotateSig
      <4> QED
        BY <2>4, <4>1, <4>2, <4>3, <4>4, <4>5, <4>6, <4>7, <4>8, <4>9, <4>10 DEF Update, Collect
    <3>5. Busy(r) /\ ~Busy(r)' => Settled'
      <4> USE <3>3 DEF Stage
      <4>1. CASE UpdateOff(r) \/ VerifyFails(r) \/ CopyMissing(r) \/ CollectFails(r) \/ NothingToRotate(r)
        BY <4>1 DEF UpdateOff, VerifyFails, CopyMissing, CollectFails, NothingToRotate, disk
      <4>2. CASE Stop(r)
        BY <2>4, <4>2 DEF Stop
      <4>3. CASE FetchFails(r) \/ FetchUnmodified(r)
        BY <4>3 DEF FetchFails, FetchUnmodified, NotFetched, disk
      <4>4. CASE CopyEnd(r)
        <5>1. newest' = [newest EXCEPT ![file[r]] = fetched[r][file[r]]] /\ stable' = stable
          BY <2>4, <4>4, BusyAlone
        <5> QED
          BY <4>4, <5>1 DEF CopyEnd
      <4>5. CASE RotateSig(r)
        BY <4>5 DEF RotateSig, Move
      <4>6. CASE Request(r) \/ Fetch(r) \/ OpenEtag(r) \/ CacheEtag(r) \/ Verify(r) \/ Copy(r) \/ Rotate(r)
        BY <4>6 DEF Request, Fetch, OpenEtag, CacheEtag, Verify, Copy, Rotate
      <4> QED
        BY <2>4, <4>1, <4>2, <4>3, <4>4, <4>5, <4>6 DEF Update, Collect
    <3>6. Busy(r) \/ Busy(r)' \/ UNCHANGED <<newest, stable>>
      <4>1. CASE UpdateOff(r) \/ CollectFails(r) \/ NothingToRotate(r) \/ Stop(r)
        BY <4>1 DEF UpdateOff, CollectFails, NothingToRotate, Stop, disk
      <4>2. CASE Request(r)
        BY <4>2 DEF Request, disk
      <4>3. CASE Rotate(r)
        BY <4>3 DEF Rotate
      <4> QED
        BY <2>4, <4>1, <4>2, <4>3 DEF Update, Collect, FetchFails, FetchUnmodified, Fetch, OpenEtag,
           CacheEtag, VerifyFails, Verify, CopyMissing, Copy, CopyEnd, RotateSig
    <3> QED
      BY ONLY <2>4, <3>1, <3>4, <3>5, <3>6, PairOfStep, TypeOK, SoloInv, PairInv
  <2>5. CASE disturbed' \/ overlapped'
    BY <2>5 DEF PairInv
  <2> QED
    BY <2>1, <2>2, <2>3, <2>4, <2>5 DEF Next
<1> QED
  BY TypeCorrect, SoloInductive, <1>1, <1>2, PTL DEF Spec

\* As long as nothing disturbed a run and no two were busy at one time, egg and
\* signature are of one release whenever no file is on its way.
THEOREM PairsCorrect == Spec => []PairsVerify
<1>1. TypeOK /\ SoloInv /\ PairInv => PairsVerify
  <2> SUFFICES ASSUME TypeOK, SoloInv, PairInv, ~disturbed, ~overlapped,
                      \A r \in Run : pc[r] \notin {"copy", "copying", "rotate"}
               PROVE  newest["core"] = newest["sig"] /\ stable["core"] = stable["sig"]
    BY DEF PairsVerify
  <2>1. CASE \A r \in Run : ~Busy(r)
    BY <2>1 DEF PairInv, Settled
  <2>2. ASSUME NEW r \in Run, Busy(r)
        PROVE  newest["core"] = newest["sig"] /\ stable["core"] = stable["sig"]
    BY <2>2 DEF PairInv, Stage
  <2> QED
    BY <2>1, <2>2
<1> QED
  BY TypeCorrect, SoloInductive, PairInductive, <1>1, PTL

-----------------------------------------------------------------------------
(* No egg replaces a newer one.                                            *)

\* Nothing is newer than what the server has, and what was fetched is not older
\* than what is installed.
AgeInv ==
  ~overlapped /\ ~withdrawn =>
    /\ newest["core"] <= released /\ stable["core"] <= released
    /\ \A r \in Run : fetched[r]["core"] # None =>
         /\ fetched[r]["core"] <= released
         /\ fetched[r]["core"] >= newest["core"] /\ fetched[r]["core"] >= stable["core"]
    /\ NeverDowngraded

\* A step of one run that changes neither egg, nor what it has fetched but to drop it.
LEMMA AgeOfQuiet ==
  ASSUME TypeOK, AgeInv, released' = released, newest' = newest, stable' = stable,
         withdrawn' = withdrawn, overlapped => overlapped',
         \A r \in Run : fetched'[r]["core"] \in {fetched[r]["core"], None}
  PROVE  AgeInv'
<1> QED
  BY DEF AgeInv, NeverDowngraded, TypeOK, None

LEMMA AgeInductive == Spec => []AgeInv
<1>1. Init => AgeInv
  BY ReleaseAssumption DEF Init, AgeInv, NeverDowngraded, Nothing, File, None
<1>2. TypeOK /\ SoloInv /\ AgeInv /\ [Next]_vars => AgeInv'
  <2> SUFFICES ASSUME TypeOK, SoloInv, AgeInv, [Next]_vars
               PROVE  AgeInv'
    OBVIOUS
  <2> USE ReleaseAssumption
  <2>1. CASE UNCHANGED vars
    BY <2>1, AgeOfQuiet DEF vars, disk, mine, history
  <2>2. CASE Publish
    <3>1. ~withdrawn' => ~withdrawn /\ ~(released' < released)
      BY <2>2 DEF Publish
    <3>2. released \in Int /\ released' \in Int
      BY <2>2 DEF Publish, TypeOK, Release
    <3>3. UNCHANGED <<newest, stable, fetched, overlapped>>
      BY <2>2 DEF Publish, disk, mine
    <3> QED
      BY <3>1, <3>2, <3>3 DEF AgeInv, NeverDowngraded, TypeOK, Release, None, Partial, File
  <2>3. ASSUME NEW r \in Run, NEW at, Leave(r, at)
        PROVE  \A q \in Run : fetched'[q]["core"] \in {fetched[q]["core"], None}
    BY <2>3 DEF Leave, Nothing, File, TypeOK
  <2>4. ASSUME NEW r \in Run, StartRun(r)
        PROVE  AgeInv'
    BY <2>4, AgeOfQuiet DEF StartRun, disk, mine, history
  <2>5. ASSUME NEW r \in Run, Update(r) \/ Collect(r) \/ Stop(r), ~overlapped', ~withdrawn'
        PROVE  AgeInv'
    <3>1. /\ ~overlapped
          /\ Busy(r) \/ Busy(r)' => \A q \in Run \ {r} : fetched[q]["core"] = None
          /\ \A q \in Run \ {r} : fetched'[q] = fetched[q]
          /\ into[r] = "newest"
      BY <2>5, BusyAlone DEF SoloInv, Nothing, File
    <3> USE DEF TypeOK, Release, None, Partial, File
    <3>2. CASE UpdateOff(r) \/ VerifyFails(r) \/ CopyMissing(r) \/ CollectFails(r) \/ NothingToRotate(r)
      BY <3>2, <2>3, AgeOfQuiet
         DEF UpdateOff, VerifyFails, CopyMissing, CollectFails, NothingToRotate, disk, history
    <3>3. CASE FetchFails(r) \/ FetchUnmodified(r)
      BY <3>3, <2>3, AgeOfQuiet DEF FetchFails, FetchUnmodified, NotFetched, disk, history
    <3>4. CASE Request(r) \/ OpenEtag(r) \/ CacheEtag(r) \/ Verify(r)
      BY <3>4, AgeOfQuiet DEF Request, NoteOverlap, OpenEtag, CacheEtag, Verify, disk, mine, history
    <3>5. CASE Fetch(r)
      <4>1. \A q \in Run : fetched'[q]["core"] \in {fetched[q]["core"], released}
        BY <3>5 DEF Fetch
      <4> QED
        BY <3>5, <4>1 DEF Fetch, disk, history, AgeInv, NeverDowngraded
    <3>6. CASE Copy(r)
      BY <3>6 DEF Copy, history, AgeInv, NeverDowngraded
    <3>7. CASE CopyEnd(r)
      <4>1. /\ newest' = [newest EXCEPT ![file[r]] = fetched[r][file[r]]] /\ stable' = stable
            /\ \A q \in Run \ {r} : fetched[q]["core"] = None
        BY <2>5, <3>1, <3>7, BusyAlone DEF CopyEnd, Busy
      <4>2. released' = released /\ overlapped' = overlapped /\ withdrawn' = withdrawn
        BY <3>7 DEF CopyEnd, history
      <4>3. CASE file[r] = "core"
        <5>1. fetched' = fetched
          BY <3>7, <4>3 DEF CopyEnd
        <5> QED
          BY <4>1, <4>2, <4>3, <5>1 DEF AgeInv, NeverDowngraded
      <4>4. CASE file[r] # "core"
        <5>1. newest'["core"] = newest["core"]
          BY <4>1, <4>4
        <5>2. \A q \in Run : fetched'[q]["core"] \in {fetched[q]["core"], None}
          BY <2>3, <3>7, <4>4 DEF CopyEnd
        <5> QED
          BY <4>1, <4>2, <5>1, <5>2 DEF AgeInv, NeverDowngraded
      <4> QED
        BY <4>3, <4>4
    <3>8. CASE Stop(r)
      <4>1. newest'["core"] \in {newest["core"], Partial} /\ stable' = stable
        BY <3>1, <3>8 DEF Stop, Put, Written
      <4>2. \A q \in Run : fetched'[q]["core"] \in {fetched[q]["core"], None}
        BY <2>3, <3>8 DEF Stop
      <4> QED
        BY <3>8, <4>1, <4>2 DEF Stop, AgeInv, NeverDowngraded
    <3>9. CASE Rotate(r)
      <4>1. \A q \in Run : fetched[q]["core"] = None
        BY <3>1, <3>9 DEF Rotate, Goto, Busy, SoloInv, Nothing
      <4>2. stable'["core"] = newest["core"] /\ newest'["core"] = None
        BY <3>9 DEF Rotate, Move
      <4>3. UNCHANGED <<released, fetched, withdrawn>>
        BY <3>9 DEF Rotate
      <4> QED
        BY <3>1, <4>1, <4>2, <4>3 DEF AgeInv, NeverDowngraded
    <3>10. CASE RotateSig(r)
      BY <3>10 DEF RotateSig, Move, history, AgeInv, NeverDowngraded
    <3> QED
      BY <2>5, <3>2, <3>3, <3>4, <3>5, <3>6, <3>7, <3>8, <3>9, <3>10 DEF Update, Collect
  <2>6. CASE overlapped' \/ withdrawn'
    BY <2>6 DEF AgeInv
  <2> QED
    BY <2>1, <2>2, <2>4, <2>5, <2>6 DEF Next
<1> QED
  BY TypeCorrect, SoloInductive, <1>1, <1>2, PTL DEF Spec

\* While runs update and rotate one after the other and the server does not go
\* back, whatever stops them, the egg waiting to become the last stable one is not
\* older than the one it will replace.
THEOREM NotDowngraded == Spec => []NeverDowngraded
<1>1. AgeInv => NeverDowngraded
  BY DEF AgeInv, NeverDowngraded
<1> QED
  BY AgeInductive, <1>1, PTL

\* A complete egg that becomes the last stable one is not older than the one it
\* replaces, under the same conditions.
THEOREM StableNeverOlder ==
  Spec => [][~overlapped' /\ ~withdrawn /\ stable'["core"] \in Release =>
               stable'["core"] >= stable["core"]]_vars
<1>1. ASSUME TypeOK, SoloInv, NeverDowngraded, Next, ~overlapped', ~withdrawn, stable'["core"] \in Release
      PROVE  stable'["core"] >= stable["core"]
  <2> USE ReleaseAssumption DEF TypeOK, Release, File
  <2>1. CASE stable'["core"] = stable["core"]
    BY <1>1, <2>1
  <2>2. CASE Publish
    BY <2>1, <2>2 DEF Publish, disk
  <2>3. ASSUME NEW r \in Run, StartRun(r)
        PROVE  stable' = stable
    BY <2>3 DEF StartRun, disk
  <2>4. ASSUME NEW r \in Run, Update(r) \/ Collect(r) \/ Stop(r), ~Rotate(r)
        PROVE  stable'["core"] = stable["core"]
    <3>1. into[r] = "newest" /\ (CopyEnd(r) => stable' = stable)
      BY <1>1, <2>4, BusyAlone DEF SoloInv
    <3>2. CASE Stop(r)
      BY <1>1, <3>1, <3>2 DEF Stop, Put
    <3>3. CASE RotateSig(r)
      BY <1>1, <3>3 DEF RotateSig, Move
    <3>4. CASE UpdateOff(r) \/ Request(r) \/ FetchFails(r) \/ FetchUnmodified(r) \/ Fetch(r)
                 \/ OpenEtag(r) \/ CacheEtag(r) \/ VerifyFails(r)
      BY <3>4 DEF UpdateOff, Request, FetchFails, FetchUnmodified, NotFetched, Fetch, OpenEtag,
                  CacheEtag, VerifyFails, disk
    <3>5. CASE Verify(r) \/ CopyMissing(r) \/ Copy(r) \/ CollectFails(r) \/ NothingToRotate(r)
      BY <3>5 DEF Verify, CopyMissing, Copy, CollectFails, NothingToRotate, disk
    <3> QED
      BY <2>4, <3>1, <3>2, <3>3, <3>4, <3>5 DEF Update, Collect
  <2>5. ASSUME NEW r \in Run, Rotate(r)
        PROVE  stable'["core"] >= stable["core"]
    <3>1. ~overlapped
      BY <1>1, <2>5, BusyAlone DEF Collect
    <3> QED
      BY <1>1, <2>5, <3>1 DEF Rotate, Move, NeverDowngraded
  <2> QED
    BY <1>1, <2>1, <2>2, <2>3, <2>4, <2>5 DEF Next
<1>2. TypeOK /\ SoloInv /\ NeverDowngraded /\ [Next]_vars
        => [~overlapped' /\ ~withdrawn /\ stable'["core"] \in Release =>
              stable'["core"] >= stable["core"]]_vars
  BY <1>1
<1> QED
  BY TypeCorrect, SoloInductive, NotDowngraded, <1>2, PTL DEF Spec

-----------------------------------------------------------------------------
(* When "no update" may be believed.                                       *)

\* The core has been answered and its signature has not.
Between(r) ==
  \/ pc[r] \in {"fetched", "cache"} /\ file[r] = "core"
  \/ pc[r] \in {"fetch", "asked"} /\ file[r] = "sig"

\* The request of a signature is answered, be it by 304, and the server's release
\* stays between the two answers of one update.
Answered ==
  \A r \in Run :
    /\ pc[r] = "asked" /\ file[r] = "sig" /\ pc'[r] = "verify" => asked[r] = released
    /\ Between(r) => released' = released

\* The core installed last.
Latest == IF newest["core"] # None THEN newest["core"] ELSE stable["core"]

EtagsOf(release) == etag["core"] = release /\ etag["sig"] = release

\* Both etags are of the core installed last, but for the one being installed.
Progress(r) ==
  /\ pc[r] = "rotate" \/ (pc[r] = "asked" /\ file[r] = "core") => EtagsOf(Latest)
  /\ pc[r] = "asked" => asked[r] = etag[file[r]]
  /\ Between(r) => /\ fetched[r]["core"] = released /\ released # None
                   /\ etag["sig"] # released
                   /\ file[r] = "sig" => etag["core"] = released
  /\ pc[r] \in {"fetched", "cache"} /\ file[r] = "sig" =>
       /\ etag["core"] = fetched[r]["core"] /\ fetched[r]["sig"] = fetched[r]["core"]
       /\ fetched[r]["core"] # None
  /\ pc[r] \in {"verify", "copy", "copying"} =>
       /\ EtagsOf(fetched[r]["core"])
       /\ fetched[r]["sig"] = fetched[r]["core"] /\ fetched[r]["core"] # None
       /\ file[r] = "sig" => newest["core"] = fetched[r]["core"]

InstalledInv ==
  ~disturbed /\ ~overlapped =>
    /\ \A r \in Run : Busy(r) => Progress(r)
    /\ (\A r \in Run : ~Busy(r)) => EtagsOf(Latest)

\* It is enough to look at the run that made the step.
LEMMA InstalledOfStep ==
  ASSUME TypeOK, SoloInv, InstalledInv, ~disturbed, ~overlapped', NEW r \in Run,
         Update(r) \/ Collect(r) \/ Stop(r),
         Busy(r) \/ Busy(r)' \/ UNCHANGED <<released, etag, newest, stable>>,
         Busy(r)' => Progress(r)',
         Busy(r) /\ ~Busy(r)' => EtagsOf(Latest)'
  PROVE  InstalledInv'
<1>1. /\ ~overlapped
      /\ Busy(r) \/ Busy(r)' => \A q \in Run \ {r} : ~Busy(q)
      /\ \A q \in Run \ {r} : pc'[q] = pc[q] /\ file'[q] = file[q] /\ fetched'[q] = fetched[q] /\ asked'[q] = asked[q]
  BY BusyAlone
<1>2. \A q \in Run \ {r} : Busy(q)' <=> Busy(q)
  BY <1>1 DEF Busy
<1>3. CASE Busy(r) \/ Busy(r)'
  BY <1>1, <1>2, <1>3 DEF InstalledInv
<1>4. CASE ~Busy(r) /\ ~Busy(r)'
  <2>1. ASSUME NEW q \in Run, Busy(q)' PROVE Progress(q)'
    BY <1>1, <1>2, <1>4, <2>1 DEF InstalledInv, Progress, Between, Latest, EtagsOf
  <2>2. (\A q \in Run : ~Busy(q)') => EtagsOf(Latest)'
    BY <1>1, <1>2, <1>4 DEF InstalledInv, EtagsOf, Latest
  <2> QED
    BY <2>1, <2>2 DEF InstalledInv
<1> QED
  BY <1>3, <1>4

\* While the server answers for both files of a release and runs do not overlap, a
\* core it calls unmodified is installed: the violation of "None if no update" needs
\* a signature that was not delivered, or a release between the two answers.
THEOREM NoneIfAnswered == Spec /\ [][Answered]_vars => NoneIfNoUpdate
<1>1. Init => InstalledInv
  BY DEF Init, InstalledInv, Latest, EtagsOf, Busy, Nothing, File
<1>2. TypeOK /\ SoloInv /\ InstalledInv /\ [Next]_vars /\ [Answered]_vars => InstalledInv'
  <2> SUFFICES ASSUME TypeOK, SoloInv, InstalledInv, [Next]_vars, [Answered]_vars
               PROVE  InstalledInv'
    OBVIOUS
  <2>1. CASE UNCHANGED vars
    BY <2>1 DEF vars, disk, mine, history, InstalledInv, Busy, Progress, Between, Latest, EtagsOf
  <2>2. CASE Publish
    <3>1. \A r \in Run : ~Between(r)
      BY <2>2 DEF Publish, Answered, vars
    <3> QED
      BY <2>2, <3>1 DEF Publish, disk, mine, InstalledInv, Busy, Progress, Between, Latest, EtagsOf
  <2>3. ASSUME NEW r \in Run, StartRun(r)
        PROVE  InstalledInv'
    <3>1. \A q \in Run : Busy(q)' <=> Busy(q)
      BY <2>3 DEF StartRun, Goto, Busy, TypeOK
    <3>2. ASSUME NEW q \in Run, Busy(q) PROVE pc'[q] = pc[q] /\ file'[q] = file[q]
      BY <2>3, <3>2 DEF StartRun, Goto, Busy, TypeOK
    <3> QED
      BY <2>3, <3>1, <3>2 DEF StartRun, disk, mine, history, InstalledInv, Progress, Between, Latest, EtagsOf
  <2>4. ASSUME NEW r \in Run, Update(r) \/ Collect(r) \/ Stop(r), ~disturbed', ~overlapped'
        PROVE  InstalledInv'
    <3>1. ~disturbed
      BY <2>4 DEF Update, Collect, Stop, UpdateOff, Request, FetchFails, FetchUnmodified,
           NotFetched, Fetch, OpenEtag, CacheEtag, VerifyFails, Verify, CopyMissing, Copy, CopyEnd,
           CollectFails, NothingToRotate, Rotate, RotateSig, history, TypeOK
    <3>2. /\ ~overlapped
          /\ Busy(r) \/ Busy(r)' => \A q \in Run \ {r} : ~Busy(q)
      BY <2>4, BusyAlone
    <3>3. /\ Busy(r) => Progress(r)
          /\ ~Busy(r) /\ Busy(r)' => EtagsOf(Latest)
      BY <3>1, <3>2 DEF InstalledInv
    <3> USE DEF TypeOK, File, Goto, Busy, EtagsOf, Latest
    <3>4. Busy(r)' => Progress(r)'
      <4> USE DEF Progress, Between
      <4>1. CASE Request(r)
        BY <3>3, <4>1 DEF Request, disk
      <4>2. CASE UpdateOff(r) \/ VerifyFails(r) \/ CopyMissing(r) \/ CollectFails(r) \/ NothingToRotate(r) \/ Stop(r)
        BY <4>2 DEF UpdateOff, VerifyFails, CopyMissing, CollectFails, NothingToRotate, Stop, Leave
      <4>3. CASE FetchFails(r) \/ FetchUnmodified(r)
        <5>1. pc'[r] # pc[r]
          BY <4>3 DEF FetchFails, FetchUnmodified, NotFetched, Leave
        <5>2. Answered
          BY <5>1 DEF vars
        <5> QED
          BY <3>3, <4>3, <5>2 DEF FetchFails, FetchUnmodified, NotFetched, Leave, disk, Answered
      <4>4. CASE Fetch(r)
        BY <3>3, <4>4 DEF Fetch, disk
      <4>5. CASE OpenEtag(r)
        BY <3>3, <4>5 DEF OpenEtag, mine
      <4>6. CASE CacheEtag(r)
        BY <3>3, <4>6 DEF CacheEtag, mine
      <4>7. CASE Verify(r)
        BY <3>3, <4>7 DEF Verify, disk, mine
      <4>8. CASE Copy(r)
        BY <3>3, <4>8 DEF Copy
      <4>9. CASE CopyEnd(r)
        <5>1. newest' = [newest EXCEPT ![file[r]] = fetched[r][file[r]]]
          BY <2>4, <4>9, BusyAlone
        <5>2. CASE file[r] = "core"
          BY <3>3, <4>9, <5>1, <5>2 DEF CopyEnd
        <5>3. CASE file[r] # "core"
          BY <4>9, <5>3 DEF CopyEnd, Leave
        <5> QED
          BY <5>2, <5>3
      <4>10. CASE Rotate(r)
        BY <3>3, <4>10 DEF Rotate, Move
      <4>11. CASE RotateSig(r)
        BY <4>11 DEF RotateSig
      <4> QED
        BY <2>4, <4>1, <4>2, <4>3, <4>4, <4>5, <4>6, <4>7, <4>8, <4>9, <4>10, <4>11 DEF Update, Collect
    <3>5. Busy(r) /\ ~Busy(r)' => EtagsOf(Latest)'
      <4> USE <3>3 DEF Progress, Between
      <4>1. CASE UpdateOff(r) \/ CollectFails(r) \/ NothingToRotate(r)
        BY <4>1 DEF UpdateOff, CollectFails, NothingToRotate
      <4>2. CASE VerifyFails(r) \/ CopyMissing(r)
        BY <4>2 DEF VerifyFails, Verified, CopyMissing
      <4>3. CASE Stop(r)
        BY <2>4, <4>3 DEF Stop
      <4>4. CASE FetchFails(r) \/ FetchUnmodified(r)
        BY <4>4 DEF FetchFails, FetchUnmodified, NotFetched, disk
      <4>5. CASE CopyEnd(r)
        <5>1. newest' = [newest EXCEPT ![file[r]] = fetched[r][file[r]]]
          BY <2>4, <4>5, BusyAlone
        <5> QED
          BY <4>5, <5>1 DEF CopyEnd
      <4>6. CASE RotateSig(r)
        BY <4>6 DEF RotateSig, Move
      <4>7. CASE Request(r) \/ Fetch(r) \/ OpenEtag(r) \/ CacheEtag(r) \/ Verify(r) \/ Copy(r) \/ Rotate(r)
        BY <4>7 DEF Request, Fetch, OpenEtag, CacheEtag, Verify, Copy, Rotate
      <4> QED
        BY <2>4, <4>1, <4>2, <4>3, <4>4, <4>5, <4>6, <4>7 DEF Update, Collect
    <3>6. Busy(r) \/ Busy(r)' \/ UNCHANGED <<released, etag, newest, stable>>
      <4>1. CASE UpdateOff(r) \/ CollectFails(r) \/ NothingToRotate(r) \/ Stop(r)
        BY <4>1 DEF UpdateOff, CollectFails, NothingToRotate, Stop, disk
      <4>2. CASE Request(r)
        BY <4>2 DEF Request
      <4>3. CASE Rotate(r)
        BY <4>3 DEF Rotate
      <4> QED
        BY <2>4, <4>1, <4>2, <4>3 DEF Update, Collect, FetchFails, FetchUnmodified, Fetch, OpenEtag,
           CacheEtag, VerifyFails, Verify, CopyMissing, Copy, CopyEnd, RotateSig
    <3> QED
      BY ONLY <2>4, <3>1, <3>4, <3>5, <3>6, InstalledOfStep, TypeOK, SoloInv, InstalledInv
  <2>5. CASE disturbed' \/ overlapped'
    BY <2>5 DEF InstalledInv
  <2> QED
    BY <2>1, <2>2, <2>3, <2>4, <2>5 DEF Next
<1>3. TypeOK /\ InstalledInv => \A r \in Run :
        ~disturbed /\ ~overlapped /\ FetchUnmodified(r) /\ file[r] = "core" =>
          released \in {newest["core"], stable["core"]}
  BY DEF InstalledInv, Progress, EtagsOf, Latest, FetchUnmodified, Busy
<1> QED
  BY TypeCorrect, SoloInductive, <1>1, <1>2, <1>3, PTL DEF Spec, NoneIfNoUpdate
=============================================================================
