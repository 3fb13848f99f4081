-------------------------- MODULE ClientRunProofs --------------------------
(***************************************************************************)
(* Proofs about the runs of the client, for any number of runs and retries *)
(* and any options: the types, and that the records of a machine never     *)
(* contradict each other or the server while runs do not overlap.          *)
(***************************************************************************)
EXTENDS ClientRun, TLAPS

(* What a run may have to do yet, by name.                                 *)

Nothing == << >>
PutRegistered == <<Put("registered")>>
PutUnregistered == <<Put("unregistered")>>
PutForget == <<Put("unregistered"), Del("machine-id")>>
DelId == <<Del("machine-id")>>
PutId == <<Put("machine-id")>>

Calls ==
  {Nothing, WriteRegistered, PutRegistered, WriteUnregistered, PutUnregistered, Forget,
   PutForget, DelId, PutId, RecordUpload, Schedule, RemoveScheduling}

\* What is done next of a call, and what is left of it then.
LEMMA CallSteps ==
  /\ Head(WriteRegistered) = Del("unregistered") /\ Tail(WriteRegistered) = PutRegistered
  /\ Head(PutRegistered) = Put("registered") /\ Tail(PutRegistered) = Nothing
  /\ Head(WriteUnregistered) = Del("registered") /\ Tail(WriteUnregistered) = PutUnregistered
  /\ Head(PutUnregistered) = Put("unregistered") /\ Tail(PutUnregistered) = Nothing
  /\ Head(Forget) = Del("registered") /\ Tail(Forget) = PutForget
  /\ Head(PutForget) = Put("unregistered") /\ Tail(PutForget) = DelId
  /\ Head(DelId) = Del("machine-id") /\ Tail(DelId) = Nothing
  /\ Head(PutId) = Put("machine-id") /\ Tail(PutId) = Nothing
  /\ Head(RecordUpload) = Put("lastupload") /\ Tail(RecordUpload) = Nothing
  /\ Head(Schedule) = Put("timers") /\ Tail(Schedule) = Nothing
  /\ Head(RemoveScheduling) = Del("timers") /\ Tail(RemoveScheduling) = Nothing
BY SMT DEF WriteRegistered, PutRegistered, WriteUnregistered, PutUnregistered, Forget,
  PutForget, DelId, PutId, RecordUpload, Schedule, RemoveScheduling, Nothing, Put, Del

\* The calls are sequences of steps,
LEMMA CallsAreSteps == Calls \subseteq Seq({"put", "del"} \X Path)
BY SMT DEF Calls, WriteRegistered, PutRegistered, WriteUnregistered, PutUnregistered, Forget,
  PutForget, DelId, PutId, RecordUpload, Schedule, RemoveScheduling, Nothing, Put, Del, Path

\* no two of which are the same.
LEMMA CallsDiffer ==
  /\ WriteRegistered \notin {Nothing, PutRegistered, WriteUnregistered, PutUnregistered, Forget,
       PutForget, DelId, PutId, RecordUpload, Schedule, RemoveScheduling}
  /\ PutRegistered \notin {Nothing, WriteUnregistered, PutUnregistered, Forget,
       PutForget, DelId, PutId, RecordUpload, Schedule, RemoveScheduling}
  /\ WriteUnregistered \notin {Nothing, PutUnregistered, Forget,
       PutForget, DelId, PutId, RecordUpload, Schedule, RemoveScheduling}
  /\ PutUnregistered \notin {Nothing, Forget,
       PutForget, DelId, PutId, RecordUpload, Schedule, RemoveScheduling}
  /\ Forget \notin {Nothing, PutForget, DelId, PutId, RecordUpload, Schedule, RemoveScheduling}
  /\ PutForget \notin {Nothing, DelId, PutId, RecordUpload, Schedule, RemoveScheduling}
  /\ DelId \notin {Nothing, PutId, RecordUpload, Schedule, RemoveScheduling}
  /\ PutId \notin {Nothing, RecordUpload, Schedule, RemoveScheduling}
  /\ RecordUpload \notin {Nothing, Schedule, RemoveScheduling}
  /\ Schedule \notin {Nothing, RemoveScheduling}
  /\ RemoveScheduling # Nothing
<1>1. /\ WriteRegistered[1] = Del("unregistered") /\ PutRegistered[1] = Put("registered")
      /\ WriteUnregistered[1] = Del("registered") /\ PutUnregistered[1] = Put("unregistered")
      /\ Forget[1] = Del("registered") /\ PutForget[1] = Put("unregistered")
      /\ DelId[1] = Del("machine-id") /\ PutId[1] = Put("machine-id")
      /\ RecordUpload[1] = Put("lastupload") /\ Schedule[1] = Put("timers")
      /\ RemoveScheduling[1] = Del("timers")
  BY SMT DEF WriteRegistered, PutRegistered, WriteUnregistered, PutUnregistered, Forget,
    PutForget, DelId, PutId, RecordUpload, Schedule, RemoveScheduling, Put, Del
<1>2. /\ Len(Nothing) = 0 /\ Len(WriteRegistered) = 2 /\ Len(PutRegistered) = 1
      /\ Len(WriteUnregistered) = 2 /\ Len(PutUnregistered) = 1 /\ Len(Forget) = 3
      /\ Len(PutForget) = 2 /\ Len(DelId) = 1 /\ Len(PutId) = 1 /\ Len(RecordUpload) = 1
      /\ Len(Schedule) = 1 /\ Len(RemoveScheduling) = 1
  BY SMT DEF WriteRegistered, PutRegistered, WriteUnregistered, PutUnregistered, Forget,
    PutForget, DelId, PutId, RecordUpload, Schedule, RemoveScheduling, Nothing, Put, Del
<1>3. \A a : /\ Put(a)[1] = "put" /\ Put(a)[2] = a
             /\ Del(a)[1] = "del" /\ Del(a)[2] = a
  BY SMT DEF Put, Del
<1>. QED BY <1>1, <1>2, <1>3, SMT

-----------------------------------------------------------------------------
(* The inductive invariant.                                                *)

CallInv ==
  /\ todo \in [Run -> Calls]
  /\ \A p \in Run : pc[p] = "new" => todo[p] = Nothing

TypeInv == TypeOK /\ CallInv

Vouch == "machine-id" \in disk /\ (mid \in vouched \/ refused)

\* What a run that is alone relies on at l with the call c, of the disk d and the
\* vouching v.  A record is written for a machine-id that is there, and a
\* machine-id changes or goes only when there is no registration.
Pend(l, c, d, v) ==
  /\ c \in {WriteRegistered, PutRegistered} => v
  /\ c = PutRegistered => "unregistered" \notin d
  /\ c \in {PutUnregistered, PutForget, DelId, PutId} => "registered" \notin d
  /\ l \in {"known", "registered"} => v /\ c \in {WriteRegistered, PutRegistered, Nothing}
  /\ l = "registering" => v /\ c \in {WriteUnregistered, PutUnregistered, Nothing}
  /\ l = "unknown" => /\ c \in {Forget, PutForget, DelId, Nothing}
                      /\ c = Nothing => "registered" \notin d
  /\ l \in {"create", "recreate"} => /\ "registered" \notin d /\ c \in {PutId, Nothing}
                                     /\ c = Nothing => "machine-id" \in d
  /\ l = "collect" => /\ c \in {PutId, Schedule, Nothing}
                      /\ c # PutId => "machine-id" \in d
  /\ l = "upload" => c = Nothing /\ "machine-id" \in d

Consistent(d, v) ==
  /\ ~("registered" \in d /\ "unregistered" \in d)
  /\ "registered" \in d => v

RecordInv ==
  ~overlapped =>
    /\ \A p \in Run : \A q \in Run : Active(p) /\ Active(q) => p = q
    /\ Consistent(disk, Vouch)
    /\ \A p \in Run : Pend(pc[p], todo[p], disk, Vouch)

\* A run is at l with the call c next, whatever its tries.
Arrives(p, l, c) ==
  /\ pc' = [pc EXCEPT ![p] = l] /\ todo' = [todo EXCEPT ![p] = c]
  /\ tries' \in [Run -> 0 .. Retries - 1]
  /\ UNCHANGED opt

\* A run goes to a place it is prepared for.
Moves(p) ==
  \E l \in Label \ {"new"} : \E c \in Calls :
    Arrives(p, l, c) /\ (~overlapped => Pend(l, c, disk, Vouch'))

\* A run that is not under way relies on nothing.
LEMMA Resting ==
  ASSUME TypeInv, NEW p \in Run, ~Active(p), NEW d, NEW v
  PROVE  Pend(pc[p], todo[p], d, v)
<1>1. pc[p] \in {"new", "ok", "bad"} /\ todo[p] = Nothing
  BY DEF TypeInv, CallInv, Active, Over, End, Nothing
<1>. QED BY <1>1, CallsDiffer DEF Pend

LEMMA GotoArrives ==
  ASSUME TypeInv, NEW p \in Run, NEW l, NEW c, Goto(p, l, c)
  PROVE  Arrives(p, l, c)
<1>1. 0 \in 0 .. Retries - 1
  BY ClientAssumption
<1>2. tries' \in [Run -> 0 .. Retries - 1]
  BY <1>1 DEF Goto, TypeInv, TypeOK
<1>. QED BY <1>2 DEF Goto, Arrives

\* A move keeps the types of what belongs to the runs.
LEMMA ArrivalTypes ==
  ASSUME TypeInv, NEW p \in Run, NEW l \in Label \ {"new"}, NEW c \in Calls, Arrives(p, l, c)
  PROVE  /\ opt' \in [Run -> Option] /\ pc' \in [Run -> Label]
         /\ todo' \in [Run -> Seq({"put", "del"} \X Path)]
         /\ tries' \in [Run -> 0 .. Retries - 1]
         /\ CallInv'
<1>1. opt' \in [Run -> Option] /\ pc' \in [Run -> Label] /\ tries' \in [Run -> 0 .. Retries - 1]
  BY DEF Arrives, TypeInv, TypeOK
<1>2. todo' \in [Run -> Calls]
  BY DEF Arrives, TypeInv, CallInv
<1>3. todo' \in [Run -> Seq({"put", "del"} \X Path)]
  BY <1>2, CallsAreSteps
<1>4. ASSUME NEW q \in Run, pc'[q] = "new"
      PROVE  todo'[q] = Nothing
  BY <1>4 DEF Arrives, TypeInv, TypeOK, CallInv
<1>. QED BY <1>1, <1>2, <1>3, <1>4 DEF CallInv

\* What a run has to see to so that the records stay consistent.
LEMMA RecordStep ==
  ASSUME TypeInv, RecordInv, NEW p \in Run, Active(p), UNCHANGED overlapped,
         NEW l \in Label \ {"new"}, NEW c \in Calls, Arrives(p, l, c),
         ~overlapped => Consistent(disk', Vouch') /\ Pend(l, c, disk', Vouch')
  PROVE  RecordInv'
<1>. SUFFICES ASSUME ~overlapped PROVE RecordInv'
  BY DEF RecordInv
<1>1. pc'[p] = l /\ todo'[p] = c
  BY DEF Arrives, TypeInv, TypeOK
<1>2. ASSUME NEW q \in Run, q # p
      PROVE  /\ pc'[q] = pc[q] /\ todo'[q] = todo[q]
             /\ ~Active(q) /\ ~(Active(q)')
  <2>1. pc'[q] = pc[q] /\ todo'[q] = todo[q]
    BY <1>2 DEF Arrives, TypeInv, TypeOK
  <2>2. ~Active(q)
    BY <1>2 DEF RecordInv
  <2>. QED BY <2>1, <2>2 DEF Active, Over
<1>3. ASSUME NEW q \in Run
      PROVE  Pend(pc'[q], todo'[q], disk', Vouch')
  <2>1. CASE q = p
    BY <2>1, <1>1
  <2>2. CASE q # p
    <3>1. Pend(pc[q], todo[q], disk', Vouch')
      BY <1>2, <2>2, Resting
    <3>. QED BY <3>1, <1>2, <2>2
  <2>. QED BY <2>1, <2>2
<1>4. ASSUME NEW q \in Run, NEW r \in Run, Active(q)', Active(r)'
      PROVE  q = r
  BY <1>4, <1>2
<1>5. Consistent(disk', Vouch')
  OBVIOUS
<1>. QED BY <1>3, <1>4, <1>5 DEF RecordInv

\* A move alone keeps the invariant.
LEMMA MoveStep ==
  ASSUME TypeInv, RecordInv, NEW p \in Run, Active(p), Moves(p),
         UNCHANGED <<disk, overlapped>>, Vouch => Vouch'
  PROVE  /\ opt' \in [Run -> Option] /\ pc' \in [Run -> Label]
         /\ todo' \in [Run -> Seq({"put", "del"} \X Path)]
         /\ tries' \in [Run -> 0 .. Retries - 1]
         /\ CallInv' /\ RecordInv'
<1>1. PICK l \in Label \ {"new"}, c \in Calls :
        Arrives(p, l, c) /\ (~overlapped => Pend(l, c, disk, Vouch'))
  BY DEF Moves
<1>2. ~overlapped => Consistent(disk', Vouch') /\ Pend(l, c, disk', Vouch')
  BY <1>1 DEF RecordInv, Consistent
<1>3. RecordInv'
  BY <1>1, <1>2, RecordStep
<1>. QED BY <1>1, <1>3, ArrivalTypes

LEMMA LocalStep ==
  ASSUME TypeInv, RecordInv, NEW p \in Run, Active(p), Moves(p), Local
  PROVE  TypeInv' /\ RecordInv'
<1>1. UNCHANGED <<disk, overlapped>> /\ Vouch' = Vouch
  BY DEF Local, host, server, history, Vouch
<1>2. /\ opt' \in [Run -> Option] /\ pc' \in [Run -> Label]
      /\ todo' \in [Run -> Seq({"put", "del"} \X Path)]
      /\ tries' \in [Run -> 0 .. Retries - 1]
      /\ CallInv' /\ RecordInv'
  BY <1>1, MoveStep
<1>. QED BY <1>2 DEF TypeInv, TypeOK, Local, host, server, history

-----------------------------------------------------------------------------
(* The actions.                                                            *)

FreeLabel ==
  End \cup {"pre_update", "check", "unreachable", "post_update", "identify", "cleanup",
            "unschedule", "delete", "resync", "accepted", "finish"}

FreeCall == {Nothing, WriteUnregistered, Forget, RecordUpload, Schedule, RemoveScheduling}

\* Most places and calls rely on nothing.
LEMMA FreeMove ==
  ASSUME TypeInv, NEW p \in Run, NEW l \in FreeLabel, NEW c \in FreeCall, Goto(p, l, c)
  PROVE  Moves(p)
<1>1. Arrives(p, l, c)
  BY GotoArrives
<1>2. l \in Label \ {"new"} /\ c \in Calls
  BY DEF FreeLabel, Label, End, FreeCall, Calls
<1>3. Pend(l, c, disk, Vouch')
  BY CallsDiffer DEF FreeLabel, End, FreeCall, Pend
<1>. QED BY <1>1, <1>2, <1>3 DEF Moves

\* The others do.
LEMMA BoundMove ==
  ASSUME TypeInv, NEW p \in Run, NEW l \in Label \ {"new"}, NEW c \in Calls, Goto(p, l, c), Local,
         ~overlapped => Pend(l, c, disk, Vouch)
  PROVE  Moves(p)
<1>1. Vouch' = Vouch
  BY DEF Local, host, server, history, Vouch
<1>. QED BY <1>1, GotoArrives DEF Moves

\* A run at a place is under way, and finds there what it relies on.
LEMMA AtPlace ==
  ASSUME TypeInv, RecordInv, NEW p \in Run, NEW l \in Label \ ({"new"} \cup End), At(p, l)
  PROVE  /\ Active(p) /\ pc[p] = l /\ todo[p] = Nothing
         /\ ~overlapped => Consistent(disk, Vouch) /\ Pend(l, Nothing, disk, Vouch)
BY DEF At, Active, Over, RecordInv, Nothing

LEMMA PreUpdateMoves ==
  ASSUME TypeInv, RecordInv, NEW p \in Run, PreUpdate(p)
  PROVE  Active(p) /\ Moves(p) /\ Local
<1>1. Active(p)
  BY AtPlace DEF PreUpdate, Label, End
<1>2. Moves(p)
  BY FreeMove DEF PreUpdate, FreeLabel, FreeCall, End, Nothing
<1>. QED BY <1>1, <1>2 DEF PreUpdate

LEMMA CheckinMoves ==
  ASSUME TypeInv, RecordInv, NEW p \in Run, Checkin(p)
  PROVE  Active(p) /\ Moves(p) /\ Local
<1>1. Active(p)
  BY AtPlace DEF Checkin, Label, End
<1>2. Moves(p)
  BY FreeMove DEF Checkin, FreeLabel, FreeCall, End, Nothing
<1>. QED BY <1>1, <1>2 DEF Checkin

LEMMA CheckFailsMoves ==
  ASSUME TypeInv, RecordInv, NEW p \in Run, CheckFails(p)
  PROVE  Active(p) /\ Moves(p) /\ Local
<1>1. Active(p) /\ (~overlapped => Consistent(disk, Vouch))
  BY AtPlace DEF CheckFails, Label, End
<1>2. ASSUME "registered" \in disk, Goto(p, "known", WriteRegistered), Local
      PROVE  Moves(p)
  <2>1. ~overlapped => Pend("known", WriteRegistered, disk, Vouch)
    BY <1>1, <1>2, CallsDiffer DEF Consistent, Pend
  <2>2. "known" \in Label \ {"new"} /\ WriteRegistered \in Calls
    BY DEF Label, Calls
  <2>. QED BY <1>2, <2>1, <2>2, BoundMove
<1>3. Moves(p)
  BY <1>2, FreeMove DEF CheckFails, Outweighed, FreeLabel, FreeCall, End, Nothing
<1>. QED BY <1>1, <1>3 DEF CheckFails

LEMMA ReportMoves ==
  ASSUME TypeInv, RecordInv, NEW p \in Run, Report(p)
  PROVE  Active(p) /\ Moves(p) /\ Local
<1>1. Active(p)
  BY AtPlace DEF Report, Label, End
<1>2. Moves(p)
  BY FreeMove DEF Report, FreeLabel, FreeCall, End, Nothing
<1>. QED BY <1>1, <1>2 DEF Report

LEMMA PostUpdateMoves ==
  ASSUME TypeInv, RecordInv, NEW p \in Run, PostUpdate(p)
  PROVE  Active(p) /\ Moves(p) /\ Local
<1>1. Active(p)
  BY AtPlace DEF PostUpdate, Label, End
<1>2. Moves(p)
  BY FreeMove DEF PostUpdate, FreeLabel, FreeCall, End, Nothing
<1>. QED BY <1>1, <1>2 DEF PostUpdate

LEMMA GetMachineIdMoves ==
  ASSUME TypeInv, RecordInv, NEW p \in Run, GetMachineId(p)
  PROVE  Active(p) /\ Moves(p) /\ Local
<1>1. Active(p) /\ (~overlapped => Consistent(disk, Vouch))
  BY AtPlace DEF GetMachineId, Label, End
<1>2. Identify \in {Nothing, PutId} /\ (Identify = PutId <=> "machine-id" \notin disk)
  BY CallsDiffer DEF Identify, Nothing, PutId
<1>3. ~overlapped => Pend("collect", Identify, disk, Vouch)
  BY <1>1, <1>2, CallsDiffer DEF Consistent, Vouch, Pend
<1>4. "collect" \in Label \ {"new"} /\ Identify \in Calls
  BY <1>2 DEF Label, Calls
<1>5. Moves(p)
  BY <1>3, <1>4, BoundMove DEF GetMachineId
<1>. QED BY <1>1, <1>5 DEF GetMachineId

LEMMA UnregisterMoves ==
  ASSUME TypeInv, RecordInv, NEW p \in Run,
         Cleanup(p) \/ Unschedule(p) \/ HandleUnregistration(p)
  PROVE  Active(p) /\ Moves(p) /\ Local
<1>1. Active(p)
  BY AtPlace DEF Cleanup, Unschedule, HandleUnregistration, Label, End
<1>2. Moves(p)
  BY FreeMove DEF Cleanup, Unschedule, HandleUnregistration, FreeLabel, FreeCall, End, Nothing
<1>. QED BY <1>1, <1>2 DEF Cleanup, Unschedule, HandleUnregistration

LEMMA LegacyPostUpdateMoves ==
  ASSUME TypeInv, RecordInv, NEW p \in Run, LegacyPostUpdate(p)
  PROVE  Active(p) /\ Moves(p) /\ Local
<1>1. Active(p)
  BY AtPlace DEF LegacyPostUpdate, Label, End
<1>2. Moves(p)
  BY FreeMove DEF LegacyPostUpdate, FreeLabel, FreeCall, End, Nothing
<1>. QED BY <1>1, <1>2 DEF LegacyPostUpdate

LEMMA HandleRegistrationMoves ==
  ASSUME TypeInv, RecordInv, NEW p \in Run, HandleRegistration(p)
  PROVE  Active(p) /\ Moves(p) /\ Local
<1>1. Active(p) /\ (~overlapped => Consistent(disk, Vouch))
  BY AtPlace DEF HandleRegistration, Label, End
<1>2. Identify \in {Nothing, PutId} /\ (Identify = PutId <=> "machine-id" \notin disk)
  BY CallsDiffer DEF Identify, Nothing, PutId
<1>3. Local
  BY DEF HandleRegistration
<1>4. ASSUME At(p, "known"), Goto(p, "registering", Identify)
      PROVE  Moves(p)
  <2>1. ~overlapped => Vouch
    BY <1>4, AtPlace DEF Label, End, Pend
  <2>2. ~overlapped => Pend("registering", Identify, disk, Vouch)
    BY <1>2, <2>1, CallsDiffer DEF Vouch, Pend
  <2>3. "registering" \in Label \ {"new"} /\ Identify \in Calls
    BY <1>2 DEF Label, Calls
  <2>. QED BY <1>3, <1>4, <2>2, <2>3, BoundMove
<1>5. ASSUME NEW l \in {"create", "resync"}, At(p, "unknown"), "machine-id" \notin disk,
             Goto(p, l, Identify)
      PROVE  Moves(p)
  <2>1. ~overlapped => "registered" \notin disk
    BY <1>5, AtPlace DEF Label, End, Pend
  <2>2. ~overlapped => Pend(l, Identify, disk, Vouch)
    BY <1>2, <1>5, <2>1, CallsDiffer DEF Pend
  <2>3. l \in Label \ {"new"} /\ Identify \in Calls
    BY <1>2 DEF Label, Calls
  <2>. QED BY <1>3, <1>5, <2>2, <2>3, BoundMove
<1>6. ASSUME At(p, "unreachable"), Goto(p, "bad", Identify)
      PROVE  Moves(p)
  <2>1. ~overlapped => Pend("bad", Identify, disk, Vouch)
    BY <1>1, <1>2, CallsDiffer DEF Consistent, Vouch, Pend
  <2>2. "bad" \in Label \ {"new"} /\ Identify \in Calls
    BY <1>2 DEF Label, End, Calls
  <2>. QED BY <1>3, <1>6, <2>1, <2>2, BoundMove
<1>7. ASSUME Goto(p, "bad", Nothing)
      PROVE  Moves(p)
  BY <1>7, FreeMove DEF FreeLabel, FreeCall, End
<1>8. Moves(p)
  BY <1>4, <1>5, <1>6, <1>7 DEF HandleRegistration, Nothing
<1>. QED BY <1>1, <1>3, <1>8

LEMMA NameRequestMoves ==
  ASSUME TypeInv, RecordInv, NEW p \in Run, NameRequest(p)
  PROVE  Active(p) /\ Moves(p) /\ Local
<1>1. PICK l \in {"create", "delete", "upload"} : At(p, l)
  BY DEF NameRequest
<1>2. /\ Active(p) /\ pc[p] = l
      /\ ~overlapped => Consistent(disk, Vouch) /\ Pend(l, Nothing, disk, Vouch)
  BY <1>1, AtPlace DEF Label, End
<1>3. Identify = PutId
  BY DEF NameRequest, Identify, PutId
<1>4. ~overlapped => Pend(l, Identify, disk, Vouch)
  BY <1>2, <1>3, CallsDiffer DEF NameRequest, Consistent, Vouch, Pend
<1>5. l \in Label \ {"new"} /\ Identify \in Calls
  BY <1>3 DEF Label, Calls
<1>6. Moves(p)
  BY <1>2, <1>4, <1>5, BoundMove DEF NameRequest
<1>. QED BY <1>2, <1>6 DEF NameRequest

LEMMA CreateEndsMoves ==
  ASSUME TypeInv, RecordInv, NEW p \in Run, Resync(p) \/ CreateFails(p) \/ CreateConflicts(p)
  PROVE  Active(p) /\ Moves(p) /\ Local
<1>1. Active(p)
  BY AtPlace DEF Resync, CreateFails, CreateConflicts, Named, Label, End
<1>2. Local
  BY DEF Resync, CreateFails, CreateConflicts
<1>3. ASSUME Resync(p) \/ CreateFails(p)
      PROVE  Moves(p)
  BY <1>3, FreeMove DEF Resync, CreateFails, FreeLabel, FreeCall, End, Nothing
<1>4. ASSUME CreateConflicts(p)
      PROVE  Moves(p)
  <2>1. Goto(p, "recreate", PutId)
    BY <1>4 DEF CreateConflicts, PutId
  <2>2. ~overlapped => "registered" \notin disk
    BY <1>4, AtPlace DEF CreateConflicts, Named, Label, End, Pend
  <2>3. ~overlapped => Pend("recreate", PutId, disk, Vouch)
    BY <2>2, CallsDiffer DEF Pend
  <2>4. "recreate" \in Label \ {"new"} /\ PutId \in Calls
    BY DEF Label, Calls
  <2>. QED BY <1>2, <2>1, <2>3, <2>4, BoundMove
<1>. QED BY <1>1, <1>2, <1>3, <1>4

LEMMA RegisterMoves ==
  ASSUME TypeInv, RecordInv, NEW p \in Run, Register(p) \/ Registered(p)
  PROVE  Active(p) /\ Moves(p) /\ Local
<1>1. Active(p)
  BY AtPlace DEF Register, Registered, Label, End
<1>2. Local
  BY DEF Register, Registered
<1>3. ~overlapped => Vouch
  BY AtPlace DEF Register, Registered, Label, End, Pend
<1>4. ASSUME Register(p)
      PROVE  Moves(p)
  <2>1. ~overlapped => Pend("registered", WriteRegistered, disk, Vouch)
    BY <1>3, CallsDiffer DEF Pend
  <2>2. "registered" \in Label \ {"new"} /\ WriteRegistered \in Calls
    BY DEF Label, Calls
  <2>. QED BY <1>2, <1>4, <2>1, <2>2, BoundMove DEF Register
<1>5. ASSUME Registered(p)
      PROVE  Moves(p)
  <2>1. PICK c \in {Schedule, Nothing} : Goto(p, "collect", c)
    BY <1>5 DEF Registered, Nothing
  <2>2. ~overlapped => Pend("collect", c, disk, Vouch)
    BY <1>3, CallsDiffer DEF Pend, Vouch
  <2>3. "collect" \in Label \ {"new"} /\ c \in Calls
    BY DEF Label, Calls
  <2>. QED BY <1>2, <2>1, <2>2, <2>3, BoundMove
<1>. QED BY <1>1, <1>2, <1>4, <1>5

LEMMA CollectMoves ==
  ASSUME TypeInv, RecordInv, NEW p \in Run, Collect(p)
  PROVE  Active(p) /\ Moves(p) /\ Local
<1>1. Active(p) /\ (~overlapped => "machine-id" \in disk)
  BY AtPlace, CallsDiffer DEF Collect, Label, End, Pend
<1>2. ~overlapped => Pend("upload", Nothing, disk, Vouch)
  BY <1>1, CallsDiffer DEF Pend
<1>3. "upload" \in Label \ {"new"} /\ Nothing \in Calls /\ "ok" \in FreeLabel /\ Nothing \in FreeCall
  BY DEF Label, Calls, FreeLabel, FreeCall, End
<1>4. Goto(p, "ok", Nothing) \/ Goto(p, "upload", Nothing)
  BY DEF Collect, Nothing
<1>5. Moves(p)
  BY <1>2, <1>3, <1>4, BoundMove, FreeMove DEF Collect
<1>. QED BY <1>1, <1>5 DEF Collect

LEMMA EndsMoves ==
  ASSUME TypeInv, RecordInv, NEW p \in Run, CollectFails(p) \/ Accepted(p) \/ Finish(p)
  PROVE  Active(p) /\ Moves(p) /\ Local
<1>1. Active(p)
  BY AtPlace DEF CollectFails, Accepted, Finish, Label, End
<1>2. Moves(p)
  BY FreeMove DEF CollectFails, Accepted, Finish, FreeLabel, FreeCall, End, Nothing
<1>. QED BY <1>1, <1>2 DEF CollectFails, Accepted, Finish

LEMMA KillMoves ==
  ASSUME TypeInv, RecordInv, NEW p \in Run, Kill(p)
  PROVE  Active(p) /\ Moves(p) /\ Local
BY FreeMove DEF Kill, FreeLabel, FreeCall, End, Nothing

\* Another attempt leaves the run where it is, and so within Retries.
LEMMA RetryArrives ==
  ASSUME TypeInv, NEW p \in Run, pc[p] = "upload", todo[p] = Nothing, Retry(p)
  PROVE  Arrives(p, "upload", Nothing) \/ Arrives(p, "bad", Nothing)
<1>1. CASE Goto(p, "bad", << >>)
  BY <1>1, GotoArrives DEF Nothing
<1>2. CASE /\ tries[p] + 1 < Retries
           /\ tries' = [tries EXCEPT ![p] = @ + 1]
           /\ UNCHANGED <<opt, pc, todo>>
  <2>1. tries[p] + 1 \in 0 .. Retries - 1
    BY <1>2, ClientAssumption DEF TypeInv, TypeOK
  <2>2. tries' \in [Run -> 0 .. Retries - 1]
    BY <1>2, <2>1 DEF TypeInv, TypeOK
  <2>3. pc' = [pc EXCEPT ![p] = "upload"] /\ todo' = [todo EXCEPT ![p] = Nothing]
    BY <1>2 DEF TypeInv, TypeOK
  <2>. QED BY <1>2, <2>2, <2>3 DEF Arrives
<1>. QED BY <1>1, <1>2 DEF Retry

LEMMA UploadFailsMoves ==
  ASSUME TypeInv, RecordInv, NEW p \in Run, UploadFails(p)
  PROVE  Active(p) /\ Moves(p) /\ Local
<1>1. /\ Active(p) /\ pc[p] = "upload" /\ todo[p] = Nothing
      /\ ~overlapped => Pend("upload", Nothing, disk, Vouch)
  BY AtPlace DEF UploadFails, Named, Label, End
<1>2. Local /\ Vouch' = Vouch
  BY DEF UploadFails, Local, host, server, history, Vouch
<1>3. ASSUME Retry(p)
      PROVE  Moves(p)
  <2>1. PICK l \in {"upload", "bad"} : Arrives(p, l, Nothing)
    BY <1>1, <1>3, RetryArrives
  <2>2. ~overlapped => Pend(l, Nothing, disk, Vouch')
    BY <1>1, <1>2, CallsDiffer DEF Pend
  <2>3. l \in Label \ {"new"} /\ Nothing \in Calls
    BY DEF Label, End, Calls
  <2>. QED BY <2>1, <2>2, <2>3 DEF Moves
<1>4. ASSUME NEW c \in {Nothing, WriteUnregistered}, Goto(p, "bad", c)
      PROVE  Moves(p)
  BY <1>4, FreeMove DEF FreeLabel, FreeCall, End
<1>5. Moves(p)
  BY <1>3, <1>4 DEF UploadFails, Nothing
<1>. QED BY <1>1, <1>2, <1>5

LEMMA WriteFailsMoves ==
  ASSUME TypeInv, RecordInv, NEW p \in Run, WriteFails(p)
  PROVE  Active(p) /\ Moves(p) /\ Local
<1>1. todo[p] # Nothing /\ todo[p] \in Calls /\ pc[p] \in Label \ {"new"} /\ Active(p) /\ Local
  BY DEF WriteFails, Nothing, TypeInv, TypeOK, CallInv, Active, Over
<1>2. ASSUME Goto(p, "bad", << >>)
      PROVE  Moves(p)
  BY <1>2, FreeMove DEF FreeLabel, FreeCall, End, Nothing
<1>3. ASSUME Head(todo[p])[2] = "timers" \/ pc[p] = "accepted" \/ NotingRefusal(p),
             Goto(p, pc[p], << >>)
      PROVE  Moves(p)
  <2>1. \/ todo[p] \in {Schedule, RemoveScheduling}
        \/ pc[p] \in {"accepted", "unreachable", "registering"}
    BY <1>1, <1>3, CallSteps DEF Calls, Put, Del, NotingRefusal
  <2>2. ~overlapped => Pend(pc[p], todo[p], disk, Vouch)
    BY DEF RecordInv
  <2>3. ~overlapped => Pend(pc[p], Nothing, disk, Vouch)
    BY <2>1, <2>2, CallsDiffer DEF Pend
  <2>4. Nothing \in Calls
    BY DEF Calls
  <2>. QED BY <1>1, <1>3, <2>3, <2>4, BoundMove DEF Nothing
<1>5. ASSUME Outweighed(p), Goto(p, "known", WriteRegistered)
      PROVE  Moves(p)
  <2>1. ~overlapped => Consistent(disk, Vouch)
    BY DEF RecordInv
  <2>2. ~overlapped => Pend("known", WriteRegistered, disk, Vouch)
    BY <1>5, <2>1, CallsDiffer DEF Outweighed, Consistent, Pend
  <2>3. "known" \in Label \ {"new"} /\ WriteRegistered \in Calls
    BY DEF Label, Calls
  <2>. QED BY <1>1, <1>5, <2>2, <2>3, BoundMove
<1>4. Moves(p)
  BY <1>2, <1>3, <1>5 DEF WriteFails
<1>. QED BY <1>1, <1>4

-----------------------------------------------------------------------------
(* The actions that change more than the run.                              *)

LEMMA CheckStep ==
  ASSUME TypeInv, RecordInv, NEW p \in Run, Check(p)
  PROVE  TypeInv' /\ RecordInv'
<1>1. Active(p) /\ (~overlapped => Consistent(disk, Vouch))
  BY AtPlace DEF Check, Label, End
<1>2. UNCHANGED <<disk, mid, newest, identity, inventory, accepted, refused, overlapped>>
  BY DEF Check, host, history
<1>3. vouched' \subseteq Nat /\ vouched \subseteq vouched' /\ (Confirmed => mid \in vouched')
  BY DEF Check, TypeInv, TypeOK
<1>4. Vouch => Vouch'
  BY <1>2, <1>3 DEF Vouch
<1>5. ASSUME Confirmed \/ Outweighed(p),
             Goto(p, "known", WriteRegistered)
      PROVE  Moves(p)
  <2>1. ~overlapped => Vouch'
    BY <1>1, <1>2, <1>3, <1>4, <1>5 DEF Confirmed, Outweighed, Consistent, Vouch
  <2>2. ~overlapped => Pend("known", WriteRegistered, disk, Vouch')
    BY <2>1, CallsDiffer DEF Pend
  <2>3. "known" \in Label \ {"new"} /\ WriteRegistered \in Calls
    BY DEF Label, Calls
  <2>. QED BY <1>5, <2>2, <2>3, GotoArrives DEF Moves
<1>6. ASSUME Goto(p, "unknown", Forget)
      PROVE  Moves(p)
  <2>1. Pend("unknown", Forget, disk, Vouch')
    BY CallsDiffer DEF Pend
  <2>2. "unknown" \in Label \ {"new"} /\ Forget \in Calls
    BY DEF Label, Calls
  <2>. QED BY <1>6, <2>1, <2>2, GotoArrives DEF Moves
<1>7. Moves(p)
  BY <1>5, <1>6 DEF Check
<1>8. /\ opt' \in [Run -> Option] /\ pc' \in [Run -> Label]
      /\ todo' \in [Run -> Seq({"put", "del"} \X Path)]
      /\ tries' \in [Run -> 0 .. Retries - 1]
      /\ CallInv' /\ RecordInv'
  BY <1>1, <1>2, <1>4, <1>7, MoveStep
<1>. QED BY <1>2, <1>3, <1>8 DEF TypeInv, TypeOK

LEMMA DeleteStep ==
  ASSUME TypeInv, RecordInv, NEW p \in Run, Delete(p)
  PROVE  TypeInv' /\ RecordInv'
<1>1. Active(p)
  BY AtPlace DEF Delete, Named, Label, End
<1>2. UNCHANGED <<disk, mid, newest, identity, vouched, accepted, refused, overlapped>>
  BY DEF Delete, host, history
<1>3. inventory' \subseteq Nat
  BY DEF Delete, TypeInv, TypeOK
<1>4. Vouch' = Vouch
  BY <1>2 DEF Vouch
<1>5. Moves(p)
  BY FreeMove DEF Delete, FreeLabel, FreeCall, End, Nothing
<1>6. /\ opt' \in [Run -> Option] /\ pc' \in [Run -> Label]
      /\ todo' \in [Run -> Seq({"put", "del"} \X Path)]
      /\ tries' \in [Run -> 0 .. Retries - 1]
      /\ CallInv' /\ RecordInv'
  BY <1>1, <1>2, <1>4, <1>5, MoveStep
<1>. QED BY <1>2, <1>3, <1>6 DEF TypeInv, TypeOK

\* Where a machine is created there is a machine-id.
LEMMA Creating ==
  ASSUME TypeInv, RecordInv, NEW p \in Run, Named(p, "create") \/ At(p, "recreate")
  PROVE  Active(p) /\ (~overlapped => "machine-id" \in disk)
<1>1. PICK l \in {"create", "recreate"} : At(p, l)
  BY DEF Named
<1>2. Active(p) /\ (~overlapped => Pend(l, Nothing, disk, Vouch))
  BY <1>1, AtPlace DEF Label, End
<1>. QED BY <1>2 DEF Pend

LEMMA CreateStep ==
  ASSUME TypeInv, RecordInv, NEW p \in Run, Create(p)
  PROVE  TypeInv' /\ RecordInv'
<1>1. Active(p) /\ (~overlapped => "machine-id" \in disk)
  BY Creating DEF Create
<1>2. UNCHANGED <<disk, mid, newest, identity, accepted, refused, overlapped>>
  BY DEF Create, host, history
<1>3. inventory' \subseteq Nat /\ vouched' \subseteq Nat /\ vouched' = vouched \cup {mid}
  BY DEF Create, TypeInv, TypeOK
<1>4. (Vouch => Vouch') /\ (~overlapped => Vouch')
  BY <1>1, <1>2, <1>3 DEF Vouch
<1>5. PICK l \in {"registering", "bad"} : Goto(p, l, Nothing)
  BY DEF Create, Nothing
<1>6. ~overlapped => Pend(l, Nothing, disk, Vouch')
  BY <1>4, CallsDiffer DEF Pend
<1>7. l \in Label \ {"new"} /\ Nothing \in Calls
  BY DEF Label, End, Calls
<1>8. Moves(p)
  BY <1>5, <1>6, <1>7, GotoArrives DEF Moves
<1>9. /\ opt' \in [Run -> Option] /\ pc' \in [Run -> Label]
      /\ todo' \in [Run -> Seq({"put", "del"} \X Path)]
      /\ tries' \in [Run -> 0 .. Retries - 1]
      /\ CallInv' /\ RecordInv'
  BY <1>1, <1>2, <1>4, <1>8, MoveStep
<1>. QED BY <1>2, <1>3, <1>9 DEF TypeInv, TypeOK

LEMMA CreateRefusedStep ==
  ASSUME TypeInv, RecordInv, NEW p \in Run, CreateRefused(p)
  PROVE  TypeInv' /\ RecordInv'
<1>1. Active(p) /\ (~overlapped => "machine-id" \in disk)
  BY Creating DEF CreateRefused
<1>2. UNCHANGED <<disk, mid, newest, identity, inventory, vouched, accepted, overlapped>> /\ refused'
  BY DEF CreateRefused, host, server
<1>3. (Vouch => Vouch') /\ (~overlapped => Vouch')
  BY <1>1, <1>2 DEF Vouch
<1>4. PICK c \in {Nothing, WriteUnregistered} : Goto(p, "registering", c)
  BY DEF CreateRefused, Nothing
<1>5. ~overlapped => Pend("registering", c, disk, Vouch')
  BY <1>3, CallsDiffer DEF Pend
<1>6. "registering" \in Label \ {"new"} /\ c \in Calls
  BY DEF Label, Calls
<1>7. Moves(p)
  BY <1>4, <1>5, <1>6, GotoArrives DEF Moves
<1>8. /\ opt' \in [Run -> Option] /\ pc' \in [Run -> Label]
      /\ todo' \in [Run -> Seq({"put", "del"} \X Path)]
      /\ tries' \in [Run -> 0 .. Retries - 1]
      /\ CallInv' /\ RecordInv'
  BY <1>1, <1>2, <1>3, <1>7, MoveStep
<1>9. refused' \in BOOLEAN
  BY DEF CreateRefused
<1>. QED BY <1>2, <1>8, <1>9 DEF TypeInv, TypeOK

\* What is uploaded is the machine's: an accepted archive registers its machine-id.
LEMMA UploadStep ==
  ASSUME TypeInv, RecordInv, NEW p \in Run, Upload(p)
  PROVE  TypeInv' /\ RecordInv'
<1>1. /\ Active(p) /\ pc[p] = "upload" /\ todo[p] = Nothing
      /\ ~overlapped => "machine-id" \in disk
  BY AtPlace DEF Upload, Named, Label, End, Pend
<1>2. UNCHANGED <<disk, mid, newest, identity, refused, overlapped>>
  BY DEF Upload, host
<1>3. /\ inventory' \subseteq Nat /\ vouched' \subseteq Nat /\ accepted' \subseteq Run
      /\ vouched \subseteq vouched' /\ ("machine-id" \in disk => mid \in vouched')
  BY DEF Upload, TypeInv, TypeOK
<1>4. (Vouch => Vouch') /\ (~overlapped => Vouch')
  BY <1>1, <1>2, <1>3 DEF Vouch
<1>5. ASSUME NEW l \in {"upload", "bad"}, Arrives(p, l, Nothing)
      PROVE  Moves(p)
  <2>1. ~overlapped => Pend(l, Nothing, disk, Vouch')
    BY <1>1, CallsDiffer DEF Pend
  <2>2. l \in Label \ {"new"} /\ Nothing \in Calls
    BY DEF Label, End, Calls
  <2>. QED BY <1>5, <2>1, <2>2 DEF Moves
<1>6. ASSUME Goto(p, "accepted", WriteRegistered)
      PROVE  Moves(p)
  <2>1. ~overlapped => Pend("accepted", WriteRegistered, disk, Vouch')
    BY <1>4, CallsDiffer DEF Pend
  <2>2. "accepted" \in Label \ {"new"} /\ WriteRegistered \in Calls
    BY DEF Label, Calls
  <2>. QED BY <1>6, <2>1, <2>2, GotoArrives DEF Moves
<1>7. ASSUME Goto(p, "finish", RecordUpload)
      PROVE  Moves(p)
  BY <1>7, FreeMove DEF FreeLabel, FreeCall
<1>8. Moves(p)
  BY <1>1, <1>5, <1>6, <1>7, RetryArrives DEF Upload
<1>9. /\ opt' \in [Run -> Option] /\ pc' \in [Run -> Label]
      /\ todo' \in [Run -> Seq({"put", "del"} \X Path)]
      /\ tries' \in [Run -> 0 .. Retries - 1]
      /\ CallInv' /\ RecordInv'
  BY <1>1, <1>2, <1>4, <1>8, MoveStep
<1>. QED BY <1>2, <1>3, <1>9 DEF TypeInv, TypeOK

\* What a step of a call does to the disk.
LEMMA WriteEffect ==
  ASSUME TypeInv, NEW p \in Run, Write(p)
  PROVE  /\ disk' \subseteq Path /\ mid' \in Nat /\ newest' \in Nat
         /\ UNCHANGED <<identity, inventory, vouched, accepted, refused, overlapped>>
         /\ \A a \in Path :
              /\ Head(todo[p]) = Put(a) => disk' = disk \cup {a} /\ (a # "machine-id" => mid' = mid)
              /\ Head(todo[p]) = Del(a) => disk' = disk \ {a} /\ mid' = mid
<1>1. UNCHANGED <<identity, inventory, vouched, accepted, refused, overlapped>>
  BY DEF Write, server, history
<1>2. \A a : /\ Put(a)[1] = "put" /\ Put(a)[2] = a
             /\ Del(a)[1] = "del" /\ Del(a)[2] = a
  BY DEF Put, Del
<1>3. todo[p] \in Calls \ {Nothing}
  BY DEF Write, TypeInv, CallInv, Nothing
<1>4. \E a \in Path : Head(todo[p]) = Put(a) \/ Head(todo[p]) = Del(a)
  BY <1>3, CallSteps, SMT DEF Calls, Path
<1>5. PICK a \in Path : Head(todo[p]) = Put(a) \/ Head(todo[p]) = Del(a)
  BY <1>4
<1>6. mid \in Nat /\ newest \in Nat /\ disk \subseteq Path /\ 1 \in Nat /\ newest + 1 \in Nat
  BY DEF TypeInv, TypeOK
<1>7. CASE Head(todo[p]) = Put(a)
  BY <1>1, <1>2, <1>6, <1>7 DEF Write
<1>8. CASE Head(todo[p]) = Del(a)
  BY <1>1, <1>2, <1>6, <1>8 DEF Write
<1>. QED BY <1>5, <1>7, <1>8

\* A step of a call prepares the next one.
LEMMA WriteKeeps ==
  ASSUME TypeInv, RecordInv, ~overlapped, NEW p \in Run, Write(p)
  PROVE  Consistent(disk', Vouch') /\ Pend(pc[p], Tail(todo[p]), disk', Vouch')
<1>. DEFINE l == pc[p]
            c == todo[p]
<1>1. c \in Calls \ {Nothing}
  BY DEF Write, TypeInv, CallInv, Nothing
<1>2. Consistent(disk, Vouch) /\ Pend(l, c, disk, Vouch)
  BY DEF RecordInv
<1>3. UNCHANGED <<vouched, refused>>
  BY WriteEffect
<1>4. ASSUME c \in {Schedule, RemoveScheduling, RecordUpload}
      PROVE  Consistent(disk', Vouch') /\ Pend(l, Tail(c), disk', Vouch')
  <2>1. Tail(c) = Nothing
    BY <1>4, CallSteps
  <2>2. mid' = mid /\ (\A a \in {"registered", "unregistered", "machine-id"} : a \in disk' <=> a \in disk)
    BY <1>4, CallSteps, WriteEffect DEF Path
  <2>3. Vouch' = Vouch
    BY <1>3, <2>2 DEF Vouch
  <2>. QED BY <1>2, <1>4, <2>1, <2>2, <2>3, CallsDiffer DEF Consistent, Pend
<1>5. ASSUME c \in {WriteRegistered, PutRegistered}
      PROVE  Consistent(disk', Vouch') /\ Pend(l, Tail(c), disk', Vouch')
  <2>1. /\ c = WriteRegistered => Tail(c) = PutRegistered /\ disk' = disk \ {"unregistered"}
        /\ c = PutRegistered => Tail(c) = Nothing /\ disk' = disk \cup {"registered"}
        /\ mid' = mid
    BY <1>5, CallSteps, WriteEffect DEF Path
  <2>2. Vouch' = Vouch /\ Vouch
    BY <1>2, <1>3, <1>5, <2>1 DEF Vouch, Pend
  <2>. QED BY <1>2, <1>5, <2>1, <2>2, CallsDiffer DEF Consistent, Pend
<1>6. ASSUME c \in {WriteUnregistered, PutUnregistered}
      PROVE  Consistent(disk', Vouch') /\ Pend(l, Tail(c), disk', Vouch')
  <2>1. /\ c = WriteUnregistered => Tail(c) = PutUnregistered /\ disk' = disk \ {"registered"}
        /\ c = PutUnregistered => Tail(c) = Nothing /\ disk' = disk \cup {"unregistered"}
        /\ mid' = mid
    BY <1>6, CallSteps, WriteEffect DEF Path
  <2>2. Vouch' = Vouch
    BY <1>3, <1>6, <2>1 DEF Vouch
  <2>. QED BY <1>2, <1>6, <2>1, <2>2, CallsDiffer DEF Consistent, Pend
<1>7. ASSUME c \in {Forget, PutForget, DelId}
      PROVE  Consistent(disk', Vouch') /\ Pend(l, Tail(c), disk', Vouch')
  <2>1. /\ c = Forget => Tail(c) = PutForget /\ disk' = disk \ {"registered"}
        /\ c = PutForget => Tail(c) = DelId /\ disk' = disk \cup {"unregistered"}
        /\ c = DelId => Tail(c) = Nothing /\ disk' = disk \ {"machine-id"}
    BY <1>7, CallSteps, WriteEffect DEF Path
  <2>2. "registered" \notin disk'
    BY <1>2, <1>7, <2>1, CallsDiffer DEF Pend
  <2>. QED BY <1>2, <1>7, <2>1, <2>2, CallsDiffer DEF Consistent, Pend
<1>8. ASSUME c = PutId
      PROVE  Consistent(disk', Vouch') /\ Pend(l, Tail(c), disk', Vouch')
  <2>1. Tail(c) = Nothing /\ disk' = disk \cup {"machine-id"}
    BY <1>8, CallSteps, WriteEffect DEF Path
  <2>2. "registered" \notin disk'
    BY <1>2, <1>8, <2>1, CallsDiffer DEF Pend
  <2>. QED BY <1>2, <1>8, <2>1, <2>2, CallsDiffer DEF Consistent, Pend
<1>. QED BY <1>1, <1>4, <1>5, <1>6, <1>7, <1>8 DEF Calls

LEMMA WriteStep ==
  ASSUME TypeInv, RecordInv, NEW p \in Run, Write(p)
  PROVE  TypeInv' /\ RecordInv'
<1>1. todo[p] \in Calls \ {Nothing} /\ pc[p] \in Label \ {"new"} /\ Active(p)
  BY DEF Write, Nothing, TypeInv, TypeOK, CallInv, Active, Over
<1>2. Tail(todo[p]) \in Calls
  BY <1>1, CallSteps DEF Calls
<1>3. Arrives(p, pc[p], Tail(todo[p]))
  BY GotoArrives DEF Write
<1>4. RecordInv'
  BY <1>1, <1>2, <1>3, WriteEffect, WriteKeeps, RecordStep
<1>5. /\ opt' \in [Run -> Option] /\ pc' \in [Run -> Label]
      /\ todo' \in [Run -> Seq({"put", "del"} \X Path)]
      /\ tries' \in [Run -> 0 .. Retries - 1]
      /\ CallInv'
  BY <1>1, <1>2, <1>3, ArrivalTypes
<1>. QED BY <1>4, <1>5, WriteEffect DEF TypeInv, TypeOK

\* A run that starts is alone, or the runs overlap from then on.
LEMMA StartStep ==
  ASSUME TypeInv, RecordInv, NEW p \in Run, Start(p)
  PROVE  TypeInv' /\ RecordInv'
<1>1. pc[p] = "new" /\ todo[p] = Nothing
  BY DEF Start, TypeInv, CallInv
<1>2. /\ UNCHANGED <<disk, mid, newest, identity, inventory, vouched, todo, tries, accepted, refused>>
      /\ pc' = [pc EXCEPT ![p] = "pre_update"]
  BY DEF Start, host, server
<1>3. /\ opt' \in [Run -> Option] /\ overlapped' \in BOOLEAN
      /\ pc' \in [Run -> Label] /\ pc'[p] = "pre_update"
      /\ \A q \in Run : q # p => pc'[q] = pc[q]
  BY <1>2 DEF Start, TypeInv, TypeOK, Label
<1>4. TypeInv'
  <2>1. ASSUME NEW q \in Run, pc'[q] = "new"
        PROVE  todo'[q] = Nothing
    BY <2>1, <1>2, <1>3 DEF TypeInv, CallInv
  <2>. QED BY <2>1, <1>2, <1>3 DEF TypeInv, TypeOK, CallInv
<1>5. ASSUME ~overlapped'
      PROVE  RecordInv'
  <2>1. ~overlapped /\ \A q \in Run : ~Active(q)
    BY <1>5 DEF Start
  <2>2. Vouch' = Vouch
    BY <1>2 DEF Vouch
  <2>3. ASSUME NEW q \in Run
        PROVE  Pend(pc'[q], todo'[q], disk', Vouch')
    <3>1. CASE q = p
      BY <3>1, <1>1, <1>2, <1>3, CallsDiffer DEF Pend
    <3>2. CASE q # p
      <4>1. Pend(pc[q], todo[q], disk', Vouch')
        BY <2>1, Resting
      <4>. QED BY <4>1, <3>2, <1>2, <1>3
    <3>. QED BY <3>1, <3>2
  <2>4. ASSUME NEW q \in Run, Active(q)'
        PROVE  q = p
    BY <2>4, <2>1, <1>2, <1>3 DEF Active, Over
  <2>5. Consistent(disk', Vouch')
    BY <2>1, <2>2, <1>2 DEF RecordInv
  <2>. QED BY <2>3, <2>4, <2>5 DEF RecordInv
<1>6. overlapped' => RecordInv'
  BY DEF RecordInv
<1>. QED BY <1>4, <1>5, <1>6

\* What changes neither the disk nor a run changes nothing here.
LEMMA DelistStep ==
  ASSUME TypeInv, RecordInv, Delist \/ UNCHANGED vars
  PROVE  TypeInv' /\ RecordInv'
<1>1. UNCHANGED <<disk, mid, newest, identity, vouched, opt, pc, todo, tries,
                  accepted, refused, overlapped>>
  BY DEF Delist, vars, host, server, run, history
<1>2. inventory' \subseteq Nat
  BY DEF Delist, vars, server, TypeInv, TypeOK
<1>3. TypeInv'
  BY <1>1, <1>2 DEF TypeInv, TypeOK, CallInv
<1>4. Vouch' = Vouch /\ \A q \in Run : Active(q)' = Active(q)
  BY <1>1 DEF Vouch, Active, Over
<1>5. RecordInv'
  BY <1>1, <1>4 DEF RecordInv
<1>. QED BY <1>3, <1>5

\* Every action keeps the invariant.
LEMMA Inductive ==
  ASSUME TypeInv, RecordInv, [Next]_vars
  PROVE  TypeInv' /\ RecordInv'
<1>1. CASE Delist \/ UNCHANGED vars
  BY <1>1, DelistStep
<1>2. ASSUME NEW p \in Run, Step(p) \/ Kill(p)
      PROVE  TypeInv' /\ RecordInv'
  <2>1. CASE Write(p)
    BY <2>1, WriteStep
  <2>2. CASE WriteFails(p)
    BY <2>2, WriteFailsMoves, LocalStep
  <2>3. CASE Asked(p)
    BY <2>3, StartStep, PreUpdateMoves, CheckinMoves, CheckStep, CheckFailsMoves, ReportMoves,
       LocalStep DEF Asked
  <2>4. CASE Platform(p)
    BY <2>4, PostUpdateMoves, GetMachineIdMoves, UnregisterMoves, LocalStep DEF Platform
  <2>5. CASE Legacy(p)
    BY <2>5, LegacyPostUpdateMoves, UnregisterMoves, DeleteStep, HandleRegistrationMoves,
       CreateEndsMoves, NameRequestMoves, CreateStep, CreateRefusedStep, RegisterMoves,
       LocalStep DEF Legacy
  <2>6. CASE Output(p)
    BY <2>6, CollectMoves, EndsMoves, UploadStep, UploadFailsMoves, LocalStep DEF Output
  <2>7. CASE Kill(p)
    BY <2>7, KillMoves, LocalStep
  <2>. QED BY <1>2, <2>1, <2>2, <2>3, <2>4, <2>5, <2>6, <2>7 DEF Step
<1>. QED BY <1>1, <1>2 DEF Next

LEMMA Initially == Init => TypeInv /\ RecordInv
<1>. SUFFICES ASSUME Init PROVE TypeInv /\ RecordInv
  OBVIOUS
<1>1. opt \in [Run -> Option]
  BY ClientAssumption DEF Init
<1>2. pc = [p \in Run |-> "new"] /\ todo = [p \in Run |-> Nothing] /\ tries = [p \in Run |-> 0]
  BY DEF Init, Nothing
<1>3. pc \in [Run -> Label]
  BY <1>2 DEF Label
<1>4. todo \in [Run -> Calls]
  BY <1>2 DEF Calls
<1>5. todo \in [Run -> Seq({"put", "del"} \X Path)]
  BY <1>4, CallsAreSteps
<1>6. 0 \in 0 .. Retries - 1
  BY ClientAssumption
<1>7. tries \in [Run -> 0 .. Retries - 1]
  BY <1>2, <1>6
<1>8. CallInv
  BY <1>2, <1>4 DEF CallInv
<1>9. TypeInv
  <2>1. /\ disk \subseteq Path /\ mid \in Nat /\ newest \in Nat
        /\ inventory \subseteq Nat /\ vouched \subseteq Nat
    BY SMT DEF Init, Path
  <2>2. /\ identity \in BOOLEAN
        /\ accepted \subseteq Run /\ refused \in BOOLEAN /\ overlapped \in BOOLEAN
    BY Zenon DEF Init
  <2>. QED BY <1>1, <1>3, <1>5, <1>7, <1>8, <2>1, <2>2, Zenon DEF TypeInv, TypeOK
<1>10. \A p \in Run : ~Active(p)
  BY <1>2 DEF Active
<1>11. Consistent(disk, Vouch)
  BY DEF Init, Path, Consistent, Vouch
<1>. QED BY <1>9, <1>10, <1>11, Resting DEF RecordInv

-----------------------------------------------------------------------------
(* The theorems.                                                           *)

\* The invariant holds in every state of every behaviour.
THEOREM RecordsConsistent == Spec => [](TypeInv /\ RecordInv)
<1>1. (TypeInv /\ RecordInv) /\ [Next]_vars => (TypeInv /\ RecordInv)'
  BY Inductive
<1>. QED BY Initially, <1>1, PTL DEF Spec

\* The state is of the types the model gives it; in particular no upload is
\* tried more often than config.retries allows.
THEOREM TypeCorrect == Spec => []TypeOK
<1>1. TypeInv /\ RecordInv => TypeOK
  BY DEF TypeInv
<1>. QED BY RecordsConsistent, <1>1, PTL

\* A machine is never recorded as registered and unregistered at once, wherever
\* write_registered_file, write_unregistered_file or a run is interrupted.
THEOREM NeverBoth == Spec => []NeverBothRecords
<1>1. TypeInv /\ RecordInv => NeverBothRecords
  BY DEF RecordInv, Consistent, NeverBothRecords
<1>. QED BY RecordsConsistent, <1>1, PTL

\* A machine recorded as registered has a machine-id the server knows or knew.
THEOREM RegisteredVouched == Spec => []RegisteredIsVouched
<1>1. TypeInv /\ RecordInv => RegisteredIsVouched
  BY DEF RecordInv, Consistent, Vouch, RegisteredIsVouched
<1>. QED BY RecordsConsistent, <1>1, PTL

\* Only a step of a call touches the machine-id, and only the one that makes a
\* machine-id changes what it is.
LEMMA OnlyPutIdChanges ==
  ASSUME TypeInv, [Next]_vars, mid' # mid
  PROVE  \E p \in Run : Write(p) /\ todo[p] = PutId
<1>1. ASSUME NEW p \in Run, Step(p) \/ Kill(p), ~Write(p)
      PROVE  mid' = mid
  BY <1>1 DEF Step, Kill, WriteFails, Asked, Start, PreUpdate, Checkin, Check, CheckFails,
    Report, Platform, PostUpdate, GetMachineId, Cleanup, Unschedule, Legacy, LegacyPostUpdate,
    HandleUnregistration, Delete, HandleRegistration, Resync, NameRequest, Create,
    CreateConflicts, CreateFails, CreateRefused, Register, Registered, Output, Collect,
    CollectFails, Upload, UploadFails, Accepted, Finish, Local, host
<1>2. Delist \/ UNCHANGED vars => mid' = mid
  BY DEF Delist, vars, host
<1>3. PICK p \in Run : Write(p)
  BY <1>1, <1>2 DEF Next
<1>4. todo[p] \in Calls \ {Nothing}
  BY <1>3 DEF Write, TypeInv, CallInv, Nothing
<1>5. \/ Head(todo[p]) = Put("machine-id")
      \/ \E a \in Path : Head(todo[p]) = Del(a)
      \/ \E a \in Path \ {"machine-id"} : Head(todo[p]) = Put(a)
  BY <1>4, CallSteps DEF Calls, Path
<1>6. Head(todo[p]) = Put("machine-id")
  BY <1>3, <1>5, WriteEffect
<1>7. todo[p] = PutId
  BY <1>4, <1>6, CallSteps DEF Calls, Put, Del
<1>. QED BY <1>3, <1>7

\* The machine-id of a registered machine is not replaced: by a run that finds it
\* missing, after a conflict, or in passing.
THEOREM IdentityStays == Spec => IdentityKept
<1>1. ASSUME TypeInv, RecordInv, [Next]_vars,
             ~overlapped', "registered" \in disk
      PROVE  mid' = mid
  <2>. SUFFICES ASSUME mid' # mid PROVE FALSE
    OBVIOUS
  <2>1. PICK p \in Run : Write(p) /\ todo[p] = PutId
    BY <1>1, OnlyPutIdChanges
  <2>2. ~overlapped
    BY <1>1, <2>1, WriteEffect
  <2>3. Pend(pc[p], PutId, disk, Vouch)
    BY <1>1, <2>1, <2>2 DEF RecordInv
  <2>. QED BY <1>1, <2>3 DEF Pend
<1>2. (TypeInv /\ RecordInv) /\ [Next]_vars =>
        [~overlapped' /\ ~refused' /\ "registered" \in disk /\ "registered" \in disk' => mid' = mid]_vars
  BY <1>1
<1>. QED BY RecordsConsistent, <1>2, PTL DEF Spec, IdentityKept
=============================================================================
