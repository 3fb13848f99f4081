----------------------- MODULE ClientRunOutcomeProofs -----------------------
(***************************************************************************)
(* Proofs about what the runs of the client report: that a success means   *)
(* an upload or a machine without a registration, and that a registration  *)
(* does not come back unasked.                                             *)
(***************************************************************************)
EXTENDS ClientRunProofs

-----------------------------------------------------------------------------
(* The invariant.                                                          *)

Uploading == {"plain", "payload", "register", "register_unscheduled"}
Removing == {"unregister", "force"}

\* The calls that belong to a place l, and the options o that lead there.
Fit(l, c, o) ==
  /\ l \in {"cleanup", "unschedule", "delete"} => o.command \in Removing
  /\ l = "unschedule" => c \in {Forget, PutForget, DelId, Nothing}
  /\ l = "ok" => c \in {Schedule, RemoveScheduling, Nothing}
  /\ l = "finish" => c \in {RecordUpload, Nothing}
  /\ l = "identify" => c \in {Schedule, Nothing}
  /\ l = "collect" => c \in {PutId, Schedule, Nothing}
  /\ l = "upload" => c \in {PutId, Nothing}
  /\ l = "accepted" => c \in {WriteRegistered, PutRegistered, Nothing}
  /\ c \in {WriteRegistered, PutRegistered} => l \in {"known", "registered", "accepted"}
  /\ l \in {"identify", "collect"} => o.command \in Uploading \cup {"no_upload"}
  /\ l \in {"create", "recreate", "resync", "registering", "registered"} =>
       o.legacy /\ o.command \in Uploading
  /\ l \in {"upload", "accepted", "finish"} => o.command \in Uploading
  /\ l = "check" /\ ~o.legacy => o.command \in {"support", "checkin"}
  /\ l \in {"known", "unknown", "unreachable"} /\ ~o.legacy => o.command = "support"

\* What a run that uploads has behind it: its archive was taken, and it is noted.
Done(p, l, c, o, taken, d) ==
  /\ l \in {"accepted", "finish"} => p \in taken
  /\ l = "finish" /\ c = Nothing => "lastupload" \in d
  /\ l = "ok" /\ o.command \in Uploading => p \in taken /\ "lastupload" \in d

\* What a run that is alone relies on: an unregistration, on what it removed; a run
\* that was let in because the machine is registered, on the record.
Sole(l, c, o, d) ==
  /\ o.command \in Removing /\ l = "unschedule" =>
       /\ c \in {PutForget, DelId, Nothing} => "registered" \notin d
       /\ c \in {DelId, Nothing} => "unregistered" \in d
       /\ c = Nothing => "machine-id" \notin d
  /\ o.command \in Removing /\ l = "ok" =>
       "registered" \notin d /\ "unregistered" \in d /\ "machine-id" \notin d
  /\ o.command = "plain" /\ ~o.legacy =>
       (l \in {"identify", "collect", "upload", "accepted", "finish"} => "registered" \in d)

Right(p, l, c, o, taken, d) ==
  Fit(l, c, o) /\ Done(p, l, c, o, taken, d) /\ (~overlapped => Sole(l, c, o, d))

OutcomeInv ==
  \A p \in Run :
    /\ Fit(pc[p], todo[p], opt[p])
    /\ Done(p, pc[p], todo[p], opt[p], accepted, disk)
    /\ ~overlapped /\ Active(p) => Sole(pc[p], todo[p], opt[p], disk)

\* A run goes to a place, and all is right there.
Lands(p) ==
  \E l \in Label \ {"new"} : \E c \in Calls :
    /\ Arrives(p, l, c)
    /\ Right(p, l, c, opt[p], accepted', disk')

-----------------------------------------------------------------------------
(* The actions.                                                            *)

LEMMA GotoLands ==
  ASSUME TypeInv, NEW p \in Run, NEW l \in Label \ {"new"}, NEW c \in Calls, Goto(p, l, c),
         UNCHANGED disk, Right(p, l, c, opt[p], accepted', disk)
  PROVE  Lands(p)
BY GotoArrives DEF Lands

\* Most places and calls need nothing.
IdleLabel == {"pre_update", "post_update", "bad"}
IdleCall == {Nothing, WriteUnregistered, Forget, Schedule, RemoveScheduling, PutId}

LEMMA IdleLands ==
  ASSUME TypeInv, NEW p \in Run, NEW l \in IdleLabel, NEW c \in IdleCall, Goto(p, l, c),
         UNCHANGED disk
  PROVE  Lands(p)
<1>1. Right(p, l, c, opt[p], accepted', disk)
  BY CallsDiffer DEF IdleLabel, IdleCall, Right, Fit, Done, Sole
<1>2. l \in Label \ {"new"} /\ c \in Calls
  BY DEF IdleLabel, IdleCall, Label, End, Calls
<1>. QED BY <1>1, <1>2, GotoLands

\* A run at a place is under way, and all is right there.
LEMMA Here ==
  ASSUME TypeInv, OutcomeInv, NEW p \in Run, NEW l \in Label \ ({"new"} \cup End), At(p, l)
  PROVE  /\ Active(p) /\ pc[p] = l /\ todo[p] = Nothing
         /\ Right(p, l, Nothing, opt[p], accepted, disk)
BY DEF At, Active, Over, OutcomeInv, Right, Nothing

LEMMA LocalSame ==
  ASSUME Local
  PROVE  UNCHANGED <<disk, accepted, overlapped>>
BY DEF Local, host, history

LEMMA AskedLands ==
  ASSUME TypeInv, OutcomeInv, NEW p \in Run,
         PreUpdate(p) \/ Checkin(p) \/ Check(p) \/ CheckFails(p) \/ Report(p)
  PROVE  Active(p) /\ Lands(p) /\ UNCHANGED <<disk, accepted, overlapped>>
<1>1. UNCHANGED <<disk, accepted, overlapped>>
  BY LocalSame DEF PreUpdate, Checkin, Check, CheckFails, Report, host, history
<1>2. Active(p)
  BY Here DEF PreUpdate, Checkin, Check, CheckFails, Report, Label, End
<1>3. ASSUME NEW l \in Label \ {"new"}, NEW c \in Calls, Goto(p, l, c),
             Right(p, l, c, opt[p], accepted, disk)
      PROVE  Lands(p)
  BY <1>1, <1>3, GotoLands
<1>4. CASE PreUpdate(p)
  <2>1. \/ Is(p, {"enable"}) /\ Goto(p, "ok", Schedule)
        \/ Is(p, {"disable"}) /\ Goto(p, "ok", RemoveScheduling)
        \/ Goto(p, "post_update", RemoveScheduling) \/ Goto(p, "post_update", Nothing)
        \/ Is(p, {"support", "checkin"}) /\ Goto(p, "check", Nothing)
    BY <1>4 DEF PreUpdate, Nothing
  <2>2. ASSUME NEW c \in {Schedule, RemoveScheduling}, Is(p, {"enable", "disable"}), Goto(p, "ok", c)
        PROVE  Lands(p)
    <3>1. Right(p, "ok", c, opt[p], accepted, disk)
      BY <2>2, CallsDiffer DEF Is, Right, Fit, Done, Sole, Uploading, Removing
    <3>. QED BY <1>3, <2>2, <3>1 DEF Label, End, Calls
  <2>3. ASSUME Is(p, {"support", "checkin"}), Goto(p, "check", Nothing)
        PROVE  Lands(p)
    <3>1. Right(p, "check", Nothing, opt[p], accepted, disk)
      BY <2>3, CallsDiffer DEF Is, Right, Fit, Done, Sole
    <3>. QED BY <1>3, <2>3, <3>1 DEF Label, Calls
  <2>4. ASSUME NEW c \in {RemoveScheduling, Nothing}, Goto(p, "post_update", c)
        PROVE  Lands(p)
    BY <1>1, <2>4, IdleLands DEF IdleLabel, IdleCall
  <2>. QED BY <1>1, <1>2, <2>1, <2>2, <2>3, <2>4 DEF Is
<1>5. CASE Checkin(p)
  <2>1. ASSUME Goto(p, "ok", Nothing)
        PROVE  Lands(p)
    <3>1. Right(p, "ok", Nothing, opt[p], accepted, disk)
      BY <1>5, CallsDiffer DEF Checkin, Is, Right, Fit, Done, Sole, Uploading, Removing
    <3>2. "ok" \in Label \ {"new"} /\ Nothing \in Calls
      BY DEF Label, End, Calls
    <3>. QED BY <1>3, <2>1, <3>1, <3>2
  <2>2. ASSUME NEW c \in {Nothing, WriteUnregistered}, Goto(p, "bad", c)
        PROVE  Lands(p)
    BY <1>1, <2>2, IdleLands DEF IdleLabel, IdleCall
  <2>. QED BY <1>1, <1>2, <1>5, <2>1, <2>2 DEF Checkin, Nothing
<1>6. CASE Check(p) \/ CheckFails(p)
  <2>1. Right(p, "check", Nothing, opt[p], accepted, disk) /\ ~Is(p, {"checkin"})
    BY <1>6, Here DEF Check, CheckFails, Label, End
  <2>2. ~opt[p].legacy => opt[p].command = "support"
    BY <2>1 DEF Is, Right, Fit
  <2>3. ASSUME NEW l \in {"known", "unknown", "unreachable"},
               NEW c \in {WriteRegistered, WriteUnregistered, Forget, Nothing},
               c = WriteRegistered => l = "known", Goto(p, l, c)
        PROVE  Lands(p)
    <3>1. Right(p, l, c, opt[p], accepted, disk)
      BY <2>2, <2>3, CallsDiffer DEF Right, Fit, Done, Sole
    <3>2. l \in Label \ {"new"} /\ c \in Calls
      BY DEF Label, Calls
    <3>. QED BY <1>3, <2>3, <3>1, <3>2
  <2>4. ASSUME Goto(p, "bad", Nothing)
        PROVE  Lands(p)
    BY <1>1, <2>4, IdleLands DEF IdleLabel, IdleCall
  <2>5. \/ Goto(p, "known", WriteRegistered) \/ Goto(p, "unknown", Forget)
        \/ Goto(p, "unreachable", Nothing) \/ Goto(p, "unreachable", WriteUnregistered)
        \/ Goto(p, "bad", Nothing)
    BY <1>6 DEF Check, CheckFails, Nothing
  <2>6. Lands(p)
    BY <2>3, <2>4, <2>5, CallsDiffer
  <2>. QED BY <1>1, <1>2, <2>6
<1>7. CASE Report(p)
  <2>1. PICK l \in {"ok", "bad"} : Goto(p, l, Nothing)
    BY <1>7 DEF Report, Nothing
  <2>2. Right(p, l, Nothing, opt[p], accepted, disk)
    BY <1>7, CallsDiffer DEF Report, Is, Right, Fit, Done, Sole, Uploading, Removing
  <2>3. l \in Label \ {"new"} /\ Nothing \in Calls
    BY DEF Label, End, Calls
  <2>. QED BY <1>1, <1>2, <1>3, <2>1, <2>2, <2>3
<1>. QED BY <1>4, <1>5, <1>6, <1>7

LEMMA PlatformLands ==
  ASSUME TypeInv, OutcomeInv, NEW p \in Run, Platform(p)
  PROVE  Active(p) /\ Lands(p) /\ UNCHANGED <<disk, accepted, overlapped>>
<1>1. UNCHANGED <<disk, accepted, overlapped>>
  BY LocalSame DEF Platform, PostUpdate, GetMachineId, Cleanup, Unschedule
<1>2. Active(p)
  BY Here DEF Platform, PostUpdate, GetMachineId, Cleanup, Unschedule, Label, End
<1>3. ASSUME NEW l \in Label \ {"new"}, NEW c \in Calls, Goto(p, l, c),
             Right(p, l, c, opt[p], accepted, disk)
      PROVE  Lands(p)
  BY <1>1, <1>3, GotoLands
<1>4. CASE PostUpdate(p)
  <2>1. ASSUME NEW c \in {Schedule, Nothing}, Goto(p, "identify", c),
               opt[p].command \in Uploading \cup {"no_upload"},
               opt[p].command = "plain" => "registered" \in disk
        PROVE  Lands(p)
    <3>1. Right(p, "identify", c, opt[p], accepted, disk)
      BY <2>1, CallsDiffer DEF Right, Fit, Done, Sole, Removing, Uploading
    <3>2. "identify" \in Label \ {"new"} /\ c \in Calls
      BY DEF Label, Calls
    <3>. QED BY <1>3, <2>1, <3>1, <3>2
  <2>2. ASSUME Is(p, {"status"}), Goto(p, "ok", Nothing)
        PROVE  Lands(p)
    <3>1. Right(p, "ok", Nothing, opt[p], accepted, disk)
      BY <2>2, CallsDiffer DEF Is, Right, Fit, Done, Sole, Removing, Uploading
    <3>2. "ok" \in Label \ {"new"} /\ Nothing \in Calls
      BY DEF Label, End, Calls
    <3>. QED BY <1>3, <2>2, <3>1, <3>2
  <2>3. ASSUME NEW c \in {Forget, Nothing}, Goto(p, "bad", c)
        PROVE  Lands(p)
    BY <1>1, <2>3, IdleLands DEF IdleLabel, IdleCall
  <2>4. ASSUME Is(p, {"unregister", "force"}), Goto(p, "cleanup", Forget)
        PROVE  Lands(p)
    <3>1. Right(p, "cleanup", Forget, opt[p], accepted, disk)
      BY <2>4, CallsDiffer DEF Is, Right, Fit, Done, Sole, Removing
    <3>2. "cleanup" \in Label \ {"new"} /\ Forget \in Calls
      BY DEF Label, Calls
    <3>. QED BY <1>3, <2>4, <3>1, <3>2
  <2>5. \/ /\ Goto(p, "identify", Nothing) \/ Goto(p, "identify", Schedule)
           /\ opt[p].command \in Uploading \cup {"no_upload"}
           /\ opt[p].command = "plain" => "registered" \in disk
        \/ Is(p, {"status"}) /\ Goto(p, "ok", Nothing)
        \/ Goto(p, "bad", Nothing) \/ Goto(p, "bad", Forget)
        \/ Is(p, {"unregister", "force"}) /\ Goto(p, "cleanup", Forget)
    BY <1>4 DEF PostUpdate, Halted, Is, Uploading, Nothing
  <2>. QED BY <1>1, <1>2, <2>1, <2>2, <2>3, <2>4, <2>5
<1>5. CASE GetMachineId(p)
  <2>1. Right(p, "identify", Nothing, opt[p], accepted, disk)
    BY <1>5, Here DEF GetMachineId, Label, End
  <2>2. Identify \in {Nothing, PutId} /\ Goto(p, "collect", Identify)
    BY <1>5 DEF GetMachineId, Identify, Nothing, PutId
  <2>3. Right(p, "collect", Identify, opt[p], accepted, disk)
    BY <2>1, <2>2, CallsDiffer DEF Right, Fit, Done, Sole
  <2>4. "collect" \in Label \ {"new"} /\ Identify \in Calls
    BY <2>2 DEF Label, Calls
  <2>. QED BY <1>1, <1>2, <1>3, <2>2, <2>3, <2>4
<1>6. CASE Cleanup(p)
  <2>1. Right(p, "cleanup", Nothing, opt[p], accepted, disk)
    BY <1>6, Here DEF Cleanup, Label, End
  <2>2. Right(p, "unschedule", Forget, opt[p], accepted, disk)
    BY <2>1, CallsDiffer DEF Right, Fit, Done, Sole, Removing
  <2>3. "unschedule" \in Label \ {"new"} /\ Forget \in Calls
    BY DEF Label, Calls
  <2>. QED BY <1>1, <1>2, <1>3, <1>6, <2>2, <2>3 DEF Cleanup
<1>7. CASE Unschedule(p)
  <2>1. Right(p, "unschedule", Nothing, opt[p], accepted, disk)
    BY <1>7, Here DEF Unschedule, Label, End
  <2>2. Right(p, "ok", RemoveScheduling, opt[p], accepted, disk)
    BY <2>1, CallsDiffer DEF Right, Fit, Done, Sole, Removing, Uploading
  <2>3. "ok" \in Label \ {"new"} /\ RemoveScheduling \in Calls
    BY DEF Label, End, Calls
  <2>. QED BY <1>1, <1>2, <1>3, <1>7, <2>2, <2>3 DEF Unschedule
<1>. QED BY <1>4, <1>5, <1>6, <1>7 DEF Platform

\* With legacy_upload, most places and calls need nothing.
LegacyLabel == {"check", "known", "unknown", "unreachable", "resync", "create", "recreate",
                "registering", "registered"}

LEMMA LegacyLands ==
  ASSUME TypeInv, OutcomeInv, NEW p \in Run, opt[p].legacy, NEW l \in LegacyLabel,
         l \notin {"check", "known", "unknown", "unreachable"} => opt[p].command \in Uploading,
         NEW c \in IdleCall \cup {WriteRegistered}, Goto(p, l, c), UNCHANGED disk,
         c = WriteRegistered => l = "registered"
  PROVE  Lands(p)
<1>1. Right(p, l, c, opt[p], accepted', disk)
  BY CallsDiffer DEF LegacyLabel, IdleCall, Right, Fit, Done, Sole
<1>2. l \in Label \ {"new"} /\ c \in Calls
  BY DEF LegacyLabel, IdleCall, Label, End, Calls
<1>. QED BY <1>1, <1>2, GotoLands

\* Only with legacy_upload a run is at one of those places.
LEMMA AtLegacy ==
  ASSUME TypeInv, OutcomeInv, NEW p \in Run,
         \/ \E l \in LegacyLabel \ {"check", "known", "unknown", "unreachable"} : At(p, l)
         \/ /\ \E l \in {"known", "unknown", "unreachable"} : At(p, l)
            /\ ~Is(p, {"support"})
  PROVE  opt[p].legacy
<1>1. PICK l \in LegacyLabel \ {"check"} :
        At(p, l) /\ (l \in {"known", "unknown", "unreachable"} => ~Is(p, {"support"}))
  BY DEF LegacyLabel
<1>2. Right(p, l, Nothing, opt[p], accepted, disk)
  BY <1>1, Here DEF LegacyLabel, Label, End
<1>. QED BY <1>1, <1>2 DEF Right, Fit, Is, LegacyLabel

LEMMA IdentifyCall == Identify \in {Nothing, PutId}
BY DEF Identify, Nothing, PutId

LEMMA UnregisterLands ==
  ASSUME TypeInv, OutcomeInv, NEW p \in Run, HandleUnregistration(p) \/ Delete(p)
  PROVE  Active(p) /\ Lands(p) /\ UNCHANGED <<disk, accepted, overlapped>>
<1>1. UNCHANGED <<disk, accepted, overlapped>>
  BY LocalSame DEF HandleUnregistration, Delete, host, history
<1>2. Active(p)
  BY Here DEF HandleUnregistration, Delete, Named, Label, End
<1>3. opt[p].command \in Removing
  <2>1. CASE HandleUnregistration(p)
    BY <2>1 DEF HandleUnregistration, Is, Removing
  <2>2. CASE Delete(p)
    <3>1. Right(p, "delete", Nothing, opt[p], accepted, disk)
      BY <2>2, Here DEF Delete, Named, Label, End
    <3>. QED BY <3>1 DEF Right, Fit
  <2>. QED BY <2>1, <2>2
<1>4. PICK l \in {"delete", "cleanup", "bad"} : Goto(p, l, Nothing)
  BY DEF HandleUnregistration, Delete, Nothing
<1>5. Right(p, l, Nothing, opt[p], accepted, disk)
  BY <1>3, CallsDiffer DEF Right, Fit, Done, Sole, Removing
<1>6. l \in Label \ {"new"} /\ Nothing \in Calls
  BY DEF Label, End, Calls
<1>. QED BY <1>1, <1>2, <1>4, <1>5, <1>6, GotoLands

LEMMA RegisterLands ==
  ASSUME TypeInv, OutcomeInv, NEW p \in Run,
         \/ LegacyPostUpdate(p) \/ HandleRegistration(p) \/ Resync(p) \/ Create(p)
         \/ CreateConflicts(p) \/ CreateFails(p) \/ CreateRefused(p) \/ Register(p)
  PROVE  Active(p) /\ Lands(p) /\ UNCHANGED <<disk, accepted, overlapped>>
<1>1. UNCHANGED <<disk, accepted, overlapped>>
  BY LocalSame DEF LegacyPostUpdate, HandleRegistration, Resync, Create, CreateConflicts,
    CreateFails, CreateRefused, Register, host, server, history
<1>2. Active(p)
  BY Here DEF LegacyPostUpdate, HandleRegistration, Resync, Create, CreateConflicts,
    CreateFails, CreateRefused, Register, Named, Label, End
<1>3. opt[p].legacy
  BY AtLegacy DEF LegacyPostUpdate, HandleRegistration, Resync, Create, CreateConflicts,
    CreateFails, CreateRefused, Register, Named, LegacyLabel, Is, Registering
<1>4. CASE LegacyPostUpdate(p)
  <2>1. ASSUME Is(p, {"no_upload"}), Goto(p, "identify", Nothing)
        PROVE  Lands(p)
    <3>1. Right(p, "identify", Nothing, opt[p], accepted', disk)
      BY <1>3, <2>1, CallsDiffer DEF Is, Right, Fit, Done, Sole
    <3>2. "identify" \in Label \ {"new"} /\ Nothing \in Calls
      BY DEF Label, Calls
    <3>. QED BY <1>1, <2>1, <3>1, <3>2, GotoLands
  <2>2. ASSUME Goto(p, "check", Nothing)
        PROVE  Lands(p)
    BY <1>1, <1>3, <2>2, CallsDiffer, LegacyLands DEF LegacyLabel, IdleCall
  <2>3. ASSUME Goto(p, "bad", Nothing)
        PROVE  Lands(p)
    BY <1>1, <2>3, IdleLands DEF IdleLabel, IdleCall
  <2>. QED BY <1>1, <1>2, <1>4, <2>1, <2>2, <2>3 DEF LegacyPostUpdate, Nothing
<1>5. ASSUME NEW c \in IdleCall, Goto(p, "bad", c)
      PROVE  Lands(p)
  BY <1>1, <1>5, IdleLands DEF IdleLabel
<1>6. ASSUME NEW l \in LegacyLabel, NEW c \in IdleCall, Goto(p, l, c), opt[p].command \in Uploading
      PROVE  Lands(p)
  BY <1>1, <1>3, <1>6, CallsDiffer, LegacyLands DEF IdleCall
<1>7. CASE HandleRegistration(p)
  <2>1. opt[p].command \in Uploading
    BY <1>7 DEF HandleRegistration, Registering, Is, Uploading
  <2>2. \/ Goto(p, "registering", Identify) \/ Goto(p, "bad", Identify) \/ Goto(p, "bad", Nothing)
        \/ Goto(p, "create", Identify) \/ Goto(p, "resync", Identify)
    BY <1>7 DEF HandleRegistration, Nothing
  <2>3. Identify \in IdleCall /\ Nothing \in IdleCall
    BY IdentifyCall DEF IdleCall
  <2>. QED BY <1>1, <1>2, <1>5, <1>6, <2>1, <2>2, <2>3 DEF LegacyLabel
<1>8. CASE Register(p)
  <2>1. opt[p].command \in Uploading
    BY <1>8, Here DEF Register, Label, End, Right, Fit
  <2>. QED BY <1>1, <1>2, <1>3, <1>8, <2>1, LegacyLands DEF Register, LegacyLabel
<1>9. CASE Resync(p) \/ Create(p) \/ CreateConflicts(p) \/ CreateFails(p) \/ CreateRefused(p)
  <2>1. \/ Goto(p, "bad", WriteUnregistered) \/ Goto(p, "registering", Nothing)
        \/ Goto(p, "bad", Nothing) \/ Goto(p, "recreate", PutId)
        \/ Goto(p, "registering", WriteUnregistered)
    BY <1>9 DEF Resync, Create, CreateConflicts, CreateFails, CreateRefused, Nothing, PutId
  <2>2. PICK l \in {"resync", "create", "recreate"} : At(p, l)
    BY <1>9 DEF Resync, Create, CreateConflicts, CreateFails, CreateRefused, Named
  <2>3. Right(p, l, Nothing, opt[p], accepted, disk)
    BY <2>2, Here DEF Label, End
  <2>4. opt[p].command \in Uploading
    BY <2>3 DEF Right, Fit
  <2>. QED BY <1>1, <1>2, <1>5, <1>6, <2>1, <2>4 DEF LegacyLabel, IdleCall
<1>. QED BY <1>4, <1>7, <1>8, <1>9

LEMMA RegisteredLands ==
  ASSUME TypeInv, OutcomeInv, NEW p \in Run, Registered(p)
  PROVE  Active(p) /\ Lands(p) /\ UNCHANGED <<disk, accepted, overlapped>>
<1>1. UNCHANGED <<disk, accepted, overlapped>>
  BY LocalSame DEF Registered
<1>2. Active(p) /\ opt[p].legacy
  BY Here, AtLegacy DEF Registered, LegacyLabel, Label, End
<1>3. PICK c \in {Schedule, Nothing} : Goto(p, "collect", c)
  BY DEF Registered, Nothing
<1>4. Right(p, "collect", c, opt[p], accepted, disk)
  <2>1. Right(p, "registered", Nothing, opt[p], accepted, disk)
    BY Here DEF Registered, Label, End
  <2>. QED BY <1>2, <2>1, CallsDiffer DEF Right, Fit, Done, Sole
<1>5. "collect" \in Label \ {"new"} /\ c \in Calls
  BY DEF Label, Calls
<1>. QED BY <1>1, <1>2, <1>3, <1>4, <1>5, GotoLands

LEMMA NameRequestLands ==
  ASSUME TypeInv, OutcomeInv, NEW p \in Run, NameRequest(p)
  PROVE  Active(p) /\ Lands(p) /\ UNCHANGED <<disk, accepted, overlapped>>
<1>1. UNCHANGED <<disk, accepted, overlapped>> /\ opt[p].legacy
  BY LocalSame DEF NameRequest
<1>2. PICK l \in {"create", "delete", "upload"} : At(p, l)
  BY DEF NameRequest
<1>3. Active(p) /\ pc[p] = l /\ Right(p, l, Nothing, opt[p], accepted, disk)
  BY <1>2, Here DEF Label, End
<1>4. Goto(p, l, Identify)
  BY <1>3 DEF NameRequest
<1>5. Right(p, l, Identify, opt[p], accepted, disk)
  BY <1>1, <1>3, IdentifyCall, CallsDiffer DEF Right, Fit, Done, Sole
<1>6. l \in Label \ {"new"} /\ Identify \in Calls
  BY IdentifyCall DEF Label, Calls
<1>. QED BY <1>1, <1>3, <1>4, <1>5, <1>6, GotoLands

LEMMA RetryLands ==
  ASSUME TypeInv, OutcomeInv, NEW p \in Run, Named(p, "upload"), Retry(p), UNCHANGED disk
  PROVE  Lands(p)
<1>1. /\ pc[p] = "upload" /\ todo[p] = Nothing
      /\ Right(p, "upload", Nothing, opt[p], accepted, disk)
  BY Here DEF Named, Label, End
<1>2. PICK l \in {"upload", "bad"} : Arrives(p, l, Nothing)
  BY <1>1, RetryArrives
<1>3. Right(p, l, Nothing, opt[p], accepted', disk')
  BY <1>1, <1>2, CallsDiffer DEF Right, Fit, Done, Sole
<1>4. l \in Label \ {"new"} /\ Nothing \in Calls
  BY DEF Label, End, Calls
<1>. QED BY <1>2, <1>3, <1>4 DEF Lands

\* What is sent is taken, or the run is told from one that uploaded.
LEMMA OutputLands ==
  ASSUME TypeInv, OutcomeInv, NEW p \in Run, Output(p)
  PROVE  Active(p) /\ Lands(p) /\ UNCHANGED <<disk, overlapped>> /\ accepted \subseteq accepted'
<1>1. UNCHANGED <<disk, overlapped>> /\ accepted \subseteq accepted'
  BY LocalSame DEF Output, Collect, CollectFails, Upload, UploadFails, Accepted, Finish, host
<1>2. Active(p)
  BY Here DEF Output, Collect, CollectFails, Upload, UploadFails, Accepted, Finish, Named, Label, End
<1>3. ASSUME NEW l \in Label \ {"new"}, NEW c \in Calls, Goto(p, l, c),
             Right(p, l, c, opt[p], accepted', disk)
      PROVE  Lands(p)
  BY <1>1, <1>3, GotoLands
<1>4. ASSUME NEW c \in {Nothing, WriteUnregistered}, Goto(p, "bad", c)
      PROVE  Lands(p)
  BY <1>1, <1>4, IdleLands DEF IdleLabel, IdleCall
<1>5. CASE Collect(p)
  <2>1. Right(p, "collect", Nothing, opt[p], accepted, disk)
    BY <1>5, Here DEF Collect, Label, End
  <2>2. ASSUME Is(p, {"no_upload"}), Goto(p, "ok", Nothing)
        PROVE  Lands(p)
    <3>1. Right(p, "ok", Nothing, opt[p], accepted', disk)
      BY <2>2, CallsDiffer DEF Is, Right, Fit, Done, Sole, Uploading, Removing
    <3>2. "ok" \in Label \ {"new"} /\ Nothing \in Calls
      BY DEF Label, End, Calls
    <3>. QED BY <1>3, <2>2, <3>1, <3>2
  <2>3. ASSUME ~Is(p, {"no_upload"}), Goto(p, "upload", Nothing)
        PROVE  Lands(p)
    <3>1. Right(p, "upload", Nothing, opt[p], accepted', disk)
      BY <2>1, <2>3, CallsDiffer DEF Is, Right, Fit, Done, Sole
    <3>2. "upload" \in Label \ {"new"} /\ Nothing \in Calls
      BY DEF Label, Calls
    <3>. QED BY <1>3, <2>3, <3>1, <3>2
  <2>. QED BY <1>1, <1>2, <1>5, <2>2, <2>3 DEF Collect, Nothing
<1>6. CASE CollectFails(p)
  BY <1>1, <1>2, <1>4, <1>6 DEF CollectFails, Nothing
<1>7. CASE Upload(p)
  <2>1. Right(p, "upload", Nothing, opt[p], accepted, disk) /\ Named(p, "upload") /\ p \in accepted'
    BY <1>7, Here DEF Upload, Named, Label, End
  <2>2. ASSUME opt[p].legacy, Goto(p, "finish", RecordUpload)
        PROVE  Lands(p)
    <3>1. Right(p, "finish", RecordUpload, opt[p], accepted', disk)
      BY <2>1, <2>2, CallsDiffer DEF Right, Fit, Done, Sole
    <3>2. "finish" \in Label \ {"new"} /\ RecordUpload \in Calls
      BY DEF Label, Calls
    <3>. QED BY <1>3, <2>2, <3>1, <3>2
  <2>3. ASSUME Goto(p, "accepted", WriteRegistered)
        PROVE  Lands(p)
    <3>1. Right(p, "accepted", WriteRegistered, opt[p], accepted', disk)
      BY <2>1, CallsDiffer DEF Right, Fit, Done, Sole
    <3>2. "accepted" \in Label \ {"new"} /\ WriteRegistered \in Calls
      BY DEF Label, Calls
    <3>. QED BY <1>3, <2>3, <3>1, <3>2
  <2>. QED BY <1>1, <1>2, <1>7, <2>1, <2>2, <2>3, RetryLands DEF Upload
<1>8. CASE UploadFails(p)
  BY <1>1, <1>2, <1>4, <1>8, RetryLands DEF UploadFails, Nothing
<1>9. CASE Accepted(p)
  <2>1. Right(p, "accepted", Nothing, opt[p], accepted, disk)
    BY <1>9, Here DEF Accepted, Label, End
  <2>2. Right(p, "finish", RecordUpload, opt[p], accepted', disk)
    BY <1>1, <2>1, CallsDiffer DEF Right, Fit, Done, Sole
  <2>3. "finish" \in Label \ {"new"} /\ RecordUpload \in Calls
    BY DEF Label, Calls
  <2>. QED BY <1>1, <1>2, <1>3, <1>9, <2>2, <2>3 DEF Accepted
<1>10. CASE Finish(p)
  <2>1. Right(p, "finish", Nothing, opt[p], accepted, disk)
    BY <1>10, Here DEF Finish, Label, End
  <2>2. Right(p, "ok", Nothing, opt[p], accepted', disk)
    <3>1. p \in accepted' /\ "lastupload" \in disk
      BY <1>1, <2>1 DEF Right, Done
    <3>2. opt[p].command \notin Removing
      BY <2>1 DEF Right, Fit, Uploading, Removing
    <3>. QED BY <3>1, <3>2, CallsDiffer DEF Right, Fit, Done, Sole
  <2>3. "ok" \in Label \ {"new"} /\ Nothing \in Calls
    BY DEF Label, End, Calls
  <2>. QED BY <1>1, <1>2, <1>3, <1>10, <2>2, <2>3 DEF Finish, Nothing
<1>. QED BY <1>5, <1>6, <1>7, <1>8, <1>9, <1>10 DEF Output

-----------------------------------------------------------------------------
(* The steps of a call.                                                    *)

LEMMA FailedLands ==
  ASSUME TypeInv, OutcomeInv, NEW p \in Run, WriteFails(p) \/ Kill(p)
  PROVE  Active(p) /\ Lands(p) /\ UNCHANGED <<disk, accepted, overlapped>>
<1>1. UNCHANGED <<disk, accepted, overlapped>>
  BY LocalSame DEF WriteFails, Kill
<1>2. Active(p)
  BY DEF WriteFails, Kill, TypeInv, CallInv, Nothing, Active, Over
<1>3. CASE Goto(p, "bad", Nothing)
  BY <1>1, <1>2, <1>3, IdleLands DEF IdleLabel, IdleCall
<1>4. CASE /\ WriteFails(p)
           /\ Head(todo[p])[2] = "timers" \/ pc[p] = "accepted" \/ NotingRefusal(p)
           /\ Goto(p, pc[p], Nothing)
  <2>1. todo[p] \in Calls \ {Nothing} /\ pc[p] \in Label \ {"new"}
    BY <1>2, <1>4 DEF WriteFails, TypeInv, TypeOK, CallInv, Nothing, Active
  <2>6. Head(todo[p])[2] = "timers" => todo[p] \in {Schedule, RemoveScheduling}
    BY <2>1, CallSteps DEF Calls, Put, Del
  <2>2. \/ todo[p] \in {Schedule, RemoveScheduling}
        \/ pc[p] \in {"accepted", "unreachable", "registering"}
    BY <1>4, <2>6 DEF NotingRefusal
  <2>3. Right(p, pc[p], todo[p], opt[p], accepted, disk)
    BY <1>2 DEF OutcomeInv, Right
  <2>4. Right(p, pc[p], Nothing, opt[p], accepted, disk)
    BY <2>2, <2>3, CallsDiffer DEF Right, Fit, Done, Sole
  <2>5. Nothing \in Calls
    BY DEF Calls
  <2>. QED BY <1>1, <1>2, <1>4, <2>1, <2>4, <2>5, GotoLands
<1>5. CASE /\ WriteFails(p)
           /\ pc[p] = "unreachable" /\ Outweighed(p)
           /\ Goto(p, "known", WriteRegistered)
  <2>1. Fit("unreachable", todo[p], opt[p]) /\ ~opt[p].legacy
    BY <1>5 DEF OutcomeInv, Outweighed
  <2>2. Right(p, "known", WriteRegistered, opt[p], accepted, disk)
    BY <2>1, CallsDiffer DEF Right, Fit, Done, Sole
  <2>3. "known" \in Label \ {"new"} /\ WriteRegistered \in Calls
    BY DEF Label, Calls
  <2>. QED BY <1>1, <1>2, <1>5, <2>2, <2>3, GotoLands
<1>. QED BY <1>3, <1>4, <1>5 DEF WriteFails, Kill, Nothing

\* A step of a call prepares the next one, and never removes the note of an upload.
LEMMA WriteLands ==
  ASSUME TypeInv, OutcomeInv, NEW p \in Run, Write(p)
  PROVE  /\ Active(p) /\ Lands(p) /\ UNCHANGED <<accepted, overlapped>>
         /\ "lastupload" \in disk => "lastupload" \in disk'
<1>. DEFINE l == pc[p]
            c == todo[p]
<1>1. c \in Calls \ {Nothing} /\ l \in Label \ {"new"} /\ Active(p)
  BY DEF Write, TypeInv, TypeOK, CallInv, Nothing, Active, Over
<1>2. Right(p, l, c, opt[p], accepted, disk)
  BY <1>1 DEF OutcomeInv, Right
<1>3. UNCHANGED <<accepted, overlapped>>
  BY WriteEffect
<1>4. Arrives(p, l, Tail(c)) /\ Tail(c) \in Calls
  BY <1>1, GotoArrives, CallSteps DEF Write, Calls
<1>5. SUFFICES /\ Right(p, l, Tail(c), opt[p], accepted, disk')
               /\ "lastupload" \in disk => "lastupload" \in disk'
  BY <1>1, <1>3, <1>4 DEF Lands
<1>6. CASE c \in {Schedule, RemoveScheduling, RecordUpload}
  <2>1. /\ Tail(c) = Nothing
        /\ \A a \in Path \ {"timers", "lastupload"} : a \in disk' <=> a \in disk
        /\ "lastupload" \in disk => "lastupload" \in disk'
        /\ c = RecordUpload => "lastupload" \in disk'
    BY <1>6, CallSteps, WriteEffect DEF Path
  <2>2. \A a \in {"registered", "unregistered", "machine-id"} : a \in disk' <=> a \in disk
    BY <2>1 DEF Path
  <2>. QED BY <1>2, <1>6, <2>1, <2>2, CallsDiffer DEF Right, Fit, Done, Sole
<1>7. CASE c \in {WriteRegistered, PutRegistered}
  <2>1. /\ c = WriteRegistered => Tail(c) = PutRegistered /\ disk' = disk \ {"unregistered"}
        /\ c = PutRegistered => Tail(c) = Nothing /\ disk' = disk \cup {"registered"}
    BY <1>7, CallSteps, WriteEffect DEF Path
  <2>2. l \in {"known", "registered", "accepted"} /\ Tail(c) \in {PutRegistered, Nothing}
    BY <1>2, <1>7, <2>1 DEF Right, Fit
  <2>3. ("registered" \in disk => "registered" \in disk') /\ ("lastupload" \in disk => "lastupload" \in disk')
    BY <1>7, <2>1
  <2>. QED BY <1>2, <2>2, <2>3, CallsDiffer DEF Right, Fit, Done, Sole
<1>8. CASE c \in {WriteUnregistered, PutUnregistered}
  <2>1. /\ c = WriteUnregistered => Tail(c) = PutUnregistered /\ disk' = disk \ {"registered"}
        /\ c = PutUnregistered => Tail(c) = Nothing /\ disk' = disk \cup {"unregistered"}
    BY <1>8, CallSteps, WriteEffect DEF Path
  <2>2. l \notin {"unschedule", "ok", "finish", "identify", "collect", "upload", "accepted"}
    BY <1>2, <1>8, CallsDiffer DEF Right, Fit
  <2>3. "lastupload" \in disk => "lastupload" \in disk'
    BY <1>8, <2>1
  <2>4. Tail(c) \in {PutUnregistered, Nothing}
    BY <1>8, <2>1
  <2>. QED BY <1>2, <2>2, <2>3, <2>4, CallsDiffer DEF Right, Fit, Done, Sole
<1>9. CASE c \in {Forget, PutForget, DelId}
  <2>1. /\ c = Forget => Tail(c) = PutForget /\ disk' = disk \ {"registered"}
        /\ c = PutForget => Tail(c) = DelId /\ disk' = disk \cup {"unregistered"}
        /\ c = DelId => Tail(c) = Nothing /\ disk' = disk \ {"machine-id"}
    BY <1>9, CallSteps, WriteEffect DEF Path
  <2>2. l \notin {"ok", "finish", "identify", "collect", "upload", "accepted"}
    BY <1>2, <1>9, CallsDiffer DEF Right, Fit
  <2>3. "lastupload" \in disk => "lastupload" \in disk'
    BY <1>9, <2>1
  <2>4. Tail(c) \in {PutForget, DelId, Nothing} \ {WriteRegistered, PutRegistered}
    BY <1>9, <2>1, CallsDiffer
  <2>5. Fit(l, Tail(c), opt[p])
    BY <1>2, <2>2, <2>4, CallsDiffer DEF Right, Fit
  <2>6. Done(p, l, Tail(c), opt[p], accepted, disk')
    BY <1>2, <2>2 DEF Right, Done
  <2>7. ~overlapped => Sole(l, Tail(c), opt[p], disk')
    <3>1. CASE c = Forget
      BY <1>2, <2>1, <2>2, <3>1, CallsDiffer DEF Right, Sole
    <3>2. CASE c = PutForget
      <4>1. /\ Tail(c) = DelId /\ DelId # Nothing /\ "unregistered" \in disk'
            /\ "registered" \notin disk => "registered" \notin disk'
        BY <2>1, <3>2, CallsDiffer
      <4>2. ~overlapped /\ opt[p].command \in Removing /\ l = "unschedule" => "registered" \notin disk
        BY <1>2, <3>2 DEF Right, Sole
      <4>. QED BY <2>2, <4>1, <4>2 DEF Sole
    <3>3. CASE c = DelId
      BY <1>2, <2>1, <2>2, <3>3, CallsDiffer DEF Right, Sole
    <3>. QED BY <1>9, <3>1, <3>2, <3>3
  <2>. QED BY <2>3, <2>5, <2>6, <2>7 DEF Right
<1>10. CASE c = PutId
  <2>1. Tail(c) = Nothing /\ disk' = disk \cup {"machine-id"}
    BY <1>10, CallSteps, WriteEffect DEF Path
  <2>2. l \notin {"unschedule", "ok", "finish", "accepted"}
    BY <1>2, <1>10, CallsDiffer DEF Right, Fit
  <2>. QED BY <1>2, <2>1, <2>2, CallsDiffer DEF Right, Fit, Done, Sole
<1>. QED BY <1>1, <1>6, <1>7, <1>8, <1>9, <1>10 DEF Calls

-----------------------------------------------------------------------------
(* The invariant, inductively.                                             *)

\* What a run does beyond starting.
Goes(p) == Kill(p) \/ (Step(p) /\ ~Start(p))

LEMMA RunLands ==
  ASSUME TypeInv, OutcomeInv, NEW p \in Run, Goes(p)
  PROVE  /\ Active(p) /\ Lands(p) /\ UNCHANGED overlapped /\ accepted \subseteq accepted'
         /\ "lastupload" \in disk => "lastupload" \in disk'
<1>1. CASE Write(p)
  BY <1>1, WriteLands
<1>2. CASE WriteFails(p) \/ Kill(p)
  BY <1>2, FailedLands
<1>3. CASE Asked(p) /\ ~Start(p)
  BY <1>3, AskedLands DEF Asked
<1>4. CASE Platform(p)
  BY <1>4, PlatformLands
<1>5. CASE Legacy(p)
  <2>1. CASE HandleUnregistration(p) \/ Delete(p)
    BY <2>1, UnregisterLands
  <2>2. CASE \/ LegacyPostUpdate(p) \/ HandleRegistration(p) \/ Resync(p) \/ Create(p)
             \/ CreateConflicts(p) \/ CreateFails(p) \/ CreateRefused(p) \/ Register(p)
    BY <2>2, RegisterLands
  <2>3. CASE Registered(p)
    BY <2>3, RegisteredLands
  <2>4. CASE NameRequest(p)
    BY <2>4, NameRequestLands
  <2>. QED BY <1>5, <2>1, <2>2, <2>3, <2>4 DEF Legacy
<1>6. CASE Output(p)
  BY <1>6, OutputLands
<1>. QED BY <1>1, <1>2, <1>3, <1>4, <1>5, <1>6 DEF Goes, Step

LEMMA GoesKeeps ==
  ASSUME TypeInv, RecordInv, OutcomeInv, NEW p \in Run, Goes(p)
  PROVE  OutcomeInv'
<1>1. PICK l \in Label \ {"new"}, c \in Calls :
        Arrives(p, l, c) /\ Right(p, l, c, opt[p], accepted', disk')
  BY RunLands DEF Lands
<1>2. /\ Active(p) /\ overlapped' = overlapped /\ accepted \subseteq accepted'
      /\ "lastupload" \in disk => "lastupload" \in disk'
  BY RunLands
<1>3. pc'[p] = l /\ todo'[p] = c /\ opt' = opt
  BY <1>1 DEF Arrives, TypeInv, TypeOK, CallInv
<1>4. ASSUME NEW q \in Run, q # p
      PROVE  /\ pc'[q] = pc[q] /\ todo'[q] = todo[q] /\ Active(q)' = Active(q)
             /\ ~overlapped => ~Active(q)
  <2>1. pc'[q] = pc[q] /\ todo'[q] = todo[q]
    BY <1>1, <1>4 DEF Arrives, TypeInv, TypeOK, CallInv
  <2>. QED BY <1>2, <1>4, <2>1 DEF Active, Over, RecordInv
<1>5. ASSUME NEW q \in Run
      PROVE  /\ Fit(pc'[q], todo'[q], opt'[q])
             /\ Done(q, pc'[q], todo'[q], opt'[q], accepted', disk')
             /\ ~overlapped' /\ Active(q)' => Sole(pc'[q], todo'[q], opt'[q], disk')
  <2>1. CASE q = p
    BY <1>1, <1>2, <1>3, <2>1 DEF Right
  <2>2. CASE q # p
    <3>1. Fit(pc[q], todo[q], opt[q]) /\ Done(q, pc[q], todo[q], opt[q], accepted, disk)
      BY DEF OutcomeInv
    <3>2. Done(q, pc[q], todo[q], opt[q], accepted', disk')
      BY <1>2, <3>1 DEF Done
    <3>. QED BY <1>2, <1>3, <1>4, <2>2, <3>1, <3>2
  <2>. QED BY <2>1, <2>2
<1>. QED BY <1>5 DEF OutcomeInv

LEMMA StartKeeps ==
  ASSUME TypeInv, OutcomeInv, NEW p \in Run, Start(p)
  PROVE  OutcomeInv'
<1>1. /\ pc' = [pc EXCEPT ![p] = "pre_update"] /\ UNCHANGED <<disk, todo, accepted>>
      /\ todo[p] = Nothing /\ \A q \in Run : q # p => opt'[q] = opt[q]
      /\ ~overlapped' => ~overlapped /\ \A q \in Run : ~Active(q)
  BY DEF Start, host, TypeInv, TypeOK, CallInv
<1>2. ASSUME NEW q \in Run
      PROVE  /\ Fit(pc'[q], todo'[q], opt'[q])
             /\ Done(q, pc'[q], todo'[q], opt'[q], accepted', disk')
             /\ ~overlapped' /\ Active(q)' => Sole(pc'[q], todo'[q], opt'[q], disk')
  <2>1. CASE q = p
    <3>1. pc'[q] = "pre_update" /\ todo'[q] = Nothing
      BY <1>1, <2>1 DEF TypeInv, TypeOK
    <3>. QED BY <3>1, CallsDiffer DEF Fit, Done, Sole
  <2>2. CASE q # p
    <3>1. pc'[q] = pc[q] /\ todo'[q] = todo[q] /\ opt'[q] = opt[q]
      BY <1>1, <2>2 DEF TypeInv, TypeOK
    <3>2. ~overlapped' => ~(Active(q)')
      BY <1>1, <3>1 DEF Active, Over
    <3>. QED BY <1>1, <3>1, <3>2 DEF OutcomeInv
  <2>. QED BY <2>1, <2>2
<1>. QED BY <1>2 DEF OutcomeInv

OutcomesInv == TypeInv /\ RecordInv /\ OutcomeInv

LEMMA OutcomesAlways == Spec => []OutcomesInv
<1>1. Init => OutcomesInv
  <2>1. ASSUME Init, NEW p \in Run
        PROVE  /\ Fit(pc[p], todo[p], opt[p])
               /\ Done(p, pc[p], todo[p], opt[p], accepted, disk)
               /\ ~Active(p)
    <3>1. pc[p] = "new" /\ todo[p] = Nothing
      BY <2>1 DEF Init, Nothing
    <3>. QED BY <3>1, CallsDiffer DEF Fit, Done, Active
  <2>2. Init => OutcomeInv
    BY <2>1 DEF OutcomeInv
  <2>. QED BY <2>2, Initially DEF OutcomesInv
<1>2. OutcomesInv /\ [Next]_vars => OutcomesInv'
  <2>. SUFFICES ASSUME OutcomesInv, [Next]_vars PROVE OutcomesInv'
    OBVIOUS
  <2>. USE DEF OutcomesInv
  <2>1. TypeInv' /\ RecordInv'
    BY Inductive
  <2>2. CASE Delist \/ UNCHANGED vars
    <3>1. UNCHANGED <<disk, opt, pc, todo, accepted, overlapped>>
      BY <2>2 DEF Delist, vars, host, run, history
    <3>. QED BY <2>1, <3>1 DEF OutcomeInv, Active, Over
  <2>3. ASSUME NEW p \in Run, Step(p) \/ Kill(p)
        PROVE  OutcomeInv'
    BY <2>3, GoesKeeps, StartKeeps DEF Goes
  <2>. QED BY <2>1, <2>2, <2>3 DEF Next
<1>. QED BY <1>1, <1>2, PTL DEF Spec

-----------------------------------------------------------------------------
(* The theorems.                                                           *)

\* No run that was to upload reports success without an archive the server took,
\* however its calls were answered, lost or failed.
THEOREM UploadedOnSuccess == Spec => []UploadedIfOk
<1>1. OutcomesInv => UploadedIfOk
  BY DEF OutcomesInv, OutcomeInv, Done, UploadedIfOk, Is, Registering, Uploading
<1>. QED BY OutcomesAlways, <1>1, PTL

\* While runs do not overlap, only the one under way does something.
LEMMA OnlyOne ==
  ASSUME OutcomesInv, [Next]_vars, NEW p \in Run, Active(p), ~overlapped
  PROVE  \/ Goes(p)
         \/ UNCHANGED <<disk, opt, pc, todo>>
         \/ overlapped' /\ UNCHANGED disk /\ pc'[p] = pc[p] /\ todo'[p] = todo[p]
<1>. USE DEF OutcomesInv
<1>1. CASE Delist \/ UNCHANGED vars
  BY <1>1 DEF Delist, vars, host, run
<1>2. ASSUME NEW q \in Run, Step(q) \/ Kill(q), ~Goes(p)
      PROVE  overlapped' /\ UNCHANGED disk /\ pc'[p] = pc[p] /\ todo'[p] = todo[p]
  <2>1. Start(q)
    <3>1. ASSUME Goes(q)
          PROVE  FALSE
      <4>1. Active(q)
        BY <3>1, RunLands
      <4>. QED BY <1>2, <3>1, <4>1 DEF RecordInv
    <3>. QED BY <1>2, <3>1 DEF Goes
  <2>2. q # p
    BY <2>1 DEF Start, Active
  <2>. QED BY <2>1, <2>2 DEF Start, host, TypeInv, TypeOK
<1>. QED BY <1>1, <1>2 DEF Next

\* A machine that is not registered is only put on record as registered by a run
\* that was asked to register or upload it, or to look it up.
THEOREM NotRegisteredUnasked == Spec => NotRegisteredBehind
<1>1. ASSUME OutcomesInv, [Next]_vars, NEW p \in Run, ~overlapped', Active(p), ~opt[p].legacy,
             "registered" \notin disk, "registered" \in disk'
      PROVE  Registering(p) \/ Is(p, {"payload", "support"})
  <2>. USE DEF OutcomesInv
  <2>1. ~overlapped
    <3>1. ASSUME NEW q \in Run, Goes(q)
          PROVE  overlapped' = overlapped
      BY <1>1, <3>1, RunLands
    <3>2. ASSUME NEW q \in Run, Start(q)
          PROVE  overlapped => overlapped'
      BY <3>2 DEF Start
    <3>3. Delist \/ UNCHANGED vars => overlapped' = overlapped
      BY DEF Delist, vars, history
    <3>. QED BY <1>1, <3>1, <3>2, <3>3 DEF Next, Goes
  <2>2. Goes(p)
    BY <1>1, <2>1, OnlyOne
  <2>3. Write(p)
    BY <1>1, <2>2, FailedLands, AskedLands, PlatformLands, UnregisterLands, RegisterLands,
       RegisteredLands, NameRequestLands, OutputLands DEF Goes, Step, Asked, Legacy
  <2>4. todo[p] \in Calls \ {Nothing}
    BY <1>1, <2>3 DEF Write, TypeInv, CallInv, Nothing
  <2>5. \/ Head(todo[p]) = Put("registered")
        \/ \E a \in Path : Head(todo[p]) = Del(a)
        \/ \E a \in Path \ {"registered"} : Head(todo[p]) = Put(a)
    BY <2>4, CallSteps DEF Calls, Path
  <2>6. Head(todo[p]) = Put("registered")
    BY <1>1, <2>3, <2>5, WriteEffect
  <2>7. todo[p] = PutRegistered
    BY <2>4, <2>6, CallSteps DEF Calls, Put, Del
  <2>8. Fit(pc[p], PutRegistered, opt[p]) /\ Sole(pc[p], PutRegistered, opt[p], disk)
    BY <1>1, <2>1, <2>7 DEF OutcomeInv
  <2>. QED BY <1>1, <2>8 DEF Fit, Sole, Registering, Is, Uploading
<1>2. OutcomesInv /\ [Next]_vars =>
        [\A p \in Run :
           ~overlapped' /\ Active(p) /\ ~opt[p].legacy /\ "registered" \notin disk /\ "registered" \in disk' =>
             Registering(p) \/ Is(p, {"payload", "support"})]_vars
  BY <1>1
<1>. QED BY OutcomesAlways, <1>2, PTL DEF Spec, NotRegisteredBehind

\* An unregistration that reports success has left neither record nor machine-id.
THEOREM UnregisterCleans == Spec => UnregisterLeavesNothing
<1>1. ASSUME OutcomesInv, [Next]_vars, NEW p \in Run, Is(p, {"unregister", "force"}), Active(p),
             (Over(p) /\ pc[p] = "ok")', ~overlapped
      PROVE  disk' \cap {"registered", "machine-id"} = {} /\ "unregistered" \in disk'
  <2>. USE DEF OutcomesInv
  <2>1. Goes(p)
    BY <1>1, OnlyOne DEF Active, Over
  <2>2. PICK l \in Label \ {"new"}, c \in Calls :
          Arrives(p, l, c) /\ Right(p, l, c, opt[p], accepted', disk')
    BY <1>1, <2>1, RunLands DEF Lands
  <2>3. l = "ok"
    BY <1>1, <2>2 DEF Arrives, TypeInv, TypeOK
  <2>. QED BY <1>1, <2>2, <2>3 DEF Right, Sole, Is, Removing
<1>2. OutcomesInv /\ [Next]_vars =>
        [\A p \in Run :
           Is(p, {"unregister", "force"}) /\ Active(p) /\ (Over(p) /\ pc[p] = "ok")' /\ ~overlapped =>
             disk' \cap {"registered", "machine-id"} = {} /\ "unregistered" \in disk']_vars
  BY <1>1
<1>. QED BY OutcomesAlways, <1>2, PTL DEF Spec, UnregisterLeavesNothing

-----------------------------------------------------------------------------
(* Off the legacy API.                                                     *)

\* Only a run that creates its machine has that refused, and such a run uses the
\* legacy API.
LEMMA OnlyLegacyRefused ==
  ASSUME OutcomesInv, [Next]_vars, \A o \in Option : ~o.legacy
  PROVE  refused' = refused
<1>. USE DEF OutcomesInv
<1>1. CASE Delist \/ UNCHANGED vars
  BY <1>1 DEF Delist, vars, history
<1>2. ASSUME NEW p \in Run, Step(p) \/ Kill(p)
      PROVE  refused' = refused
  <2>1. ~opt[p].legacy
    BY DEF TypeInv, TypeOK
  <2>2. ~CreateRefused(p)
    BY <2>1, AtLegacy DEF CreateRefused, Named, LegacyLabel
  <2>3. CASE Write(p) \/ WriteFails(p) \/ Kill(p)
    BY <2>3 DEF Write, WriteFails, Kill, Local, history
  <2>4. CASE Asked(p)
    BY <2>4 DEF Asked, Start, PreUpdate, Checkin, Check, CheckFails, Report, Local, history
  <2>5. CASE Platform(p)
    BY <2>5 DEF Platform, PostUpdate, GetMachineId, Cleanup, Unschedule, Local, history
  <2>6. CASE Legacy(p)
    BY <2>2, <2>6
       DEF Legacy, LegacyPostUpdate, HandleUnregistration, Delete, HandleRegistration, Resync,
           NameRequest, Create, CreateConflicts, CreateFails, Register, Registered, Local, history
  <2>7. CASE Output(p)
    BY <2>7
       DEF Output, Collect, CollectFails, Upload, UploadFails, Accepted, Finish, Local, history
  <2>. QED BY <1>2, <2>3, <2>4, <2>5, <2>6, <2>7 DEF Step
<1>. QED BY <1>1, <1>2 DEF Next

\* What _legacy_handle_registration documents of its answer True, "machine is
\* registered", holds where no run uses the legacy API: only there is a creation
\* the server refused taken for a registration.
THEOREM RegisteredOffLegacy ==
  ASSUME \A o \in Option : ~o.legacy
  PROVE  Spec => []RegisteredByServer
<1>1. Init => ~refused
  BY DEF Init
<1>2. OutcomesInv /\ ~refused /\ [Next]_vars => ~refused'
  BY OnlyLegacyRefused
<1>3. ~refused /\ RegisteredIsVouched => RegisteredByServer
  BY DEF RegisteredIsVouched, RegisteredByServer
<1>. QED BY OutcomesAlways, RegisteredVouched, <1>1, <1>2, <1>3, PTL DEF Spec

=============================================================================
