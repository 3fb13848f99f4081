----------------------------- MODULE ClientRun -----------------------------
(***************************************************************************)
(* Runs of insights-client on one machine: the phases of phase/v1.py, the  *)
(* registration record they keep on disk, the machine-id, the timers, the  *)
(* upload with its retries, and the inventory of the server.               *)
(*                                                                         *)
(* A run is one invocation; nothing keeps two of them (the timer's and an  *)
(* administrator's, say) from overlapping.  Every removal or creation of a *)
(* file is a step, so a run may be killed between any two of them.  A file *)
(* is present or not; of their contents only the machine-id counts.  Of    *)
(* the two copies of a record only the first is ever read, so it stands    *)
(* for both, as lastupload does for the results beside it, and "timers"    *)
(* for the cron link or the timers of systemd.  The phase that updates the *)
(* core is CoreUpdate's, and what is collected is Collect's.  With         *)
(* legacy_upload a run asks the API at every turn, without it the record   *)
(* on disk decides.  A request is made under the machine-id of its moment. *)
(***************************************************************************)
EXTENDS Integers, Sequences

CONSTANTS
  Run,        \* the invocations
  Option,     \* the options they may be given
  Retries     \* config.retries

Command == {"plain", "register", "register_unscheduled", "unregister", "force",
            "status", "support", "checkin", "payload", "no_upload", "enable", "disable"}

\* 0 or less is accepted by config.py as well: then nothing is uploaded.
ASSUME ClientAssumption ==
  /\ Option # {} /\ Option \subseteq [command : Command, legacy : BOOLEAN]
  /\ \A o \in Option : o.command \in {"checkin", "payload"} => ~o.legacy
  /\ Retries \in Nat \ {0}

Path == {"registered", "unregistered", "machine-id", "lastupload", "timers"}
End == {"ok", "bad"}      \* a run that is killed ends badly, too
Label == End \cup
  {"new", "pre_update", "check", "known", "unknown", "unreachable", "post_update",
   "identify", "cleanup", "unschedule", "delete", "resync", "create", "recreate",
   "registering", "registered", "collect", "upload", "accepted", "finish"}

VARIABLES
  disk,        \* the files that exist, and the timers that are enabled
  mid,         \* what the machine-id file holds
  newest,      \* the last machine-id made
  identity,    \* the host has an identity of subscription-manager: number 1
  inventory,   \* the machines the server knows
  opt, pc,     \* of a run: its options, where it is,
  todo,        \* what its current call has still to put on disk or remove,
  tries,       \* and the uploads that failed
  vouched,     \* history: the machines the server ever accepted or confirmed
  accepted,    \* history: the runs of which the server took an archive
  refused,     \* history: a registration was answered with an error
  overlapped   \* history: two runs were under way at the same time

host == <<disk, mid, newest>>
history == <<accepted, refused, overlapped>>
server == <<identity, inventory, vouched>>
run == <<opt, pc, todo, tries>>
vars == <<host, server, run, history>>

-----------------------------------------------------------------------------
(* The calls that change the disk, as the steps they consist of.           *)

Put(path) == <<"put", path>>
Del(path) == <<"del", path>>

\* Mutant of WriteRegistered: the new record comes before the old one goes.
WriteRegisteredFirst == <<Put("registered"), Del("unregistered")>>

WriteRegistered == <<Del("unregistered"), Put("registered")>>

WriteUnregistered == <<Del("registered"), Put("unregistered")>>

\* Mutant of Forget: the machine-id goes first.
ForgetFirst == <<Del("machine-id"), Del("registered"), Put("unregistered")>>

Forget == <<Del("registered"), Put("unregistered"), Del("machine-id")>>

\* Mutant of Identify: a machine-id is made every time.
IdentifyAnew == <<Put("machine-id")>>

Identify == IF "machine-id" \in disk THEN << >> ELSE <<Put("machine-id")>>
RecordUpload == <<Put("lastupload")>>
Schedule == <<Put("timers")>>
RemoveScheduling == <<Del("timers")>>

At(p, label) == pc[p] = label /\ todo[p] = << >>
Over(p) == pc[p] \in End /\ todo[p] = << >>
Active(p) == pc[p] # "new" /\ ~Over(p)
Is(p, commands) == opt[p].command \in commands
Registering(p) == Is(p, {"register", "register_unscheduled"})

Goto(p, label, calls) ==
  /\ pc' = [pc EXCEPT ![p] = label]
  /\ todo' = [todo EXCEPT ![p] = calls]
  /\ tries' = IF label = "upload" THEN tries ELSE [tries EXCEPT ![p] = 0]
  /\ UNCHANGED opt

Local == UNCHANGED <<host, server, history>>

\* The next file of the current call.  A machine-id is the identity of
\* subscription-manager when there is one, also when a new one is asked for.
Write(p) ==
  /\ todo[p] # << >>
  /\ LET path == Head(todo[p])[2] IN
       IF Head(todo[p])[1] = "put"
         THEN /\ disk' = disk \cup {path}
              /\ newest' = IF path = "machine-id" /\ ~identity THEN newest + 1 ELSE newest
              /\ mid' = IF path # "machine-id" THEN mid
                          ELSE IF identity THEN 1 ELSE newest'
         ELSE disk' = disk \ {path} /\ UNCHANGED <<mid, newest>>
  /\ Goto(p, pc[p], Tail(todo[p]))
  /\ UNCHANGED <<server, history>>

\* On the platform the record on disk outweighs an answer that is not a yes.
Outweighed(p) == ~opt[p].legacy /\ {"machine-id", "registered"} \subseteq disk

\* What a 412 told is being recorded, by handle_fail_rcs.
NotingRefusal(p) ==
  pc[p] \in {"unreachable", "registering"} /\ Head(todo[p])[2] # "machine-id"

\* It fails: systemctl's errors, those of the record of an upload that was
\* accepted and those of handle_fail_rcs are dropped, all others end the phase.
WriteFails(p) ==
  /\ todo[p] # << >>
  /\ IF Head(todo[p])[2] = "timers" \/ pc[p] = "accepted" \/ NotingRefusal(p)
       THEN IF pc[p] = "unreachable" /\ Outweighed(p)
              THEN Goto(p, "known", WriteRegistered)
              ELSE Goto(p, pc[p], << >>)
       ELSE Goto(p, "bad", << >>)
  /\ Local

-----------------------------------------------------------------------------
(* pre_update and support.py.                                              *)

Start(p) ==
  /\ pc[p] = "new"
  /\ \E o \in Option : opt' = [opt EXCEPT ![p] = o]
  /\ pc' = [pc EXCEPT ![p] = "pre_update"]
  /\ overlapped' = (overlapped \/ \E q \in Run : Active(q))
  /\ UNCHANGED <<host, server, todo, tries, accepted, refused>>

PreUpdate(p) ==
  /\ At(p, "pre_update")
  /\ CASE Is(p, {"enable"}) -> Goto(p, "ok", Schedule)
       [] Is(p, {"disable"}) -> Goto(p, "ok", RemoveScheduling)
       [] Is(p, {"register_unscheduled"}) -> Goto(p, "post_update", RemoveScheduling)
       [] Is(p, {"support", "checkin"}) -> Goto(p, "check", << >>)
       [] OTHER -> Goto(p, "post_update", << >>)
  /\ Local

\* api_registration_check: without a machine-id nothing is asked.
Confirmed == "machine-id" \in disk /\ mid \in inventory

\* A check-in is for machines the server knows; it may refuse this one, too, or
\* answer 412 to the question whether it knows it.
Checkin(p) ==
  /\ At(p, "check") /\ Is(p, {"checkin"})
  /\ \/ Confirmed /\ Goto(p, "ok", << >>)
     \/ Goto(p, "bad", << >>)
     \/ "machine-id" \in disk /\ Goto(p, "bad", WriteUnregistered)
  /\ Local

\* registration_check when the answer came.
Check(p) ==
  /\ At(p, "check") /\ ~Is(p, {"checkin"})
  /\ vouched' = IF Confirmed THEN vouched \cup {mid} ELSE vouched
  /\ IF Confirmed \/ Outweighed(p)
       THEN Goto(p, "known", WriteRegistered)
       ELSE Goto(p, "unknown", Forget)
  /\ UNCHANGED <<host, identity, inventory, history>>

\* It did not, or was an error: 412 is taken for an unregistration, and 401 or
\* a request of the legacy API that times out ends the run.
CheckFails(p) ==
  /\ At(p, "check") /\ ~Is(p, {"checkin"}) /\ "machine-id" \in disk
  /\ \/ Outweighed(p) /\ Goto(p, "known", WriteRegistered)
     \/ ~Outweighed(p) /\ Goto(p, "unreachable", << >>)
     \/ Goto(p, "unreachable", WriteUnregistered)
     \/ (opt[p].legacy \/ ~identity) /\ Goto(p, "bad", << >>)
  /\ Local

\* --support and --status only report what was found.
Report(p) ==
  /\ \E answer \in {"known", "unknown", "unreachable"} : At(p, answer)
  /\ Is(p, {"support", "status"})
  /\ Goto(p, IF Is(p, {"support"}) \/ pc[p] = "known" THEN "ok" ELSE "bad", << >>)
  /\ Local

-----------------------------------------------------------------------------
(* post_update without legacy_upload.                                      *)

\* Mutant of Halted: the registration is left to the server.
NeverHalted(p) == FALSE

\* halt here if unregistered
Halted(p) == Is(p, {"plain"}) /\ "registered" \notin disk

PostUpdate(p) ==
  /\ At(p, "post_update") /\ ~opt[p].legacy
  /\ \/ Is(p, {"payload", "no_upload", "register_unscheduled"}) /\ Goto(p, "identify", << >>)
     \/ Is(p, {"register"}) /\ Goto(p, "identify", Schedule)
     \/ Is(p, {"status"}) /\ Goto(p, IF "registered" \in disk THEN "ok" ELSE "bad", << >>)
     \/ Halted(p) /\ Goto(p, "bad", << >>)
     \/ Is(p, {"plain"}) /\ ~Halted(p) /\ Goto(p, "identify", << >>)
     \/ /\ Is(p, {"unregister", "force"})
        /\ IF {"machine-id", "registered"} \cap disk # {} THEN Goto(p, "cleanup", Forget)
             ELSE Goto(p, "bad", IF Is(p, {"force"}) THEN Forget ELSE << >>)
  /\ Local

GetMachineId(p) ==
  /\ At(p, "identify")
  /\ Goto(p, "collect", Identify)
  /\ Local

\* __cleanup_local_files, which repeats what the connection's unregister did.
Cleanup(p) ==
  /\ At(p, "cleanup")
  /\ Goto(p, "unschedule", Forget)
  /\ Local

Unschedule(p) ==
  /\ At(p, "unschedule")
  /\ Goto(p, "ok", RemoveScheduling)
  /\ Local

-----------------------------------------------------------------------------
(* post_update with legacy_upload.                                         *)

LegacyPostUpdate(p) ==
  /\ At(p, "post_update") /\ opt[p].legacy
  /\ Goto(p, IF Is(p, {"no_upload"}) THEN "identify"
               ELSE IF identity THEN "check" ELSE "bad", << >>)
  /\ Local

\* The URL of an upload and the body of a creation hold the machine-id, which is
\* made if another run removed it.
NameRequest(p) ==
  /\ \E label \in {"create", "delete", "upload"} : At(p, label)
  /\ opt[p].legacy /\ "machine-id" \notin disk
  /\ Goto(p, pc[p], Identify)
  /\ Local

Named(p, label) == At(p, label) /\ (opt[p].legacy => "machine-id" \in disk)

\* _legacy_handle_unregistration
HandleUnregistration(p) ==
  /\ Is(p, {"unregister", "force"})
  /\ \/ At(p, "known") /\ Goto(p, "delete", << >>)
     \/ At(p, "unknown") /\ Goto(p, "cleanup", << >>)
     \/ At(p, "unreachable") /\ Is(p, {"force"}) /\ Goto(p, "cleanup", << >>)
     \/ At(p, "unreachable") /\ Is(p, {"unregister"}) /\ Goto(p, "bad", << >>)
  /\ Local

\* Mutant of Delete: what the server removed needs no removal here.
DeleteOnly(p) ==
  /\ Named(p, "delete")
  /\ inventory' \in {inventory, inventory \ {mid}}
  /\ Goto(p, "unschedule", << >>) \/ Goto(p, "bad", << >>)
  /\ UNCHANGED <<host, identity, vouched, history>>

\* The answer to the request is not looked at; it may also get lost.
Delete(p) ==
  /\ Named(p, "delete")
  /\ inventory' \in {inventory, inventory \ {mid}}
  /\ Goto(p, "cleanup", << >>) \/ Goto(p, "bad", << >>)
  /\ UNCHANGED <<host, identity, vouched, history>>

\* _legacy_handle_registration: a machine-id that is there although the server
\* does not know it was made by another run.
HandleRegistration(p) ==
  /\ Is(p, {"plain"}) \/ Registering(p)
  /\ \/ At(p, "known") /\ Goto(p, "registering", Identify)
     \/ At(p, "unreachable") /\ Goto(p, "bad", Identify)
     \/ At(p, "unknown") /\ "machine-id" \in disk /\ Goto(p, "bad", << >>)
     \/ /\ At(p, "unknown") /\ "machine-id" \notin disk
        /\ Goto(p, IF Registering(p) THEN "create" ELSE "resync", Identify)
  /\ Local

Resync(p) ==
  /\ At(p, "resync")
  /\ Goto(p, "bad", WriteUnregistered)
  /\ Local

\* create_system: the request is answered, or its answer is lost.
Create(p) ==
  /\ Named(p, "create") \/ At(p, "recreate")
  /\ inventory' = inventory \cup {mid} /\ vouched' = vouched \cup {mid}
  /\ Goto(p, "registering", << >>) \/ Goto(p, "bad", << >>)
  /\ UNCHANGED <<host, identity, history>>

\* 409: once more, under a new machine-id.
CreateConflicts(p) ==
  /\ Named(p, "create")
  /\ Goto(p, "recreate", <<Put("machine-id")>>)
  /\ Local

CreateFails(p) ==
  /\ At(p, "create") \/ At(p, "recreate")
  /\ Goto(p, "bad", << >>)
  /\ Local

\* Any other answer is logged and taken for a success, after a 412 too.
CreateRefused(p) ==
  /\ Named(p, "create") \/ At(p, "recreate")
  /\ \E calls \in {<< >>, WriteUnregistered} : Goto(p, "registering", calls)
  /\ refused' = TRUE
  /\ UNCHANGED <<host, server, accepted, overlapped>>

Register(p) ==
  /\ At(p, "registering")
  /\ Goto(p, "registered", WriteRegistered)
  /\ Local

Registered(p) ==
  /\ At(p, "registered")
  /\ Goto(p, "collect", IF Is(p, {"register"}) THEN Schedule ELSE << >>)
  /\ Local

-----------------------------------------------------------------------------
(* collect_and_output and upload.                                          *)

Collect(p) ==
  /\ At(p, "collect")
  /\ Goto(p, IF Is(p, {"no_upload"}) THEN "ok" ELSE "upload", << >>)
  /\ Local

CollectFails(p) ==
  /\ At(p, "collect") \/ At(p, "finish")
  /\ Goto(p, "bad", << >>)
  /\ Local

\* Mutant of Retry: the last attempt is not told from a success.
RetryEnds(p) ==
  \/ /\ tries[p] + 1 < Retries
     /\ tries' = [tries EXCEPT ![p] = @ + 1]
     /\ UNCHANGED <<opt, pc, todo>>
  \/ /\ tries[p] + 1 >= Retries
     /\ Goto(p, "finish", << >>)

\* Mutant of Retry: attempts are not counted.
RetryForever(p) == UNCHANGED <<opt, pc, todo, tries>>

\* Mutant of Retry: one attempt too many.
RetryOnceMore(p) ==
  \/ /\ tries[p] < Retries
     /\ tries' = [tries EXCEPT ![p] = @ + 1]
     /\ UNCHANGED <<opt, pc, todo>>
  \/ /\ tries[p] >= Retries
     /\ Goto(p, "bad", << >>)

\* display_upload_error_and_retry
Retry(p) ==
  \/ /\ tries[p] + 1 < Retries
     /\ tries' = [tries EXCEPT ![p] = @ + 1]
     /\ UNCHANGED <<opt, pc, todo>>
  \/ /\ tries[p] + 1 >= Retries
     /\ Goto(p, "bad", << >>)

\* The server takes the archive; the client may not hear of it.
Upload(p) ==
  /\ Named(p, "upload")
  /\ accepted' = accepted \cup {p}
  /\ LET sender == IF "machine-id" \in disk THEN {mid} ELSE {} IN
       inventory' = inventory \cup sender /\ vouched' = vouched \cup sender
  /\ \/ opt[p].legacy /\ Goto(p, "finish", RecordUpload)
     \/ ~opt[p].legacy /\ Goto(p, "accepted", WriteRegistered)
     \/ Retry(p)
  /\ UNCHANGED <<host, identity, refused, overlapped>>

\* It does not; after 412 and 413 or 413 and 415 there is no other attempt.
UploadFails(p) ==
  /\ Named(p, "upload")
  /\ \/ Retry(p)
     \/ Goto(p, "bad", << >>)
     \/ opt[p].legacy /\ Goto(p, "bad", WriteUnregistered)
  /\ Local

Accepted(p) ==
  /\ At(p, "accepted")
  /\ Goto(p, "finish", RecordUpload)
  /\ Local

Finish(p) ==
  /\ At(p, "finish")
  /\ Goto(p, "ok", << >>)
  /\ Local

-----------------------------------------------------------------------------
(* The server and the machine.                                             *)

\* Someone removes the machine from the inventory.
Delist ==
  /\ \E id \in inventory : inventory' = inventory \ {id}
  /\ UNCHANGED <<host, identity, vouched, run, history>>

Kill(p) ==
  /\ Active(p)
  /\ Goto(p, "bad", << >>)
  /\ Local

Asked(p) ==
  Start(p) \/ PreUpdate(p) \/ Checkin(p) \/ Check(p) \/ CheckFails(p) \/ Report(p)

Platform(p) == PostUpdate(p) \/ GetMachineId(p) \/ Cleanup(p) \/ Unschedule(p)

Legacy(p) ==
  LegacyPostUpdate(p) \/ HandleUnregistration(p) \/ Delete(p) \/ HandleRegistration(p)
    \/ Resync(p) \/ NameRequest(p) \/ Create(p) \/ CreateConflicts(p) \/ CreateFails(p)
    \/ CreateRefused(p) \/ Register(p) \/ Registered(p)

Output(p) ==
  Collect(p) \/ CollectFails(p) \/ Upload(p) \/ UploadFails(p)
    \/ Accepted(p) \/ Finish(p)

Step(p) == Write(p) \/ WriteFails(p) \/ Asked(p) \/ Platform(p) \/ Legacy(p) \/ Output(p)

Next == Delist \/ \E p \in Run : Step(p) \/ Kill(p)

\* A machine that was never registered, or that a run registered before.
Init ==
  /\ \/ disk = {} /\ mid = 0 /\ newest = 1 /\ inventory = {}
     \/ /\ disk = Path \ {"unregistered"}
        /\ mid = 1 /\ newest = 1 /\ inventory = {1}
  /\ identity \in BOOLEAN
  /\ opt \in [Run -> {CHOOSE o \in Option : TRUE}]
  /\ pc = [p \in Run |-> "new"] /\ todo = [p \in Run |-> << >>]
  /\ tries = [p \in Run |-> 0]
  /\ vouched = inventory
  /\ accepted = {} /\ refused = FALSE /\ overlapped = FALSE

Spec == Init /\ [][Next]_vars

\* Every run that was started is scheduled, and its requests end in a timeout.
Fairness == \A p \in Run : WF_vars(pc[p] # "new" /\ Step(p))

FairSpec == Spec /\ Fairness

-----------------------------------------------------------------------------
(* Properties.                                                             *)

TypeOK ==
  /\ disk \subseteq Path /\ mid \in Nat /\ newest \in Nat
  /\ identity \in BOOLEAN /\ inventory \subseteq Nat /\ vouched \subseteq Nat
  /\ opt \in [Run -> Option]
  /\ pc \in [Run -> Label]
  /\ todo \in [Run -> Seq({"put", "del"} \X Path)]
  /\ tries \in [Run -> 0 .. Retries - 1]
  /\ accepted \subseteq Run /\ refused \in BOOLEAN /\ overlapped \in BOOLEAN

\* Wherever a run is killed or fails, the machine is never recorded as both
\* registered and unregistered, unless two runs overlapped.
NeverBothRecords ==
  ~overlapped => ~({"registered", "unregistered"} \subseteq disk)

\* A machine recorded as registered has a machine-id, one that the server
\* accepted or confirmed: through killed runs, lost answers and machine-ids that
\* were replaced, unless two runs overlapped or a registration was refused.
RegisteredIsVouched ==
  ~overlapped /\ ~refused /\ "registered" \in disk => "machine-id" \in disk /\ mid \in vouched

\* A run that was to upload and reports success did upload, in this run, and left
\* a note of it.
UploadedIfOk ==
  \A p \in Run :
    Over(p) /\ pc[p] = "ok" /\ (Is(p, {"plain", "payload"}) \/ Registering(p)) =>
      p \in accepted /\ "lastupload" \in disk

\* Off the legacy API, a run that was not asked to register the machine or to
\* look its registration up does not put the record back.
NotRegisteredBehind ==
  [][\A p \in Run :
       ~overlapped' /\ Active(p) /\ ~opt[p].legacy /\ "registered" \notin disk /\ "registered" \in disk' =>
         Registering(p) \/ Is(p, {"payload", "support"})]_vars

\* When an unregistration reports success, whichever way it went and whatever
\* the server did, the machine is recorded as unregistered and has no machine-id.
UnregisterLeavesNothing ==
  [][\A p \in Run :
       Is(p, {"unregister", "force"}) /\ Active(p) /\ (Over(p) /\ pc[p] = "ok")' /\ ~overlapped =>
         disk' \cap {"registered", "machine-id"} = {} /\ "unregistered" \in disk']_vars

\* The machine-id does not change under a machine that is registered.
IdentityKept ==
  [][~overlapped' /\ ~refused' /\ "registered" \in disk /\ "registered" \in disk' => mid' = mid]_vars

\* Every run ends: the retries do.
RunsEnd == \A p \in Run : Active(p) ~> Over(p)

-----------------------------------------------------------------------------
(* What the documentation says and the code does not do.                   *)

\* _legacy_handle_registration: "True - machine is registered".  connection.py
\* speaks of a 402 as a failed registration.
RegisteredByServer ==
  ~overlapped /\ "registered" \in disk => mid \in vouched
=============================================================================
