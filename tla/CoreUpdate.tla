----------------------------- MODULE CoreUpdate -----------------------------
(***************************************************************************)
(* How insights/client/__init__.py keeps the core of a machine up to date: *)
(* the update phase fetches core and signature, each under a cached etag,  *)
(* verifies and installs them as newest.egg; when a later phase has done   *)
(* its work, rotate_eggs makes them last_stable.egg.                       *)
(*                                                                         *)
(* The phases of one run are processes started one after the other by the  *)
(* client's wrapper; nothing keeps two runs apart, so their steps          *)
(* interleave.  A release is abstracted to its number: a signature         *)
(* verifies a core when both are of one release, and the etags of both are *)
(* that number, written at once.  The release is the one the URL of the    *)
(* machine serves; how that URL is chosen is left out.                     *)
(***************************************************************************)
EXTENDS Integers

CONSTANTS
  Run,           \* runs of the client, each any number of times
  MaxRelease     \* bound on what the server releases

ASSUME ReleaseAssumption == MaxRelease \in Nat

Release == 1 .. MaxRelease
None == 0              \* no such file, or an etag file that is empty
Partial == -1          \* a file whose copy was begun, or of two copies

File == {"core", "sig"}
Nothing == [f \in File |-> None]

VARIABLES
  released,      \* the release the server has
  etag,          \* File -> the etag file
  newest,        \* File -> newest.egg and newest.egg.asc
  stable,        \* File -> last_stable.egg and last_stable.egg.asc
  pc,            \* Run -> where the run is
  file,          \* Run -> the file the step at pc is about
  asked,         \* Run -> current_etag, the etag its request was made with
  fetched,       \* Run -> File -> what is in its temporary directory
  into,          \* Run -> the name that the file it copies into now has
  torn,          \* runs that have copied into a file together with another
  disturbed,     \* some run was stopped half-way or told not to check signatures
  overlapped,    \* two runs were updating or rotating at one time
  withdrawn      \* the server went back to an older release

disk == <<etag, newest, stable>>
mine == <<asked, fetched, into, torn>>
history == <<disturbed, overlapped, withdrawn>>
vars == <<released, disk, pc, file, mine, history>>

Init ==
  /\ released = None
  /\ etag = Nothing /\ newest = Nothing /\ stable = Nothing
  /\ pc = [r \in Run |-> "idle"]
  /\ file = [r \in Run |-> "core"]
  /\ asked = [r \in Run |-> None]
  /\ fetched = [r \in Run |-> Nothing]
  /\ into = [r \in Run |-> "newest"]
  /\ torn = {}
  /\ disturbed = FALSE /\ overlapped = FALSE /\ withdrawn = FALSE

-----------------------------------------------------------------------------
(* Where a run is, and what it shares.                                     *)

Goto(r, at, f) ==
  /\ pc' = [pc EXCEPT ![r] = at]
  /\ file' = [file EXCEPT ![r] = f]

\* The process of the update is over, and its temporary directory removed.
Leave(r, at) ==
  /\ Goto(r, at, "core")
  /\ asked' = [asked EXCEPT ![r] = None]
  /\ fetched' = [fetched EXCEPT ![r] = Nothing]
  /\ into' = [into EXCEPT ![r] = "newest"]
  /\ torn' = torn \ {r}

\* Between the first request of an update and its end, or in rotate_eggs.
Busy(r) ==
  pc[r] \notin {"idle", "collect"} /\ <<pc[r], file[r]>> # <<"fetch", "core">>

\* r goes on with shared files: is anybody else?
NoteOverlap(r) == overlapped' = (overlapped \/ \E q \in Run \ {r} : Busy(q))

Writers(f) == {r \in Run : pc[r] = "copying" /\ file[r] = f /\ into[r] = "newest"}

\* What the file r copies into holds, wherever it is now.
Written(r) ==
  CASE into[r] = "newest" -> newest[file[r]]
    [] into[r] = "stable" -> stable[file[r]]
    [] OTHER -> Partial

Put(r, content) ==
  /\ newest' = [newest EXCEPT ![file[r]] = IF into[r] = "newest" THEN content ELSE @]
  /\ stable' = [stable EXCEPT ![file[r]] = IF into[r] = "stable" THEN content ELSE @]

Moved(name) == IF name = "newest" THEN "stable" ELSE "gone"

\* shutil.move of newest to last_stable is a rename: who copies into the file
\* still does.
Move(f) ==
  /\ stable' = [stable EXCEPT ![f] = newest[f]]
  /\ newest' = [newest EXCEPT ![f] = None]
  /\ into' = [r \in Run |-> IF pc[r] = "copying" /\ file[r] = f THEN Moved(into[r])
                                                              ELSE into[r]]

-----------------------------------------------------------------------------
(* The server and the runs.                                                *)

Publish ==
  /\ released' \in Release \ {released}
  /\ withdrawn' = (withdrawn \/ released' < released)
  /\ UNCHANGED <<disk, pc, file, mine, disturbed, overlapped>>

StartRun(r) ==
  /\ pc[r] = "idle"
  /\ Goto(r, "fetch", "core")
  /\ UNCHANGED <<released, disk, mine, history>>

\* A crash, or an error of the file system: the run ends where it is.  What it
\* had written may have spoilt what another one wrote into the same file.
Stop(r) ==
  /\ pc[r] # "idle"
  /\ IF pc[r] = "copying"
       THEN \E content \in {Written(r), Partial} : Put(r, content)
       ELSE UNCHANGED <<newest, stable>>
  /\ disturbed' = (disturbed \/ Busy(r))
  /\ Leave(r, "idle")
  /\ UNCHANGED <<released, etag, overlapped, withdrawn>>

-----------------------------------------------------------------------------
(* fetch and _fetch.                                                       *)

\* Offline, or without auto_update.
UpdateOff(r) ==
  /\ pc[r] = "fetch" /\ file[r] = "core"
  /\ Leave(r, "collect")
  /\ UNCHANGED <<released, disk, history>>

\* The etag file is read and the request made.
Request(r) ==
  /\ pc[r] = "fetch"
  /\ asked' = [asked EXCEPT ![r] = etag[file[r]]]
  /\ NoteOverlap(r)
  /\ Goto(r, "asked", file[r])
  /\ UNCHANGED <<released, disk, fetched, into, torn, disturbed, withdrawn>>

\* Mutant of NotFetched: without a signature there is nothing to verify, either.
NotFetchedEither(r) ==
  /\ Goto(r, "collect", file[r])
  /\ UNCHANGED <<released, disk, mine, history>>

\* _fetch returns nothing: without a new core there is nothing to verify, while
\* what becomes of the signature is not looked at.
NotFetched(r) ==
  /\ IF file[r] = "core"
       THEN Leave(r, "collect")
       ELSE /\ Goto(r, "verify", "core")
            /\ asked' = [asked EXCEPT ![r] = None]
            /\ UNCHANGED <<fetched, into, torn>>
  /\ UNCHANGED <<released, disk, history>>

\* The server cannot be reached or answers with an error.
FetchFails(r) ==
  /\ pc[r] = "asked"
  /\ NotFetched(r)

\* 304: the etag of the request is the server's.
FetchUnmodified(r) ==
  /\ pc[r] = "asked" /\ asked[r] # None /\ asked[r] = released
  /\ NotFetched(r)

\* The data is written to the temporary directory.
Fetch(r) ==
  /\ pc[r] = "asked" /\ released # None /\ asked[r] # released
  /\ fetched' = [fetched EXCEPT ![r][file[r]] = released]
  /\ asked' = [asked EXCEPT ![r] = None]
  /\ Goto(r, "fetched", file[r])
  /\ UNCHANGED <<released, disk, into, torn, history>>

\* The etag file is opened for writing.
OpenEtag(r) ==
  /\ pc[r] = "fetched"
  /\ etag' = [etag EXCEPT ![file[r]] = None]
  /\ Goto(r, "cache", file[r])
  /\ UNCHANGED <<released, newest, stable, mine, history>>

CacheEtag(r) ==
  /\ pc[r] = "cache"
  /\ etag' = [etag EXCEPT ![file[r]] = fetched[r][file[r]]]
  /\ IF file[r] = "core" THEN Goto(r, "fetch", "sig") ELSE Goto(r, "verify", "core")
  /\ UNCHANGED <<released, newest, stable, mine, history>>

-----------------------------------------------------------------------------
(* verify and install.                                                     *)

\* Mutant of Verified: a signature that could not be fetched is let pass.
VerifiedUnlessSigned(r, gpg) ==
  gpg => fetched[r]["sig"] \in {None, fetched[r]["core"]}

\* gpg is the option of the process; without it nothing is checked.
Verified(r, gpg) == gpg => fetched[r]["sig"] = fetched[r]["core"]

VerifyFails(r) ==
  /\ pc[r] = "verify" /\ ~Verified(r, TRUE)
  /\ Leave(r, "collect")
  /\ UNCHANGED <<released, disk, history>>

Verify(r) ==
  /\ pc[r] = "verify"
  /\ \E gpg \in BOOLEAN :
       /\ Verified(r, gpg)
       /\ disturbed' = (disturbed \/ ~gpg)
  /\ Goto(r, "copy", "core")
  /\ UNCHANGED <<released, disk, mine, overlapped, withdrawn>>

\* copyfile raises before it opens the target when there is no source.
CopyMissing(r) ==
  /\ pc[r] = "copy" /\ fetched[r][file[r]] = None
  /\ Leave(r, "idle")
  /\ UNCHANGED <<released, disk, history>>

\* The target is opened, which empties it also for who is copying into it.
Copy(r) ==
  /\ pc[r] = "copy" /\ fetched[r][file[r]] # None
  /\ newest' = [newest EXCEPT ![file[r]] = Partial]
  /\ torn' = IF Writers(file[r]) = {} THEN torn ELSE torn \cup Writers(file[r]) \cup {r}
  /\ Goto(r, "copying", file[r])
  /\ UNCHANGED <<released, etag, stable, asked, fetched, into, history>>

\* Of two copies into one file any may remain, or a mixture.
CopyEnd(r) ==
  /\ pc[r] = "copying"
  /\ \E content \in {fetched[r][file[r]]} \cup IF r \in torn THEN {Written(r), Partial} ELSE {} :
       Put(r, content)
  /\ IF file[r] = "core"
       THEN /\ Goto(r, "copy", "sig")
            /\ into' = [into EXCEPT ![r] = "newest"]
            /\ torn' = torn \ {r}
            /\ UNCHANGED <<asked, fetched>>
       ELSE Leave(r, "collect")
  /\ UNCHANGED <<released, etag, history>>

-----------------------------------------------------------------------------
(* The last phase: collect, upload and rotate_eggs.                        *)

\* The phase exits before it comes to rotate_eggs.
CollectFails(r) ==
  /\ pc[r] = "collect"
  /\ Leave(r, "idle")
  /\ UNCHANGED <<released, disk, history>>

\* There is no newest.egg, or another run moves it before this one does.
NothingToRotate(r) ==
  /\ pc[r] = "collect" /\ newest["core"] = None
  /\ Leave(r, "idle")
  /\ UNCHANGED <<released, disk, history>>

\* Mutant of Rotate: last_stable.egg is moved to newest.egg.
RotateBack(r) ==
  /\ pc[r] = "collect" /\ newest["core"] # None
  /\ stable' = [stable EXCEPT !["core"] = newest["core"]]
  /\ newest' = [newest EXCEPT !["core"] = stable["core"]]
  /\ NoteOverlap(r)
  /\ Goto(r, "rotate", "sig")
  /\ UNCHANGED <<released, etag, mine, disturbed, withdrawn>>

Rotate(r) ==
  /\ pc[r] = "collect" /\ newest["core"] # None
  /\ Move("core")
  /\ NoteOverlap(r)
  /\ Goto(r, "rotate", "sig")
  /\ UNCHANGED <<released, etag, asked, fetched, torn, disturbed, withdrawn>>

\* move raises when there is no signature; the phase ends either way.
RotateSig(r) ==
  /\ pc[r] = "rotate"
  /\ IF newest["sig"] = None THEN UNCHANGED <<stable, newest, into>> ELSE Move("sig")
  /\ Goto(r, "idle", "core")
  /\ UNCHANGED <<released, etag, asked, fetched, torn, history>>

-----------------------------------------------------------------------------
Update(r) ==
  UpdateOff(r) \/ Request(r) \/ FetchFails(r) \/ FetchUnmodified(r) \/ Fetch(r)
    \/ OpenEtag(r) \/ CacheEtag(r) \/ VerifyFails(r) \/ Verify(r)
    \/ CopyMissing(r) \/ Copy(r) \/ CopyEnd(r)

Collect(r) == CollectFails(r) \/ NothingToRotate(r) \/ Rotate(r) \/ RotateSig(r)

Next ==
  \/ Publish
  \/ \E r \in Run : StartRun(r) \/ Stop(r) \/ Update(r) \/ Collect(r)

Spec == Init /\ [][Next]_vars

-----------------------------------------------------------------------------
(* Properties.                                                             *)

TypeOK ==
  /\ released \in 0 .. MaxRelease
  /\ etag \in [File -> Release \cup {None}]
  /\ newest \in [File -> Release \cup {None, Partial}]
  /\ stable \in [File -> Release \cup {None, Partial}]
  /\ pc \in [Run -> {"idle", "fetch", "asked", "fetched", "cache", "verify",
                     "copy", "copying", "collect", "rotate"}]
  /\ file \in [Run -> File]
  /\ asked \in [Run -> Release \cup {None}]
  /\ fetched \in [Run -> [File -> Release \cup {None}]]
  /\ into \in [Run -> {"newest", "stable", "gone"}]
  /\ torn \subseteq Run
  /\ disturbed \in BOOLEAN /\ overlapped \in BOOLEAN /\ withdrawn \in BOOLEAN
  /\ \A r \in Run : pc[r] \in {"idle", "verify", "collect"} => file[r] = "core"

\* As long as no run was stopped half-way or told not to check signatures, and no
\* two runs updated or rotated at one time, an egg and its signature are of one
\* release whenever no file is on its way: whatever the server releases or takes
\* back between the two requests, whichever of them fails, and whichever run gave
\* up before it rotated, or rotates what another one installed.
PairsVerify ==
  /\ ~disturbed /\ ~overlapped
  /\ \A r \in Run : pc[r] \notin {"copy", "copying", "rotate"}
  => newest["core"] = newest["sig"] /\ stable["core"] = stable["sig"]

\* While the server does not go back, the egg waiting to become the last stable
\* one is not older than the one it will replace, across any number of runs that
\* updated and rotated one after the other, stopped ones included.
NeverDowngraded ==
  ~overlapped /\ ~withdrawn /\ newest["core"] \in Release =>
    newest["core"] >= stable["core"]

-----------------------------------------------------------------------------
(* What the documentation says and the code does not do.                   *)

\* fetch: "{'core': path to new egg, None if no update, ...": when the server
\* says there is nothing new, no run was ever disturbed and no two updated or
\* rotated at one time, its core is installed.
NoneIfNoUpdate ==
  [][\A r \in Run :
       ~disturbed /\ ~overlapped /\ FetchUnmodified(r) /\ file[r] = "core" =>
         released \in {newest["core"], stable["core"]}]_vars
=============================================================================
