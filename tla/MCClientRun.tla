---------------------------- MODULE MCClientRun ----------------------------
(* Instances of ClientRun for TLC.                                         *)
EXTENDS ClientRun

OnPlatform(commands) == [command : commands, legacy : {FALSE}]
OnLegacy(commands) == [command : commands, legacy : {TRUE}]

\* Every command, off the legacy API or on it; those that differ most on both.
Options ==
  OnPlatform({"plain", "register", "force", "support", "checkin", "no_upload", "enable", "payload"})
    \cup OnLegacy({"plain", "register_unscheduled", "unregister", "status", "disable"})
=============================================================================
