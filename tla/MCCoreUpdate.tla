---------------------------- MODULE MCCoreUpdate ----------------------------
(* Two runs of the client, which are interchangeable. *)
EXTENDS CoreUpdate, TLC

CONSTANTS r1, r2

MCRun == {r1, r2}
Symmetric == Permutations(MCRun)
=============================================================================
