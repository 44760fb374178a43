------------------------------ MODULE MCRunner ------------------------------
(* The runner with a restart and a few calls at a time. *)
EXTENDS Runner

CONSTANTS get1, listen1, listen2, rtoken, stop1, stop2

(* Shutdowns and an operation; listens; all kinds; a token never assigned. *)
MCCasts ==
    {{get1, stop1, stop2}, {listen1, listen2}, {get1, listen1, stop1}, {listen1, rtoken}}
=============================================================================
