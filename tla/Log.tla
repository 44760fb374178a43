-------------------------------- MODULE Log --------------------------------
(***************************************************************************)
(* What a peer's chain promises: an append-only log of the transactions    *)
(* it has recorded, each with its verifier.  A process that starts anew    *)
(* may find the log empty.                                                 *)
(***************************************************************************)
EXTENDS Sequences

CONSTANT Entry

VARIABLE log

Init == log = << >>

Record(e) == log' = Append(log, e)

Lose == log' = << >>

Next == (\E e \in Entry : Record(e)) \/ Lose

Spec == Init /\ [][Next]_log
=============================================================================
