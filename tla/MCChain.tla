------------------------------ MODULE MCChain ------------------------------
(* Chain on a small instance: two transactions, two verifiers, a clock of  *)
(* two readings that may run backwards.                                    *)
EXTENDS Chain
=============================================================================
