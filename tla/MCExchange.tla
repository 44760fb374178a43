---------------------------- MODULE MCExchange ----------------------------
(* Exchange between alice and bob over a three-bit long. *)
EXTENDS Exchange

CONSTANTS alice, bob

MCAccount == {alice, bob}

(* One token moved forth or back. *)
MCAmount == {-1, 1}

(* One token spent. *)
MCSpend == {1}

(* Nothing, an empty account, the least that opens the gate, a full one. *)
MCProvisioned == {NoAccount, 0, 1, LongMax}

(* Balances that open the gate. *)
MCFunded == {1}
=============================================================================
