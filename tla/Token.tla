------------------------------- MODULE Token -------------------------------
(***************************************************************************)
(* The token store of one process (token.cpp): the trie cstore and the     *)
(* operations on it, as operators from a store to the stores an operation  *)
(* may leave.                                                              *)
(*                                                                         *)
(* Every read is Select(account), every write Update(sha256(account)).     *)
(* Account names are 40 digits long and digests 64, so no name is a        *)
(* digest: an account has one entry under its name, which is read, and one *)
(* under its digest, which is written.  Nothing in the program inserts an  *)
(* entry; stores are provisioned from outside.                             *)
(***************************************************************************)
EXTENDS Integers

CONSTANTS
    Account,    \* account names: user ids
    Amount,     \* amounts a host passes, negative ones included
    LongMax,    \* largest value of the 32-bit long
    NoAccount,  \* no entry
    Foreign     \* an entry in another currency than the token's name

ASSUME LongAssumption == LongMax \in Nat

Long == (-LongMax - 1)..LongMax

ASSUME AmountAssumption == Amount \subseteq Long
ASSUME AccountAssumption == NoAccount \notin Long /\ Foreign \notin Long

(* Mutant of Wrap: a long that never overflows. *)
NoWrap(x) == x

(* What a long holds after an addition; x is off by one turn at most. *)
Wrap(x) ==
    IF x > LongMax THEN x - 2 * (LongMax + 1)
    ELSE IF x < -LongMax - 1 THEN x + 2 * (LongMax + 1)
    ELSE x

Entry == Long \cup {NoAccount, Foreign}
Store == [Account -> [name: Entry, digest: Entry]]

(* cstore.Update(sha256(a), balance): it may fail, and it is not known     *)
(* whether it creates an entry that is missing.                            *)
Update(store, a, balance) == {store, [store EXCEPT ![a].digest = balance]}

(* balanceOf: without an entry in the token's currency the function ends   *)
(* without a return statement, and the caller gets any value.              *)
balanceOf(store, a) ==
    IF store[a].name \in Long THEN {store[a].name} ELSE Long

(* The test both transfers make, on the account they credit or debit. *)
Covers(store, a, amount) ==
    store[a].name \in Long /\ store[a].name >= amount

(* transfer: it is the account to be credited that must cover the amount.  *)
transfer(store, to, amount) ==
    IF Covers(store, to, amount)
      THEN Update(store, to, Wrap(store[to].name + amount))
      ELSE {store}

(* transferFrom: the result of transfer is ignored, and the debit is       *)
(* computed from the balance read before it.                               *)
transferFrom(store, from, to, amount) ==
    IF Covers(store, from, amount)
      THEN UNION {Update(s, from, Wrap(store[from].name - amount))
                    : s \in transfer(store, to, amount)}
      ELSE {store}
=============================================================================
