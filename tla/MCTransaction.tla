--------------------------- MODULE MCTransaction ---------------------------
(* Transaction on a small network: alice and bob trade, carol certifies.   *)
EXTENDS Transaction, TLC

CONSTANTS alice, bob, carol, h1, h2, k, t1, t2

MCPeer == {alice, bob, carol}
MCHash == {h1, h2}

(* h2 happens to be the digest of h1: without such a pair Select never     *)
(* finds a stored request.                                                 *)
MCDigest == (h1 :> h2) @@ (h2 :> k)

(* What may come from outside: requests to certify either hash, with terms *)
(* that agree or not, for a first or a later transaction, at the certifier *)
(* and at a side; the certification of a later transaction, by carol or by *)
(* the side that is to be convinced; verdicts at the certifier and at a    *)
(* side.                                                                   *)
Request(h, terms, fresh) ==
    [root |-> TxRoot, type |-> "certify", hash |-> h, certifying_peer |-> Zero,
     fresh |-> fresh, counterparty |-> bob, party |-> alice, terms |-> terms,
     certification_status |-> FALSE]

Certification(h, certifier) ==
    [Request(h, t1, FALSE) EXCEPT !.type = "certified",
                                  !.certifying_peer = certifier,
                                  !.certification_status = TRUE]

Verification(h, status) ==
    [txhash |-> h, verifying_peer |-> Zero, party |-> alice,
     counterparty |-> bob, verification_status |-> status]

At(p, tx) == [at |-> p, tx |-> tx]

MCForeign == {At(carol, Request(h1, t1, TRUE)), At(carol, Request(h2, t1, TRUE)),
              At(carol, Request(h2, t2, TRUE)), At(carol, Request(h2, t1, FALSE)),
              At(alice, Request(h1, t1, TRUE)),
              At(alice, Certification(h2, carol)), At(alice, Certification(h1, alice))}

MCForeignVerdicts == {At(alice, Verification(h1, TRUE)), At(carol, Verification(h2, TRUE)),
                      At(carol, Verification(h1, FALSE))}

MCWatched == {<<carol, alice>>}

(* The handles detached and tries that neither fail nor forget; and the    *)
(* code as it is, with a certifier whose tries do both.                    *)
Detached == [joinableAborts |-> FALSE, failing |-> {}, forgetful |-> {},
             maxForeign |-> 3, maxBlocks |-> 3]
Faulty == [joinableAborts |-> TRUE, failing |-> {carol}, forgetful |-> {carol},
           maxForeign |-> 2, maxBlocks |-> 2]

MCSettings == {Detached, Faulty}
MCDetached == {Detached}
=============================================================================
