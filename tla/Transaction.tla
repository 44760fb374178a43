---------------------------- MODULE Transaction ----------------------------
(***************************************************************************)
(* The consensus protocol: certification, verification and recording of    *)
(* transactions (transaction.cpp) driven by the DHT listeners (client.cpp) *)
(* of several peers.                                                       *)
(*                                                                         *)
(* A peer's user id is the DHT key it listens at.  The listeners decode    *)
(* either certifiedTx or verifiedTx values, so the DHT is two sets.  A     *)
(* value once put may be handled at any later time and any number of       *)
(* times: the handlers ignore the "expired" flag, so the arrival of a      *)
(* value, its expiry and its re-announcement all run them.  A value that   *)
(* is lost, or that cannot be decoded because it was built from a dangling *)
(* c_str() or cut at a zero byte by strlen, is one that is never handled.  *)
(* A handler that decodes a value and then does nothing is a stuttering    *)
(* step and has no action.                                                 *)
(***************************************************************************)
EXTENDS Block

CONSTANTS
    Peer,            \* user ids, each the key of one process
    Zero,            \* InfoHash("verified network root") and the InfoHash of
                     \* a peer nobody set: both are the zero hash
    Outside,         \* whoever puts values the modelled peers did not
    Hash,            \* certifiedTx.hash: what a transaction is known by
    Digest,          \* Digest[h] is sha256(pack(h)), the key certify looks up
    Terms,           \* the pair (request, response) as certify compares it
    TxRoot,          \* roots of transaction stores, never the key of a block
    Foreign,         \* the certifiedTx values that come from outside, each
                     \* with the key it is put at
    ForeignVerdicts, \* the verifiedTx values that come from outside, likewise
    Watched,         \* the pairs (peer, key) for which a host may call
                     \* listenToCertifications itself
    NoEntry,         \* Select found nothing
    Garbled,         \* an entry that as<certifiedTx>() refuses
    Settings         \* the circumstances of a behaviour, see Init

InfoHash == Peer \cup {Zero}

(* verifiedTx.  The timestamp is left out: nothing reads it. *)
VerifiedTx ==
    [txhash: Hash, verifying_peer: InfoHash, party: InfoHash,
     counterparty: InfoHash, verification_status: BOOLEAN]

BlockKey == Nat \X VerifiedTx \X InfoHash

(* certifiedTx without its timestamp.  "fresh" is whether                  *)
(* previous_verifyingPeers is empty, all that the handlers depend on; type *)
(* "" is what transaction::in sends, which never sets the field.           *)
CertifiedTx ==
    [root: {TxRoot} \cup BlockKey, type: {"certify", "certified", ""},
     hash: Hash, certifying_peer: InfoHash, fresh: BOOLEAN,
     counterparty: InfoHash, party: InfoHash, terms: Terms,
     certification_status: BOOLEAN]

ASSUME ZeroAssumption == Zero \notin Peer
ASSUME OutsideAssumption == Outside \notin Peer
ASSUME DigestAssumption ==
    \* sha256 of a packed hash is never the hash itself, and is injective
    /\ DOMAIN Digest = Hash
    /\ \A h \in Hash : Digest[h] # h
    /\ \A g, h \in Hash : Digest[g] = Digest[h] => g = h
ASSUME EntryAssumption == NoEntry \notin CertifiedTx /\ Garbled \notin CertifiedTx
ASSUME SettingsAssumption ==
    Settings \subseteq
        [joinableAborts: BOOLEAN, failing: SUBSET Peer, forgetful: SUBSET Peer,
         maxForeign: Nat, maxBlocks: Nat]
(* What other nodes put can be decoded; nothing else is assumed of it. *)
ASSUME ForeignAssumption ==
    /\ Watched \subseteq Peer \X InfoHash
    /\ Foreign \subseteq [at: InfoHash, tx: CertifiedTx]
    /\ ForeignVerdicts \subseteq [at: InfoHash, tx: VerifiedTx]

VARIABLES
    certs,                  \* certifiedTx values put on the DHT
    verdicts,               \* verifiedTx values put on the DHT
    certificationRequests,  \* per peer, the trie of pending requests
    transactionStore,       \* per peer, the hashes of its settled transactions
    blockchain,             \* per peer, chain::blockchain
    listening,              \* per peer, the keys listenToCertifications is on
    alive,                  \* per peer, whether its process runs
    setting                 \* the circumstances, chosen once

(* TRUE: assigning to or destroying a joinable std::thread calls           *)
(* std::terminate, as C++ has it.  FALSE: what the protocol does once the  *)
(* handles of client.cpp are detached.                                     *)
JoinableAborts == setting.joinableAborts

(* The peers whose tries may refuse Insert and Update, and those whose     *)
(* tries may be empty after a restart.                                     *)
Failing == setting.failing
Forgetful == setting.forgetful

(* Bounds: values put from outside, blocks on one chain. *)
MaxForeign == setting.maxForeign
MaxBlocks == setting.maxBlocks

stores == <<certificationRequests, transactionStore, blockchain>>
vars == <<certs, verdicts, stores, listening, alive, setting>>

Cert == [at: InfoHash, by: Peer \cup {Outside}, tx: CertifiedTx]
Verdict == [at: InfoHash, by: Peer \cup {Outside}, tx: VerifiedTx]

TypeOK ==
    /\ certs \subseteq Cert
    /\ verdicts \subseteq Verdict
    /\ certificationRequests \in
         [Peer -> [Hash -> CertifiedTx \cup {NoEntry, Garbled}]]
    /\ transactionStore \in [Peer -> SUBSET Hash]
    /\ blockchain \in [Peer -> SUBSET BlockType(VerifiedTx, InfoHash)]
    /\ listening \in [Peer -> SUBSET InfoHash]
    /\ alive \in [Peer -> BOOLEAN]
    /\ setting \in Settings

(* Every peer runs with the three listeners on its own id registered.  No  *)
(* process gets there through client::startListening, whose second         *)
(* assignment to a joinable handle terminates it; the three functions are  *)
(* public and static, and a host that calls them itself does.              *)
Init ==
    /\ certs = {} /\ verdicts = {}
    /\ certificationRequests = [p \in Peer |-> [h \in Hash |-> NoEntry]]
    /\ transactionStore = [p \in Peer |-> {}]
    /\ blockchain = [p \in Peer |-> {}]
    /\ listening = [p \in Peer |-> {}]
    /\ alive = [p \in Peer |-> TRUE]
    /\ setting \in Settings

-----------------------------------------------------------------------------
(* node::get_node().put of one value at several keys. *)
PutCert(p, tx, keys) == {[at |-> k, by |-> p, tx |-> tx] : k \in keys}
PutVerdict(p, tx, keys) == {[at |-> k, by |-> p, tx |-> tx] : k \in keys}

(* What Insert may return at p. *)
Stored(p) == IF p \in Failing THEN BOOLEAN ELSE {TRUE}

(* Mutant of Select: looks up the key that Insert uses. *)
SelectByHash(p, h) == certificationRequests[p][h]

(* certificationRequests.Select(sha256(pack(hash))). *)
Select(p, h) ==
    IF Digest[h] \in Hash THEN certificationRequests[p][Digest[h]] ELSE NoEntry

(* Both sides name the same request and response. *)
Match(req, stored) == req.terms = stored.terms

(* Mutant of Final: the match is enough. *)
FinalOnMatch(req, stored) == Match(req, stored)

(* No previous verifying peers on either side and a match: certify itself  *)
(* calls verified.                                                         *)
Final(req, stored) == req.fresh /\ stored.fresh /\ Match(req, stored)

(* client::listenForVerifications starts one thread per side and assigns   *)
(* both to one handle of a local client: the process ends in the handler,  *)
(* before the DHT thread it runs on gets to send what was queued.          *)
Aborts(tx) == JoinableAborts /\ tx.verification_status

(* transaction::verified at p, called by a handler that has put "replies"  *)
(* before: the block is added whatever the verdict, Insert's result is     *)
(* ignored, both sides are told, and a positive verdict makes p listen for *)
(* certifications of both.                                                 *)
verified(p, tx, verifier, replies) ==
    /\ getSize(blockchain[p]) < MaxBlocks
    /\ \E now \in Time, ok \in Stored(p) :
         blockchain' = [blockchain EXCEPT ![p] =
             IF ok THEN addBlock(@, tx, verifier, now) ELSE @]
    /\ IF Aborts(tx)
         THEN /\ alive' = [alive EXCEPT ![p] = FALSE]
              /\ listening' = [listening EXCEPT ![p] = {}]
              /\ UNCHANGED <<certs, verdicts>>
         ELSE /\ certs' = certs \cup replies
              /\ verdicts' = verdicts
                   \cup PutVerdict(p, tx, {tx.party, tx.counterparty})
              /\ listening' = [listening EXCEPT ![p] =
                   IF tx.verification_status
                     THEN @ \cup {tx.party, tx.counterparty} ELSE @]
              /\ UNCHANGED alive

-----------------------------------------------------------------------------
(* The listener of p on its own id runs transaction::certify for m.        *)
CertificationRequest(p, m) ==
    alive[p] /\ m \in certs /\ m.at = p /\ m.tx.type = "certify"

(* certify, nothing found: Insert stores the request under its own hash,   *)
(* over whatever was there.                                                *)
CertifyStore(p, m) ==
    /\ CertificationRequest(p, m)
    /\ Select(p, m.tx.hash) = NoEntry
    /\ certificationRequests' =
         [certificationRequests EXCEPT ![p][m.tx.hash] = m.tx]
    /\ UNCHANGED <<certs, verdicts, transactionStore, blockchain, listening, alive>>

(* certify, nothing found and Insert fails: both sides are told. *)
CertifyRefuse(p, m) ==
    /\ p \in Failing
    /\ CertificationRequest(p, m)
    /\ Select(p, m.tx.hash) = NoEntry
    /\ certs' = certs \cup
         PutCert(p, [m.tx EXCEPT !.certification_status = FALSE,
                                 !.certifying_peer = p],
                 {m.tx.party, m.tx.counterparty})
    /\ UNCHANGED <<verdicts, stores, listening, alive>>

(* The request stored before, with the outcome certify gives it. *)
Decided(p, req, stored) ==
    [stored EXCEPT !.certification_status = Match(req, stored),
                   !.certifying_peer = p]

(* Update writes the decided request from a dangling pointer: the trie     *)
(* holds it, or something that cannot be decoded, or the old entry.        *)
UpdateRequest(p, req, stored) ==
    \E entry \in {Decided(p, req, stored), Garbled}
                   \cup (IF p \in Failing THEN {stored} ELSE {}) :
        certificationRequests' =
            [certificationRequests EXCEPT ![p][stored.hash] = entry]

(* Where certify announces its decision: the party of the new request and  *)
(* the counterparty of the stored one.  The stored one is what is put.     *)
Replies(p, req, stored) ==
    PutCert(p, Decided(p, req, stored), {req.party, stored.counterparty})

(* certify, a stored request found, and verification is still to come. *)
CertifyDecide(p, m) ==
    /\ CertificationRequest(p, m)
    /\ Select(p, m.tx.hash) \in CertifiedTx
    /\ LET stored == Select(p, m.tx.hash)
       IN  /\ ~Final(m.tx, stored)
           /\ UpdateRequest(p, m.tx, stored)
           /\ certs' = certs \cup Replies(p, m.tx, stored)
    /\ UNCHANGED <<verdicts, transactionStore, blockchain, listening, alive>>

(* certify, a stored request found, and nothing to verify against: the     *)
(* transaction is considered verified at once.                             *)
CertifyFinal(p, m) ==
    /\ CertificationRequest(p, m)
    /\ Select(p, m.tx.hash) \in CertifiedTx
    /\ LET stored == Select(p, m.tx.hash)
       IN  /\ Final(m.tx, stored)
           /\ UpdateRequest(p, m.tx, stored)
           /\ verified(p, [txhash |-> m.tx.hash, verifying_peer |-> p,
                           party |-> m.tx.party,
                           counterparty |-> m.tx.counterparty,
                           verification_status |-> TRUE],
                       Zero, Replies(p, m.tx, stored))
    /\ UNCHANGED transactionStore

(* Mutant of VerdictGoesTo: the party, not the certifier, gets the verdict. *)
VerdictToParty(tx) == tx.party

(* transaction::verify sends its verdict to the transaction's certifier. *)
VerdictGoesTo(tx) == tx.certifying_peer

(* listenToCertifications: p, a verifier of earlier transactions of the    *)
(* side whose key it listens at, looks for the root on its own chain.      *)
Verify(p, m) ==
    /\ alive[p] /\ m \in certs /\ m.at \in listening[p]
    /\ m.tx.type = "certified" /\ m.tx.certification_status
    /\ verdicts' = verdicts \cup
         PutVerdict(p, [txhash |-> m.tx.hash, verifying_peer |-> p,
                        party |-> m.tx.party,
                        counterparty |-> m.tx.counterparty,
                        verification_status |->
                            m.tx.root \in Keys(blockchain[p])],
                    {VerdictGoesTo(m.tx)})
    /\ UNCHANGED <<certs, stores, listening, alive>>

(* listenToVerifications of one side of the transaction, which keeps the   *)
(* positive verdicts and does nothing with the others.                     *)
StoreVerdict(p, m) ==
    /\ alive[p] /\ m \in verdicts /\ m.at = p
    /\ p \in {m.tx.party, m.tx.counterparty}
    /\ m.tx.verification_status
    /\ transactionStore' = [transactionStore EXCEPT ![p] = @ \cup {m.tx.txhash}]
    /\ UNCHANGED <<certs, verdicts, certificationRequests, blockchain,
                   listening, alive>>

(* listenToVerifications of anybody else, the certifier as a rule. *)
RecordVerdict(p, m) ==
    /\ alive[p] /\ m \in verdicts /\ m.at = p
    /\ p \notin {m.tx.party, m.tx.counterparty}
    /\ verified(p, m.tx, p, {})
    /\ UNCHANGED <<certificationRequests, transactionStore>>

(* How many values have come from outside. *)
ForeignCount ==
    Cardinality({m \in certs : m.by = Outside})
        + Cardinality({m \in verdicts : m.by = Outside})

(* A certifiedTx value from outside: the peers modelled here put none of   *)
(* type "certify" or "certified" of their own accord.  Its root is that of *)
(* a transaction store or the key of a block.                              *)
ForeignPut(f) ==
    /\ ForeignCount < MaxForeign
    /\ \E root \in {TxRoot} \cup UNION {Keys(blockchain[p]) : p \in Peer} :
         certs' = certs \cup PutCert(Outside, [f.tx EXCEPT !.root = root], {f.at})
    /\ UNCHANGED <<verdicts, stores, listening, alive>>

(* A verifiedTx value from outside, at the key of a side or of anybody     *)
(* else: no listener looks at who sent it.                                 *)
ForeignVerdict(f) ==
    /\ ForeignCount < MaxForeign
    /\ verdicts' = verdicts \cup PutVerdict(Outside, f.tx, {f.at})
    /\ UNCHANGED <<certs, stores, listening, alive>>

(* The host calls the public static listenToCertifications itself. *)
HostListen(p, k) ==
    /\ alive[p]
    /\ listening' = [listening EXCEPT ![p] = @ \cup {k}]
    /\ UNCHANGED <<certs, verdicts, stores, alive>>

(* The process of p ends, if it has not yet, and is started again.  The    *)
(* tries are static members built by VTrie(): whether their roots come     *)
(* back is up to the storage library.                                      *)
Restart(p) ==
    /\ alive' = [alive EXCEPT ![p] = TRUE]
    /\ listening' = [listening EXCEPT ![p] = {}]
    /\ \/ UNCHANGED stores
       \/ /\ p \in Forgetful
          /\ certificationRequests' =
               [certificationRequests EXCEPT ![p] = [h \in Hash |-> NoEntry]]
          /\ transactionStore' = [transactionStore EXCEPT ![p] = {}]
          /\ blockchain' = [blockchain EXCEPT ![p] = {}]
    /\ UNCHANGED <<certs, verdicts>>

Next ==
    /\ \/ \E p \in Peer, m \in certs :
             \/ CertifyStore(p, m)
             \/ CertifyRefuse(p, m)
             \/ CertifyDecide(p, m)
             \/ CertifyFinal(p, m)
             \/ Verify(p, m)
       \/ \E p \in Peer, m \in verdicts : StoreVerdict(p, m) \/ RecordVerdict(p, m)
       \/ \E f \in Foreign : ForeignPut(f)
       \/ \E f \in ForeignVerdicts : ForeignVerdict(f)
       \/ \E w \in Watched : HostListen(w[1], w[2])
       \/ \E p \in Peer : Restart(p)
    /\ UNCHANGED setting

Spec == Init /\ [][Next]_vars

-----------------------------------------------------------------------------
(* Requests for certification that came from outside. *)
Requested == {m.tx : m \in {x \in certs : x.by = Outside /\ x.tx.type = "certify"}}

(* transaction::certify calls a transaction certified only when two        *)
(* requests with the same terms reached the DHT, and never on the strength *)
(* of one request handled twice (arrival and expiry), of its own replies,  *)
(* which go out with type "certify" and are certified again by whoever     *)
(* receives them, or of a status that came in with a request.              *)
CertifiedByTwo ==
    \A m \in certs :
        m.by \in Peer /\ m.tx.certification_status =>
            \E a, b \in Requested :
                /\ Digest[a.hash] = b.hash
                /\ b.hash = m.tx.hash
                /\ a.terms = b.terms /\ b.terms = m.tx.terms

(* Somebody outside certified or verified h, or two first-time requests    *)
(* agreed on it.                                                           *)
Agreed(h) ==
    \/ \E m \in certs : /\ m.by = Outside /\ m.tx.hash = h
                        /\ m.tx.type = "certified" /\ m.tx.certification_status
    \/ \E m \in verdicts : /\ m.by = Outside /\ m.tx.txhash = h
                           /\ m.tx.verification_status
    \/ \E a, b \in Requested :
          /\ a.hash = h /\ b.hash = Digest[h]
          /\ a.terms = b.terms
          /\ a.fresh /\ b.fresh

(* A side of a transaction has it in its transactionStore only if it was   *)
(* agreed: through certify, verified, the listener of the certifier and    *)
(* that of the side, crashes and repeated values included, no transaction  *)
(* settles that was neither certified nor vouched for from outside.        *)
SettledIsAgreed == \A p \in Peer : \A h \in transactionStore[p] : Agreed(h)

(* The block that transaction::verified writes first survives the end of   *)
(* the process in client::listenForVerifications, and the request it came  *)
(* from is handled again after a restart, from an entry that Update may    *)
(* have garbled or left: still no chain ever holds a positive verdict on a *)
(* transaction that was not agreed.                                        *)
ChainedIsAgreed ==
    \A p \in Peer : \A b \in blockchain[p] :
        b.data.verification_status => Agreed(b.data.txhash)

(* Two values from outside reach side p without a certifier between: a     *)
(* positive verdict put at its key, whose sender listenToVerifications     *)
(* does not look at, and a certification that names the side itself as     *)
(* certifying_peer, where transaction::verify sends its verdict.           *)
Bypassed(p, h) ==
    \/ \E m \in verdicts : /\ m.by = Outside /\ m.at = p
                           /\ m.tx.txhash = h /\ m.tx.verification_status
    \/ \E m \in certs : /\ m.by = Outside /\ m.tx.certifying_peer = p
                        /\ p \in {m.tx.party, m.tx.counterparty}
                        /\ m.tx.hash = h /\ m.tx.type = "certified"
                        /\ m.tx.certification_status

(* As long as tries neither fail nor forget, what a side has stored as     *)
(* settled is on the chain of some peer with a positive verdict naming     *)
(* that side, because transaction::verified adds the block before it tells *)
(* anyone; only what bypassed the certifiers may be on no chain.           *)
SettledIsChained ==
    Failing = {} /\ Forgetful = {} =>
        \A p \in Peer : \A h \in transactionStore[p] :
            \/ Bypassed(p, h)
            \/ \E q \in Peer : \E b \in blockchain[q] :
                  /\ b.data.txhash = h /\ b.data.verification_status
                  /\ p \in {b.data.party, b.data.counterparty}

(* Among all that the handlers of several peers do, each peer's trie stays *)
(* a chain of blocks numbered without gap or repetition.                   *)
ChainsNumbered == \A p \in Peer : Contiguous(blockchain[p])

-----------------------------------------------------------------------------
(* What comments of the code say, and the code does not do. *)

(* transaction.cpp, certify: "if no counter party has sent this request    *)
(* before, store the certification request in store", "else, retrieve      *)
(* stored certification request": a request stored for a hash is never     *)
(* replaced by another request for it.                                     *)
StoredRequestKept ==
    [][\A p \in Peer, h \in Hash :
         LET old == certificationRequests[p][h]
             new == certificationRequests'[p][h]
         IN  old \in CertifiedTx /\ new \in CertifiedTx => new.terms = old.terms]_vars

(* p has a verified transaction of this side on its chain. *)
Knows(p, side) ==
    \E b \in blockchain[p] : /\ b.data.verification_status
                             /\ side \in {b.data.party, b.data.counterparty}

(* transaction.cpp, verify: "find out if the requestor's or responder's    *)
(* transaction store root is provable on the blockchain since transaction  *)
(* roots are keys for blocks chained": a verifier that has a side's        *)
(* verified transaction on its chain can prove that side's root.           *)
RootOfKnownSideProved ==
    [][\A p \in Peer : \A m \in certs :
         Verify(p, m) /\ m.tx.root = TxRoot /\ Knows(p, m.tx.party) =>
             \E v \in verdicts' : /\ v.by = p /\ v.at = VerdictGoesTo(m.tx)
                                  /\ v.tx.txhash = m.tx.hash
                                  /\ v.tx.verification_status]_vars
=============================================================================
