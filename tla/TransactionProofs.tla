------------------------- MODULE TransactionProofs -------------------------
(***************************************************************************)
(* Proofs about Transaction for every set of peers, hashes and terms, every *)
(* digest, every set of values from outside, with and without aborting     *)
(* thread handles, failing tries and forgetful ones.                       *)
(***************************************************************************)
EXTENDS Transaction, BlockProofs

-----------------------------------------------------------------------------
(* Part 1: types and chains.                                               *)

(* What getSize returns is the number of a new block only in a finite,     *)
(* well-numbered trie, so TypeOK is inductive only together with this.     *)
Chains ==
    \A p \in Peer : IsFiniteSet(blockchain[p]) /\ Contiguous(blockchain[p])

Base == TypeOK /\ Chains

(* A request that Select finds sits under the digest of the hash asked for. *)
LEMMA SelectFinds ==
    ASSUME TypeOK, NEW p \in Peer, NEW h \in Hash, Select(p, h) \in CertifiedTx
    PROVE  /\ Digest[h] \in Hash
           /\ Select(p, h) = certificationRequests[p][Digest[h]]
<1>1. CASE Digest[h] \in Hash
  BY <1>1 DEF Select
<1>2. CASE Digest[h] \notin Hash
  BY <1>2, EntryAssumption DEF Select
<1>. QED  BY <1>1, <1>2

(* Deciding a stored request changes its status and its certifier only. *)
LEMMA DecidedFields ==
    ASSUME NEW p \in Peer, NEW req \in CertifiedTx, NEW stored \in CertifiedTx
    PROVE  LET d == Decided(p, req, stored)
           IN  /\ d \in CertifiedTx
               /\ d.type = stored.type /\ d.hash = stored.hash
               /\ d.terms = stored.terms /\ d.fresh = stored.fresh
               /\ d.certification_status = (req.terms = stored.terms)
  BY DEF Decided, Match, CertifiedTx, InfoHash

(* What certify puts after a decision. *)
LEMMA RepliesType ==
    ASSUME NEW p \in Peer, NEW req \in CertifiedTx, NEW stored \in CertifiedTx
    PROVE  Replies(p, req, stored) \in SUBSET Cert
<1>1. Decided(p, req, stored) \in CertifiedTx
  BY DecidedFields
<1>2. req.party \in InfoHash /\ stored.counterparty \in InfoHash
  BY DEF CertifiedTx
<1>. QED  BY <1>1, <1>2 DEF Replies, PutCert, Cert

(* The entry that Update leaves. *)
LEMMA UpdateType ==
    ASSUME TypeOK, NEW p \in Peer, NEW req \in CertifiedTx,
           NEW stored \in CertifiedTx, UpdateRequest(p, req, stored)
    PROVE  certificationRequests' \in
             [Peer -> [Hash -> CertifiedTx \cup {NoEntry, Garbled}]]
<1>1. Decided(p, req, stored) \in CertifiedTx
  BY DecidedFields
<1>2. PICK entry \in CertifiedTx \cup {NoEntry, Garbled} :
        certificationRequests' =
            [certificationRequests EXCEPT ![p][stored.hash] = entry]
  BY <1>1 DEF UpdateRequest
<1>. QED  BY <1>2 DEF TypeOK, CertifiedTx

(* The whole of transaction::verified: what it does to the chain of p, to  *)
(* the DHT and to the listeners.                                           *)
LEMMA VerifiedStep ==
    ASSUME Base, NEW p \in Peer, NEW tx \in VerifiedTx, NEW verifier \in InfoHash,
           NEW replies \in SUBSET Cert, verified(p, tx, verifier, replies)
    PROVE  /\ certs' \subseteq Cert
           /\ verdicts' \subseteq Verdict
           /\ blockchain' \in [Peer -> SUBSET BlockType(VerifiedTx, InfoHash)]
           /\ listening' \in [Peer -> SUBSET InfoHash]
           /\ alive' \in [Peer -> BOOLEAN]
           /\ Chains'
           /\ \A q \in Peer : blockchain[q] \subseteq blockchain'[q]
           /\ \A q \in Peer : \A b \in blockchain'[q] :
                b \in blockchain[q] \/ b.data = tx
           /\ p \notin Failing => \E b \in blockchain'[p] : b.data = tx
           /\ certs' = certs \/ certs' = certs \cup replies
           /\ \/ verdicts' = verdicts
              \/ verdicts' = verdicts
                   \cup PutVerdict(p, tx, {tx.party, tx.counterparty})
<1>. DEFINE BT == BlockType(VerifiedTx, InfoHash)
<1>1. /\ blockchain \in [Peer -> SUBSET BT]
      /\ IsFiniteSet(blockchain[p]) /\ Contiguous(blockchain[p])
  BY DEF Base, TypeOK, Chains
<1>2. PICK now \in Time, ok \in Stored(p) :
        blockchain' = [blockchain EXCEPT ![p] =
            IF ok THEN addBlock(blockchain[p], tx, verifier, now)
                  ELSE blockchain[p]]
  BY DEF verified
<1>3. PICK b \in BT :
        /\ b \notin blockchain[p]
        /\ b.index = getSize(blockchain[p]) /\ b.data = tx /\ b.prevHash = verifier
        /\ addBlock(blockchain[p], tx, verifier, now) = blockchain[p] \cup {b}
        /\ IsFiniteSet(blockchain[p] \cup {b})
        /\ getSize(blockchain[p] \cup {b}) = getSize(blockchain[p]) + 1
        /\ Contiguous(blockchain[p] \cup {b})
  BY <1>1, AddBlockAppends
<1>4. blockchain' = [blockchain EXCEPT ![p] =
          IF ok THEN blockchain[p] \cup {b} ELSE blockchain[p]]
  BY <1>2, <1>3
<1>5. /\ blockchain' \in [Peer -> SUBSET BT]
      /\ \A q \in Peer : blockchain[q] \subseteq blockchain'[q]
      /\ \A q \in Peer : \A x \in blockchain'[q] :
           x \in blockchain[q] \/ x.data = tx
  BY <1>1, <1>3, <1>4
<1>6. Chains'
  BY <1>1, <1>3, <1>4 DEF Base, Chains
<1>7. p \notin Failing => \E x \in blockchain'[p] : x.data = tx
  <2>1. p \notin Failing => ok
    BY <1>2 DEF Stored
  <2>. QED  BY <2>1, <1>1, <1>3, <1>4
<1>8. tx.party \in InfoHash /\ tx.counterparty \in InfoHash
  BY DEF VerifiedTx
<1>9. PutVerdict(p, tx, {tx.party, tx.counterparty}) \subseteq Verdict
  BY <1>8 DEF PutVerdict, Verdict
<1>10. listening' \in [Peer -> SUBSET InfoHash] /\ alive' \in [Peer -> BOOLEAN]
  <2>1. listening \in [Peer -> SUBSET InfoHash] /\ alive \in [Peer -> BOOLEAN]
    BY DEF Base, TypeOK
  <2>2. alive' = alive \/ alive' = [alive EXCEPT ![p] = FALSE]
    BY DEF verified
  <2>3. PICK K \in SUBSET InfoHash : listening' = [listening EXCEPT ![p] = K]
    <3>1. \/ listening' = [listening EXCEPT ![p] = {}]
          \/ listening' = [listening EXCEPT ![p] =
               listening[p] \cup {tx.party, tx.counterparty}]
          \/ listening' = [listening EXCEPT ![p] = listening[p]]
      BY DEF verified
    <3>2. listening[p] \in SUBSET InfoHash
      BY <2>1
    <3>. QED  BY <3>1, <3>2, <1>8
  <2>. QED  BY <2>1, <2>2, <2>3
<1>11. /\ certs' = certs \/ certs' = certs \cup replies
       /\ \/ verdicts' = verdicts
          \/ verdicts' = verdicts
               \cup PutVerdict(p, tx, {tx.party, tx.counterparty})
  BY DEF verified
<1>12. certs' \subseteq Cert /\ verdicts' \subseteq Verdict
  BY <1>9, <1>11 DEF Base, TypeOK
<1>. QED  BY <1>5, <1>6, <1>7, <1>10, <1>11, <1>12

(* The root in a value from outside is one a certifiedTx can carry. *)
LEMMA KeysType ==
    ASSUME TypeOK, NEW p \in Peer
    PROVE  Keys(blockchain[p]) \subseteq BlockKey
<1>1. SUFFICES ASSUME NEW b \in BlockType(VerifiedTx, InfoHash)
               PROVE  calculateHash(b) \in BlockKey
  BY DEF TypeOK, Keys
<1>2. /\ b.index \in Nat /\ b.current_time \in Nat
      /\ b.data \in VerifiedTx /\ b.prevHash \in InfoHash
  BY TimeBaseAssumption DEF BlockType, Time
<1>3. b.index * TimeBase + b.current_time \in Nat
  BY <1>2, TimeBaseAssumption
<1>. QED  BY <1>2, <1>3 DEF calculateHash, BlockKey

(* A value from outside is a certifiedTx value. *)
LEMMA ForeignPutType ==
    ASSUME TypeOK, NEW f \in Foreign, ForeignPut(f)
    PROVE  \E m \in Cert : certs' = certs \cup {m} /\ m.by = Outside
<1>1. PICK r \in {TxRoot} \cup UNION {Keys(blockchain[p]) : p \in Peer} :
        certs' = certs \cup PutCert(Outside, [f.tx EXCEPT !.root = r], {f.at})
  BY DEF ForeignPut
<1>2. r \in {TxRoot} \cup BlockKey
  BY <1>1, KeysType
<1>3. f.at \in InfoHash /\ f.tx \in CertifiedTx
  BY ForeignAssumption
<1>4. [f.tx EXCEPT !.root = r] \in CertifiedTx
  BY <1>2, <1>3 DEF CertifiedTx
<1>5. [at |-> f.at, by |-> Outside, tx |-> [f.tx EXCEPT !.root = r]] \in Cert
  BY <1>3, <1>4 DEF Cert
<1>. QED  BY <1>1, <1>5 DEF PutCert

(* The verdict transaction::verify sends, and the one certify makes up. *)
VerifyTx(p, m) ==
    [txhash |-> m.tx.hash, verifying_peer |-> p, party |-> m.tx.party,
     counterparty |-> m.tx.counterparty,
     verification_status |-> m.tx.root \in Keys(blockchain[p])]

FinalTx(p, m) ==
    [txhash |-> m.tx.hash, verifying_peer |-> p, party |-> m.tx.party,
     counterparty |-> m.tx.counterparty, verification_status |-> TRUE]

(* Whatever is on the DHT has the fields the handlers read. *)
LEMMA MessageType ==
    ASSUME TypeOK, NEW p \in Peer, NEW m \in certs
    PROVE  /\ m.tx \in CertifiedTx /\ m.tx.hash \in Hash
           /\ m.tx.party \in InfoHash /\ m.tx.counterparty \in InfoHash
           /\ m.tx.certifying_peer \in InfoHash
           /\ VerifyTx(p, m) \in VerifiedTx /\ FinalTx(p, m) \in VerifiedTx
<1>1. m.tx \in CertifiedTx
  BY DEF TypeOK, Cert
<1>2. /\ m.tx.hash \in Hash /\ m.tx.party \in InfoHash
      /\ m.tx.counterparty \in InfoHash /\ m.tx.certifying_peer \in InfoHash
  BY <1>1 DEF CertifiedTx
<1>. QED  BY <1>1, <1>2 DEF VerifyTx, FinalTx, VerifiedTx, InfoHash

(* The initial stores are typed and their chains empty. *)
LEMMA BaseInit == Init => Base
<1>. SUFFICES ASSUME Init PROVE Base
  OBVIOUS
<1>1. TypeOK
  BY DEF Init, TypeOK
<1>2. Chains
  BY EmptyChain DEF Init, Chains
<1>. QED  BY <1>1, <1>2 DEF Base

(* Every handler keeps types and chains: one step per action. *)
LEMMA BaseStep == Base /\ [Next]_vars => Base'
<1>. SUFFICES ASSUME Base, [Next]_vars PROVE Base'
  OBVIOUS
<1>. USE DEF Base
<1>. setting' = setting
  BY DEF Next, vars
<1>1. ASSUME NEW p \in Peer, NEW m \in certs, CertifyStore(p, m)
      PROVE  Base'
  <2>1. certificationRequests' \in
          [Peer -> [Hash -> CertifiedTx \cup {NoEntry, Garbled}]]
    BY <1>1, MessageType DEF CertifyStore, TypeOK
  <2>. QED  BY <1>1, <2>1 DEF CertifyStore, TypeOK, Chains
<1>2. ASSUME NEW p \in Peer, NEW m \in certs, CertifyRefuse(p, m)
      PROVE  Base'
  <2>1. [m.tx EXCEPT !.certification_status = FALSE, !.certifying_peer = p]
          \in CertifiedTx
    BY MessageType DEF CertifiedTx, InfoHash
  <2>2. certs' \subseteq Cert
    BY <1>2, <2>1, MessageType DEF CertifyRefuse, PutCert, Cert, TypeOK
  <2>. QED  BY <1>2, <2>2 DEF CertifyRefuse, TypeOK, Chains, stores
<1>3. ASSUME NEW p \in Peer, NEW m \in certs, CertifyDecide(p, m)
      PROVE  Base'
  <2>. DEFINE stored == Select(p, m.tx.hash)
  <2>1. /\ stored \in CertifiedTx /\ UpdateRequest(p, m.tx, stored)
        /\ certs' = certs \cup Replies(p, m.tx, stored)
    BY <1>3 DEF CertifyDecide
  <2>2. m.tx \in CertifiedTx
    BY MessageType
  <2>. HIDE DEF stored
  <2>3. certificationRequests' \in
          [Peer -> [Hash -> CertifiedTx \cup {NoEntry, Garbled}]]
    BY <2>1, <2>2, UpdateType
  <2>4. certs' \subseteq Cert
    BY <2>1, <2>2, RepliesType DEF TypeOK
  <2>. QED  BY <1>3, <2>3, <2>4 DEF CertifyDecide, TypeOK, Chains
<1>4. ASSUME NEW p \in Peer, NEW m \in certs, CertifyFinal(p, m)
      PROVE  Base'
  <2>. DEFINE stored == Select(p, m.tx.hash)
  <2>1. /\ stored \in CertifiedTx /\ UpdateRequest(p, m.tx, stored)
        /\ verified(p, FinalTx(p, m), Zero, Replies(p, m.tx, stored))
        /\ UNCHANGED transactionStore
    BY <1>4 DEF CertifyFinal, FinalTx
  <2>2. m.tx \in CertifiedTx /\ FinalTx(p, m) \in VerifiedTx /\ Zero \in InfoHash
    BY MessageType DEF InfoHash
  <2>. HIDE DEF stored
  <2>3. certificationRequests' \in
          [Peer -> [Hash -> CertifiedTx \cup {NoEntry, Garbled}]]
    BY <2>1, <2>2, UpdateType
  <2>4. Replies(p, m.tx, stored) \in SUBSET Cert
    BY <2>1, <2>2, RepliesType
  <2>5. /\ certs' \subseteq Cert /\ verdicts' \subseteq Verdict
        /\ blockchain' \in [Peer -> SUBSET BlockType(VerifiedTx, InfoHash)]
        /\ listening' \in [Peer -> SUBSET InfoHash]
        /\ alive' \in [Peer -> BOOLEAN]
        /\ Chains'
    BY <2>1, <2>2, <2>4, VerifiedStep
  <2>. QED  BY <2>1, <2>3, <2>5 DEF TypeOK
<1>5. ASSUME NEW p \in Peer, NEW m \in certs, Verify(p, m)
      PROVE  Base'
  <2>1. verdicts' = verdicts
          \cup PutVerdict(p, VerifyTx(p, m), {m.tx.certifying_peer})
    BY <1>5 DEF Verify, VerifyTx, VerdictGoesTo
  <2>2. VerifyTx(p, m) \in VerifiedTx /\ m.tx.certifying_peer \in InfoHash
    BY MessageType
  <2>3. verdicts' \subseteq Verdict
    BY <2>1, <2>2 DEF PutVerdict, Verdict, TypeOK
  <2>. QED  BY <1>5, <2>3 DEF Verify, TypeOK, Chains, stores
<1>6. ASSUME NEW p \in Peer, NEW m \in verdicts, StoreVerdict(p, m)
      PROVE  Base'
  <2>1. m.tx.txhash \in Hash
    BY DEF TypeOK, Verdict, VerifiedTx
  <2>. QED  BY <1>6, <2>1 DEF StoreVerdict, TypeOK, Chains
<1>7. ASSUME NEW p \in Peer, NEW m \in verdicts, RecordVerdict(p, m)
      PROVE  Base'
  <2>1. /\ m.tx \in VerifiedTx /\ p \in InfoHash /\ {} \in SUBSET Cert
        /\ verified(p, m.tx, p, {})
        /\ UNCHANGED <<certificationRequests, transactionStore>>
    BY <1>7 DEF RecordVerdict, TypeOK, Verdict, InfoHash
  <2>2. /\ certs' \subseteq Cert /\ verdicts' \subseteq Verdict
        /\ blockchain' \in [Peer -> SUBSET BlockType(VerifiedTx, InfoHash)]
        /\ listening' \in [Peer -> SUBSET InfoHash]
        /\ alive' \in [Peer -> BOOLEAN]
        /\ Chains'
    BY <2>1, VerifiedStep
  <2>. QED  BY <2>1, <2>2 DEF TypeOK
<1>8. ASSUME NEW f \in Foreign, ForeignPut(f)
      PROVE  Base'
  <2>1. certs' \subseteq Cert
    BY <1>8, ForeignPutType DEF TypeOK
  <2>. QED  BY <1>8, <2>1 DEF ForeignPut, TypeOK, Chains, stores
<1>9. ASSUME NEW f \in ForeignVerdicts, ForeignVerdict(f)
       PROVE  Base'
  <2>1. f.at \in InfoHash /\ f.tx \in VerifiedTx
    BY ForeignAssumption
  <2>2. verdicts' \subseteq Verdict
    BY <1>9, <2>1 DEF ForeignVerdict, PutVerdict, Verdict, TypeOK
  <2>. QED  BY <1>9, <2>2 DEF ForeignVerdict, TypeOK, Chains, stores
<1>10. ASSUME NEW w \in Watched, HostListen(w[1], w[2])
      PROVE  Base'
  <2>1. w[1] \in Peer /\ w[2] \in InfoHash
    BY ForeignAssumption
  <2>. QED  BY <1>10, <2>1 DEF HostListen, TypeOK, Chains, stores
<1>11. ASSUME NEW p \in Peer, Restart(p)
       PROVE  Base'
  <2>1. alive' \in [Peer -> BOOLEAN] /\ listening' \in [Peer -> SUBSET InfoHash]
    BY <1>11 DEF Restart, TypeOK
  <2>2. CASE UNCHANGED stores
    BY <1>11, <2>1, <2>2 DEF Restart, TypeOK, Chains, stores
  <2>3. CASE ~UNCHANGED stores
    <3>1. /\ certificationRequests' =
               [certificationRequests EXCEPT ![p] = [h \in Hash |-> NoEntry]]
          /\ transactionStore' = [transactionStore EXCEPT ![p] = {}]
          /\ blockchain' = [blockchain EXCEPT ![p] = {}]
          /\ UNCHANGED <<certs, verdicts>>
      BY <1>11, <2>3 DEF Restart
    <3>2. TypeOK'
      BY <2>1, <3>1 DEF TypeOK
    <3>3. Chains'
      BY <3>1, EmptyChain DEF TypeOK, Chains
    <3>. QED  BY <3>2, <3>3
  <2>. QED  BY <2>2, <2>3
<1>12. CASE UNCHANGED vars
  BY <1>12 DEF vars, stores, TypeOK, Chains
<1>. QED  BY <1>1, <1>2, <1>3, <1>4, <1>5, <1>6, <1>7, <1>8, <1>10, <1>11, <1>12,
             <1>9 DEF Next

(* Types and chains always hold. *)
LEMMA BaseInvariant == Spec => []Base
  BY BaseInit, BaseStep, PTL DEF Spec

(* Every handler keeps the DHT, the tries and the listeners well typed. *)
THEOREM TransactionTypeCorrect == Spec => []TypeOK
<1>1. Base => TypeOK
  BY DEF Base
<1>. QED  BY <1>1, BaseInvariant, PTL

(* Every peer's chain is numbered without gap or repetition, whatever the  *)
(* handlers of all peers do (chain::addBlock in transaction::verified).    *)
THEOREM AllChainsNumbered == Spec => []ChainsNumbered
<1>1. Base => ChainsNumbered
  BY DEF Base, Chains, ChainsNumbered
<1>. QED  BY <1>1, BaseInvariant, PTL

-----------------------------------------------------------------------------
(* Part 2: where requests come from.                                       *)

(* A request from outside with this hash, these terms and this history. *)
Origin(tx) ==
    \E a \in Requested :
        a.hash = tx.hash /\ a.terms = tx.terms /\ a.fresh = tx.fresh

(* Two requests from outside that agree, the second with this hash. *)
Backed(tx) ==
    \E a, b \in Requested :
        /\ Digest[a.hash] = b.hash
        /\ b.hash = tx.hash
        /\ a.terms = b.terms /\ b.terms = tx.terms

(* An entry of a peer's trie of requests that belongs under h. *)
Pending(s, h) == s.hash = h /\ s.type = "certify" /\ Origin(s)

(* CertifiedByTwo is not inductive: it says nothing of what the tries      *)
(* hold, nor of the replies that are handled as requests again.            *)
Provenance ==
    /\ \A m \in certs : m.by # Outside => m.tx.type = "certify"
    /\ \A m \in certs : m.tx.type = "certify" => Origin(m.tx)
    /\ \A m \in certs :
         m.by # Outside /\ m.tx.certification_status => Backed(m.tx)
    /\ \A p \in Peer, h \in Hash :
         certificationRequests[p][h] \in CertifiedTx =>
             Pending(certificationRequests[p][h], h)

(* Values stay: what was requested stays so. *)
LEMMA OriginStays ==
    ASSUME certs \subseteq certs'
    PROVE  /\ Requested \subseteq Requested'
           /\ \A tx : Origin(tx) => Origin(tx)'
           /\ \A tx : Backed(tx) => Backed(tx)'
<1>1. Requested \subseteq Requested'
  BY DEF Requested
<1>2. \A tx : Origin(tx) => Origin(tx)'
  BY <1>1 DEF Origin
<1>3. \A tx : Backed(tx) => Backed(tx)'
  BY <1>1 DEF Backed
<1>. QED  BY <1>1, <1>2, <1>3

(* What a step must show: each new value comes from outside, or is a       *)
(* request with an origin; each new entry of a trie is one too.            *)
LEMMA ProvenanceKept ==
    ASSUME Provenance, certs \subseteq certs',
           \A r \in certs' : r \in certs
             \/ r.by = Outside
             \/ /\ r.tx.type = "certify" /\ Origin(r.tx)
                /\ r.tx.certification_status => Backed(r.tx),
           \A p \in Peer, h \in Hash :
             certificationRequests'[p][h] \in CertifiedTx =>
               \/ certificationRequests'[p][h] = certificationRequests[p][h]
               \/ Pending(certificationRequests'[p][h], h)
    PROVE  Provenance'
<1>1. \A tx : (Origin(tx) => Origin(tx)') /\ (Backed(tx) => Backed(tx)')
  BY OriginStays
<1>2. \A r \in certs' : r.by = Outside /\ r.tx.type = "certify" => Origin(r.tx)'
  BY DEF Origin, Requested
<1>. HIDE DEF Origin, Backed
<1>3. ASSUME NEW r \in certs'
      PROVE  /\ r.by # Outside => r.tx.type = "certify"
             /\ r.tx.type = "certify" => Origin(r.tx)'
             /\ r.by # Outside /\ r.tx.certification_status => Backed(r.tx)'
  <2>1. CASE r \in certs
    BY <2>1, <1>1 DEF Provenance
  <2>2. CASE r.by = Outside
    BY <2>2, <1>2
  <2>3. CASE /\ r.tx.type = "certify" /\ Origin(r.tx)
             /\ r.tx.certification_status => Backed(r.tx)
    BY <2>3, <1>1
  <2>. QED  BY <2>1, <2>2, <2>3
<1>4. ASSUME NEW p \in Peer, NEW h \in Hash,
             certificationRequests'[p][h] \in CertifiedTx
      PROVE  Pending(certificationRequests[p][h], h)'
  <2>. DEFINE s == certificationRequests'[p][h]
  <2>1. Pending(s, h)
    BY <1>4 DEF Provenance
  <2>2. s.hash = h /\ s.type = "certify" /\ Origin(s)
    BY <2>1 DEF Pending
  <2>3. Origin(certificationRequests[p][h])'
    BY <2>2, <1>1
  <2>. QED  BY <2>2, <2>3 DEF Pending
<1>. QED  BY <1>3, <1>4 DEF Provenance

(* Whatever certify finds for a request, and puts for it, has an origin;   *)
(* a positive decision has two requests that agree behind it.              *)
LEMMA DecisionBacked ==
    ASSUME Base, Provenance, NEW p \in Peer, NEW m \in certs,
           CertificationRequest(p, m), Select(p, m.tx.hash) \in CertifiedTx
    PROVE  LET stored == Select(p, m.tx.hash)
               d == Decided(p, m.tx, stored)
           IN  /\ stored.hash = Digest[m.tx.hash] /\ stored.hash \in Hash
               /\ Origin(m.tx) /\ Origin(stored)
               /\ d.hash = stored.hash /\ d.type = "certify" /\ Origin(d)
               /\ d.certification_status => Backed(d)
<1>. DEFINE stored == Select(p, m.tx.hash)
            d == Decided(p, m.tx, stored)
<1>1. m.tx \in CertifiedTx /\ m.tx.hash \in Hash
  BY MessageType DEF Base
<1>2. Digest[m.tx.hash] \in Hash
        /\ stored = certificationRequests[p][Digest[m.tx.hash]]
  BY <1>1, SelectFinds DEF Base
<1>3. stored.hash = Digest[m.tx.hash] /\ stored.type = "certify" /\ Origin(stored)
  <2>1. Pending(certificationRequests[p][Digest[m.tx.hash]], Digest[m.tx.hash])
    BY <1>2 DEF Provenance
  <2>. QED  BY <1>2, <2>1 DEF Pending
<1>4. Origin(m.tx)
  BY DEF Provenance, CertificationRequest
<1>5. /\ d.type = stored.type /\ d.hash = stored.hash
      /\ d.terms = stored.terms /\ d.fresh = stored.fresh
      /\ d.certification_status = (m.tx.terms = stored.terms)
  BY <1>1, DecidedFields
<1>. HIDE DEF stored, d
<1>6. Origin(d)
  BY <1>3, <1>5 DEF Origin
<1>7. d.certification_status => Backed(d)
  <2>1. HAVE d.certification_status
  <2>2. m.tx.terms = stored.terms
    BY <2>1, <1>5
  <2>3. PICK a \in Requested : a.hash = m.tx.hash /\ a.terms = m.tx.terms
    BY <1>4 DEF Origin
  <2>4. PICK b \in Requested : b.hash = stored.hash /\ b.terms = stored.terms
    BY <1>3 DEF Origin
  <2>5. Digest[a.hash] = b.hash /\ b.hash = d.hash
          /\ a.terms = b.terms /\ b.terms = d.terms
    BY <2>2, <2>3, <2>4, <1>3, <1>5
  <2>. QED  BY <2>5 DEF Backed
<1>. QED  BY <1>2, <1>3, <1>4, <1>5, <1>6, <1>7 DEF stored, d

(* What Update leaves after a decision. *)
LEMMA UpdateKept ==
    ASSUME Base, Provenance, NEW p \in Peer, NEW m \in certs,
           CertificationRequest(p, m), Select(p, m.tx.hash) \in CertifiedTx,
           UpdateRequest(p, m.tx, Select(p, m.tx.hash))
    PROVE  \A q \in Peer, h \in Hash :
             certificationRequests'[q][h] \in CertifiedTx =>
               \/ certificationRequests'[q][h] = certificationRequests[q][h]
               \/ Pending(certificationRequests'[q][h], h)
<1>. DEFINE stored == Select(p, m.tx.hash)
            d == Decided(p, m.tx, stored)
<1>1. /\ stored.hash \in Hash /\ stored.hash = Digest[m.tx.hash]
      /\ d.hash = stored.hash /\ d.type = "certify" /\ Origin(d)
  BY DecisionBacked
<1>2. stored = certificationRequests[p][stored.hash]
  BY <1>1, SelectFinds, MessageType DEF Base
<1>3. PICK entry \in {d, Garbled, stored} :
        certificationRequests' =
            [certificationRequests EXCEPT ![p][stored.hash] = entry]
  BY DEF UpdateRequest
<1>. HIDE DEF stored, d
<1>4. ASSUME NEW q \in Peer, NEW h \in Hash
      PROVE  \/ certificationRequests'[q][h] = certificationRequests[q][h]
             \/ h = stored.hash /\ certificationRequests'[q][h] = entry
  BY <1>1, <1>3, <1>4 DEF Base, TypeOK
<1>5. Pending(d, stored.hash)
  BY <1>1 DEF Pending
<1>. QED  BY <1>1, <1>2, <1>3, <1>4, <1>5, EntryAssumption

(* An action that leaves the requests and the certifiedTx values alone. *)
LEMMA ProvenanceUntouched ==
    ASSUME Provenance, UNCHANGED <<certs, certificationRequests>>
    PROVE  Provenance'
  BY DEF Provenance, Pending, Origin, Backed, Requested

(* Nothing has been put or stored yet. *)
LEMMA ProvenanceInit == Init => Provenance
<1>. SUFFICES ASSUME Init PROVE Provenance
  OBVIOUS
<1>1. \A p \in Peer, h \in Hash : certificationRequests[p][h] \notin CertifiedTx
  BY EntryAssumption DEF Init
<1>. QED  BY <1>1 DEF Init, Provenance

(* Every handler keeps track of where requests came from. *)
LEMMA ProvenanceStep == Base /\ Provenance /\ [Next]_vars => Provenance'
<1>. SUFFICES ASSUME Base, Provenance, [Next]_vars PROVE Provenance'
  OBVIOUS
<1>1. ASSUME NEW p \in Peer, NEW m \in certs, CertifyStore(p, m)
      PROVE  Provenance'
  <2>1. /\ certs' = certs
        /\ certificationRequests' =
             [certificationRequests EXCEPT ![p][m.tx.hash] = m.tx]
    BY <1>1 DEF CertifyStore
  <2>2. Pending(m.tx, m.tx.hash)
    BY <1>1 DEF CertifyStore, CertificationRequest, Provenance, Pending
  <2>3. ASSUME NEW q \in Peer, NEW h \in Hash
        PROVE  \/ certificationRequests'[q][h] = certificationRequests[q][h]
               \/ Pending(certificationRequests'[q][h], h)
    <3>1. \/ certificationRequests'[q][h] = certificationRequests[q][h]
          \/ h = m.tx.hash /\ certificationRequests'[q][h] = m.tx
      BY <2>1, <2>3 DEF Base, TypeOK
    <3>. QED  BY <3>1, <2>2
  <2>. QED  BY <2>1, <2>3, ProvenanceKept
<1>2. ASSUME NEW p \in Peer, NEW m \in certs, CertifyRefuse(p, m)
      PROVE  Provenance'
  <2>. DEFINE d == [m.tx EXCEPT !.certification_status = FALSE,
                                !.certifying_peer = p]
  <2>1. certs' = certs \cup PutCert(p, d, {m.tx.party, m.tx.counterparty})
    BY <1>2 DEF CertifyRefuse
  <2>2. /\ d.type = "certify" /\ d.hash = m.tx.hash /\ d.terms = m.tx.terms
        /\ d.fresh = m.tx.fresh /\ d.certification_status = FALSE
    BY <1>2, MessageType
       DEF CertifyRefuse, CertificationRequest, CertifiedTx, Base
  <2>. HIDE DEF d
  <2>3. Origin(m.tx)
    BY <1>2 DEF CertifyRefuse, CertificationRequest, Provenance
  <2>4. Origin(d)
    BY <2>2, <2>3 DEF Origin
  <2>5. \A r \in certs' : r \in certs \/ r.tx = d
    BY <2>1 DEF PutCert
  <2>6. certificationRequests' = certificationRequests
    BY <1>2 DEF CertifyRefuse, stores
  <2>. QED  BY <2>1, <2>2, <2>4, <2>5, <2>6, ProvenanceKept
<1>3. ASSUME NEW p \in Peer, NEW m \in certs,
             CertifyDecide(p, m) \/ CertifyFinal(p, m)
      PROVE  Provenance'
  <2>. DEFINE stored == Select(p, m.tx.hash)
              d == Decided(p, m.tx, stored)
  <2>1. /\ CertificationRequest(p, m) /\ stored \in CertifiedTx
        /\ UpdateRequest(p, m.tx, stored)
    BY <1>3 DEF CertifyDecide, CertifyFinal
  <2>2. certs' = certs \/ certs' = certs \cup Replies(p, m.tx, stored)
    BY <1>3 DEF CertifyDecide, CertifyFinal, verified
  <2>3. \A r \in certs' : r \in certs \/ r.tx = d
    BY <2>2 DEF Replies, PutCert
  <2>4. d.type = "certify" /\ Origin(d) /\ (d.certification_status => Backed(d))
    BY <2>1, DecisionBacked
  <2>5. \A q \in Peer, h \in Hash :
          certificationRequests'[q][h] \in CertifiedTx =>
            \/ certificationRequests'[q][h] = certificationRequests[q][h]
            \/ Pending(certificationRequests'[q][h], h)
    BY <2>1, UpdateKept
  <2>. HIDE DEF stored, d
  <2>. QED  BY <2>2, <2>3, <2>4, <2>5, ProvenanceKept
<1>4. ASSUME NEW f \in Foreign, ForeignPut(f)
      PROVE  Provenance'
  <2>1. PICK r \in Cert :
          certs' = certs \cup {r} /\ r.by = Outside
    BY <1>4, ForeignPutType DEF Base
  <2>2. certificationRequests' = certificationRequests
    BY <1>4 DEF ForeignPut, stores
  <2>. QED  BY <2>1, <2>2, ProvenanceKept
<1>5. ASSUME NEW p \in Peer, Restart(p)
      PROVE  Provenance'
  <2>1. certs' = certs
    BY <1>5 DEF Restart
  <2>2. \A q \in Peer, h \in Hash :
          certificationRequests'[q][h] \in {certificationRequests[q][h], NoEntry}
    BY <1>5 DEF Restart, stores, Base, TypeOK
  <2>. QED  BY <2>1, <2>2, EntryAssumption, ProvenanceKept
<1>6. ASSUME NEW p \in Peer, NEW m \in certs, Verify(p, m)
      PROVE  Provenance'
  BY <1>6, ProvenanceUntouched DEF Verify, stores
<1>7. ASSUME NEW p \in Peer, NEW m \in verdicts, StoreVerdict(p, m)
      PROVE  Provenance'
  BY <1>7, ProvenanceUntouched DEF StoreVerdict
<1>8. ASSUME NEW p \in Peer, NEW m \in verdicts, RecordVerdict(p, m)
      PROVE  Provenance'
  <2>1. certs' = certs
    BY <1>8 DEF RecordVerdict, verified
  <2>. QED  BY <1>8, <2>1, ProvenanceUntouched DEF RecordVerdict
<1>9. ASSUME NEW w \in Watched, HostListen(w[1], w[2])
      PROVE  Provenance'
  BY <1>9, ProvenanceUntouched DEF HostListen, stores
<1>10. ASSUME NEW f \in ForeignVerdicts, ForeignVerdict(f)
       PROVE  Provenance'
  BY <1>10, ProvenanceUntouched DEF ForeignVerdict, stores
<1>11. CASE UNCHANGED vars
  BY <1>11, ProvenanceUntouched DEF vars, stores
<1>. QED  BY <1>1, <1>2, <1>3, <1>4, <1>5, <1>6, <1>7, <1>8, <1>9, <1>11, <1>10
          DEF Next

(* Every request and certification can be traced to its origin. *)
LEMMA ProvenanceInvariant == Spec => [](Base /\ Provenance)
<1>1. Init => Base /\ Provenance
  BY BaseInit, ProvenanceInit
<1>2. Base /\ Provenance /\ [Next]_vars => (Base /\ Provenance)'
  BY BaseStep, ProvenanceStep
<1>. QED  BY <1>1, <1>2, PTL DEF Spec

(* No certifier calls a transaction certified on fewer than two requests   *)
(* that agree (transaction::certify).                                      *)
THEOREM CertificationSound == Spec => []CertifiedByTwo
<1>1. Base /\ Provenance => CertifiedByTwo
  BY OutsideAssumption DEF Provenance, Backed, CertifiedByTwo
<1>. QED  BY <1>1, ProvenanceInvariant, PTL

-----------------------------------------------------------------------------
(* Part 3: verdicts, chains and settled transactions.                      *)

(* The chain of some peer holds the verdict. *)
OnChain(tx) == \E q \in Peer : \E b \in blockchain[q] : b.data = tx

(* A positive verdict at the key of a side. *)
ToldSide(m) ==
    m.tx.verification_status /\ m.at \in {m.tx.party, m.tx.counterparty}

(* A verdict that verify may send: for a certified transaction, and to a   *)
(* side only when the certification named it.                              *)
ByVerify(r) ==
    /\ r.tx.verification_status => Agreed(r.tx.txhash)
    /\ ToldSide(r) => Bypassed(r.at, r.tx.txhash)

(* A verdict that verified may pass on: agreed, or heard before.  *)
Heard(tx) ==
    \/ tx.verification_status => Agreed(tx.txhash)
    \/ \E m \in verdicts : m.tx = tx

NewVerdict(r) ==
    \/ ByVerify(r)
    \/ Heard(r.tx) /\ (Failing = {} => OnChain(r.tx)')
    \/ r.by = Outside

NewSettled(p, h) ==
    \E m \in verdicts :
        /\ m.at = p /\ p \in {m.tx.party, m.tx.counterparty}
        /\ m.tx.verification_status /\ m.tx.txhash = h

(* What a step does to verdicts, chains and transaction stores. *)
Moves ==
    /\ UNCHANGED setting
    /\ certs \subseteq certs' /\ verdicts \subseteq verdicts'
    /\ \A r \in verdicts' : r \in verdicts \/ NewVerdict(r)
    /\ \A p \in Peer : \A b \in blockchain'[p] :
         b \in blockchain[p] \/ Heard(b.data)
    /\ \A p \in Peer : \/ blockchain[p] \subseteq blockchain'[p]
                       \/ p \in Forgetful /\ blockchain'[p] = {}
    /\ \A p \in Peer : \A h \in transactionStore'[p] :
         h \in transactionStore[p] \/ NewSettled(p, h)

(* transaction::verified as a move. *)
LEMMA VerifiedMoves ==
    ASSUME Base, NEW p \in Peer, NEW tx \in VerifiedTx, NEW verifier \in InfoHash,
           NEW replies \in SUBSET Cert, verified(p, tx, verifier, replies),
           Heard(tx), UNCHANGED <<transactionStore, setting>>
    PROVE  Moves
<1>1. /\ \A q \in Peer : blockchain[q] \subseteq blockchain'[q]
      /\ \A q \in Peer : \A b \in blockchain'[q] :
           b \in blockchain[q] \/ b.data = tx
      /\ p \notin Failing => \E b \in blockchain'[p] : b.data = tx
      /\ certs \subseteq certs'
      /\ \/ verdicts' = verdicts
         \/ verdicts' = verdicts
              \cup PutVerdict(p, tx, {tx.party, tx.counterparty})
  BY VerifiedStep
<1>2. Failing = {} => OnChain(tx)'
  BY <1>1 DEF OnChain
<1>3. \A r \in verdicts' : r \in verdicts \/ r.tx = tx
  BY <1>1 DEF PutVerdict
<1>4. \A r \in verdicts' : r \in verdicts \/ NewVerdict(r)
  BY <1>2, <1>3 DEF NewVerdict
<1>. QED  BY <1>1, <1>4 DEF Moves

(* Every step is a move: what Settlement needs to know of it. *)
LEMMA NextMoves ==
    ASSUME Base, Provenance, [Next]_vars
    PROVE  Moves
<1>. setting' = setting
  BY DEF Next, vars
<1>1. ASSUME UNCHANGED <<verdicts, transactionStore, blockchain>>,
             certs \subseteq certs'
      PROVE  Moves
  <2>1. \A r \in verdicts' : r \in verdicts
    BY <1>1
  <2>2. \A p \in Peer : blockchain[p] \subseteq blockchain'[p]
    BY <1>1
  <2>3. \A p \in Peer : \A h \in transactionStore'[p] : h \in transactionStore[p]
    BY <1>1
  <2>. QED  BY <1>1, <2>1, <2>2, <2>3 DEF Moves
<1>2. ASSUME NEW p \in Peer, NEW m \in certs,
             \/ CertifyStore(p, m) \/ CertifyRefuse(p, m) \/ CertifyDecide(p, m)
      PROVE  Moves
  BY <1>1, <1>2 DEF CertifyStore, CertifyRefuse, CertifyDecide, stores
<1>3. ASSUME NEW p \in Peer, NEW m \in certs, CertifyFinal(p, m)
      PROVE  Moves
  <2>. DEFINE stored == Select(p, m.tx.hash)
  <2>1. /\ CertificationRequest(p, m) /\ stored \in CertifiedTx
        /\ Final(m.tx, stored)
        /\ verified(p, FinalTx(p, m), Zero, Replies(p, m.tx, stored))
        /\ UNCHANGED transactionStore
    BY <1>3 DEF CertifyFinal, FinalTx
  <2>2. /\ m.tx \in CertifiedTx /\ FinalTx(p, m) \in VerifiedTx /\ Zero \in InfoHash
    BY MessageType DEF InfoHash, Base
  <2>3. /\ stored.hash = Digest[m.tx.hash]
        /\ Origin(m.tx) /\ Origin(stored)
    BY <2>1, DecisionBacked
  <2>. HIDE DEF stored
  <2>4. Replies(p, m.tx, stored) \in SUBSET Cert
    BY <2>1, <2>2, RepliesType
  <2>5. Agreed(m.tx.hash)
    <3>1. PICK a \in Requested :
            a.hash = m.tx.hash /\ a.terms = m.tx.terms /\ a.fresh = m.tx.fresh
      BY <2>3 DEF Origin
    <3>2. PICK b \in Requested :
            b.hash = stored.hash /\ b.terms = stored.terms /\ b.fresh = stored.fresh
      BY <2>3 DEF Origin
    <3>3. m.tx.fresh /\ stored.fresh /\ m.tx.terms = stored.terms
      BY <2>1 DEF Final, Match
    <3>4. a.hash = m.tx.hash /\ b.hash = Digest[m.tx.hash]
            /\ a.terms = b.terms /\ a.fresh /\ b.fresh
      BY <3>1, <3>2, <3>3, <2>3
    <3>. QED  BY <3>4 DEF Agreed
  <2>6. Heard(FinalTx(p, m))
    BY <2>5 DEF Heard, FinalTx
  <2>. QED  BY <2>1, <2>2, <2>4, <2>6, VerifiedMoves
<1>4. ASSUME NEW p \in Peer, NEW m \in certs, Verify(p, m)
      PROVE  Moves
  <2>1. /\ verdicts' = verdicts
             \cup PutVerdict(p, VerifyTx(p, m), {m.tx.certifying_peer})
        /\ m.tx.type = "certified" /\ m.tx.certification_status
        /\ UNCHANGED <<certs, transactionStore, blockchain>>
    BY <1>4 DEF Verify, VerifyTx, VerdictGoesTo, stores
  <2>2. m.by = Outside
    BY <2>1 DEF Provenance
  <2>3. Agreed(m.tx.hash)
    BY <2>1, <2>2 DEF Agreed
  <2>4. \A r \in verdicts' : r \in verdicts
          \/ (r.at = m.tx.certifying_peer /\ r.tx = VerifyTx(p, m))
    BY <2>1 DEF PutVerdict
  <2>5. m.tx.certifying_peer \in {m.tx.party, m.tx.counterparty}
          => Bypassed(m.tx.certifying_peer, m.tx.hash)
    BY <2>1, <2>2 DEF Bypassed
  <2>6. \A r \in verdicts' : r \in verdicts \/ ByVerify(r)
    BY <2>3, <2>4, <2>5 DEF ByVerify, ToldSide, VerifyTx
  <2>. QED  BY <2>1, <2>6 DEF Moves, NewVerdict
<1>5. ASSUME NEW p \in Peer, NEW m \in verdicts, StoreVerdict(p, m)
      PROVE  Moves
  <2>1. /\ m.at = p /\ p \in {m.tx.party, m.tx.counterparty}
        /\ m.tx.verification_status
        /\ transactionStore' =
             [transactionStore EXCEPT ![p] = @ \cup {m.tx.txhash}]
        /\ UNCHANGED <<certs, verdicts, blockchain>>
    BY <1>5 DEF StoreVerdict
  <2>2. ASSUME NEW q \in Peer, NEW h \in transactionStore'[q]
        PROVE  h \in transactionStore[q] \/ (q = p /\ h = m.tx.txhash)
    BY <2>1, <2>2 DEF Base, TypeOK
  <2>3. NewSettled(p, m.tx.txhash)
    BY <2>1 DEF NewSettled
  <2>. QED  BY <2>1, <2>2, <2>3 DEF Moves
<1>6. ASSUME NEW p \in Peer, NEW m \in verdicts, RecordVerdict(p, m)
      PROVE  Moves
  <2>1. /\ m.tx \in VerifiedTx /\ p \in InfoHash /\ {} \in SUBSET Cert
        /\ verified(p, m.tx, p, {})
        /\ UNCHANGED transactionStore
    BY <1>6 DEF RecordVerdict, Base, TypeOK, Verdict, InfoHash
  <2>2. Heard(m.tx)
    BY DEF Heard
  <2>. QED  BY <2>1, <2>2, VerifiedMoves
<1>7. ASSUME NEW f \in Foreign, ForeignPut(f)
      PROVE  Moves
  BY <1>1, <1>7 DEF ForeignPut, stores
<1>8. ASSUME NEW f \in ForeignVerdicts, ForeignVerdict(f)
       PROVE  Moves
  <2>1. /\ verdicts' = verdicts \cup PutVerdict(Outside, f.tx, {f.at})
        /\ UNCHANGED <<certs, transactionStore, blockchain>>
    BY <1>8 DEF ForeignVerdict, stores
  <2>2. \A r \in verdicts' : r \in verdicts \/ r.by = Outside
    BY <2>1 DEF PutVerdict
  <2>. QED  BY <2>1, <2>2 DEF Moves, NewVerdict
<1>9. ASSUME NEW w \in Watched, HostListen(w[1], w[2])
      PROVE  Moves
  BY <1>1, <1>9 DEF HostListen, stores
<1>10. ASSUME NEW p \in Peer, Restart(p)
      PROVE  Moves
  <2>1. CASE UNCHANGED stores
    BY <1>1, <1>10, <2>1 DEF Restart, stores
  <2>2. CASE ~UNCHANGED stores
    <3>1. /\ p \in Forgetful /\ UNCHANGED <<certs, verdicts>>
          /\ transactionStore' = [transactionStore EXCEPT ![p] = {}]
          /\ blockchain' = [blockchain EXCEPT ![p] = {}]
      BY <1>10, <2>2 DEF Restart
    <3>2. /\ \A q \in Peer : \/ blockchain[q] \subseteq blockchain'[q]
                             \/ q \in Forgetful /\ blockchain'[q] = {}
          /\ \A q \in Peer : \A b \in blockchain'[q] : b \in blockchain[q]
      BY <3>1 DEF Base, TypeOK
    <3>3. \A q \in Peer : transactionStore'[q] \subseteq transactionStore[q]
      BY <3>1 DEF Base, TypeOK
    <3>. QED  BY <3>1, <3>2, <3>3 DEF Moves
  <2>. QED  BY <2>1, <2>2
<1>11. CASE UNCHANGED vars
  BY <1>1, <1>11 DEF vars, stores
<1>. QED  BY <1>2, <1>3, <1>4, <1>5, <1>6, <1>7, <1>9, <1>10, <1>11, <1>8 DEF Next

(* Strengthenings: what holds of the verdicts on their way.  Only these    *)
(* make the statements about transaction stores inductive.                 *)
VerdictsAgreed ==
    \A m \in verdicts : m.tx.verification_status => Agreed(m.tx.txhash)

VerdictsChained ==
    Failing = {} /\ Forgetful = {} =>
        \A m \in verdicts :
            ToldSide(m) => Bypassed(m.at, m.tx.txhash) \/ OnChain(m.tx)

Settlement ==
    /\ VerdictsAgreed /\ SettledIsAgreed /\ ChainedIsAgreed
    /\ VerdictsChained /\ SettledIsChained

(* Values stay: what was agreed, or bypassed the certifiers, stays so. *)
LEMMA AgreedStays ==
    ASSUME certs \subseteq certs', verdicts \subseteq verdicts'
    PROVE  /\ \A h : Agreed(h) => Agreed(h)'
           /\ \A p, h : Bypassed(p, h) => Bypassed(p, h)'
<1>1. Requested \subseteq Requested'
  BY OriginStays
<1>2. \A h : Agreed(h) => Agreed(h)'
  BY <1>1 DEF Agreed
<1>3. \A p, h : Bypassed(p, h) => Bypassed(p, h)'
  BY DEF Bypassed
<1>. QED  BY <1>2, <1>3

(* Nothing is settled at the start. *)
LEMMA SettlementInit == Init => Settlement
  BY DEF Init, Settlement, VerdictsAgreed, SettledIsAgreed, ChainedIsAgreed,
         VerdictsChained, SettledIsChained

(* A move keeps what is settled and chained agreed, and what is settled    *)
(* chained unless it bypassed the certifiers.                              *)
LEMMA SettlementStep ==
    ASSUME Base, Base', Settlement, Moves
    PROVE  Settlement'
<1>. Failing' = Failing /\ Forgetful' = Forgetful
  BY DEF Moves, Failing, Forgetful
<1>1. /\ \A h : Agreed(h) => Agreed(h)'
      /\ \A p, h : Bypassed(p, h) => Bypassed(p, h)'
  BY AgreedStays DEF Moves
<1>2. \A tx : Heard(tx) /\ tx.verification_status => Agreed(tx.txhash)'
  BY <1>1 DEF Heard, Settlement, VerdictsAgreed
<1>3. VerdictsAgreed'
  <2>. SUFFICES ASSUME NEW r \in verdicts', r.tx.verification_status
                PROVE  Agreed(r.tx.txhash)'
    BY DEF VerdictsAgreed
  <2>1. CASE r \in verdicts
    BY <1>1, <2>1 DEF Settlement, VerdictsAgreed
  <2>2. CASE ByVerify(r)
    BY <1>1, <2>2 DEF ByVerify
  <2>3. CASE Heard(r.tx)
    BY <1>2, <2>3
  <2>4. CASE r.by = Outside
    BY <2>4 DEF Agreed
  <2>. QED  BY <2>1, <2>2, <2>3, <2>4 DEF Moves, NewVerdict
<1>4. SettledIsAgreed'
  <2>. SUFFICES ASSUME NEW p \in Peer, NEW h \in transactionStore'[p]
                PROVE  Agreed(h)'
    BY DEF SettledIsAgreed
  <2>1. CASE h \in transactionStore[p]
    BY <1>1, <2>1 DEF Settlement, SettledIsAgreed
  <2>2. CASE NewSettled(p, h)
    BY <1>1, <2>2 DEF NewSettled, Settlement, VerdictsAgreed
  <2>. QED  BY <2>1, <2>2 DEF Moves
<1>5. ChainedIsAgreed'
  <2>. SUFFICES ASSUME NEW p \in Peer, NEW b \in blockchain'[p],
                       b.data.verification_status
                PROVE  Agreed(b.data.txhash)'
    BY DEF ChainedIsAgreed
  <2>1. CASE b \in blockchain[p]
    BY <1>1, <2>1 DEF Settlement, ChainedIsAgreed
  <2>2. CASE Heard(b.data)
    BY <1>2, <2>2
  <2>. QED  BY <2>1, <2>2 DEF Moves
<1>6. ASSUME Failing = {}, Forgetful = {}
      PROVE  \A q \in Peer : blockchain[q] \subseteq blockchain'[q]
  BY <1>6 DEF Moves
<1>7. VerdictsChained'
  <2>. SUFFICES ASSUME Failing = {}, Forgetful = {},
                       NEW r \in verdicts', ToldSide(r)
                PROVE  Bypassed(r.at, r.tx.txhash)' \/ OnChain(r.tx)'
    BY DEF VerdictsChained, ToldSide
  <2>1. CASE r \in verdicts
    <3>1. Bypassed(r.at, r.tx.txhash) \/ OnChain(r.tx)
      BY <2>1 DEF Settlement, VerdictsChained
    <3>2. OnChain(r.tx) => OnChain(r.tx)'
      BY <1>6 DEF OnChain
    <3>. QED  BY <3>1, <3>2, <1>1
  <2>2. CASE ByVerify(r)
    BY <2>2, <1>1 DEF ByVerify
  <2>3. CASE Heard(r.tx) /\ (Failing = {} => OnChain(r.tx)')
    BY <2>3
  <2>4. CASE r.by = Outside
    BY <2>4 DEF Bypassed, ToldSide
  <2>. QED  BY <2>1, <2>2, <2>3, <2>4 DEF Moves, NewVerdict
<1>8. SettledIsChained'
  <2>. SUFFICES ASSUME Failing = {}, Forgetful = {},
                       NEW p \in Peer, NEW h \in transactionStore'[p]
                PROVE  \/ Bypassed(p, h)'
                       \/ \E q \in Peer : \E b \in blockchain'[q] :
                             /\ b.data.txhash = h /\ b.data.verification_status
                             /\ p \in {b.data.party, b.data.counterparty}
    BY DEF SettledIsChained
  <2>1. CASE h \in transactionStore[p]
    <3>1. \/ Bypassed(p, h)
          \/ \E q \in Peer : \E b \in blockchain[q] :
                /\ b.data.txhash = h /\ b.data.verification_status
                /\ p \in {b.data.party, b.data.counterparty}
      BY <2>1 DEF Settlement, SettledIsChained
    <3>. QED  BY <3>1, <1>1, <1>6
  <2>2. CASE NewSettled(p, h)
    <3>1. PICK m \in verdicts :
                 /\ m.at = p /\ p \in {m.tx.party, m.tx.counterparty}
                 /\ m.tx.verification_status /\ m.tx.txhash = h
      BY <2>2 DEF NewSettled
    <3>2. Bypassed(p, h) \/ OnChain(m.tx)
      BY <3>1 DEF ToldSide, Settlement, VerdictsChained
    <3>3. OnChain(m.tx) => \E q \in Peer : \E b \in blockchain'[q] : b.data = m.tx
      BY <1>6 DEF OnChain
    <3>. QED  BY <3>1, <3>2, <3>3, <1>1
  <2>. QED  BY <2>1, <2>2 DEF Moves
<1>. QED  BY <1>3, <1>4, <1>5, <1>7, <1>8 DEF Settlement

(* What is settled or chained always satisfies the three properties. *)
LEMMA SettlementInvariant == Spec => []Settlement
<1>1. Init => Base /\ Provenance /\ Settlement
  BY BaseInit, ProvenanceInit, SettlementInit
<1>2. Base /\ Provenance /\ Settlement /\ [Next]_vars
        => (Base /\ Provenance /\ Settlement)'
  BY BaseStep, ProvenanceStep, NextMoves, SettlementStep
<1>. QED  BY <1>1, <1>2, PTL DEF Spec

(* A transaction in anybody's store was agreed: two first-time requests    *)
(* with equal terms, or a certification or verdict from outside            *)
(* (transaction::certify, verify, verified; client::listenToVerifications). *)
THEOREM SettlementAgreed == Spec => []SettledIsAgreed
<1>1. Settlement => SettledIsAgreed
  BY DEF Settlement
<1>. QED  BY <1>1, SettlementInvariant, PTL

(* A positive verdict on anybody's chain is on an agreed transaction, with *)
(* processes that end in the handler, tries that refuse and tries that     *)
(* forget (transaction::certify, verified).                                *)
THEOREM ChainsAgreed == Spec => []ChainedIsAgreed
<1>1. Settlement => ChainedIsAgreed
  BY DEF Settlement
<1>. QED  BY <1>1, SettlementInvariant, PTL

(* With tries that neither fail nor forget, a transaction in anybody's     *)
(* store is on the chain of some peer (transaction::verified), unless a    *)
(* verdict or a certification from outside was addressed to that side.     *)
THEOREM SettlementChained == Spec => []SettledIsChained
<1>1. Settlement => SettledIsChained
  BY DEF Settlement
<1>. QED  BY <1>1, SettlementInvariant, PTL
=============================================================================
