--------------------------- MODULE ExchangeProofs ---------------------------
(***************************************************************************)
(* What holds of the exchange of requests and of the token store for any   *)
(* number of peers, requests and amounts and any width of long.            *)
(***************************************************************************)
EXTENDS Exchange, TLAPS

(* An addition or a subtraction leaves a long: Wrap brings the sum back.   *)
LEMMA WrapType ==
    ASSUME NEW x \in Long, NEW n \in Long
    PROVE  Wrap(x + n) \in Long /\ Wrap(x - n) \in Long
BY LongAssumption DEF Long, Wrap

(* Update leaves a store, whatever it does. *)
LEMMA UpdateType ==
    ASSUME NEW s \in Store, NEW a \in Account, NEW v \in Long
    PROVE  Update(s, a, v) \subseteq Store
BY DEF Update, Store, Entry

(* token::transfer leaves a store: the sum it writes was wrapped. *)
LEMMA TransferType ==
    ASSUME NEW s \in Store, NEW a \in Account, NEW n \in Amount
    PROVE  transfer(s, a, n) \subseteq Store
<1>1. CASE ~Covers(s, a, n)
  BY <1>1 DEF transfer
<1>2. CASE Covers(s, a, n)
  <2>1. Wrap(s[a].name + n) \in Long
    BY <1>2, WrapType, AmountAssumption DEF Covers
  <2>. QED  BY <1>2, <2>1, UpdateType DEF transfer
<1>. QED  BY <1>1, <1>2

(* token::transferFrom likewise, after whatever transfer did. *)
LEMMA TransferFromType ==
    ASSUME NEW s \in Store, NEW a \in Account, NEW b \in Account, NEW n \in Amount
    PROVE  transferFrom(s, a, b, n) \subseteq Store
<1>1. CASE ~Covers(s, a, n)
  BY <1>1 DEF transferFrom
<1>2. CASE Covers(s, a, n)
  <2>. DEFINE left == Wrap(s[a].name - n)
  <2>1. left \in Long
    BY <1>2, WrapType, AmountAssumption DEF Covers
  <2>2. transferFrom(s, a, b, n) = UNION {Update(u, a, left) : u \in transfer(s, b, n)}
    BY <1>2 DEF transferFrom
  <2>. HIDE DEF left
  <2>3. transfer(s, b, n) \subseteq Store
    BY TransferType
  <2>. QED  BY <2>1, <2>2, <2>3, UpdateType
<1>. QED  BY <1>1, <1>2

-----------------------------------------------------------------------------
(* A response behind the certification request c. *)
Answers(m, c) ==
    /\ m.type = "response" /\ m.req = c.req
    /\ m.from = c.party /\ m.sendTo = c.counterparty
    /\ c.by \in {m.by, m.at}

(* p puts at most one message and one certification request for r, and no  *)
(* certification request with a request of its own; what it asks to be     *)
(* certified has been answered, at the latest by what it puts now.         *)
Puts(p, r, M, C) ==
    /\ requests' = requests \cup M /\ certs' = certs \cup C
    /\ \A m \in M : m.by = p /\ m.req = r
    /\ \A c \in C : c.by = p /\ c.req = r
    /\ \A m, n \in M : m = n
    /\ \A c, d \in C : c = d
    /\ \A m \in M, c \in C : m.type # "request"
    /\ \A c \in C : \E m \in requests \cup M : Answers(m, c)

(* The steps fall into three kinds.  First: p logs r and puts what it puts.*)
Logs(p, r) ==
    /\ Loggable(p, r)
    /\ astore' = [astore EXCEPT ![p] = @ \cup {r}]
    /\ cstore' = cstore
    /\ \E M \in SUBSET Message, C \in SUBSET Certification : Puts(p, r, M, C)

(* Second: tokens move in the store of p.  The third kind is Restart.      *)
Moves(p) ==
    /\ \E t \in Store : cstore' = [cstore EXCEPT ![p] = t]
    /\ UNCHANGED <<astore, requests, certs>>

(* A handler that puts nothing, because transaction::out or in throws. *)
LEMMA SilentLogs ==
    ASSUME NEW p \in Peer, NEW r \in Request, Loggable(p, r), recordRequest(p, r),
           UNCHANGED <<cstore, requests, certs>>
    PROVE  Logs(p, r)
<1>1. Puts(p, r, {}, {})
  BY DEF Puts
<1>. QED  BY <1>1, Zenon DEF Logs, recordRequest

(* handleOutboundRequest logs the request and puts it. *)
LEMMA OutboundLogs ==
    ASSUME NEW p \in Peer, NEW q \in Peer, NEW r \in Request, HandleOutbound(p, q, r)
    PROVE  Logs(p, r)
<1>1. CASE UNCHANGED requests
  BY <1>1, SilentLogs DEF HandleOutbound
<1>2. CASE ~UNCHANGED requests
  <2>. DEFINE m == [at |-> q, by |-> p, from |-> p, sendTo |-> q, req |-> r,
                    type |-> "request", requestorPeer |-> Zero,
                    responderPeer |-> Zero]
  <2>1. requests' = requests \cup {m} /\ certs' = certs \cup {}
    BY <1>2 DEF HandleOutbound, Neighbour, Nodes
  <2>2. {m} \in SUBSET Message
    BY DEF Message, InfoHash
  <2>3. m.by = p /\ m.req = r
    OBVIOUS
  <2>. HIDE DEF m
  <2>4. Puts(p, r, {m}, {})
    BY <2>1, <2>3 DEF Puts
  <2>5. Loggable(p, r) /\ recordRequest(p, r) /\ cstore' = cstore
    BY DEF HandleOutbound
  <2>. QED  BY <2>2, <2>4, <2>5, Zenon DEF Logs, recordRequest
<1>. QED  BY <1>1, <1>2

(* What transaction::in puts last for an answer m: nothing, or one         *)
(* certification request that names the sides of m.                        *)
LEMMA CertificationSent ==
    ASSUME NEW p \in Peer, NEW m \in Message, UNCHANGED certs \/ SendCertification(p, m)
    PROVE  \E C \in SUBSET Certification :
             /\ certs' = certs \cup C
             /\ \A c, d \in C : c = d
             /\ \A c \in C : /\ c.by = p /\ c.req = m.req
                             /\ c.party = m.from /\ c.counterparty = m.sendTo
<1>1. CASE UNCHANGED certs
  <2>1. {} \in SUBSET Certification /\ certs' = certs \cup {}
    BY <1>1
  <2>. QED  BY <2>1
<1>2. CASE SendCertification(p, m)
  <2>1. PICK k \in CertifyingPeer(m) :
          certs' = certs \cup
              {[at |-> k, by |-> p, party |-> m.from, counterparty |-> m.sendTo,
                req |-> m.req]}
    BY <1>2 DEF SendCertification
  <2>. DEFINE c == [at |-> k, by |-> p, party |-> m.from, counterparty |-> m.sendTo,
                    req |-> m.req]
  <2>2. c \in Certification
    BY DEF CertifyingPeer, Message, Certification
  <2>3. /\ c.by = p /\ c.req = m.req
        /\ c.party = m.from /\ c.counterparty = m.sendTo
    OBVIOUS
  <2>4. certs' = certs \cup {c}
    BY <2>1
  <2>. HIDE DEF c
  <2>5. {c} \in SUBSET Certification
    BY <2>2
  <2>. QED  BY <2>3, <2>4, <2>5
<1>. QED  BY <1>1, <1>2

(* handleInboundResponse of a request logs it, answers it and asks for a   *)
(* certification.                                                          *)
LEMMA InboundRequestLogs ==
    ASSUME TypeOK, NEW p \in Peer, NEW m \in requests, NEW swap \in BOOLEAN,
           HandleInboundRequest(p, m, swap)
    PROVE  Logs(p, m.req)
<1>1. m \in Message /\ m.req \in Request
  BY DEF TypeOK, Message
<1>2. CASE UNCHANGED <<requests, certs>>
  BY <1>1, <1>2, SilentLogs DEF HandleInboundRequest
<1>3. CASE ~UNCHANGED <<requests, certs>>
  <2>. DEFINE a == [m EXCEPT !.from = IF swap THEN m.sendTo ELSE m.from,
                             !.sendTo = IF swap THEN m.from ELSE m.sendTo,
                             !.responderPeer = m.requestorPeer, !.type = "response"]
              b == [a EXCEPT !.at = a.sendTo, !.by = p]
  <2>1. SendAnswer(p, a)
    BY <1>3 DEF HandleInboundRequest, Neighbour, Nodes
  <2>2. a \in Message /\ b \in Message
    BY <1>1 DEF Message, InfoHash
  <2>3. /\ a.req = m.req
        /\ b.by = p /\ b.req = m.req /\ b.type = "response"
        /\ b.from = a.from /\ b.sendTo = a.sendTo
    BY <1>1 DEF Message
  <2>4. requests' = requests \cup {b} /\ (UNCHANGED certs \/ SendCertification(p, a))
    BY <2>1 DEF SendAnswer
  <2>. HIDE DEF a, b
  <2>5. PICK C \in SUBSET Certification :
          /\ certs' = certs \cup C
          /\ \A c, d \in C : c = d
          /\ \A c \in C : /\ c.by = p /\ c.req = a.req
                          /\ c.party = a.from /\ c.counterparty = a.sendTo
    BY <2>2, <2>4, CertificationSent
  <2>6. \A c \in C : Answers(b, c)
    BY <2>3, <2>5 DEF Answers
  <2>7. {b} \in SUBSET Message
    BY <2>2
  <2>8. Loggable(p, m.req) /\ recordRequest(p, m.req) /\ cstore' = cstore
    BY DEF HandleInboundRequest
  <2>9. Puts(p, m.req, {b}, C)
    BY <2>3, <2>4, <2>5, <2>6 DEF Puts
  <2>. QED  BY <2>7, <2>8, <2>9, Zenon DEF Logs, recordRequest
<1>. QED  BY <1>2, <1>3

(* handleInboundResponse of a response logs it and asks for a              *)
(* certification.                                                          *)
LEMMA InboundResponseLogs ==
    ASSUME TypeOK, NEW p \in Peer, NEW m \in requests, HandleInboundResponse(p, m)
    PROVE  Logs(p, m.req)
<1>1. m \in Message /\ m.req \in Request
  BY DEF TypeOK, Message
<1>2. PICK C \in SUBSET Certification :
        /\ certs' = certs \cup C
        /\ \A c, d \in C : c = d
        /\ \A c \in C : /\ c.by = p /\ c.req = m.req
                        /\ c.party = m.from /\ c.counterparty = m.sendTo
  BY <1>1, CertificationSent DEF HandleInboundResponse
<1>3. requests' = requests \cup {} /\ {} \in SUBSET Message
  BY DEF HandleInboundResponse
<1>4. m.at = p /\ m.type = "response"
  BY DEF HandleInboundResponse
<1>5. \A c \in C : Answers(m, c)
  BY <1>2, <1>4 DEF Answers
<1>6. Loggable(p, m.req) /\ recordRequest(p, m.req) /\ cstore' = cstore
  BY DEF HandleInboundResponse
<1>7. Puts(p, m.req, {}, C)
  BY <1>2, <1>3, <1>5 DEF Puts
<1>. QED  BY <1>3, <1>6, <1>7, Zenon DEF Logs, recordRequest

(* Every step of Next is of one of the three kinds. *)
LEMMA StepKinds ==
    ASSUME TypeOK, Next
    PROVE  \/ \E p \in Peer, r \in Request : Logs(p, r)
           \/ \E p \in Peer : Moves(p)
           \/ \E p \in Forgetful : Restart(p)
<1>1. ASSUME NEW p \in Peer, NEW q \in Peer, NEW r \in Request, HandleOutbound(p, q, r)
      PROVE  \E x \in Peer, y \in Request : Logs(x, y)
  BY <1>1, OutboundLogs
<1>2. ASSUME NEW p \in Peer, NEW m \in requests,
             \/ \E swap \in BOOLEAN : HandleInboundRequest(p, m, swap)
             \/ HandleInboundResponse(p, m)
      PROVE  \E x \in Peer, y \in Request : Logs(x, y)
  <2>1. m.req \in Request
    BY DEF TypeOK, Message
  <2>2. Logs(p, m.req)
    BY <1>2, InboundRequestLogs, InboundResponseLogs
  <2>. QED  BY <2>1, <2>2
<1>3. ASSUME NEW p \in Tellers, NEW a \in Account, NEW b \in Account, NEW n \in Amount,
             Transfer(p, a, n) \/ TransferFrom(p, a, b, n)
      PROVE  \E x \in Peer : Moves(x)
  <2>1. p \in Peer /\ cstore[p] \in Store
    BY PeersAssumption DEF TypeOK
  <2>2. CASE Transfer(p, a, n)
    <3>1. PICK t \in transfer(cstore[p], a, n) : cstore' = [cstore EXCEPT ![p] = t]
      BY <2>2 DEF Transfer
    <3>2. t \in Store
      BY <2>1, TransferType
    <3>. QED  BY <2>1, <2>2, <3>1, <3>2 DEF Moves, Transfer
  <2>3. CASE TransferFrom(p, a, b, n)
    <3>1. PICK t \in transferFrom(cstore[p], a, b, n) : cstore' = [cstore EXCEPT ![p] = t]
      BY <2>3 DEF TransferFrom
    <3>2. t \in Store
      BY <2>1, TransferFromType
    <3>. QED  BY <2>1, <2>3, <3>1, <3>2 DEF Moves, TransferFrom
  <2>. QED  BY <1>3, <2>2, <2>3
<1>. QED  BY <1>1, <1>2, <1>3 DEF Next

-----------------------------------------------------------------------------
(* Whatever a peer with a lasting asset store has put, it has logged: what *)
(* SpokenOnce and RequestorNeverCertifies rest on.                         *)
Logged ==
    /\ \A m \in requests : m.by \notin Forgetful => m.req \in astore[m.by]
    /\ \A c \in certs : c.by \notin Forgetful => c.req \in astore[c.by]

Inv ==
    /\ TypeOK
    /\ Logged
    /\ SpokenOnce
    /\ RequestorNeverCertifies
    /\ CertifiedWasAnswered

(* A provisioned store is a store. *)
LEMMA FreshStores == Fresh \subseteq Store
BY ProvisionedAssumption DEF Fresh, Store, Entry

(* The invariant holds before anything is sent or moved. *)
LEMMA InitInv == Init => Inv
<1>. SUFFICES ASSUME Init PROVE Inv
  OBVIOUS
<1>1. TypeOK
  BY FreshStores DEF Init, TypeOK
<1>. QED  BY <1>1 DEF Init, Inv, Logged, SpokenOnce, RequestorNeverCertifies,
                      CertifiedWasAnswered

(* A handler preserves it. *)
LEMMA LogsInv ==
    ASSUME Inv, NEW p \in Peer, NEW r \in Request, Logs(p, r)
    PROVE  Inv'
<1>1. PICK M \in SUBSET Message, C \in SUBSET Certification :
         /\ requests' = requests \cup M /\ certs' = certs \cup C
         /\ \A m \in M : m.by = p /\ m.req = r
         /\ \A c \in C : c.by = p /\ c.req = r
         /\ \A m, n \in M : m = n
         /\ \A c, d \in C : c = d
         /\ \A m \in M, c \in C : m.type # "request"
         /\ \A c \in C : \E m \in requests \cup M : Answers(m, c)
  BY DEF Logs, Puts
<1>2. /\ r \notin astore[p]
      /\ astore' = [astore EXCEPT ![p] = @ \cup {r}]
      /\ cstore' = cstore
  BY DEF Logs, Loggable
<1>3. TypeOK'
  BY <1>1, <1>2 DEF Inv, TypeOK
<1>4. \A q \in Peer : astore[q] \subseteq astore'[q] /\ r \in astore'[p]
  BY <1>2 DEF Inv, TypeOK
<1>5. \A m \in requests : m.by \in Peer
  BY DEF Inv, TypeOK, Message
<1>6. \A c \in certs : c.by \in Peer
  BY DEF Inv, TypeOK, Certification
<1>7. Logged'
  BY <1>1, <1>4, <1>5, <1>6 DEF Inv, Logged
<1>8. /\ \A m \in requests : m.by = p /\ m.req = r => p \in Forgetful
      /\ \A c \in certs : c.by = p /\ c.req = r => p \in Forgetful
  BY <1>2 DEF Inv, Logged
<1>9. SpokenOnce'
  BY <1>1, <1>8 DEF Inv, SpokenOnce
<1>10. RequestorNeverCertifies'
  BY <1>1, <1>8 DEF Inv, RequestorNeverCertifies
<1>11. CertifiedWasAnswered'
  <2>1. \A c \in certs : \E m \in requests : Answers(m, c)
    BY DEF Inv, CertifiedWasAnswered, Answers
  <2>2. \A c \in certs' : \E m \in requests' : Answers(m, c)
    BY <1>1, <2>1
  <2>. QED  BY <2>2 DEF CertifiedWasAnswered, Answers
<1>. QED  BY <1>3, <1>7, <1>9, <1>10, <1>11 DEF Inv

(* A token operation preserves it. *)
LEMMA MovesInv ==
    ASSUME Inv, NEW p \in Peer, Moves(p)
    PROVE  Inv'
<1>1. PICK t \in Store : cstore' = [cstore EXCEPT ![p] = t]
  BY DEF Moves
<1>2. UNCHANGED <<astore, requests, certs>>
  BY DEF Moves
<1>3. TypeOK'
  BY <1>1, <1>2 DEF Inv, TypeOK
<1>4. Logged' /\ SpokenOnce' /\ RequestorNeverCertifies' /\ CertifiedWasAnswered'
  BY <1>2 DEF Inv, Logged, SpokenOnce, RequestorNeverCertifies, CertifiedWasAnswered
<1>. QED  BY <1>3, <1>4 DEF Inv

(* A restart without the tries preserves it: the peer is a forgetful one. *)
LEMMA RestartInv ==
    ASSUME Inv, NEW p \in Forgetful, Restart(p)
    PROVE  Inv'
<1>1. PICK s \in Fresh : cstore' = [cstore EXCEPT ![p] = s]
  BY DEF Restart
<1>2. /\ astore' = [astore EXCEPT ![p] = {}]
      /\ UNCHANGED <<requests, certs>>
  BY DEF Restart
<1>3. p \in Peer
  BY PeersAssumption
<1>4. TypeOK'
  BY <1>1, <1>2, FreshStores DEF Inv, TypeOK
<1>5. \A q \in Peer : q # p => astore'[q] = astore[q]
  BY <1>2 DEF Inv, TypeOK
<1>6. Logged'
  <2>1. \A m \in requests : m.by \in Peer
    BY DEF Inv, TypeOK, Message
  <2>2. \A c \in certs : c.by \in Peer
    BY DEF Inv, TypeOK, Certification
  <2>. QED  BY <1>2, <1>5, <2>1, <2>2 DEF Inv, Logged
<1>7. SpokenOnce' /\ RequestorNeverCertifies' /\ CertifiedWasAnswered'
  BY <1>2 DEF Inv, SpokenOnce, RequestorNeverCertifies, CertifiedWasAnswered
<1>. QED  BY <1>4, <1>6, <1>7 DEF Inv

(* The invariant always holds. *)
LEMMA ExchangeInv == Spec => []Inv
<1>1. Inv /\ [Next]_vars => Inv'
  <2>. SUFFICES ASSUME Inv, [Next]_vars PROVE Inv'
    OBVIOUS
  <2>1. CASE Next
    <3>1. TypeOK
      BY DEF Inv
    <3>. QED  BY <2>1, <3>1, StepKinds, LogsInv, MovesInv, RestartInv
  <2>2. CASE UNCHANGED vars
    BY <2>2 DEF vars, Inv, TypeOK, Logged, SpokenOnce, RequestorNeverCertifies,
                CertifiedWasAnswered
  <2>. QED  BY <2>1, <2>2
<1>. QED  BY InitInv, <1>1, PTL DEF Spec

-----------------------------------------------------------------------------
(* Stores, logs and messages stay well formed; in particular every balance *)
(* that token.cpp writes fits its long, amounts of any sign included.      *)
THEOREM ExchangeTypeCorrect == Spec => []TypeOK
<1>1. Inv => TypeOK
  BY DEF Inv
<1>. QED  BY ExchangeInv, <1>1, PTL

(* recordRequest makes handlers speak once: at most one message and one    *)
(* certification request per peer and request, for any number of calls.    *)
THEOREM HandlersSpeakOnce == Spec => []SpokenOnce
<1>1. Inv => SpokenOnce
  BY DEF Inv
<1>. QED  BY ExchangeInv, <1>1, PTL

(* The gate shared by handleOutboundRequest and handleInboundResponse      *)
(* keeps every requestor from asking for the certification of its request. *)
THEOREM RequestorSilent == Spec => []RequestorNeverCertifies
<1>1. Inv => RequestorNeverCertifies
  BY DEF Inv
<1>. QED  BY ExchangeInv, <1>1, PTL

(* No certification is asked for before the response is on the DHT, and    *)
(* none for other sides than the response has (transaction::in).           *)
THEOREM AnsweredFirst == Spec => []CertifiedWasAnswered
<1>1. Inv => CertifiedWasAnswered
  BY DEF Inv
<1>. QED  BY ExchangeInv, <1>1, PTL
=============================================================================
