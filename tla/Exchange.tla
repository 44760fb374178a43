------------------------------ MODULE Exchange ------------------------------
(***************************************************************************)
(* Requests and responses between peers: the entry points a host calls     *)
(* (client::handleOutboundRequest, client::handleInboundResponse), the     *)
(* asset store that gates them (asset::recordRequest), the token balance   *)
(* the gate reads, and what transaction::out and transaction::in put on    *)
(* the DHT.                                                                *)
(*                                                                         *)
(* The listener on requests hands them to a run time that is not part of   *)
(* the program: any host may handle any value at its key, when and as      *)
(* often as it likes, and may call again after a refusal.  A host that     *)
(* answers may swap sender and addressee or leave them.                    *)
(***************************************************************************)
EXTENDS Token

CONSTANTS
    Zero,         \* the id in NodeExport{}, the zero InfoHash
    Request,      \* encodedRequest strings
    Provisioned,  \* what an account's name may hold before any transfer
    Tellers,      \* the peers whose hosts call the token operations
    Forgetful     \* the peers whose tries may be empty after a restart

Peer == Account
InfoHash == Peer \cup {Zero}

ASSUME ZeroAssumption == Zero \notin Peer
ASSUME ProvisionedAssumption == Provisioned \subseteq Entry
ASSUME PeersAssumption == Tellers \subseteq Peer /\ Forgetful \subseteq Peer

VARIABLES
    cstore,    \* per peer, its token store
    astore,    \* per peer, the requests its asset store has logged
    requests,  \* client::request values put on the DHT
    certs      \* certifiedTx values that transaction::in puts

vars == <<cstore, astore, requests, certs>>

Message ==
    [at: InfoHash, by: Peer, from: Peer, sendTo: Peer, req: Request,
     type: {"request", "response"}, requestorPeer: InfoHash,
     responderPeer: InfoHash]

Certification ==
    [at: InfoHash, by: Peer, party: Peer, counterparty: Peer, req: Request]

TypeOK ==
    /\ cstore \in [Peer -> Store]
    /\ astore \in [Peer -> SUBSET Request]
    /\ requests \subseteq Message
    /\ certs \subseteq Certification

(* Token stores as they are provisioned: nothing written by a transfer. *)
Fresh == [Account -> [name: Provisioned, digest: {NoAccount}]]

Init ==
    /\ cstore \in [Peer -> Fresh]
    /\ astore = [p \in Peer |-> {}]
    /\ requests = {} /\ certs = {}

-----------------------------------------------------------------------------
(* node::nodes.  export_nodes unpacks from an unpacker that nobody feeds,  *)
(* so the vector stays empty.                                              *)
Nodes == {}

(* The oldest neighbour by a lifetime that is never set: any node that is  *)
(* known, or the default.                                                  *)
Neighbour(default) == IF Nodes = {} THEN {default} ELSE Nodes \cup {default}

(* Mutant of Loggable: a request already logged is accepted again. *)
LoggableAgain(p, r) == \E b \in balanceOf(cstore[p], p) : b > 0

(* asset::recordRequest succeeds: the request is not logged and the user   *)
(* has a via balance.  Insert may also fail, a refusal like the others.    *)
Loggable(p, r) ==
    /\ r \notin astore[p]
    /\ \E b \in balanceOf(cstore[p], p) : b > 0

(* Mutant of recordRequest: the request is sent but not logged. *)
RecordNothing(p, r) == UNCHANGED astore

(* asset::recordRequest stores the request. *)
recordRequest(p, r) == astore' = [astore EXCEPT ![p] = @ \cup {r}]

(* handleOutboundRequest of a new request.  transaction::out decodes the   *)
(* last entry of the transaction store, a verifiedTx if anything, as a     *)
(* certifiedTx; when that throws, the request stays logged and unsent, as  *)
(* it does when the process ends here.                                     *)
HandleOutbound(p, q, r) ==
    /\ Loggable(p, r)
    /\ recordRequest(p, r)
    /\ \/ UNCHANGED requests
       \/ \E n \in Neighbour(Zero) :
            requests' = requests \cup
                {[at |-> q, by |-> p, from |-> p, sendTo |-> q, req |-> r,
                  type |-> "request", requestorPeer |-> n,
                  responderPeer |-> Zero]}
    /\ UNCHANGED <<cstore, certs>>

(* The certifier transaction::in chooses by sslen, the length of an        *)
(* address: the responder's neighbour unless the requestor's is longer.    *)
CertifyingPeer(m) == {m.requestorPeer, m.responderPeer}

SendCertification(p, m) ==
    \E c \in CertifyingPeer(m) :
        certs' = certs \cup
            {[at |-> c, by |-> p, party |-> m.from, counterparty |-> m.sendTo,
              req |-> m.req]}

(* Mutant of SendAnswer: the certification request is put first. *)
SendAnswerLast(p, answer) ==
    /\ SendCertification(p, answer)
    /\ \/ UNCHANGED requests
       \/ requests' = requests \cup {[answer EXCEPT !.at = answer.sendTo, !.by = p]}

(* transaction::in puts the response at sendTo, then a certification       *)
(* request at the certifier; the process may end between the two.          *)
SendAnswer(p, answer) ==
    /\ requests' = requests \cup {[answer EXCEPT !.at = answer.sendTo, !.by = p]}
    /\ UNCHANGED certs \/ SendCertification(p, answer)

(* handleInboundResponse of a request that has been answered.  When the    *)
(* decoding in transaction::in throws, or the process ends after           *)
(* recordRequest, nothing is put.                                          *)
HandleInboundRequest(p, m, swap) ==
    /\ m \in requests /\ m.at = p /\ m.type = "request"
    /\ Loggable(p, m.req)
    /\ recordRequest(p, m.req)
    /\ \/ UNCHANGED <<requests, certs>>
       \/ \E n \in Neighbour(m.requestorPeer) :
            SendAnswer(p, [m EXCEPT !.from = IF swap THEN m.sendTo ELSE m.from,
                                    !.sendTo = IF swap THEN m.from ELSE m.sendTo,
                                    !.responderPeer = n, !.type = "response"])
    /\ UNCHANGED cstore

(* handleInboundResponse of a response: only the certification request,    *)
(* unless the process ends before it.                                      *)
HandleInboundResponse(p, m) ==
    /\ m \in requests /\ m.at = p /\ m.type = "response"
    /\ Loggable(p, m.req)
    /\ recordRequest(p, m.req)
    /\ UNCHANGED certs \/ SendCertification(p, m)
    /\ UNCHANGED <<cstore, requests>>

(* A host moves tokens. *)
Transfer(p, to, amount) ==
    /\ cstore' \in {[cstore EXCEPT ![p] = s] : s \in transfer(cstore[p], to, amount)}
    /\ UNCHANGED <<astore, requests, certs>>

TransferFrom(p, from, to, amount) ==
    /\ cstore' \in {[cstore EXCEPT ![p] = s]
                      : s \in transferFrom(cstore[p], from, to, amount)}
    /\ UNCHANGED <<astore, requests, certs>>

(* The process of p is started again and its tries do not come back; the   *)
(* token store is provisioned anew.                                        *)
Restart(p) ==
    /\ \E s \in Fresh : cstore' = [cstore EXCEPT ![p] = s]
    /\ astore' = [astore EXCEPT ![p] = {}]
    /\ UNCHANGED <<requests, certs>>

Next ==
    \/ \E p, q \in Peer, r \in Request : HandleOutbound(p, q, r)
    \/ \E p \in Peer, m \in requests :
         \/ \E swap \in BOOLEAN : HandleInboundRequest(p, m, swap)
         \/ HandleInboundResponse(p, m)
    \/ \E p \in Tellers, a, b \in Account, n \in Amount :
         Transfer(p, a, n) \/ TransferFrom(p, a, b, n)
    \/ \E p \in Forgetful : Restart(p)

Spec == Init /\ [][Next]_vars

(* Hosts get round to the responses that arrive. *)
FairSpec ==
    Spec /\ \A p \in Peer : WF_vars(\E m \in requests : HandleInboundResponse(p, m))

-----------------------------------------------------------------------------
(* A peer whose asset store survives restarts puts at most one message and *)
(* at most one certification request for a request text, whichever of the  *)
(* two handlers runs, however often and for whatever addressee: a host     *)
(* that repeats a call or handles a value twice is refused.                *)
SpokenOnce ==
    /\ \A m, n \in requests :
         m.by = n.by /\ m.req = n.req /\ m.by \notin Forgetful => m = n
    /\ \A c, d \in certs :
         c.by = d.by /\ c.req = d.req /\ c.by \notin Forgetful => c = d

(* The requestor's host never asks for a certification: handling the       *)
(* response goes through the same recordRequest as sending the request,    *)
(* and finds the request logged.                                           *)
RequestorNeverCertifies ==
    \A m \in requests, c \in certs :
        m.type = "request" /\ m.by = c.by /\ m.req = c.req => m.by \in Forgetful

(* A certification is asked for only when a response with the same         *)
(* request between the same two sides is on the DHT, put by whoever asks   *)
(* or received by it: not when a process ends inside transaction::in, and  *)
(* not when hosts repeat calls, swap the sides or lose their logs.         *)
CertifiedWasAnswered ==
    \A c \in certs : \E m \in requests :
        /\ m.type = "response" /\ m.req = c.req
        /\ m.from = c.party /\ m.sendTo = c.counterparty
        /\ c.by \in {m.by, m.at}

-----------------------------------------------------------------------------
(* What comments of the code say, and the code does not do. *)

(* transaction.cpp, in: "for all outgoing and incoming responses,          *)
(* transaction certification requests are sent": a peer that has a via     *)
(* balance and gets a response from another peer asks for a certification. *)
ResponsesCertified ==
    \A p \in Peer, r \in Request :
        (/\ cstore[p][p].name \in 1..LongMax
         /\ \E m \in requests :
              m.at = p /\ m.by # p /\ m.req = r /\ m.type = "response")
          ~> (\E c \in certs : c.by = p /\ c.req = r)

(* transaction.cpp, in: "put request on network for certifying peer": the  *)
(* key a certification request is put at is that of a peer.                *)
CertifierAsked == \A c \in certs : c.at \in Peer

(* asset.cpp, recordRequest: "no request is logged yet, check if enough    *)
(* via balance exists to create request": no request is logged when the    *)
(* balance last recorded for the user is used up.                          *)
SpentBalanceRefused ==
    [][\A p \in Peer :
         astore'[p] \subseteq astore[p] \/ cstore[p][p].digest \notin (-LongMax - 1)..0]_vars
=============================================================================
