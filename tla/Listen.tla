------------------------------- MODULE Listen -------------------------------
(***************************************************************************)
(* Dht::listen on one key: what reaches the callback of a listener.         *)
(*                                                                         *)
(* Values come from the node's own storage and from a search per address    *)
(* family.  A search keeps a ValueCache for each node it listens to; all    *)
(* feed one OpCache, which counts the caches that hold a value and tells    *)
(* its listeners of the first and the last.  Each listener's callback sits  *)
(* behind a count of its own over the three sources (cacheCallback).        *)
(*                                                                         *)
(* All of it runs on the DHT thread.  A ValueCache changes first and calls  *)
(* back afterwards, batch by batch; the batches are steps of their own and  *)
(* nothing else happens between them.  Queries have no WHERE, as in the     *)
(* program, so each search has at most one OpCache at a time.  Values of    *)
(* one type: created is expiration less Ttl.                                *)
(***************************************************************************)
EXTENDS Integers, FiniteSets

CONSTANTS
    Listener,   \* calls of listen
    Wants,      \* the values that pass the filter of a listener
    Id,         \* ids of values
    Node,       \* nodes that are listened to
    FamilyOf,   \* their address families
    Ttl,        \* ValueType::expiration
    Grace,      \* OpCache::EXPIRATION
    MaxValues,  \* ValueCache::MAX_VALUES
    Scenes,     \* what takes part: listeners, values, sockets, room for a Storage
    MaxTime,    \* bound on the clock
    MaxSeen     \* bound on the counts of a value that is stored anew

IPv4 == 4
IPv6 == 6
Family == {IPv4, IPv6}
Never == MaxTime + Ttl + Grace + 1   \* time_point::max
Time == 0 .. Never
NotHeld == 0                         \* an id that a ValueCache does not hold

ASSUME FiniteAssumption == IsFiniteSet(Node) /\ IsFiniteSet(Id)
ASSUME WantsAssumption == Wants \in [Listener -> SUBSET Id]
ASSUME FamilyAssumption == FamilyOf \in [Node -> Family]
ASSUME SceneAssumption ==
    Scenes \subseteq [up: SUBSET Family, room: BOOLEAN, values: SUBSET Id,
                      listeners: SUBSET Listener]
ASSUME TimeAssumption ==
    {MaxTime, Grace, MaxValues, MaxSeen} \subseteq Nat /\ Ttl \in Nat \ {0}

VARIABLES
    up,         \* the families that have a socket
    room,       \* store may hold a Storage for the key
    values,     \* the values that anybody stores under the key
    now,        \* scheduler.time()
    status,     \* per listener: none, active (its token is in listeners), refused, cancelled
    stopped,    \* history: listeners that were cancelled or whose callback said so
    seen,       \* refCount per value in the OpValueCache before each callback
    local,      \* the values of the Storage
    locals,     \* its local_listeners
    lost,       \* history: values that left the Storage without notice
    live,       \* the families whose search has an OpCache
    refs,       \* refCount per value in the OpCaches
    lst,        \* listeners of the OpCaches
    nodes, syncedNodes,
    removed,    \* lastRemoved
    next,       \* nextExpiration_, the time of opExpirationJob
    listening,  \* the nodes with a CachedListenStatus
    insync,     \* those whose ValueCache has status SYNCED
    exp,        \* expiration per value in the ValueCaches
    job,        \* the time of cacheExpirationJob
    due,        \* the callbacks a ValueCache has queued
    fate        \* ok, an endless loop, or undefined behaviour

env == <<up, room, values>>
hosts == <<status, stopped, seen>>
storage == <<local, locals, lost>>
ops == <<live, refs, lst, nodes, syncedNodes, removed, next>>
caches == <<listening, insync, exp, job>>
vars == <<env, now, hosts, storage, ops, caches, due, fate>>

TypeOK ==
    /\ up \subseteq Family /\ room \in BOOLEAN /\ values \subseteq Id
    /\ now \in 0 .. MaxTime
    /\ status \in [Listener -> {"none", "active", "refused", "cancelled"}]
    /\ stopped \subseteq Listener
    /\ seen \in [Listener -> [Id -> Nat]]
    /\ local \subseteq Id /\ locals \subseteq Listener /\ lost \subseteq Id
    /\ live \subseteq Family
    /\ refs \in [Family -> [Id -> Nat]]
    /\ lst \in [Family -> SUBSET Listener]
    /\ nodes \in [Family -> Nat] /\ syncedNodes \in [Family -> Nat]
    /\ removed \in [Family -> 0 .. MaxTime]
    /\ next \in [Family -> Time]
    /\ listening \subseteq Node /\ insync \subseteq listening
    /\ exp \in [Node -> [Id -> Time]]
    /\ job \in [Node -> Time]
    /\ due \in [to: Family, added: SUBSET Id, gone: SUBSET Id]
    /\ fate \in {"ok", "hung", "undefined"}

NoRefs == [v \in Id |-> 0]
NoValues == [v \in Id |-> NotHeld]

Init ==
    /\ \E scene \in Scenes :
         /\ up = scene.up /\ room = scene.room /\ values = scene.values
         /\ status = [l \in Listener |-> IF l \in scene.listeners THEN "none" ELSE "refused"]
    /\ now = 0
    /\ stopped = {}
    /\ seen = [l \in Listener |-> NoRefs]
    /\ local = {} /\ locals = {} /\ lost = {}
    /\ live = {} /\ refs = [f \in Family |-> NoRefs]
    /\ lst = [f \in Family |-> {}]
    /\ nodes = [f \in Family |-> 0] /\ syncedNodes = [f \in Family |-> 0]
    /\ removed = [f \in Family |-> 0] /\ next = [f \in Family |-> Never]
    /\ listening = {} /\ insync = {}
    /\ exp = [n \in Node |-> NoValues] /\ job = [n \in Node |-> Never]
    /\ due = [to |-> IPv4, added |-> {}, gone |-> {}]
    /\ fate = "ok"

Idle == due.added = {} /\ due.gone = {}

-----------------------------------------------------------------------------
(* Callbacks. *)

Smaller(m, n) == IF m < n THEN m ELSE n

(* Mutant of Unregister: a listener that is cancelled stays in the search   *)
(* of IPv6.                                                                 *)
UnregisterIPv4(C) ==
    /\ status' = [l \in Listener |-> IF l \in C THEN "cancelled" ELSE status[l]]
    /\ locals' = locals \ C
    /\ lst' = [lst EXCEPT ![IPv4] = @ \ C]
    /\ removed' = [f \in Family |-> IF lst[f] \cap C # {} THEN now ELSE removed[f]]
    /\ next' = [f \in Family |->
                   IF lst[f] \cap C # {} /\ lst[f] \subseteq C
                   THEN Smaller(next[f], now + Grace) ELSE next[f]]

(* Dht::cancelListen of listeners whose tokens are known: the Storage and   *)
(* both searches forget them; an OpCache without listeners is given until   *)
(* the end of its grace period.                                             *)
Unregister(C) ==
    /\ status' = [l \in Listener |-> IF l \in C THEN "cancelled" ELSE status[l]]
    /\ locals' = locals \ C
    /\ lst' = [f \in Family |-> lst[f] \ C]
    /\ removed' = [f \in Family |-> IF lst[f] \cap C # {} THEN now ELSE removed[f]]
    /\ next' = [f \in Family |->
                   IF lst[f] \cap C # {} /\ lst[f] \subseteq C
                   THEN Smaller(next[f], now + Grace) ELSE next[f]]

Reply == [storage: BOOLEAN, IPv4: BOOLEAN, IPv6: BOOLEAN]

Active(S) == {l \in S : status[l] = "active"}

Minus1(n) == IF n = 0 THEN 0 ELSE n - 1

(* OpValueCache::onValuesExpired and onValuesAdded, for one value. *)
Counted(n, gone) == IF gone THEN Minus1(n) ELSE n + 1

(* A value whose count passes 0 is reported. *)
Reported(n, gone) == n = IF gone THEN 1 ELSE 0

(* A source tells the listeners in S; the callback of a listener is called  *)
(* with the values that are new to it, or gone for it, and those in no      *)
(* return false: they are cancelled, if their token is known.               *)
Notify(S, vs, gone, no) ==
    /\ no \subseteq {l \in S : \E v \in vs \cap Wants[l] : Reported(seen[l][v], gone)}
    /\ seen' = [l \in Listener |->
                   IF l \in Active(no) THEN NoRefs
                   ELSE [v \in Id |-> IF l \in S /\ v \in vs \cap Wants[l]
                                      THEN Counted(seen[l][v], gone) ELSE seen[l][v]]]
    /\ stopped' = stopped \cup no
    /\ Unregister(Active(no))

(* Mutant of FirstHeld: listeners hear of every addition. *)
EverHeld(f, vs) == vs

(* The values an OpCache does not hold yet. *)
FirstHeld(f, vs) == {v \in vs : refs[f][v] = 0}

(* OpCache::onValue with the next batch a ValueCache has queued: additions  *)
(* first.                                                                   *)
Added(no) ==
    LET f == due.to
    IN  /\ due.added # {}
        /\ Notify(lst[f], FirstHeld(f, due.added), FALSE, no)
        /\ refs' = [refs EXCEPT ![f] = [v \in Id |->
                       IF v \in due.added THEN Counted(@[v], FALSE) ELSE @[v]]]
        /\ due' = [due EXCEPT !.added = {}]

(* Values the ValueCache dropped, in one batch or several. *)
Gone(batch, no) ==
    LET f == due.to
    IN  /\ due.added = {} /\ batch # {} /\ batch \subseteq due.gone
        /\ Notify(lst[f], {v \in batch : refs[f][v] = 1}, TRUE, no)
        /\ refs' = [refs EXCEPT ![f] = [v \in Id |->
                       IF v \in batch THEN Counted(@[v], TRUE) ELSE @[v]]]
        /\ due' = [due EXCEPT !.gone = @ \ batch]

Callback ==
    /\ \E no \in SUBSET lst[due.to] : Added(no) \/ \E batch \in SUBSET due.gone : Gone(batch, no)
    /\ UNCHANGED <<env, now, local, lost, live, nodes, syncedNodes, caches, fate>>
-----------------------------------------------------------------------------
(* The host. *)

(* OpCache::addListener and cacheCallback: the callback is called with the  *)
(* cached values it does not know.                                          *)
Offered(l, known, f) == {v \in Wants[l] : refs[f][v] > 0} \ known

(* Dht::listen.  The callback is offered what the Storage holds, then what  *)
(* the OpCache of IPv4 holds and, if it accepts, what the one of IPv6       *)
(* holds; yes tells which offers it accepts.  When IPv6 does not take the   *)
(* listener, the Storage forgets it and no token is returned, but the       *)
(* search of IPv4 keeps it.                                                 *)
Listen(l, yes) ==
    LET stored == local \cap Wants[l]
        told4 == {v \in Wants[l] : refs[IPv4][v] > 0}
        ok0 == stored = {} \/ yes.storage
        try4 == ok0 /\ IPv4 \in up
        ok4 == try4 /\ (Offered(l, stored, IPv4) = {} \/ yes.IPv4)
        try6 == ok4 /\ IPv6 \in up
        ok6 == try6 /\ (Offered(l, stored \cup told4, IPv6) = {} \/ yes.IPv6)
        try == [f \in Family |-> IF f = IPv4 THEN try4 ELSE try6]
        ok == [f \in Family |-> IF f = IPv4 THEN ok4 ELSE ok6]
        accepted == ok0 /\ (ok6 \/ ~room)
    IN  /\ Idle /\ status[l] = "none"
        /\ status' = [status EXCEPT ![l] = IF accepted THEN "active" ELSE "refused"]
        /\ locals' = IF accepted /\ room THEN locals \cup {l} ELSE locals
        /\ lst' = [f \in Family |-> IF ok[f] THEN lst[f] \cup {l} ELSE lst[f]]
        /\ live' = live \cup {f \in Family : try[f]}
        /\ removed' = [f \in Family |-> IF try[f] /\ f \notin live THEN now ELSE removed[f]]
        /\ seen' = [seen EXCEPT ![l] = IF ~accepted /\ ~ok4 THEN NoRefs ELSE [v \in Id |->
                      Cardinality({f \in Family : try[f] /\ v \in Wants[l] /\ refs[f][v] > 0})
                      + (IF v \in stored THEN 1 ELSE 0)]]
        /\ stopped' = IF ok0 /\ try = ok THEN stopped ELSE stopped \cup {l}
        /\ UNCHANGED <<env, now, local, lost, refs, nodes, syncedNodes, next, caches, due, fate>>

CancelListen(l) ==
    /\ Idle /\ status[l] = "active"
    /\ Unregister({l})
    /\ seen' = [seen EXCEPT ![l] = NoRefs]
    /\ stopped' = stopped \cup {l}
    /\ UNCHANGED <<env, now, local, lost, live, refs, nodes, syncedNodes, caches, due, fate>>

-----------------------------------------------------------------------------
(* The Storage of the key. *)

(* storageChanged for a new value. *)
StorageChanged(v) ==
    /\ Idle /\ room /\ v \notin local
    /\ \A l \in locals : seen[l][v] < MaxSeen
    /\ local' = local \cup {v}
    /\ \E no \in SUBSET locals : Notify(locals, {v}, FALSE, no)
    /\ UNCHANGED <<env, now, lost, live, refs, nodes, syncedNodes, caches, due, fate>>

(* expireStore: local_listeners is not copied before the callbacks, so one  *)
(* that returns false erases the element the loop is at.                    *)
StorageExpired(vs) ==
    /\ Idle /\ vs # {} /\ vs \subseteq local
    /\ local' = local \ vs
    /\ \E no \in SUBSET locals :
         /\ Notify(locals, vs, TRUE, no)
         /\ fate' = IF no = {} THEN fate ELSE "undefined"
    /\ UNCHANGED <<env, now, lost, live, refs, nodes, syncedNodes, caches, due>>

(* cancelPut, and values discarded to make room: nobody is told. *)
StorageErased(v) ==
    /\ Idle /\ v \in local
    /\ local' = local \ {v}
    /\ lost' = lost \cup {v}
    /\ UNCHANGED <<env, now, hosts, locals, ops, caches, due, fate>>

-----------------------------------------------------------------------------
(* The ValueCaches. *)

(* searchSynchedNodeListen. *)
SendListen(n) ==
    /\ Idle /\ FamilyOf[n] \in live /\ n \notin listening
    /\ listening' = listening \cup {n}
    /\ nodes' = [nodes EXCEPT ![FamilyOf[n]] = @ + 1]
    /\ exp' = [exp EXCEPT ![n] = NoValues]
    /\ job' = [job EXCEPT ![n] = Never]
    /\ UNCHANGED <<env, now, hosts, storage, live, refs, lst, syncedNodes, removed, next,
                   insync, due, fate>>

(* Mutant of NewlySynced: every confirmation counts. *)
AlwaysSynced(n) == TRUE

(* onSynced acts on a change of status. *)
NewlySynced(n) == n \notin insync

(* The confirmation of a listen request. *)
ListenDone(n) ==
    /\ Idle /\ n \in listening
    /\ insync' = insync \cup {n}
    /\ syncedNodes' = [syncedNodes EXCEPT ![FamilyOf[n]] = IF NewlySynced(n) THEN @ + 1 ELSE @]
    /\ UNCHANGED <<env, now, hosts, storage, live, refs, lst, nodes, removed, next,
                   listening, exp, job, due, fate>>

HeldBy(n) == {v \in Id : exp[n][v] # NotHeld}

(* Mutant of NextJob: a refreshed cache keeps no job. *)
NextJobNever(T) == Never

(* The earliest of the expirations. *)
NextJob(T) == CHOOSE t \in T \cup {Never} : \A u \in T \cup {Never} : t <= u

(* ValueCache::onValues and expireValues: values are added or refreshed,    *)
(* others refreshed or expired on request, then what is past its expiration *)
(* goes, and the oldest if there are too many.                              *)
OnValues(n, vs, refreshed, expired) ==
    LET was == HeldBy(n)
        fresh == vs \cup (refreshed \cap was)
        e == [v \in Id |-> IF v \in fresh THEN now + Ttl ELSE exp[n][v]]
        kept == {v \in (was \cup vs) \ expired : e[v] > now}
    IN  /\ Idle /\ n \in listening
        /\ \E over \in SUBSET kept :
             /\ Cardinality(kept \ over) <= MaxValues
             /\ over # {} => Cardinality(kept \ over) = MaxValues
             /\ \A v \in over, w \in kept \ over : e[v] <= e[w]
             /\ exp' = [exp EXCEPT ![n] =
                           [v \in Id |-> IF v \in kept \ over THEN e[v] ELSE NotHeld]]
             /\ due' = [to |-> FamilyOf[n], added |-> vs \ was,
                        gone |-> (was \cup vs) \ (kept \ over)]
        /\ job' = [job EXCEPT ![n] = NextJob({e[v] : v \in kept})]
        /\ UNCHANGED <<env, now, hosts, storage, ops, listening, insync, fate>>

(* A message of a node: tellListener, tellListenerRefreshed or              *)
(* tellListenerExpired.                                                     *)
Told(n) ==
    \E vs \in SUBSET values \ {{}} :
        OnValues(n, vs, {}, {}) \/ OnValues(n, {}, vs, {}) \/ OnValues(n, {}, {}, vs)

ExpireValues(n) ==
    /\ job[n] <= now
    /\ OnValues(n, {}, {}, {})

(* Mutant of Cleared: the values go without a callback. *)
ClearedSilently(n) == {}

(* ValueCache::clear. *)
Cleared(n) == HeldBy(n)

(* Mutant of StillSynced: the status outlives the cache. *)
StillSyncedAll(n) == insync

(* ... and UNSYNCED, if it was in sync. *)
StillSynced(n) == insync \ {n}

(* ~ValueCache: the request expired, or the node left the search. *)
NodeGone(n) ==
    /\ Idle /\ n \in listening
    /\ listening' = listening \ {n} /\ insync' = StillSynced(n)
    /\ exp' = [exp EXCEPT ![n] = NoValues] /\ job' = [job EXCEPT ![n] = Never]
    /\ due' = [to |-> FamilyOf[n], added |-> {}, gone |-> Cleared(n)]
    /\ nodes' = [nodes EXCEPT ![FamilyOf[n]] = @ - 1]
    /\ syncedNodes' = [syncedNodes EXCEPT ![FamilyOf[n]] = IF n \in insync THEN @ - 1 ELSE @]
    /\ UNCHANGED <<env, now, hosts, storage, live, refs, lst, removed, next, fate>>

(* SearchCache::expire, run by opExpirationJob: an OpCache past its grace   *)
(* period goes with the ValueCaches that feed it.  At the very end of the   *)
(* period it stays, and the job is scheduled for the same time again, which *)
(* Scheduler::run never gets past.                                          *)
OpExpire(f) ==
    /\ Idle /\ next[f] <= now
    /\ \/ /\ lst[f] # {}
          /\ next' = [next EXCEPT ![f] = Never]
          /\ UNCHANGED <<live, refs, nodes, syncedNodes, caches, fate>>
       \/ /\ lst[f] = {} /\ removed[f] + Grace >= now
          /\ next' = [next EXCEPT ![f] = removed[f] + Grace]
          /\ fate' = IF removed[f] + Grace = now THEN "hung" ELSE fate
          /\ UNCHANGED <<live, refs, nodes, syncedNodes, caches>>
       \/ /\ lst[f] = {} /\ removed[f] + Grace < now
          /\ next' = [next EXCEPT ![f] = Never]
          /\ live' = live \ {f}
          /\ refs' = [refs EXCEPT ![f] = NoRefs]
          /\ nodes' = [nodes EXCEPT ![f] = 0] /\ syncedNodes' = [syncedNodes EXCEPT ![f] = 0]
          /\ listening' = {n \in listening : FamilyOf[n] # f}
          /\ insync' = {n \in insync : FamilyOf[n] # f}
          /\ exp' = [n \in Node |-> IF FamilyOf[n] = f THEN NoValues ELSE exp[n]]
          /\ job' = [n \in Node |-> IF FamilyOf[n] = f THEN Never ELSE job[n]]
          /\ UNCHANGED fate
    /\ UNCHANGED <<env, now, hosts, storage, lst, removed, due>>

Tick ==
    /\ Idle /\ now < MaxTime
    /\ now' = now + 1
    /\ UNCHANGED <<env, hosts, storage, ops, caches, due, fate>>

-----------------------------------------------------------------------------
Next ==
    /\ fate = "ok"
    /\ \/ Callback
       \/ \E l \in Listener : CancelListen(l) \/ \E yes \in Reply : Listen(l, yes)
       \/ \E v \in values : StorageChanged(v) \/ StorageErased(v)
       \/ \E vs \in SUBSET values : StorageExpired(vs)
       \/ \E n \in Node :
            SendListen(n) \/ ListenDone(n) \/ Told(n) \/ ExpireValues(n) \/ NodeGone(n)
       \/ \E f \in Family : OpExpire(f)
       \/ Tick

Spec == Init /\ [][Next]_vars

-----------------------------------------------------------------------------
InFamily(S, f) == {n \in S : FamilyOf[n] = f}

(* Between callbacks an OpCache counts, for each value, exactly the         *)
(* ValueCaches that hold it, whatever was added, refreshed, expired or      *)
(* dropped with its node, so no value is lost early or kept for ever        *)
(* (op_cache.cpp:24-57, value_cache.h:42).                                  *)
RefCountExact ==
    Idle => \A f \in Family, v \in Id :
        refs[f][v] = Cardinality({n \in InFamily(listening, f) : v \in HeldBy(n)})

(* The counters behind isSynced are the nodes listened to and those that    *)
(* confirmed, so a get is answered from the cache only when all did, and    *)
(* they never underflow (op_cache.h:62-70).                                 *)
SyncExact ==
    \A f \in Family :
        /\ nodes[f] = Cardinality(InFamily(listening, f))
        /\ syncedNodes[f] = Cardinality(InFamily(insync, f))

(* End to end: between callbacks, the values a listener was told of and not *)
(* told the end of are those that some source it is registered with holds,  *)
(* up to values that left the Storage without notice (dht.cpp:863-894).     *)
SeenIsHeld ==
    Idle => \A l \in Listener \ stopped : status[l] = "active" =>
        \A v \in Wants[l] \ lost :
            seen[l][v] > 0 <=>
                \/ l \in locals /\ v \in local
                \/ \E n \in listening : l \in lst[FamilyOf[n]] /\ v \in HeldBy(n)

(* A listener that was cancelled, or whose callback returned false, is      *)
(* registered nowhere and not called again; the one exception is the search *)
(* of IPv4 when IPv6 was refused (dht.cpp:885-890).                         *)
StoppedSilent ==
    \A l \in stopped :
        /\ l \notin locals \cup lst[IPv6]
        /\ status[l] = "cancelled" => l \notin lst[IPv4]

(* Every value a node told of goes in time if the node falls silent, and an *)
(* OpCache without listeners does too: their jobs are never late            *)
(* (dht.cpp:618, search.h:539).                                             *)
ExpiryScheduled ==
    /\ \A n \in listening : \A v \in HeldBy(n) : job[n] <= exp[n][v]
    /\ \A f \in live : lst[f] = {} => next[f] <= removed[f] + Grace
=============================================================================
