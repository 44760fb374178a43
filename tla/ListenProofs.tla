---------------------------- MODULE ListenProofs ----------------------------
(***************************************************************************)
(* What holds of listen on one key for any number of listeners, nodes and   *)
(* values, and for any life and grace times.                                *)
(***************************************************************************)
EXTENDS Listen, FiniteSetTheorems, WellFoundedInduction, TLAPS

-----------------------------------------------------------------------------
(* Operators. *)

(* A set of times that is not empty has an earliest one. *)
LEMMA MinExists ==
    ASSUME NEW T, T \subseteq Nat, T # {}
    PROVE  \E t \in T : \A u \in T : t <= u
<1>. DEFINE R == {p \in Nat \X Nat : p[1] < p[2]}
<1>1. IsWellFoundedOn(R, Nat)
  BY NatLessThanWellFounded DEF OpToRel, IsWellFoundedOn
<1>2. PICK t \in T : \A u \in T : ~(<<u, t>> \in R)
  BY <1>1, WFMin
<1>3. \A u \in T : ~(u < t)
  BY <1>2
<1>. QED  BY <1>3

(* The times an action computes are times. *)
LEMMA TimeFacts ==
    /\ Never \in Nat /\ Never \in Time /\ 0 \in Time /\ NotHeld \in Time
    /\ 0 \in 0 .. MaxTime /\ Time \subseteq Nat
    /\ \A t \in 0 .. MaxTime : t + Ttl \in Time /\ t + Grace \in Time /\ t + Ttl > t /\ t \in Nat
    /\ \A t, u \in Time : Smaller(t, u) \in Time /\ Smaller(t, u) <= u
<1>. MaxTime \in Nat /\ Grace \in Nat /\ Ttl \in Nat /\ Ttl > 0
  BY TimeAssumption
<1>. QED  BY DEF Never, Time, NotHeld, Smaller

(* The job of a ValueCache is no later than any of the expirations. *)
LEMMA NextJobEarliest ==
    ASSUME NEW T, T \subseteq Time
    PROVE  NextJob(T) \in Time /\ \A t \in T : NextJob(T) <= t
<1>. DEFINE U == T \cup {Never}
<1>1. U \subseteq Nat /\ U # {} /\ U \subseteq Time
  BY TimeFacts
<1>2. \E t \in U : \A u \in U : t <= u
  BY <1>1, MinExists
<1>3. NextJob(T) \in U /\ \A u \in U : NextJob(T) <= u
  BY <1>2 DEF NextJob
<1>. QED  BY <1>1, <1>3

(* The two families. *)
LEMMA Families == Family = {IPv4, IPv6} /\ IPv4 # IPv6 /\ IPv4 \in Family /\ IPv6 \in Family
BY DEF Family, IPv4, IPv6

(* Any set of nodes, and any of values, is finite. *)
LEMMA Finite ==
    /\ \A S \in SUBSET Node : IsFiniteSet(S) /\ Cardinality(S) \in Nat
    /\ \A S \in SUBSET Id : IsFiniteSet(S) /\ Cardinality(S) \in Nat
BY FiniteAssumption, FS_Subset, FS_CardinalityType

(* One node more, or less, in a set of nodes. *)
LEMMA OneNode ==
    ASSUME NEW S \in SUBSET Node, NEW n \in Node
    PROVE  /\ Cardinality(S) \in Nat /\ IsFiniteSet(S)
           /\ n \notin S => Cardinality(S \cup {n}) = Cardinality(S) + 1
           /\ n \in S => Cardinality(S \ {n}) = Cardinality(S) - 1 /\ Cardinality(S) > 0
<1>1. Cardinality(S) \in Nat /\ IsFiniteSet(S)
  BY Finite
<1>2. n \notin S => Cardinality(S \cup {n}) = Cardinality(S) + 1
  BY <1>1, FS_AddElement
<1>3. ASSUME n \in S PROVE Cardinality(S \ {n}) = Cardinality(S) - 1 /\ Cardinality(S) > 0
  <2>1. Cardinality(S \ {n}) = Cardinality(S) - 1
    BY <1>1, <1>3, FS_RemoveElement
  <2>2. Cardinality(S \ {n}) \in Nat
    BY Finite
  <2>. QED  BY <1>1, <2>1, <2>2
<1>. QED  BY <1>1, <1>2, <1>3

(* A set of nodes has a positive cardinality when it has an element. *)
LEMMA SomeNode ==
    ASSUME NEW S \in SUBSET Node
    PROVE  Cardinality(S) > 0 <=> \E n \in Node : n \in S
<1>1. IsFiniteSet(S) /\ Cardinality(S) \in Nat
  BY Finite
<1>2. Cardinality(S) = 0 <=> S = {}
  BY <1>1, FS_EmptySet
<1>. QED  BY <1>1, <1>2

-----------------------------------------------------------------------------
(* Types, and the counters behind isSynced. *)

(* What cancelling listeners changes keeps its type. *)
LEMMA UnregisterTypes ==
    ASSUME TypeOK, NEW C \in SUBSET Listener, Unregister(C)
    PROVE  /\ status' \in [Listener -> {"none", "active", "refused", "cancelled"}]
           /\ locals' \subseteq Listener
           /\ lst' \in [Family -> SUBSET Listener]
           /\ removed' \in [Family -> 0 .. MaxTime]
           /\ next' \in [Family -> Time]
<1>1. next' \in [Family -> Time]
  BY TimeFacts DEF TypeOK, Unregister
<1>2. removed' \in [Family -> 0 .. MaxTime]
  BY DEF TypeOK, Unregister
<1>. QED  BY <1>1, <1>2 DEF TypeOK, Unregister

(* So does what a source changes by telling its listeners. *)
LEMMA NotifyTypes ==
    ASSUME TypeOK, NEW S \in SUBSET Listener, NEW vs \in SUBSET Id, NEW gone \in BOOLEAN,
           NEW no \in SUBSET S, Notify(S, vs, gone, no)
    PROVE  /\ status' \in [Listener -> {"none", "active", "refused", "cancelled"}]
           /\ locals' \subseteq Listener
           /\ lst' \in [Family -> SUBSET Listener]
           /\ removed' \in [Family -> 0 .. MaxTime]
           /\ next' \in [Family -> Time]
           /\ seen' \in [Listener -> [Id -> Nat]]
           /\ stopped' \subseteq Listener
<1>1. Unregister(Active(no)) /\ Active(no) \in SUBSET Listener
  BY DEF Notify, Active
<1>2. \A n \in Nat : Counted(n, gone) \in Nat
  BY DEF Counted, Minus1
<1>3. NoRefs \in [Id -> Nat]
  BY DEF NoRefs
<1>4. ASSUME NEW l \in Listener
      PROVE  [v \in Id |-> IF l \in S /\ v \in vs \cap Wants[l]
                           THEN Counted(seen[l][v], gone) ELSE seen[l][v]] \in [Id -> Nat]
  BY <1>2 DEF TypeOK
<1>5. seen' \in [Listener -> [Id -> Nat]]
  BY <1>3, <1>4 DEF Notify
<1>6. stopped' \subseteq Listener
  BY DEF Notify, TypeOK
<1>. QED  BY <1>1, <1>5, <1>6, UnregisterTypes

(* The first states. *)
LEMMA TypesInit == Init => TypeOK
<1>. SUFFICES ASSUME Init PROVE TypeOK
  OBVIOUS
<1>1. up \subseteq Family /\ room \in BOOLEAN /\ values \subseteq Id
      /\ status \in [Listener -> {"none", "active", "refused", "cancelled"}]
  BY SceneAssumption DEF Init
<1>2. exp \in [Node -> [Id -> Time]] /\ job \in [Node -> Time] /\ next \in [Family -> Time]
  BY TimeFacts DEF Init, NoValues
<1>3. seen \in [Listener -> [Id -> Nat]] /\ refs \in [Family -> [Id -> Nat]]
  BY DEF Init, NoRefs
<1>4. due \in [to: Family, added: SUBSET Id, gone: SUBSET Id]
  BY Families DEF Init
<1>5. now \in 0 .. MaxTime /\ removed \in [Family -> 0 .. MaxTime]
  BY TimeFacts DEF Init
<1>. QED  BY <1>1, <1>2, <1>3, <1>4, <1>5 DEF Init, TypeOK

(* What a batch does to a ValueCache: it keeps some of the values it held   *)
(* or was told of, its job is no later than any of their expirations, and   *)
(* the callbacks are for exactly what came and what went.                   *)
LEMMA OnValuesFacts ==
    ASSUME TypeOK, NEW n \in Node, Told(n) \/ ExpireValues(n)
    PROVE  /\ Idle /\ n \in listening
           /\ exp' \in [Node -> [Id -> Time]] /\ job' \in [Node -> Time]
           /\ \A m \in Node \ {n} : exp'[m] = exp[m] /\ job'[m] = job[m]
           /\ \A v \in HeldBy(n)' : job'[n] <= exp'[n][v]
           /\ \E vs \in SUBSET Id :
                /\ HeldBy(n)' \subseteq HeldBy(n) \cup vs
                /\ due' = [to |-> FamilyOf[n], added |-> vs \ HeldBy(n),
                           gone |-> (HeldBy(n) \cup vs) \ HeldBy(n)']
           /\ UNCHANGED <<env, now, hosts, storage, ops, listening, insync, fate>>
<1>1. PICK vs \in SUBSET Id, re \in SUBSET Id, ex \in SUBSET Id : OnValues(n, vs, re, ex)
  BY DEF Told, ExpireValues, TypeOK
<1>. DEFINE was == HeldBy(n)
            e == [v \in Id |-> IF v \in vs \cup (re \cap was) THEN now + Ttl ELSE exp[n][v]]
            kept == {v \in (was \cup vs) \ ex : e[v] > now}
<1>2. /\ Idle /\ n \in listening
      /\ job' = [job EXCEPT ![n] = NextJob({e[v] : v \in kept})]
      /\ UNCHANGED <<env, now, hosts, storage, ops, listening, insync, fate>>
  BY <1>1 DEF OnValues
<1>3. PICK over \in SUBSET kept :
         /\ exp' = [exp EXCEPT ![n] =
                       [v \in Id |-> IF v \in kept \ over THEN e[v] ELSE NotHeld]]
         /\ due' = [to |-> FamilyOf[n], added |-> vs \ was,
                    gone |-> (was \cup vs) \ (kept \ over)]
  BY <1>1 DEF OnValues
<1>4. e \in [Id -> Time]
  BY TimeFacts DEF TypeOK
<1>5. was \subseteq Id /\ kept \subseteq Id
  BY DEF HeldBy
<1>6. {e[v] : v \in kept} \subseteq Time
  BY <1>4, <1>5
<1>7. /\ NextJob({e[v] : v \in kept}) \in Time
      /\ \A w \in kept : NextJob({e[v] : v \in kept}) <= e[w]
  BY <1>6, NextJobEarliest
<1>8. [v \in Id |-> IF v \in kept \ over THEN e[v] ELSE NotHeld] \in [Id -> Time]
  BY <1>4, TimeFacts
<1>9. exp' \in [Node -> [Id -> Time]] /\ job' \in [Node -> Time]
  BY <1>2, <1>3, <1>7, <1>8 DEF TypeOK
<1>10. \A m \in Node \ {n} : exp'[m] = exp[m] /\ job'[m] = job[m]
  BY <1>2, <1>3 DEF TypeOK
<1>11. exp'[n] = [v \in Id |-> IF v \in kept \ over THEN e[v] ELSE NotHeld]
       /\ job'[n] = NextJob({e[v] : v \in kept})
  BY <1>2, <1>3 DEF TypeOK
<1>12. \A v \in kept : e[v] > 0
  <2>. SUFFICES ASSUME NEW v \in kept PROVE e[v] > 0
    OBVIOUS
  <2>1. e[v] > now /\ e[v] \in Time /\ now \in Nat
    BY <1>4, <1>5, TimeFacts DEF TypeOK
  <2>2. \A x \in Time, y \in Nat : x > y => x > 0
    BY TimeFacts
  <2>. QED  BY <2>1, <2>2
<1>13. HeldBy(n)' = kept \ over
  BY <1>5, <1>11, <1>12 DEF HeldBy, NotHeld
<1>14. \A v \in HeldBy(n)' : job'[n] <= exp'[n][v]
  BY <1>5, <1>7, <1>11, <1>13
<1>15. kept \ over \subseteq was \cup vs
  OBVIOUS
<1>16. /\ HeldBy(n)' \subseteq HeldBy(n) \cup vs
       /\ due' = [to |-> FamilyOf[n], added |-> vs \ HeldBy(n),
                  gone |-> (HeldBy(n) \cup vs) \ HeldBy(n)']
  BY <1>3, <1>13, <1>15
<1>. QED  BY <1>2, <1>9, <1>10, <1>14, <1>16

(* The search of a node's family has its node among its nodes. *)
LEMMA FamilyNodes ==
    ASSUME TypeOK
    PROVE  \A f \in Family : /\ InFamily(listening, f) \in SUBSET Node
                             /\ InFamily(insync, f) \in SUBSET Node
BY DEF TypeOK, InFamily

USE DEF env, hosts, storage, ops, caches

(* Callbacks keep the types. *)
LEMMA CallbackTypes ==
    ASSUME TypeOK, Callback
    PROVE  TypeOK'
<1>1. PICK no \in SUBSET lst[due.to] :
         Added(no) \/ \E batch \in SUBSET due.gone : Gone(batch, no)
  BY DEF Callback
<1>2. due.to \in Family /\ due.added \subseteq Id /\ due.gone \subseteq Id
      /\ lst[due.to] \in SUBSET Listener
  BY DEF TypeOK
<1>3. UNCHANGED <<env, now, local, lost, live, nodes, syncedNodes, caches, fate>>
  BY DEF Callback
<1>4. \A n \in Nat : Counted(n, TRUE) \in Nat /\ Counted(n, FALSE) \in Nat
  BY DEF Counted, Minus1
<1>5. CASE Added(no)
  <2>1. Notify(lst[due.to], FirstHeld(due.to, due.added), FALSE, no)
    BY <1>5 DEF Added
  <2>2. FirstHeld(due.to, due.added) \in SUBSET Id
    BY <1>2 DEF FirstHeld
  <2>3. refs' \in [Family -> [Id -> Nat]]
    BY <1>2, <1>4, <1>5 DEF Added, TypeOK
  <2>4. due' \in [to: Family, added: SUBSET Id, gone: SUBSET Id]
    BY <1>5 DEF Added, TypeOK
  <2>5. FALSE \in BOOLEAN
    OBVIOUS
  <2>6. /\ status' \in [Listener -> {"none", "active", "refused", "cancelled"}]
        /\ locals' \subseteq Listener
        /\ lst' \in [Family -> SUBSET Listener]
        /\ removed' \in [Family -> 0 .. MaxTime]
        /\ next' \in [Family -> Time]
        /\ seen' \in [Listener -> [Id -> Nat]]
        /\ stopped' \subseteq Listener
    BY <1>2, <2>1, <2>2, <2>5, NotifyTypes
  <2>. QED  BY <1>3, <2>3, <2>4, <2>6 DEF TypeOK
<1>6. CASE \E batch \in SUBSET due.gone : Gone(batch, no)
  <2>. PICK batch \in SUBSET due.gone : Gone(batch, no)
    BY <1>6
  <2>1. Notify(lst[due.to], {v \in batch : refs[due.to][v] = 1}, TRUE, no)
    BY DEF Gone
  <2>2. {v \in batch : refs[due.to][v] = 1} \in SUBSET Id
    BY <1>2
  <2>3. refs' \in [Family -> [Id -> Nat]]
    BY <1>2, <1>4 DEF Gone, TypeOK
  <2>4. due' \in [to: Family, added: SUBSET Id, gone: SUBSET Id]
    BY DEF Gone, TypeOK
  <2>5. TRUE \in BOOLEAN
    OBVIOUS
  <2>6. /\ status' \in [Listener -> {"none", "active", "refused", "cancelled"}]
        /\ locals' \subseteq Listener
        /\ lst' \in [Family -> SUBSET Listener]
        /\ removed' \in [Family -> 0 .. MaxTime]
        /\ next' \in [Family -> Time]
        /\ seen' \in [Listener -> [Id -> Nat]]
        /\ stopped' \subseteq Listener
    BY <1>2, <2>1, <2>2, <2>5, NotifyTypes
  <2>. QED  BY <1>3, <2>3, <2>4, <2>6 DEF TypeOK
<1>. QED  BY <1>1, <1>5, <1>6

(* 1 for what holds, 0 for what does not. *)
One(P) == IF P THEN 1 ELSE 0

(* What Dht::listen does, by the searches it tries and those that take the  *)
(* listener.                                                                *)
ListenEffect(l, Try, Ok, accepted) ==
    /\ Idle /\ status[l] = "none" /\ Ok \subseteq Try
    /\ status' = [status EXCEPT ![l] = IF accepted THEN "active" ELSE "refused"]
    /\ locals' = IF accepted /\ room THEN locals \cup {l} ELSE locals
    /\ lst' = [f \in Family |-> IF f \in Ok THEN lst[f] \cup {l} ELSE lst[f]]
    /\ live' = live \cup Try
    /\ removed' \in [Family -> 0 .. MaxTime]
    /\ \A f \in live : removed'[f] = removed[f]
    /\ seen' \in [Listener -> [Id -> Nat]]
    /\ \A k \in Listener \ {l} : seen'[k] = seen[k]
    /\ stopped' \subseteq stopped \cup {l} /\ stopped \subseteq stopped'
    /\ UNCHANGED <<env, now, local, lost, refs, nodes, syncedNodes, next, caches, due, fate>>
    /\ \A f \in Try \ Ok : \E v \in Wants[l] : refs[f][v] > 0
    /\ IPv6 \in Ok \/ (accepted /\ room) => accepted /\ stopped' = stopped
    /\ l \notin stopped' => Ok = Try
    /\ accepted => \A v \in Wants[l] :
         seen'[l][v] = One(v \in local) + One(IPv4 \in Try /\ refs[IPv4][v] > 0)
                                        + One(IPv6 \in Try /\ refs[IPv6][v] > 0)

(* The families for which something holds, counted. *)
LEMMA FamilyCount ==
    ASSUME NEW S \in SUBSET Family
    PROVE  Cardinality(S) \in Nat /\ Cardinality(S) = One(IPv4 \in S) + One(IPv6 \in S)
<1>1. /\ Cardinality({}) = 0
      /\ IsFiniteSet({IPv4}) /\ Cardinality({IPv4}) = 1
      /\ IsFiniteSet({IPv6}) /\ Cardinality({IPv6}) = 1
  BY FS_EmptySet, FS_Singleton
<1>2. Cardinality({IPv4} \cup {IPv6}) = Cardinality({IPv4}) + 1
  BY <1>1, FS_AddElement, Families
<1>3. S = {} \/ S = {IPv4} \/ S = {IPv6} \/ S = {IPv4} \cup {IPv6}
  BY Families
<1>. QED  BY <1>1, <1>2, <1>3, Families DEF One

(* The call has that effect. *)
LEMMA ListenFacts ==
    ASSUME TypeOK, NEW l \in Listener, NEW yes \in Reply, Listen(l, yes)
    PROVE  \E Try \in SUBSET Family, Ok \in SUBSET Family, accepted \in BOOLEAN :
             ListenEffect(l, Try, Ok, accepted)
<1>. DEFINE stored == local \cap Wants[l]
            told4 == {v \in Wants[l] : refs[IPv4][v] > 0}
            ok0 == stored = {} \/ yes.storage
            try4 == ok0 /\ IPv4 \in up
            ok4 == try4 /\ (Offered(l, stored, IPv4) = {} \/ yes.IPv4)
            try6 == ok4 /\ IPv6 \in up
            ok6 == try6 /\ (Offered(l, stored \cup told4, IPv6) = {} \/ yes.IPv6)
            try == [f \in Family |-> IF f = IPv4 THEN try4 ELSE try6]
            ok == [f \in Family |-> IF f = IPv4 THEN ok4 ELSE ok6]
            accepted == ok0 /\ (ok6 \/ ~room)
            Try == {f \in Family : try[f]}
            Ok == {f \in Family : ok[f]}
            Sees(v) == {f \in Family : try[f] /\ v \in Wants[l] /\ refs[f][v] > 0}
            count == [v \in Id |-> Cardinality(Sees(v)) + (IF v \in stored THEN 1 ELSE 0)]
<1>1. /\ IPv4 \in Try <=> try4
      /\ IPv6 \in Try <=> try6
      /\ IPv4 \in Ok <=> ok4
      /\ IPv6 \in Ok <=> ok6
  BY Families, Zenon
<1>2. Ok \subseteq Try
  BY <1>1, Families, Zenon
<1>3. accepted \in BOOLEAN
  BY Zenon
<1>4. /\ Idle /\ status[l] = "none"
      /\ status' = [status EXCEPT ![l] = IF accepted THEN "active" ELSE "refused"]
      /\ locals' = IF accepted /\ room THEN locals \cup {l} ELSE locals
      /\ UNCHANGED <<env, now, local, lost, refs, nodes, syncedNodes, next, caches, due, fate>>
  BY Zenon DEF Listen
<1>5. lst' = [f \in Family |-> IF f \in Ok THEN lst[f] \cup {l} ELSE lst[f]]
  <2>1. lst' = [f \in Family |-> IF ok[f] THEN lst[f] \cup {l} ELSE lst[f]]
    BY Zenon DEF Listen
  <2>. HIDE DEF ok
  <2>. QED  BY <2>1
<1>6. live' = live \cup Try
  BY Zenon DEF Listen
<1>7. removed' \in [Family -> 0 .. MaxTime] /\ \A f \in live : removed'[f] = removed[f]
  <2>1. removed' = [f \in Family |-> IF try[f] /\ f \notin live THEN now ELSE removed[f]]
    BY Zenon DEF Listen
  <2>. HIDE DEF try
  <2>. QED  BY <2>1 DEF TypeOK
<1>8. stopped' = IF ok0 /\ try = ok THEN stopped ELSE stopped \cup {l}
  BY Zenon DEF Listen
<1>9. /\ stopped' \subseteq stopped \cup {l} /\ stopped \subseteq stopped'
      /\ l \notin stopped' => Ok = Try
  <2>. HIDE DEF ok0, try, ok
  <2>. QED  BY <1>8
<1>10. seen' = [seen EXCEPT ![l] = IF ~accepted /\ ~ok4 THEN NoRefs ELSE count]
  BY Zenon DEF Listen
<1>11. \A v \in Id : Sees(v) \in SUBSET Family
  BY Zenon
<1>12. count \in [Id -> Nat] /\ NoRefs \in [Id -> Nat]
  <2>. HIDE DEF Sees, stored
  <2>. QED  BY <1>11, FamilyCount DEF NoRefs
<1>13. /\ seen' \in [Listener -> [Id -> Nat]]
       /\ \A k \in Listener \ {l} : seen'[k] = seen[k]
       /\ accepted => seen'[l] = count
  <2>. HIDE DEF accepted, ok4, count
  <2>. QED  BY <1>10, <1>12 DEF TypeOK
<1>14. ASSUME accepted, NEW v \in Wants[l]
       PROVE  seen'[l][v] = One(v \in local) + One(IPv4 \in Try /\ refs[IPv4][v] > 0)
                                             + One(IPv6 \in Try /\ refs[IPv6][v] > 0)
  <2>1. v \in Id
    BY WantsAssumption
  <2>2. /\ IPv4 \in Sees(v) <=> IPv4 \in Try /\ refs[IPv4][v] > 0
        /\ IPv6 \in Sees(v) <=> IPv6 \in Try /\ refs[IPv6][v] > 0
    BY Families, Zenon
  <2>3. v \in stored <=> v \in local
    OBVIOUS
  <2>4. seen'[l][v] = Cardinality(Sees(v)) + One(v \in stored)
    <3>1. seen'[l] = count
      BY <1>13, <1>14
    <3>. HIDE DEF Sees, stored
    <3>. QED  BY <2>1, <3>1 DEF One
  <2>5. Cardinality(Sees(v)) = One(IPv4 \in Sees(v)) + One(IPv6 \in Sees(v))
    BY <1>11, <2>1, FamilyCount
  <2>. HIDE DEF Sees, stored, Try
  <2>. QED  BY <2>2, <2>3, <2>4, <2>5 DEF One
<1>15. IPv6 \in Ok \/ (accepted /\ room) => accepted /\ stopped' = stopped
  <2>1. IPv6 \in Ok \/ (accepted /\ room) => ok6
    BY <1>1
  <2>2. ok6 => ok0 /\ ok4 /\ try4 /\ try6
    OBVIOUS
  <2>3. ok6 => try = ok
    BY <2>2, Zenon
  <2>. HIDE DEF ok, try, ok0, ok6
  <2>. QED  BY <1>8, <2>1, <2>2, <2>3
<1>16. \A f \in Try \ Ok : \E v \in Wants[l] : refs[f][v] > 0
  <2>1. try4 /\ ~ok4 => \E v \in Wants[l] : refs[IPv4][v] > 0
    BY Zenon DEF Offered
  <2>2. try6 /\ ~ok6 => \E v \in Wants[l] : refs[IPv6][v] > 0
    BY Zenon DEF Offered
  <2>3. \A f \in Try \ Ok : f = IPv4 \/ f = IPv6
    BY Families, Zenon
  <2>. HIDE DEF try4, try6, ok4, ok6, Try, Ok
  <2>. QED  BY <1>1, <2>1, <2>2, <2>3
<1>. HIDE DEF Try, Ok, accepted
<1>17. Try \in SUBSET Family /\ Ok \in SUBSET Family
  BY Zenon DEF Try, Ok
<1>18. ListenEffect(l, Try, Ok, accepted)
  BY <1>2, <1>4, <1>5, <1>6, <1>7, <1>9, <1>13, <1>14, <1>15, <1>16, Zenon DEF ListenEffect
<1>. QED  BY <1>3, <1>17, <1>18, Zenon

(* So do the host's calls. *)
LEMMA HostTypes ==
    ASSUME TypeOK, NEW l \in Listener,
           CancelListen(l) \/ \E yes \in Reply : Listen(l, yes)
    PROVE  TypeOK'
<1>1. NoRefs \in [Id -> Nat]
  BY DEF NoRefs
<1>2. CASE CancelListen(l)
  <2>1. Unregister({l}) /\ {l} \in SUBSET Listener
    BY <1>2 DEF CancelListen
  <2>2. /\ status' \in [Listener -> {"none", "active", "refused", "cancelled"}]
        /\ locals' \subseteq Listener
        /\ lst' \in [Family -> SUBSET Listener]
        /\ removed' \in [Family -> 0 .. MaxTime]
        /\ next' \in [Family -> Time]
    BY <2>1, UnregisterTypes
  <2>3. seen' \in [Listener -> [Id -> Nat]]
    BY <1>1, <1>2 DEF CancelListen, TypeOK
  <2>. QED  BY <1>2, <2>2, <2>3 DEF CancelListen, TypeOK
<1>3. CASE \E yes \in Reply : Listen(l, yes)
  <2>1. PICK Try \in SUBSET Family, Ok \in SUBSET Family, accepted \in BOOLEAN :
           ListenEffect(l, Try, Ok, accepted)
    BY <1>3, ListenFacts
  <2>2. /\ status' \in [Listener -> {"none", "active", "refused", "cancelled"}]
        /\ locals' \subseteq Listener /\ stopped' \subseteq Listener
        /\ lst' \in [Family -> SUBSET Listener] /\ live' \subseteq Family
    BY <2>1 DEF ListenEffect, TypeOK
  <2>3. UNCHANGED <<env, now, local, lost, refs, nodes, syncedNodes, next, caches, due, fate>>
        /\ removed' \in [Family -> 0 .. MaxTime] /\ seen' \in [Listener -> [Id -> Nat]]
    BY <2>1 DEF ListenEffect
  <2>. QED  BY <2>2, <2>3 DEF TypeOK
<1>. QED  BY <1>2, <1>3

(* So do the changes of the Storage. *)
LEMMA StorageTypes ==
    ASSUME TypeOK,
           \/ \E v \in values : StorageChanged(v) \/ StorageErased(v)
           \/ \E vs \in SUBSET values : StorageExpired(vs)
    PROVE  TypeOK'
<1>1. CASE \E v \in values : StorageErased(v)
  BY <1>1 DEF StorageErased, TypeOK
<1>2. CASE \E v \in values : StorageChanged(v)
  <2>1. PICK v \in Id : StorageChanged(v)
    BY <1>2 DEF TypeOK
  <2>2. PICK no \in SUBSET locals : Notify(locals, {v}, FALSE, no)
    BY <2>1 DEF StorageChanged
  <2>3. FALSE \in BOOLEAN /\ {v} \in SUBSET Id /\ locals \in SUBSET Listener
    BY Zenon DEF TypeOK
  <2>4. /\ status' \in [Listener -> {"none", "active", "refused", "cancelled"}]
        /\ locals' \subseteq Listener
        /\ lst' \in [Family -> SUBSET Listener]
        /\ removed' \in [Family -> 0 .. MaxTime]
        /\ next' \in [Family -> Time]
        /\ seen' \in [Listener -> [Id -> Nat]]
        /\ stopped' \subseteq Listener
    BY <2>2, <2>3, NotifyTypes
  <2>. QED  BY <2>1, <2>4 DEF StorageChanged, TypeOK
<1>3. CASE \E vs \in SUBSET values : StorageExpired(vs)
  <2>1. PICK vs \in SUBSET Id : StorageExpired(vs)
    BY <1>3 DEF TypeOK
  <2>2. PICK no \in SUBSET locals : Notify(locals, vs, TRUE, no)
                                    /\ fate' = IF no = {} THEN fate ELSE "undefined"
    BY <2>1 DEF StorageExpired
  <2>3. TRUE \in BOOLEAN /\ locals \in SUBSET Listener
    BY Zenon DEF TypeOK
  <2>4. /\ status' \in [Listener -> {"none", "active", "refused", "cancelled"}]
        /\ locals' \subseteq Listener
        /\ lst' \in [Family -> SUBSET Listener]
        /\ removed' \in [Family -> 0 .. MaxTime]
        /\ next' \in [Family -> Time]
        /\ seen' \in [Listener -> [Id -> Nat]]
        /\ stopped' \subseteq Listener
    BY <2>2, <2>3, NotifyTypes
  <2>. QED  BY <2>1, <2>2, <2>4 DEF StorageExpired, TypeOK
<1>. QED  BY <1>1, <1>2, <1>3

(* The counters of a search follow the set of its nodes. *)
LEMMA NodeTypes ==
    ASSUME TypeOK, SyncExact, NEW n \in Node, SendListen(n) \/ ListenDone(n) \/ NodeGone(n)
    PROVE  TypeOK' /\ SyncExact'
<1>. DEFINE g == FamilyOf[n]
<1>1. g \in Family
  BY FamilyAssumption
<1>2. NoValues \in [Id -> Time] /\ Never \in Time
  BY TimeFacts DEF NoValues
<1>3. \A f \in Family : InFamily(listening, f) \in SUBSET Node /\ InFamily(insync, f) \in SUBSET Node
  BY FamilyNodes
<1>4. CASE SendListen(n)
  <2>1. \A f \in Family : InFamily(listening', f) =
                           IF f = g THEN InFamily(listening, f) \cup {n} ELSE InFamily(listening, f)
    BY <1>4 DEF SendListen, InFamily
  <2>2. n \notin InFamily(listening, g)
    BY <1>4 DEF SendListen, InFamily
  <2>3. nodes' = [nodes EXCEPT ![g] = @ + 1] /\ nodes' \in [Family -> Nat]
    BY <1>1, <1>4 DEF SendListen, TypeOK
  <2>4. Cardinality(InFamily(listening, g) \cup {n}) = Cardinality(InFamily(listening, g)) + 1
    BY <1>1, <1>3, <2>2, OneNode
  <2>5. \A f \in Family : nodes'[f] = Cardinality(InFamily(listening', f))
    BY <1>1, <2>1, <2>3, <2>4 DEF SyncExact, TypeOK
  <2>6. exp' \in [Node -> [Id -> Time]] /\ job' \in [Node -> Time]
    BY <1>2, <1>4 DEF SendListen, TypeOK
  <2>7. TypeOK'
    BY <1>4, <2>3, <2>6 DEF SendListen, TypeOK
  <2>8. \A f \in Family : syncedNodes'[f] = Cardinality(InFamily(insync', f))
    BY <1>4 DEF SendListen, SyncExact
  <2>9. SyncExact'
    BY <2>5, <2>8 DEF SyncExact, InFamily
  <2>. QED  BY <2>7, <2>9
<1>5. CASE ListenDone(n)
  <2>1. \A f \in Family : InFamily(insync', f) =
                           IF f = g THEN InFamily(insync, f) \cup {n} ELSE InFamily(insync, f)
    BY <1>5 DEF ListenDone, InFamily
  <2>2. n \in InFamily(insync, g) <=> n \in insync
    BY <1>5 DEF InFamily
  <2>3. /\ syncedNodes' = [syncedNodes EXCEPT ![g] = IF n \notin insync THEN @ + 1 ELSE @]
        /\ syncedNodes' \in [Family -> Nat]
    BY <1>1, <1>5 DEF ListenDone, TypeOK, NewlySynced
  <2>4. n \in insync => InFamily(insync, g) \cup {n} = InFamily(insync, g)
    BY <2>2
  <2>5. n \notin insync =>
          Cardinality(InFamily(insync, g) \cup {n}) = Cardinality(InFamily(insync, g)) + 1
    BY <1>1, <1>3, <2>2, OneNode
  <2>6. \A f \in Family : syncedNodes'[f] = Cardinality(InFamily(insync', f))
    BY <1>1, <2>1, <2>3, <2>4, <2>5 DEF SyncExact, TypeOK
  <2>7. TypeOK'
    BY <1>5, <2>3 DEF ListenDone, TypeOK
  <2>8. \A f \in Family : nodes'[f] = Cardinality(InFamily(listening', f))
    BY <1>5 DEF ListenDone, SyncExact
  <2>9. SyncExact'
    BY <2>6, <2>8 DEF SyncExact, InFamily
  <2>. QED  BY <2>7, <2>9
<1>6. CASE NodeGone(n)
  <2>1. \A f \in Family :
          /\ InFamily(listening', f) =
               IF f = g THEN InFamily(listening, f) \ {n} ELSE InFamily(listening, f)
          /\ InFamily(insync', f) =
               IF f = g THEN InFamily(insync, f) \ {n} ELSE InFamily(insync, f)
    BY <1>6 DEF NodeGone, InFamily, StillSynced
  <2>2. n \in InFamily(listening, g) /\ (n \in InFamily(insync, g) <=> n \in insync)
    BY <1>6 DEF NodeGone, InFamily
  <2>3. /\ nodes' = [nodes EXCEPT ![g] = @ - 1]
        /\ syncedNodes' = [syncedNodes EXCEPT ![g] = IF n \in insync THEN @ - 1 ELSE @]
    BY <1>6 DEF NodeGone
  <2>4. n \notin insync => InFamily(insync, g) \ {n} = InFamily(insync, g)
    BY <2>2
  <2>5. /\ Cardinality(InFamily(listening, g) \ {n}) = Cardinality(InFamily(listening, g)) - 1
        /\ Cardinality(InFamily(listening, g)) > 0
        /\ n \in insync => /\ Cardinality(InFamily(insync, g) \ {n}) = Cardinality(InFamily(insync, g)) - 1
                           /\ Cardinality(InFamily(insync, g)) > 0
    BY <1>1, <1>3, <2>2, OneNode
  <2>6. nodes' \in [Family -> Nat] /\ syncedNodes' \in [Family -> Nat]
    BY <1>1, <2>3, <2>5 DEF SyncExact, TypeOK
  <2>7. \A f \in Family : nodes'[f] = Cardinality(InFamily(listening', f))
    BY <1>1, <2>1, <2>3, <2>5 DEF SyncExact, TypeOK
  <2>8. \A f \in Family : syncedNodes'[f] = Cardinality(InFamily(insync', f))
    BY <1>1, <2>1, <2>3, <2>4, <2>5 DEF SyncExact, TypeOK
  <2>9. exp' \in [Node -> [Id -> Time]] /\ job' \in [Node -> Time]
    BY <1>2, <1>6 DEF NodeGone, TypeOK
  <2>10. due' \in [to: Family, added: SUBSET Id, gone: SUBSET Id]
    BY <1>1, <1>6 DEF NodeGone, Cleared, HeldBy
  <2>11. listening' \subseteq Node /\ insync' \subseteq listening'
    BY <1>6 DEF NodeGone, StillSynced, TypeOK
  <2>12. TypeOK'
    BY <1>6, <2>6, <2>9, <2>10, <2>11 DEF NodeGone, TypeOK
  <2>13. SyncExact'
    BY <2>7, <2>8 DEF SyncExact, InFamily
  <2>. QED  BY <2>12, <2>13
<1>. QED  BY <1>4, <1>5, <1>6

(* An OpCache that expires takes its counters and its nodes with it. *)
LEMMA OpExpireTypes ==
    ASSUME TypeOK, SyncExact, NEW f \in Family, OpExpire(f)
    PROVE  TypeOK' /\ SyncExact'
<1>1. UNCHANGED <<env, now, hosts, storage, lst, removed, due>>
  BY DEF OpExpire
<1>2. CASE /\ UNCHANGED <<live, refs, nodes, syncedNodes, caches>>
           /\ next' \in [Family -> Time] /\ fate' \in {"ok", "hung", "undefined"}
  <2>1. TypeOK'
    BY <1>1, <1>2 DEF TypeOK
  <2>2. SyncExact'
    BY <1>2 DEF SyncExact, InFamily
  <2>. QED  BY <2>1, <2>2
<1>3. CASE /\ next' = [next EXCEPT ![f] = Never]
           /\ live' = live \ {f}
           /\ refs' = [refs EXCEPT ![f] = NoRefs]
           /\ nodes' = [nodes EXCEPT ![f] = 0] /\ syncedNodes' = [syncedNodes EXCEPT ![f] = 0]
           /\ listening' = {n \in listening : FamilyOf[n] # f}
           /\ insync' = {n \in insync : FamilyOf[n] # f}
           /\ exp' = [n \in Node |-> IF FamilyOf[n] = f THEN NoValues ELSE exp[n]]
           /\ job' = [n \in Node |-> IF FamilyOf[n] = f THEN Never ELSE job[n]]
           /\ UNCHANGED fate
  <2>1. NoValues \in [Id -> Time] /\ NoRefs \in [Id -> Nat]
    BY TimeFacts DEF NoValues, NoRefs
  <2>2. exp' \in [Node -> [Id -> Time]] /\ job' \in [Node -> Time] /\ next' \in [Family -> Time]
    BY <1>3, <2>1, TimeFacts DEF TypeOK
  <2>3. /\ refs' \in [Family -> [Id -> Nat]]
        /\ nodes' \in [Family -> Nat] /\ syncedNodes' \in [Family -> Nat]
    BY <1>3, <2>1 DEF TypeOK
  <2>4. listening' \subseteq Node /\ insync' \subseteq listening' /\ live' \subseteq Family
    BY <1>3 DEF TypeOK
  <2>5. TypeOK'
    BY <1>1, <1>3, <2>2, <2>3, <2>4 DEF TypeOK
  <2>6. \A g \in Family :
          /\ InFamily(listening', g) = IF g = f THEN {} ELSE InFamily(listening, g)
          /\ InFamily(insync', g) = IF g = f THEN {} ELSE InFamily(insync, g)
    BY <1>3 DEF InFamily
  <2>7. Cardinality({}) = 0
    BY FS_EmptySet
  <2>8. \A g \in Family : /\ nodes'[g] = Cardinality(InFamily(listening', g))
                          /\ syncedNodes'[g] = Cardinality(InFamily(insync', g))
    BY <1>3, <2>6, <2>7 DEF SyncExact, TypeOK
  <2>9. SyncExact'
    BY <2>8 DEF SyncExact, InFamily
  <2>. QED  BY <2>5, <2>9
<1>4. CASE /\ lst[f] # {}
           /\ next' = [next EXCEPT ![f] = Never]
           /\ UNCHANGED <<live, refs, nodes, syncedNodes, caches, fate>>
  BY <1>2, <1>4, TimeFacts DEF TypeOK
<1>5. CASE /\ next' = [next EXCEPT ![f] = removed[f] + Grace]
           /\ fate' = IF removed[f] + Grace = now THEN "hung" ELSE fate
           /\ UNCHANGED <<live, refs, nodes, syncedNodes, caches>>
  <2>1. removed[f] + Grace \in Time
    BY TimeFacts DEF TypeOK
  <2>. QED  BY <1>2, <1>5, <2>1 DEF TypeOK
<1>. QED  BY <1>3, <1>4, <1>5 DEF OpExpire

(* Messages keep the types: only the ValueCache and what is due changes. *)
LEMMA OnValuesTypes ==
    ASSUME TypeOK, NEW n \in Node, Told(n) \/ ExpireValues(n)
    PROVE  TypeOK'
<1>1. /\ exp' \in [Node -> [Id -> Time]] /\ job' \in [Node -> Time]
      /\ UNCHANGED <<env, now, hosts, storage, ops, listening, insync, fate>>
      /\ \E vs \in SUBSET Id :
           due' = [to |-> FamilyOf[n], added |-> vs \ HeldBy(n),
                   gone |-> (HeldBy(n) \cup vs) \ HeldBy(n)']
  BY OnValuesFacts
<1>2. HeldBy(n) \subseteq Id
  BY DEF HeldBy
<1>3. due' \in [to: Family, added: SUBSET Id, gone: SUBSET Id]
  BY <1>1, <1>2, FamilyAssumption
<1>. QED  BY <1>1, <1>3 DEF TypeOK

(* Every step keeps the types and the counters. *)
LEMMA TypesStep ==
    ASSUME TypeOK, SyncExact, [Next]_vars
    PROVE  TypeOK' /\ SyncExact'
<1>1. ASSUME UNCHANGED <<nodes, syncedNodes, listening, insync>> PROVE SyncExact'
  BY <1>1 DEF SyncExact, InFamily
<1>2. CASE UNCHANGED vars
  BY <1>1, <1>2 DEF vars, TypeOK
<1>3. CASE Callback
  BY <1>1, <1>3, CallbackTypes DEF Callback
<1>4. CASE \E l \in Listener : CancelListen(l) \/ \E yes \in Reply : Listen(l, yes)
  <2>1. UNCHANGED <<nodes, syncedNodes, listening, insync>>
    BY <1>4 DEF CancelListen, Listen
  <2>. QED  BY <1>1, <1>4, <2>1, HostTypes
<1>5. CASE \/ \E v \in values : StorageChanged(v) \/ StorageErased(v)
           \/ \E vs \in SUBSET values : StorageExpired(vs)
  <2>1. UNCHANGED <<nodes, syncedNodes, listening, insync>>
    BY <1>5 DEF StorageChanged, StorageErased, StorageExpired
  <2>. QED  BY <1>1, <1>5, <2>1, StorageTypes
<1>6. CASE \E n \in Node : SendListen(n) \/ ListenDone(n) \/ NodeGone(n)
  BY <1>6, NodeTypes
<1>7. CASE \E n \in Node : Told(n) \/ ExpireValues(n)
  <2>1. UNCHANGED <<nodes, syncedNodes, listening, insync>>
    BY <1>7, OnValuesFacts
  <2>. QED  BY <1>1, <1>7, <2>1, OnValuesTypes
<1>8. CASE \E f \in Family : OpExpire(f)
  BY <1>8, OpExpireTypes
<1>9. CASE Tick
  <2>1. now' \in 0 .. MaxTime
    BY <1>9, TimeAssumption DEF Tick, TypeOK
  <2>2. UNCHANGED <<env, hosts, storage, ops, caches, due, fate>>
    BY <1>9 DEF Tick
  <2>. QED  BY <1>1, <2>1, <2>2 DEF TypeOK
<1>. QED  BY <1>2, <1>3, <1>4, <1>5, <1>6, <1>7, <1>8, <1>9 DEF Next

(* No node yet. *)
LEMMA SyncInit == Init => SyncExact
<1>1. Cardinality({}) = 0
  BY FS_EmptySet
<1>. QED  BY <1>1 DEF Init, SyncExact, InFamily

(* The state has its types: no count of the caches goes below zero and no   *)
(* expiration or job is beyond time_point::max.                             *)
THEOREM ListenTypes == Spec => []TypeOK
<1>1. Init => TypeOK /\ SyncExact
  BY TypesInit, SyncInit
<1>2. (TypeOK /\ SyncExact) /\ [Next]_vars => (TypeOK /\ SyncExact)'
  BY TypesStep
<1>. QED  BY <1>1, <1>2, PTL DEF Spec

(* The counters behind isSynced are exact, for any number of nodes.         *)
THEOREM ListenSync == Spec => []SyncExact
<1>1. Init => TypeOK /\ SyncExact
  BY TypesInit, SyncInit
<1>2. (TypeOK /\ SyncExact) /\ [Next]_vars => (TypeOK /\ SyncExact)'
  BY TypesStep
<1>. QED  BY <1>1, <1>2, PTL DEF Spec

-----------------------------------------------------------------------------
(* Who is registered. *)

(* The Storage and the search of IPv6 hold active listeners only, the       *)
(* search of IPv4 also those that IPv6 refused; nobody is stopped before    *)
(* the call of listen.                                                      *)
Registered ==
    /\ \A l \in locals \cup lst[IPv6] : status[l] = "active" /\ l \notin stopped
    /\ \A l \in lst[IPv4] : status[l] \in {"active", "refused"}
    /\ \A l \in stopped : status[l] # "none"

(* Cancelling listeners keeps it. *)
LEMMA UnregisterRegistered ==
    ASSUME TypeOK, Registered, NEW C \in SUBSET Listener, Unregister(C),
           stopped' \subseteq stopped \cup C \cup {l \in lst[IPv4] : status[l] = "refused"}
    PROVE  Registered'
<1>1. \A l \in Listener : status'[l] = IF l \in C THEN "cancelled" ELSE status[l]
  BY DEF Unregister, TypeOK
<1>2. locals' = locals \ C /\ lst'[IPv4] = lst[IPv4] \ C /\ lst'[IPv6] = lst[IPv6] \ C
  BY Families DEF Unregister
<1>3. locals \subseteq Listener /\ lst[IPv4] \subseteq Listener /\ lst[IPv6] \subseteq Listener
      /\ stopped \subseteq Listener
  BY Families DEF TypeOK
<1>4. \A l \in locals' \cup lst'[IPv6] : status'[l] = "active" /\ l \notin stopped'
  BY <1>1, <1>2, <1>3 DEF Registered
<1>5. \A l \in lst'[IPv4] : status'[l] \in {"active", "refused"}
  BY <1>1, <1>2, <1>3 DEF Registered
<1>6. \A l \in stopped' : status'[l] # "none"
  BY <1>1, <1>3 DEF Registered
<1>. QED  BY <1>4, <1>5, <1>6 DEF Registered

(* So does telling the listeners of any source. *)
LEMMA NotifyRegistered ==
    ASSUME TypeOK, Registered, NEW S \in SUBSET Listener, NEW vs, NEW gone, NEW no \in SUBSET S,
           S = locals \/ S = lst[IPv4] \/ S = lst[IPv6], Notify(S, vs, gone, no)
    PROVE  Registered'
<1>1. stopped' = stopped \cup no /\ Unregister(Active(no))
  BY DEF Notify
<1>2. \A l \in no : status[l] = "active" \/ (l \in lst[IPv4] /\ status[l] = "refused")
  BY DEF Registered
<1>3. Active(no) \in SUBSET Listener
      /\ stopped' \subseteq stopped \cup Active(no) \cup {l \in lst[IPv4] : status[l] = "refused"}
  BY <1>1, <1>2 DEF Active
<1>. QED  BY <1>1, <1>3, UnregisterRegistered

(* Every step keeps it. *)
LEMMA RegisteredStep ==
    ASSUME TypeOK, Registered, [Next]_vars
    PROVE  Registered'
<1>1. ASSUME UNCHANGED <<status, stopped, locals, lst>> PROVE Registered'
  BY <1>1 DEF Registered
<1>2. CASE UNCHANGED vars \/ Tick
  BY <1>1, <1>2 DEF vars, Tick
<1>3. CASE Callback
  <2>1. PICK no \in SUBSET lst[due.to] : \E vs, gone : Notify(lst[due.to], vs, gone, no)
    BY <1>3 DEF Callback, Added, Gone
  <2>2. lst[due.to] \in SUBSET Listener /\ (due.to = IPv4 \/ due.to = IPv6)
    BY Families DEF TypeOK
  <2>. QED  BY <2>1, <2>2, NotifyRegistered
<1>4. CASE \E l \in Listener : CancelListen(l)
  <2>1. PICK l \in Listener : CancelListen(l)
    BY <1>4
  <2>2. Unregister({l}) /\ stopped' = stopped \cup {l}
    BY <2>1 DEF CancelListen
  <2>. QED  BY <2>2, UnregisterRegistered
<1>5. CASE \E l \in Listener, yes \in Reply : Listen(l, yes)
  <2>1. PICK l \in Listener, yes \in Reply : Listen(l, yes)
    BY <1>5
  <2>2. PICK Try \in SUBSET Family, Ok \in SUBSET Family, accepted \in BOOLEAN :
           ListenEffect(l, Try, Ok, accepted)
    BY <2>1, ListenFacts
  <2>3. /\ \A k \in Listener \ {l} : status'[k] = status[k]
        /\ status'[l] = IF accepted THEN "active" ELSE "refused"
        /\ locals' = IF accepted /\ room THEN locals \cup {l} ELSE locals
        /\ lst'[IPv4] \subseteq lst[IPv4] \cup {l}
        /\ lst'[IPv6] = IF IPv6 \in Ok THEN lst[IPv6] \cup {l} ELSE lst[IPv6]
        /\ IPv6 \in Ok \/ (accepted /\ room) => accepted /\ stopped' = stopped
        /\ stopped' \subseteq stopped \cup {l}
        /\ status[l] = "none"
    BY <2>2, Families DEF ListenEffect, TypeOK
  <2>4. l \notin locals /\ l \notin lst[IPv4] /\ l \notin lst[IPv6] /\ l \notin stopped
    BY <2>3 DEF Registered
  <2>5. locals \subseteq Listener /\ lst[IPv4] \subseteq Listener /\ lst[IPv6] \subseteq Listener
        /\ stopped \subseteq Listener
    BY Families DEF TypeOK
  <2>6. \A k \in locals' \cup lst'[IPv6] : status'[k] = "active" /\ k \notin stopped'
    BY <2>3, <2>4, <2>5 DEF Registered
  <2>7. \A k \in lst'[IPv4] : status'[k] \in {"active", "refused"}
    BY <2>3, <2>4, <2>5 DEF Registered
  <2>8. \A k \in stopped' : status'[k] # "none"
    BY <2>3, <2>4, <2>5 DEF Registered
  <2>. QED  BY <2>6, <2>7, <2>8 DEF Registered
<1>6. CASE \/ \E v \in values : StorageChanged(v)
           \/ \E vs \in SUBSET values : StorageExpired(vs)
  <2>1. PICK no \in SUBSET locals : \E vs, gone : Notify(locals, vs, gone, no)
    BY <1>6 DEF StorageChanged, StorageExpired
  <2>2. locals \in SUBSET Listener
    BY DEF TypeOK
  <2>. QED  BY <2>1, <2>2, NotifyRegistered
<1>7. CASE \/ \E v \in values : StorageErased(v)
           \/ \E n \in Node : SendListen(n) \/ ListenDone(n) \/ NodeGone(n)
           \/ \E f \in Family : OpExpire(f)
  <2>1. UNCHANGED <<status, stopped, locals, lst>>
    BY <1>7 DEF StorageErased, SendListen, ListenDone, NodeGone, OpExpire
  <2>. QED  BY <1>1, <2>1
<1>8. CASE \E n \in Node : Told(n) \/ ExpireValues(n)
  <2>1. UNCHANGED <<status, stopped, locals, lst>>
    BY <1>8, OnValuesFacts
  <2>. QED  BY <1>1, <2>1
<1>. QED  BY <1>2, <1>3, <1>4, <1>5, <1>6, <1>7, <1>8 DEF Next

(* A listener that was cancelled, or whose callback returned false, is      *)
(* registered nowhere, but for the search of IPv4 when IPv6 was refused.    *)
THEOREM ListenStopped == Spec => []StoppedSilent
<1>. DEFINE I == TypeOK /\ SyncExact /\ Registered
<1>1. Init => I
  <2>1. Init => Registered
    BY Families DEF Init, Registered
  <2>. QED  BY <2>1, TypesInit, SyncInit
<1>2. I /\ [Next]_vars => I'
  BY TypesStep, RegisteredStep
<1>3. I => StoppedSilent
  BY DEF Registered, StoppedSilent
<1>. HIDE DEF I
<1>. QED  BY <1>1, <1>2, <1>3, PTL DEF Spec

-----------------------------------------------------------------------------
(* How many caches hold a value. *)

(* The nodes of a family whose ValueCaches hold a value. *)
Holders(f, v) == {n \in InFamily(listening, f) : v \in HeldBy(n)}

(* In every state, in the middle of the callbacks too, the count of a value *)
(* is that of the caches that hold it, up to the callbacks that are due.    *)
RefInv ==
    \A f \in Family, v \in Id :
        refs[f][v] + One(f = due.to /\ v \in due.added)
          = Cardinality(Holders(f, v)) + One(f = due.to /\ v \in due.gone)

(* Every node that is listened to feeds an OpCache. *)
LiveInv == \A n \in listening : FamilyOf[n] \in live

(* Sets that differ in one node at most. *)
LEMMA OneNodeApart ==
    ASSUME NEW S \in SUBSET Node, NEW T \in SUBSET Node, NEW n \in Node, S \ {n} = T \ {n}
    PROVE  Cardinality(T) + One(n \in S) = Cardinality(S) + One(n \in T)
<1>1. Cardinality(S) \in Nat /\ Cardinality(T) \in Nat
  BY OneNode
<1>2. CASE (n \in S) <=> (n \in T)
  <2>1. S = T
    BY <1>2
  <2>. QED  BY <1>1, <2>1
<1>3. CASE n \in S /\ n \notin T
  <2>1. T = S \ {n}
    BY <1>3
  <2>. QED  BY <1>1, <1>3, <2>1, OneNode DEF One
<1>4. CASE n \notin S /\ n \in T
  <2>1. S = T \ {n}
    BY <1>4
  <2>. QED  BY <1>1, <1>4, <2>1, OneNode DEF One
<1>. QED  BY <1>2, <1>3, <1>4

(* The counts of the holders are numbers. *)
LEMMA HoldersFinite ==
    ASSUME TypeOK, NEW f \in Family, NEW v \in Id
    PROVE  Holders(f, v) \in SUBSET Node /\ Cardinality(Holders(f, v)) \in Nat
<1>1. Holders(f, v) \in SUBSET Node
  BY DEF Holders, InFamily, TypeOK
<1>. QED  BY <1>1, Finite

(* Nothing due: the counts are exact. *)
LEMMA RefIdle ==
    ASSUME TypeOK, RefInv, Idle
    PROVE  \A f \in Family, v \in Id : refs[f][v] = Cardinality(Holders(f, v))
<1>. SUFFICES ASSUME NEW f \in Family, NEW v \in Id PROVE refs[f][v] = Cardinality(Holders(f, v))
  OBVIOUS
<1>1. refs[f][v] \in Nat /\ Cardinality(Holders(f, v)) \in Nat
  BY HoldersFinite DEF TypeOK
<1>2. v \notin due.added /\ v \notin due.gone
  BY DEF Idle
<1>. QED  BY <1>1, <1>2 DEF RefInv, One

(* A step of one ValueCache keeps it, when the callbacks that become due    *)
(* are for what came and what went.                                         *)
LEMMA CacheStepRefs ==
    ASSUME TypeOK, TypeOK', RefInv, Idle, NEW n \in listening, UNCHANGED refs,
           listening' \ {n} = listening \ {n},
           \A m \in Node \ {n} : exp'[m] = exp[m],
           NEW vs \in SUBSET Id, NEW keep \in SUBSET (HeldBy(n) \cup vs),
           \A v \in Id : v \in keep <=> n \in listening' /\ v \in HeldBy(n)',
           due' = [to |-> FamilyOf[n], added |-> vs \ HeldBy(n),
                   gone |-> (HeldBy(n) \cup vs) \ keep]
    PROVE  RefInv'
<1>. SUFFICES ASSUME NEW f \in Family, NEW v \in Id
              PROVE  refs'[f][v] + One(f = due'.to /\ v \in due'.added)
                       = Cardinality(Holders(f, v)') + One(f = due'.to /\ v \in due'.gone)
  BY DEF RefInv
<1>1. n \in Node
  BY DEF TypeOK
<1>2. /\ Holders(f, v) \in SUBSET Node /\ Cardinality(Holders(f, v)) \in Nat
      /\ refs[f][v] = Cardinality(Holders(f, v))
  BY HoldersFinite, RefIdle
<1>3. Holders(f, v)' \in SUBSET Node
  BY DEF Holders, InFamily, TypeOK
<1>4. Holders(f, v) \ {n} = Holders(f, v)' \ {n}
  BY DEF Holders, InFamily, HeldBy, TypeOK
<1>5. /\ n \in Holders(f, v) <=> f = FamilyOf[n] /\ v \in HeldBy(n)
      /\ n \in Holders(f, v)' <=> f = FamilyOf[n] /\ v \in keep
  BY DEF Holders, InFamily
<1>6. Cardinality(Holders(f, v)') + One(n \in Holders(f, v))
        = Cardinality(Holders(f, v)) + One(n \in Holders(f, v)')
  BY <1>1, <1>2, <1>3, <1>4, OneNodeApart
<1>7. Cardinality(Holders(f, v)') \in Nat
  BY <1>3, Finite
<1>8. /\ f = due'.to <=> f = FamilyOf[n]
      /\ v \in due'.added <=> v \in vs /\ v \notin HeldBy(n)
      /\ v \in due'.gone <=> (v \in HeldBy(n) \/ v \in vs) /\ v \notin keep
      /\ v \in keep => v \in HeldBy(n) \/ v \in vs
  OBVIOUS
<1>. QED  BY <1>2, <1>5, <1>6, <1>7, <1>8 DEF One

(* A batch of callbacks moves what was due into the counts. *)
LEMMA CallbackRefs ==
    ASSUME TypeOK, RefInv, Callback
    PROVE  RefInv'
<1>. SUFFICES ASSUME NEW f \in Family, NEW v \in Id
              PROVE  refs'[f][v] + One(f = due'.to /\ v \in due'.added)
                       = Cardinality(Holders(f, v)') + One(f = due'.to /\ v \in due'.gone)
  BY DEF RefInv
<1>1. Holders(f, v)' = Holders(f, v)
  BY DEF Callback, Holders, InFamily, HeldBy
<1>2. refs[f][v] \in Nat /\ Cardinality(Holders(f, v)) \in Nat
  BY HoldersFinite DEF TypeOK
<1>3. refs[f][v] + One(f = due.to /\ v \in due.added)
        = Cardinality(Holders(f, v)) + One(f = due.to /\ v \in due.gone)
  BY DEF RefInv
<1>4. CASE \E no : Added(no)
  <2>1. refs' = [refs EXCEPT ![due.to] = [w \in Id |->
                   IF w \in due.added THEN Counted(@[w], FALSE) ELSE @[w]]]
        /\ due' = [due EXCEPT !.added = {}]
    BY <1>4 DEF Added
  <2>2. \A k : Counted(k, FALSE) = k + 1
    BY DEF Counted
  <2>3. refs'[f][v] = IF f = due.to /\ v \in due.added THEN refs[f][v] + 1 ELSE refs[f][v]
    BY <2>1, <2>2 DEF TypeOK
  <2>4. due'.to = due.to /\ v \notin due'.added /\ due'.gone = due.gone
    BY <2>1 DEF TypeOK
  <2>5. CASE f = due.to /\ v \in due.added
    BY <1>1, <1>2, <1>3, <2>3, <2>4, <2>5 DEF One
  <2>6. CASE ~(f = due.to /\ v \in due.added)
    BY <1>1, <1>2, <1>3, <2>3, <2>4, <2>6 DEF One
  <2>. QED  BY <2>5, <2>6
<1>5. CASE \E batch \in SUBSET due.gone, no \in SUBSET lst[due.to] : Gone(batch, no)
  <2>1. PICK batch \in SUBSET due.gone : \E no : Gone(batch, no)
    BY <1>5
  <2>2. refs' = [refs EXCEPT ![due.to] = [w \in Id |->
                   IF w \in batch THEN Counted(@[w], TRUE) ELSE @[w]]]
        /\ due' = [due EXCEPT !.gone = @ \ batch] /\ due.added = {}
    BY <2>1 DEF Gone
  <2>3. \A k \in Nat : k > 0 => Counted(k, TRUE) = k - 1
    BY DEF Counted, Minus1
  <2>4. /\ due'.to = due.to /\ v \notin due.added /\ v \notin due'.added
        /\ v \in due'.gone <=> v \in due.gone /\ v \notin batch
        /\ v \in batch => v \in due.gone
    BY <2>2 DEF TypeOK
  <2>5. CASE f = due.to /\ v \in batch
    <3>1. refs[f][v] > 0
      BY <1>2, <1>3, <2>4, <2>5 DEF One
    <3>2. refs'[f][v] = Counted(refs[f][v], TRUE)
      BY <2>2, <2>5 DEF TypeOK
    <3>3. refs'[f][v] = refs[f][v] - 1
      BY <1>2, <2>3, <3>1, <3>2
    <3>. QED  BY <1>1, <1>2, <1>3, <2>4, <2>5, <3>3 DEF One
  <2>6. CASE ~(f = due.to /\ v \in batch)
    <3>1. refs'[f][v] = refs[f][v]
      BY <2>2, <2>6 DEF TypeOK
    <3>. QED  BY <1>1, <1>2, <1>3, <2>4, <2>6, <3>1 DEF One
  <2>. QED  BY <2>5, <2>6
<1>. QED  BY <1>4, <1>5 DEF Callback

(* Every step keeps both. *)
LEMMA RefsStep ==
    ASSUME TypeOK, TypeOK', RefInv, LiveInv, [Next]_vars
    PROVE  RefInv' /\ LiveInv'
<1>1. ASSUME UNCHANGED <<refs, due, listening, exp>> PROVE RefInv'
  BY <1>1 DEF RefInv, Holders, InFamily, HeldBy
<1>2. ASSUME listening' \subseteq listening, live \subseteq live' PROVE LiveInv'
  BY <1>2 DEF LiveInv
<1>3. CASE UNCHANGED vars \/ Tick
  BY <1>1, <1>2, <1>3 DEF vars, Tick
<1>4. CASE Callback
  BY <1>2, <1>4, CallbackRefs DEF Callback
<1>5. CASE \E l \in Listener : CancelListen(l) \/ \E yes \in Reply : Listen(l, yes)
  <2>1. UNCHANGED <<refs, due, listening, exp>>
    BY <1>5 DEF CancelListen, Listen
  <2>2. live \subseteq live'
    <3>1. CASE \E l \in Listener : CancelListen(l)
      BY <3>1 DEF CancelListen
    <3>2. CASE \E l \in Listener, yes \in Reply : Listen(l, yes)
      BY <3>2, ListenFacts DEF ListenEffect
    <3>. QED  BY <1>5, <3>1, <3>2
  <2>. QED  BY <1>1, <1>2, <2>1, <2>2
<1>6. CASE \/ \E v \in values : StorageChanged(v) \/ StorageErased(v)
           \/ \E vs \in SUBSET values : StorageExpired(vs)
           \/ \E n \in Node : ListenDone(n)
  <2>1. UNCHANGED <<refs, due, listening, exp, live>>
    BY <1>6 DEF StorageChanged, StorageErased, StorageExpired, ListenDone
  <2>. QED  BY <1>1, <1>2, <2>1
<1>7. CASE \E n \in Node : SendListen(n)
  <2>. PICK n \in Node : SendListen(n)
    BY <1>7
  <2>1. /\ listening' = listening \cup {n} /\ exp' = [exp EXCEPT ![n] = NoValues]
        /\ n \notin listening /\ FamilyOf[n] \in live /\ UNCHANGED <<refs, due, live>>
    BY DEF SendListen
  <2>2. HeldBy(n)' = {} /\ \A m \in listening : m \in Node /\ HeldBy(m)' = HeldBy(m)
    BY <2>1 DEF HeldBy, NoValues, TypeOK
  <2>3. \A f \in Family, v \in Id : Holders(f, v)' = Holders(f, v)
    BY <2>1, <2>2 DEF Holders, InFamily
  <2>4. RefInv'
    BY <2>1, <2>3 DEF RefInv
  <2>5. LiveInv'
    BY <2>1 DEF LiveInv
  <2>. QED  BY <2>4, <2>5
<1>8. CASE \E n \in Node : NodeGone(n)
  <2>. PICK n \in Node : NodeGone(n)
    BY <1>8
  <2>1. /\ Idle /\ n \in listening /\ listening' = listening \ {n} /\ UNCHANGED <<refs, live>>
        /\ \A m \in Node \ {n} : exp'[m] = exp[m]
        /\ due' = [to |-> FamilyOf[n], added |-> {}, gone |-> HeldBy(n)]
    BY DEF NodeGone, Cleared, TypeOK
  <2>2. due' = [to |-> FamilyOf[n], added |-> {} \ HeldBy(n), gone |-> (HeldBy(n) \cup {}) \ {}]
    BY <2>1
  <2>3. {} \in SUBSET Id /\ {} \in SUBSET (HeldBy(n) \cup {})
        /\ \A v \in Id : v \in {} <=> n \in listening' /\ v \in HeldBy(n)'
    BY <2>1
  <2>4. listening' \ {n} = listening \ {n}
    BY <2>1
  <2>5. RefInv'
    BY <2>1, <2>2, <2>3, <2>4, CacheStepRefs
  <2>. QED  BY <1>2, <2>1, <2>5
<1>9. CASE \E n \in Node : Told(n) \/ ExpireValues(n)
  <2>. PICK n \in Node : Told(n) \/ ExpireValues(n)
    BY <1>9
  <2>1. /\ Idle /\ n \in listening /\ UNCHANGED <<refs, live, listening>>
        /\ \A m \in Node \ {n} : exp'[m] = exp[m]
    BY OnValuesFacts
  <2>2. PICK vs \in SUBSET Id :
          /\ HeldBy(n)' \subseteq HeldBy(n) \cup vs
          /\ due' = [to |-> FamilyOf[n], added |-> vs \ HeldBy(n),
                     gone |-> (HeldBy(n) \cup vs) \ HeldBy(n)']
    BY OnValuesFacts
  <2>3. \A v \in Id : v \in HeldBy(n)' <=> n \in listening' /\ v \in HeldBy(n)'
    BY <2>1
  <2>4. listening' \ {n} = listening \ {n} /\ HeldBy(n)' \in SUBSET (HeldBy(n) \cup vs)
    BY <2>1, <2>2
  <2>5. RefInv'
    BY <2>1, <2>2, <2>3, <2>4, CacheStepRefs
  <2>. QED  BY <1>2, <2>1, <2>5
<1>10. CASE \E f \in Family : OpExpire(f)
  <2>. PICK f \in Family : OpExpire(f)
    BY <1>10
  <2>1. Idle /\ UNCHANGED due
    BY DEF OpExpire
  <2>2. CASE UNCHANGED <<live, refs, caches>>
    BY <1>1, <1>2, <2>1, <2>2
  <2>3. CASE /\ live' = live \ {f}
             /\ refs' = [refs EXCEPT ![f] = NoRefs]
             /\ listening' = {n \in listening : FamilyOf[n] # f}
             /\ exp' = [n \in Node |-> IF FamilyOf[n] = f THEN NoValues ELSE exp[n]]
    <3>1. LiveInv'
      BY <2>3 DEF LiveInv
    <3>2. \A v \in Id : Holders(f, v)' = {} /\ refs'[f][v] = 0
      BY <2>3 DEF Holders, InFamily, NoRefs, TypeOK
    <3>3. \A g \in Family \ {f}, v \in Id : Holders(g, v)' = Holders(g, v) /\ refs'[g][v] = refs[g][v]
      BY <2>3 DEF Holders, InFamily, HeldBy, TypeOK
    <3>4. Cardinality({}) = 0
      BY FS_EmptySet
    <3>5. \A v \in Id : v \notin due.added /\ v \notin due.gone
      BY <2>1 DEF Idle
    <3>6. RefInv'
      BY <2>1, <3>2, <3>3, <3>4, <3>5 DEF RefInv, One
    <3>. QED  BY <3>1, <3>6
  <2>. QED  BY <2>2, <2>3 DEF OpExpire
<1>. QED  BY <1>3, <1>4, <1>5, <1>6, <1>7, <1>8, <1>9, <1>10 DEF Next

(* The first states: nobody holds anything. *)
LEMMA RefsInit == Init => RefInv /\ LiveInv
<1>. SUFFICES ASSUME Init PROVE RefInv /\ LiveInv
  OBVIOUS
<1>1. \A f \in Family, v \in Id : Holders(f, v) = {} /\ refs[f][v] = 0
  BY DEF Init, Holders, InFamily, NoRefs
<1>2. Cardinality({}) = 0
  BY FS_EmptySet
<1>3. due.added = {} /\ due.gone = {}
  BY DEF Init
<1>4. RefInv
  BY <1>1, <1>2, <1>3 DEF RefInv, One
<1>5. LiveInv
  BY DEF Init, LiveInv
<1>. QED  BY <1>4, <1>5

(* Between callbacks an OpCache counts exactly the ValueCaches that hold a  *)
(* value, for any number of nodes and values.                               *)
THEOREM ListenRefCounts == Spec => []RefCountExact
<1>. DEFINE I == TypeOK /\ SyncExact /\ RefInv /\ LiveInv
<1>1. Init => I
  BY TypesInit, SyncInit, RefsInit
<1>2. I /\ [Next]_vars => I'
  BY TypesStep, RefsStep
<1>3. I => RefCountExact
  BY RefIdle DEF RefCountExact, Holders
<1>. HIDE DEF I
<1>. QED  BY <1>1, <1>2, <1>3, PTL DEF Spec

-----------------------------------------------------------------------------
(* The jobs. *)

(* An OpCache that loses its last listener has a job in time, and one that  *)
(* had none keeps it.                                                       *)
LEMMA UnregisterExpiry ==
    ASSUME TypeOK, ExpiryScheduled, NEW C \in SUBSET Listener, Unregister(C),
           UNCHANGED <<live, caches>>
    PROVE  ExpiryScheduled'
<1>1. \A n \in listening' : \A v \in HeldBy(n)' : job'[n] <= exp'[n][v]
  BY DEF ExpiryScheduled, HeldBy
<1>2. ASSUME NEW f \in live, lst'[f] = {} PROVE next'[f] <= removed'[f] + Grace
  <2>1. f \in Family
    BY DEF TypeOK
  <2>2. /\ lst'[f] = lst[f] \ C
        /\ removed'[f] = IF lst[f] \cap C # {} THEN now ELSE removed[f]
        /\ next'[f] = IF lst[f] \cap C # {} /\ lst[f] \subseteq C
                      THEN Smaller(next[f], now + Grace) ELSE next[f]
    BY <2>1 DEF Unregister
  <2>3. CASE lst[f] \cap C = {}
    <3>1. lst[f] = {}
      BY <1>2, <2>2, <2>3
    <3>. QED  BY <2>2, <2>3, <3>1 DEF ExpiryScheduled
  <2>4. CASE lst[f] \cap C # {}
    <3>1. lst[f] \subseteq C
      BY <1>2, <2>2
    <3>2. next[f] \in Time /\ now + Grace \in Time
      BY <2>1, TimeFacts DEF TypeOK
    <3>3. Smaller(next[f], now + Grace) <= now + Grace
      BY <3>2, TimeFacts
    <3>. QED  BY <2>2, <2>4, <3>1, <3>3
  <2>. QED  BY <2>3, <2>4
<1>. QED  BY <1>1, <1>2 DEF ExpiryScheduled

(* Every step keeps the jobs in time. *)
LEMMA ExpiryStep ==
    ASSUME TypeOK, TypeOK', RefInv, LiveInv, ExpiryScheduled, [Next]_vars
    PROVE  ExpiryScheduled'
<1>1. ASSUME UNCHANGED <<live, lst, removed, next, caches>> PROVE ExpiryScheduled'
  BY <1>1 DEF ExpiryScheduled, HeldBy
<1>2. ASSUME UNCHANGED <<live, lst, removed, next>>,
             \A n \in listening' : \A v \in HeldBy(n)' : job'[n] <= exp'[n][v]
      PROVE  ExpiryScheduled'
  BY <1>2 DEF ExpiryScheduled
<1>3. CASE UNCHANGED vars \/ Tick
  BY <1>1, <1>3 DEF vars, Tick
<1>4. CASE Callback
  <2>1. PICK no \in SUBSET lst[due.to] : \E vs, gone : Notify(lst[due.to], vs, gone, no)
    BY <1>4 DEF Callback, Added, Gone
  <2>2. Active(no) \in SUBSET Listener
    BY DEF Active, TypeOK
  <2>3. Unregister(Active(no)) /\ UNCHANGED <<live, caches>>
    BY <1>4, <2>1 DEF Callback, Notify
  <2>. QED  BY <2>2, <2>3, UnregisterExpiry
<1>5. CASE \E l \in Listener : CancelListen(l)
  <2>1. PICK l \in Listener : Unregister({l}) /\ UNCHANGED <<live, caches>>
    BY <1>5 DEF CancelListen
  <2>. QED  BY <2>1, UnregisterExpiry
<1>6. CASE \E l \in Listener, yes \in Reply : Listen(l, yes)
  <2>1. PICK l \in Listener, yes \in Reply : Listen(l, yes)
    BY <1>6
  <2>2. PICK Try \in SUBSET Family, Ok \in SUBSET Family, accepted \in BOOLEAN :
           ListenEffect(l, Try, Ok, accepted)
    BY <2>1, ListenFacts
  <2>3. /\ Idle /\ UNCHANGED <<next, caches>> /\ live' = live \cup Try
        /\ \A f \in live : removed'[f] = removed[f]
        /\ \A f \in Family : lst'[f] = IF f \in Ok THEN lst[f] \cup {l} ELSE lst[f]
        /\ \A f \in Try \ Ok : \E v \in Wants[l] : refs[f][v] > 0
    BY <2>2 DEF ListenEffect
  <2>4. ASSUME NEW f \in live', lst'[f] = {} PROVE next'[f] <= removed'[f] + Grace
    <3>1. f \in Family
      BY DEF TypeOK
    <3>2. f \notin Ok /\ lst[f] = {}
      BY <2>3, <2>4, <3>1
    <3>3. CASE f \in live
      BY <2>3, <3>2, <3>3 DEF ExpiryScheduled
    <3>4. CASE f \notin live
      <4>1. PICK v \in Wants[l] : refs[f][v] > 0
        BY <2>3, <3>2, <3>4
      <4>2. v \in Id
        BY WantsAssumption
      <4>3. Holders(f, v) = {}
        BY <3>4 DEF Holders, InFamily, LiveInv
      <4>4. refs[f][v] = Cardinality(Holders(f, v))
        BY <2>3, <3>1, <4>2, RefIdle
      <4>5. refs[f][v] = 0
        BY <4>3, <4>4, FS_EmptySet
      <4>. QED  BY <4>1, <4>5
    <3>. QED  BY <3>3, <3>4
  <2>5. \A n \in listening' : \A v \in HeldBy(n)' : job'[n] <= exp'[n][v]
    BY <2>3 DEF ExpiryScheduled, HeldBy
  <2>. QED  BY <2>4, <2>5 DEF ExpiryScheduled
<1>7. CASE \/ \E v \in values : StorageChanged(v)
           \/ \E vs \in SUBSET values : StorageExpired(vs)
  <2>1. PICK no \in SUBSET locals : \E vs, gone : Notify(locals, vs, gone, no)
    BY <1>7 DEF StorageChanged, StorageExpired
  <2>2. Active(no) \in SUBSET Listener
    BY DEF Active, TypeOK
  <2>3. Unregister(Active(no)) /\ UNCHANGED <<live, caches>>
    BY <1>7, <2>1 DEF StorageChanged, StorageExpired, Notify
  <2>. QED  BY <2>2, <2>3, UnregisterExpiry
<1>8. CASE \E v \in values : StorageErased(v)
  BY <1>1, <1>8 DEF StorageErased
<1>9. CASE \E n \in Node : SendListen(n) \/ NodeGone(n)
  <2>1. PICK n \in Node : SendListen(n) \/ NodeGone(n)
    BY <1>9
  <2>2. /\ UNCHANGED <<live, lst, removed, next>> /\ listening' \subseteq listening \cup {n}
        /\ exp' = [exp EXCEPT ![n] = NoValues] /\ job' = [job EXCEPT ![n] = Never]
    BY <2>1 DEF SendListen, NodeGone
  <2>3. HeldBy(n)' = {}
    BY <2>2 DEF HeldBy, NoValues, TypeOK
  <2>4. \A m \in listening \ {n} : HeldBy(m)' = HeldBy(m) /\ job'[m] = job[m] /\ exp'[m] = exp[m]
    BY <2>2 DEF HeldBy, TypeOK
  <2>5. \A m \in listening' : \A v \in HeldBy(m)' : job'[m] <= exp'[m][v]
    BY <2>2, <2>3, <2>4 DEF ExpiryScheduled
  <2>. QED  BY <1>2, <2>2, <2>5
<1>10. CASE \E n \in Node : ListenDone(n)
  <2>1. UNCHANGED <<live, lst, removed, next, listening, exp, job>>
    BY <1>10 DEF ListenDone
  <2>. QED  BY <2>1 DEF ExpiryScheduled, HeldBy
<1>11. CASE \E n \in Node : Told(n) \/ ExpireValues(n)
  <2>1. PICK n \in Node : Told(n) \/ ExpireValues(n)
    BY <1>11
  <2>2. /\ UNCHANGED <<live, lst, removed, next, listening>>
        /\ \A m \in Node \ {n} : exp'[m] = exp[m] /\ job'[m] = job[m]
        /\ \A v \in HeldBy(n)' : job'[n] <= exp'[n][v]
    BY <2>1, OnValuesFacts
  <2>3. \A m \in listening \ {n} : HeldBy(m)' = HeldBy(m) /\ job'[m] = job[m] /\ exp'[m] = exp[m]
    BY <2>2 DEF HeldBy, TypeOK
  <2>4. \A m \in listening' : \A v \in HeldBy(m)' : job'[m] <= exp'[m][v]
    BY <2>2, <2>3 DEF ExpiryScheduled
  <2>. QED  BY <1>2, <2>2, <2>4
<1>12. CASE \E f \in Family : OpExpire(f)
  <2>1. PICK f \in Family : OpExpire(f)
    BY <1>12
  <2>2. UNCHANGED <<lst, removed>>
    BY <2>1 DEF OpExpire
  <2>3. CASE /\ UNCHANGED <<live, caches>>
             /\ \A g \in Family \ {f} : next'[g] = next[g]
             /\ lst[f] = {} => next'[f] <= removed[f] + Grace
    <3>1. \A n \in listening' : \A v \in HeldBy(n)' : job'[n] <= exp'[n][v]
      BY <2>3 DEF ExpiryScheduled, HeldBy
    <3>2. \A g \in live' : lst'[g] = {} => next'[g] <= removed'[g] + Grace
      BY <2>2, <2>3 DEF ExpiryScheduled, TypeOK
    <3>. QED  BY <3>1, <3>2 DEF ExpiryScheduled
  <2>4. CASE lst[f] # {} /\ next' = [next EXCEPT ![f] = Never] /\ UNCHANGED <<live, caches>>
    BY <2>3, <2>4 DEF TypeOK
  <2>5. CASE next' = [next EXCEPT ![f] = removed[f] + Grace] /\ UNCHANGED <<live, caches>>
    <3>1. \A g \in Family \ {f} : next'[g] = next[g]
      BY <2>5 DEF TypeOK
    <3>2. next'[f] = removed[f] + Grace /\ removed[f] + Grace \in Nat
      BY <2>5, TimeFacts DEF TypeOK
    <3>. QED  BY <2>3, <2>5, <3>1, <3>2
  <2>6. CASE /\ next' = [next EXCEPT ![f] = Never] /\ live' = live \ {f}
             /\ listening' = {n \in listening : FamilyOf[n] # f}
             /\ exp' = [n \in Node |-> IF FamilyOf[n] = f THEN NoValues ELSE exp[n]]
             /\ job' = [n \in Node |-> IF FamilyOf[n] = f THEN Never ELSE job[n]]
    <3>1. \A n \in listening' : n \in listening /\ exp'[n] = exp[n] /\ job'[n] = job[n]
      BY <2>6 DEF TypeOK
    <3>2. \A n \in listening' : \A v \in HeldBy(n)' : job'[n] <= exp'[n][v]
      BY <3>1 DEF ExpiryScheduled, HeldBy
    <3>3. \A g \in live' : lst'[g] = {} => next'[g] <= removed'[g] + Grace
      BY <2>2, <2>6 DEF ExpiryScheduled, TypeOK
    <3>. QED  BY <3>2, <3>3 DEF ExpiryScheduled
  <2>. QED  BY <2>1, <2>4, <2>5, <2>6 DEF OpExpire
<1>. QED  BY <1>3, <1>4, <1>5, <1>6, <1>7, <1>8, <1>9, <1>10, <1>11, <1>12 DEF Next

(* Whatever happens, no job is late: every value a node told of goes if the *)
(* node falls silent, and an OpCache without listeners goes too.            *)
THEOREM ListenExpiry == Spec => []ExpiryScheduled
<1>. DEFINE I == TypeOK /\ SyncExact /\ RefInv /\ LiveInv /\ ExpiryScheduled
<1>1. Init => I
  <2>1. Init => ExpiryScheduled
    BY DEF Init, ExpiryScheduled
  <2>. QED  BY <2>1, TypesInit, SyncInit, RefsInit
<1>2. I /\ [Next]_vars => I'
  BY TypesStep, RefsStep, ExpiryStep
<1>3. I => ExpiryScheduled
  OBVIOUS
<1>. HIDE DEF I
<1>. QED  BY <1>1, <1>2, <1>3, PTL DEF Spec

-----------------------------------------------------------------------------
(* What a listener was told. *)

(* The sources that a listener is registered with and that hold a value. *)
Sources(l, v) ==
    One(l \in locals /\ v \in local) + One(l \in lst[IPv4] /\ refs[IPv4][v] > 0)
                                     + One(l \in lst[IPv6] /\ refs[IPv6][v] > 0)

(* In every state the count before a callback that is still wanted is that  *)
(* of the sources that hold the value.                                      *)
SeenInv ==
    /\ ~room => local = {}
    /\ \A l \in Listener \ stopped : status[l] = "active" =>
         \A v \in Wants[l] \ lost : seen[l][v] = Sources(l, v)

(* What telling the listeners of a source leaves alone of those that go on. *)
LEMMA NotifyKeeps ==
    ASSUME TypeOK, NEW no \in SUBSET Listener,
           stopped' = stopped \cup no, Unregister(Active(no)),
           NEW l \in Listener \ stopped', status'[l] = "active"
    PROVE  /\ l \notin stopped /\ status[l] = "active" /\ l \notin Active(no)
           /\ l \in locals' <=> l \in locals
           /\ l \in lst'[IPv4] <=> l \in lst[IPv4]
           /\ l \in lst'[IPv6] <=> l \in lst[IPv6]
<1>1. l \notin no /\ l \notin stopped /\ l \notin Active(no)
  BY DEF Active
<1>2. /\ status'[l] = status[l]
      /\ l \in locals' <=> l \in locals
      /\ l \in lst'[IPv4] <=> l \in lst[IPv4]
      /\ l \in lst'[IPv6] <=> l \in lst[IPv6]
  BY <1>1, Families DEF Unregister
<1>. QED  BY <1>1, <1>2

(* The counts a listener may add or take away. *)
LEMMA SourcesNat ==
    ASSUME TypeOK, NEW l \in Listener, NEW v \in Id
    PROVE  /\ refs[IPv4][v] \in Nat /\ refs[IPv6][v] \in Nat /\ seen[l][v] \in Nat
           /\ Counted(seen[l][v], FALSE) = seen[l][v] + 1
           /\ seen[l][v] > 0 => Counted(seen[l][v], TRUE) = seen[l][v] - 1
<1>1. refs[IPv4][v] \in Nat /\ refs[IPv6][v] \in Nat /\ seen[l][v] \in Nat
  BY Families DEF TypeOK
<1>. QED  BY <1>1 DEF Counted, Minus1

(* Callbacks of an OpCache: a value comes with its first holder, and goes   *)
(* with its last.                                                           *)
LEMMA CallbackSeen ==
    ASSUME TypeOK, SeenInv, Callback
    PROVE  SeenInv'
<1>1. UNCHANGED <<room, local, lost>>
  BY DEF Callback
<1>2. due.to \in Family /\ lst[due.to] \in SUBSET Listener
  BY DEF TypeOK
<1>. SUFFICES ASSUME NEW l \in Listener \ stopped', status'[l] = "active",
                     NEW v \in Wants[l] \ lost
              PROVE  seen'[l][v] = Sources(l, v)'
  BY <1>1 DEF SeenInv
<1>3. v \in Id /\ v \in Wants[l]
  BY WantsAssumption
<1>4. /\ refs[IPv4][v] \in Nat /\ refs[IPv6][v] \in Nat /\ seen[l][v] \in Nat
      /\ Counted(seen[l][v], FALSE) = seen[l][v] + 1
      /\ seen[l][v] > 0 => Counted(seen[l][v], TRUE) = seen[l][v] - 1
  BY <1>3, SourcesNat
<1>5. ASSUME NEW no \in SUBSET lst[due.to], Added(no)
      PROVE  seen'[l][v] = Sources(l, v)'
  <2>1. Notify(lst[due.to], FirstHeld(due.to, due.added), FALSE, no)
    BY <1>5 DEF Added
  <2>2. /\ l \notin stopped /\ status[l] = "active"
        /\ l \in locals' <=> l \in locals
        /\ l \in lst'[IPv4] <=> l \in lst[IPv4]
        /\ l \in lst'[IPv6] <=> l \in lst[IPv6]
        /\ seen'[l][v] = IF l \in lst[due.to] /\ v \in FirstHeld(due.to, due.added)
                         THEN Counted(seen[l][v], FALSE) ELSE seen[l][v]
    <3>1. stopped' = stopped \cup no /\ Unregister(Active(no)) /\ no \in SUBSET Listener
      BY <1>2, <1>3, <2>1 DEF Notify
    <3>2. /\ l \notin stopped /\ status[l] = "active" /\ l \notin Active(no)
          /\ l \in locals' <=> l \in locals
          /\ l \in lst'[IPv4] <=> l \in lst[IPv4]
          /\ l \in lst'[IPv6] <=> l \in lst[IPv6]
      BY <3>1, NotifyKeeps
    <3>3. seen'[l][v] = IF l \in lst[due.to] /\ v \in FirstHeld(due.to, due.added)
                        THEN Counted(seen[l][v], FALSE) ELSE seen[l][v]
      BY <1>2, <1>3, <2>1, <3>2 DEF Notify
    <3>. QED  BY <3>2, <3>3
  <2>3. seen[l][v] = Sources(l, v)
    BY <2>2 DEF SeenInv
  <2>4. refs' = [refs EXCEPT ![due.to] = [w \in Id |->
                   IF w \in due.added THEN Counted(@[w], FALSE) ELSE @[w]]]
    BY <1>5 DEF Added
  <2>5. \A k : Counted(k, FALSE) = k + 1
    BY DEF Counted
  <2>6. \A f \in Family :
          refs'[f][v] = IF f = due.to /\ v \in due.added THEN refs[f][v] + 1 ELSE refs[f][v]
    BY <1>3, <2>4, <2>5 DEF TypeOK
  <2>7. v \in FirstHeld(due.to, due.added) <=> v \in due.added /\ refs[due.to][v] = 0
    BY DEF FirstHeld
  <2>8. seen'[l][v] = IF l \in lst[due.to] /\ v \in due.added /\ refs[due.to][v] = 0
                      THEN seen[l][v] + 1 ELSE seen[l][v]
    BY <1>4, <2>2, <2>7
  <2>9. CASE due.to = IPv4
    <3>1. refs'[IPv4][v] = (IF v \in due.added THEN refs[IPv4][v] + 1 ELSE refs[IPv4][v])
          /\ refs'[IPv6][v] = refs[IPv6][v]
      BY <2>6, <2>9, Families
    <3>2. /\ One(l \in locals' /\ v \in local') = One(l \in locals /\ v \in local)
          /\ One(l \in lst'[IPv6] /\ refs'[IPv6][v] > 0) = One(l \in lst[IPv6] /\ refs[IPv6][v] > 0)
      BY <1>1, <2>2, <3>1 DEF One
    <3>3. One(l \in lst'[IPv4] /\ refs'[IPv4][v] > 0) = One(l \in lst[IPv4] /\ refs[IPv4][v] > 0)
            + One(l \in lst[IPv4] /\ v \in due.added /\ refs[IPv4][v] = 0)
      BY <1>4, <2>2, <3>1 DEF One
    <3>4. seen'[l][v] = seen[l][v] + One(l \in lst[IPv4] /\ v \in due.added /\ refs[IPv4][v] = 0)
      BY <1>4, <2>8, <2>9 DEF One
    <3>5. \A P : One(P) \in 0 .. 1
      BY DEF One
    <3>. QED  BY <1>4, <2>3, <3>2, <3>3, <3>4, <3>5 DEF Sources
  <2>10. CASE due.to = IPv6
    <3>1. refs'[IPv6][v] = (IF v \in due.added THEN refs[IPv6][v] + 1 ELSE refs[IPv6][v])
          /\ refs'[IPv4][v] = refs[IPv4][v]
      BY <2>6, <2>10, Families
    <3>2. /\ One(l \in locals' /\ v \in local') = One(l \in locals /\ v \in local)
          /\ One(l \in lst'[IPv4] /\ refs'[IPv4][v] > 0) = One(l \in lst[IPv4] /\ refs[IPv4][v] > 0)
      BY <1>1, <2>2, <3>1 DEF One
    <3>3. One(l \in lst'[IPv6] /\ refs'[IPv6][v] > 0) = One(l \in lst[IPv6] /\ refs[IPv6][v] > 0)
            + One(l \in lst[IPv6] /\ v \in due.added /\ refs[IPv6][v] = 0)
      BY <1>4, <2>2, <3>1 DEF One
    <3>4. seen'[l][v] = seen[l][v] + One(l \in lst[IPv6] /\ v \in due.added /\ refs[IPv6][v] = 0)
      BY <1>4, <2>8, <2>10 DEF One
    <3>5. \A P : One(P) \in 0 .. 1
      BY DEF One
    <3>. QED  BY <1>4, <2>3, <3>2, <3>3, <3>4, <3>5 DEF Sources
  <2>. QED  BY <1>2, <2>9, <2>10, Families
<1>6. ASSUME NEW no \in SUBSET lst[due.to], NEW batch \in SUBSET due.gone, Gone(batch, no)
      PROVE  seen'[l][v] = Sources(l, v)'
  <2>1. Notify(lst[due.to], {w \in batch : refs[due.to][w] = 1}, TRUE, no)
    BY <1>6 DEF Gone
  <2>2. /\ l \notin stopped /\ status[l] = "active"
        /\ l \in locals' <=> l \in locals
        /\ l \in lst'[IPv4] <=> l \in lst[IPv4]
        /\ l \in lst'[IPv6] <=> l \in lst[IPv6]
        /\ seen'[l][v] = IF l \in lst[due.to] /\ v \in {u \in batch : refs[due.to][u] = 1}
                         THEN Counted(seen[l][v], TRUE) ELSE seen[l][v]
    <3>1. stopped' = stopped \cup no /\ Unregister(Active(no)) /\ no \in SUBSET Listener
      BY <1>2, <1>3, <2>1 DEF Notify
    <3>2. /\ l \notin stopped /\ status[l] = "active" /\ l \notin Active(no)
          /\ l \in locals' <=> l \in locals
          /\ l \in lst'[IPv4] <=> l \in lst[IPv4]
          /\ l \in lst'[IPv6] <=> l \in lst[IPv6]
      BY <3>1, NotifyKeeps
    <3>3. seen'[l][v] = IF l \in lst[due.to] /\ v \in {u \in batch : refs[due.to][u] = 1}
                        THEN Counted(seen[l][v], TRUE) ELSE seen[l][v]
      BY <1>2, <1>3, <2>1, <3>2 DEF Notify
    <3>. QED  BY <3>2, <3>3
  <2>3. seen[l][v] = Sources(l, v)
    BY <2>2 DEF SeenInv
  <2>4. refs' = [refs EXCEPT ![due.to] = [w \in Id |->
                   IF w \in batch THEN Counted(@[w], TRUE) ELSE @[w]]]
    BY <1>6 DEF Gone
  <2>5. \A k \in Nat : Counted(k, TRUE) = IF k = 0 THEN 0 ELSE k - 1
    BY DEF Counted, Minus1
  <2>6. \A f \in Family :
          refs'[f][v] = IF f = due.to /\ v \in batch THEN Counted(refs[f][v], TRUE) ELSE refs[f][v]
    BY <1>3, <2>4 DEF TypeOK
  <2>7. l \in lst[due.to] /\ refs[due.to][v] = 1 => seen[l][v] > 0
    BY <1>2, <1>4, <2>3, Families DEF Sources, One
  <2>8. seen'[l][v] = IF l \in lst[due.to] /\ v \in batch /\ refs[due.to][v] = 1
                      THEN seen[l][v] - 1 ELSE seen[l][v]
    BY <1>4, <2>2, <2>7
  <2>9. CASE due.to = IPv4
    <3>1. refs'[IPv6][v] = refs[IPv6][v] /\ refs'[IPv4][v] =
            IF v \in batch THEN (IF refs[IPv4][v] = 0 THEN 0 ELSE refs[IPv4][v] - 1) ELSE refs[IPv4][v]
      BY <1>4, <2>5, <2>6, <2>9, Families
    <3>2. /\ One(l \in locals' /\ v \in local') = One(l \in locals /\ v \in local)
          /\ One(l \in lst'[IPv6] /\ refs'[IPv6][v] > 0) = One(l \in lst[IPv6] /\ refs[IPv6][v] > 0)
      BY <1>1, <2>2, <3>1 DEF One
    <3>3. One(l \in lst'[IPv4] /\ refs'[IPv4][v] > 0) = One(l \in lst[IPv4] /\ refs[IPv4][v] > 0)
            - One(l \in lst[IPv4] /\ v \in batch /\ refs[IPv4][v] = 1)
      BY <1>4, <2>2, <3>1 DEF One
    <3>4. seen'[l][v] = seen[l][v] - One(l \in lst[IPv4] /\ v \in batch /\ refs[IPv4][v] = 1)
      BY <1>4, <2>8, <2>9 DEF One
    <3>5. \A P : One(P) \in 0 .. 1
      BY DEF One
    <3>. QED  BY <1>4, <2>3, <3>2, <3>3, <3>4, <3>5 DEF Sources
  <2>10. CASE due.to = IPv6
    <3>1. refs'[IPv4][v] = refs[IPv4][v] /\ refs'[IPv6][v] =
            IF v \in batch THEN (IF refs[IPv6][v] = 0 THEN 0 ELSE refs[IPv6][v] - 1) ELSE refs[IPv6][v]
      BY <1>4, <2>5, <2>6, <2>10, Families
    <3>2. /\ One(l \in locals' /\ v \in local') = One(l \in locals /\ v \in local)
          /\ One(l \in lst'[IPv4] /\ refs'[IPv4][v] > 0) = One(l \in lst[IPv4] /\ refs[IPv4][v] > 0)
      BY <1>1, <2>2, <3>1 DEF One
    <3>3. One(l \in lst'[IPv6] /\ refs'[IPv6][v] > 0) = One(l \in lst[IPv6] /\ refs[IPv6][v] > 0)
            - One(l \in lst[IPv6] /\ v \in batch /\ refs[IPv6][v] = 1)
      BY <1>4, <2>2, <3>1 DEF One
    <3>4. seen'[l][v] = seen[l][v] - One(l \in lst[IPv6] /\ v \in batch /\ refs[IPv6][v] = 1)
      BY <1>4, <2>8, <2>10 DEF One
    <3>5. \A P : One(P) \in 0 .. 1
      BY DEF One
    <3>. QED  BY <1>4, <2>3, <3>2, <3>3, <3>4, <3>5 DEF Sources
  <2>. QED  BY <1>2, <2>9, <2>10, Families
<1>. QED  BY <1>5, <1>6 DEF Callback

(* Changes of the Storage. *)
LEMMA StorageSeen ==
    ASSUME TypeOK, SeenInv,
           \/ \E v \in values : StorageChanged(v)
           \/ \E vs \in SUBSET values : StorageExpired(vs)
    PROVE  SeenInv'
<1>1. UNCHANGED <<room, lost, refs>> /\ (~room => local' = {})
  BY DEF StorageChanged, StorageExpired, SeenInv
<1>. SUFFICES ASSUME NEW l \in Listener \ stopped', status'[l] = "active",
                     NEW v \in Wants[l] \ lost
              PROVE  seen'[l][v] = Sources(l, v)'
  BY <1>1 DEF SeenInv
<1>2. v \in Id /\ v \in Wants[l] /\ locals \in SUBSET Listener
  BY WantsAssumption DEF TypeOK
<1>3. /\ refs[IPv4][v] \in Nat /\ refs[IPv6][v] \in Nat /\ seen[l][v] \in Nat
      /\ Counted(seen[l][v], FALSE) = seen[l][v] + 1
      /\ seen[l][v] > 0 => Counted(seen[l][v], TRUE) = seen[l][v] - 1
  BY <1>2, SourcesNat
<1>4. CASE \E w \in values : StorageChanged(w)
  <2>1. PICK w \in values : StorageChanged(w)
    BY <1>4
  <2>2. PICK no \in SUBSET locals : Notify(locals, {w}, FALSE, no)
    BY <2>1 DEF StorageChanged
  <2>3. w \notin local /\ local' = local \cup {w}
    BY <2>1 DEF StorageChanged
  <2>4. /\ l \notin stopped /\ status[l] = "active"
        /\ l \in locals' <=> l \in locals
        /\ l \in lst'[IPv4] <=> l \in lst[IPv4]
        /\ l \in lst'[IPv6] <=> l \in lst[IPv6]
        /\ seen'[l][v] = IF l \in locals /\ v \in {w}
                         THEN Counted(seen[l][v], FALSE) ELSE seen[l][v]
    <3>1. stopped' = stopped \cup no /\ Unregister(Active(no)) /\ no \in SUBSET Listener
      BY <1>2, <2>2 DEF Notify
    <3>2. /\ l \notin stopped /\ status[l] = "active" /\ l \notin Active(no)
          /\ l \in locals' <=> l \in locals
          /\ l \in lst'[IPv4] <=> l \in lst[IPv4]
          /\ l \in lst'[IPv6] <=> l \in lst[IPv6]
      BY <3>1, NotifyKeeps
    <3>3. seen'[l][v] = IF l \in locals /\ v \in {w}
                        THEN Counted(seen[l][v], FALSE) ELSE seen[l][v]
      BY <1>2, <2>2, <3>2 DEF Notify
    <3>. QED  BY <3>2, <3>3
  <2>5. seen[l][v] = Sources(l, v)
    BY <2>4 DEF SeenInv
  <2>6. /\ One(l \in lst'[IPv4] /\ refs'[IPv4][v] > 0) = One(l \in lst[IPv4] /\ refs[IPv4][v] > 0)
        /\ One(l \in lst'[IPv6] /\ refs'[IPv6][v] > 0) = One(l \in lst[IPv6] /\ refs[IPv6][v] > 0)
    BY <1>1, <2>4 DEF One
  <2>7. One(l \in locals' /\ v \in local')
          = One(l \in locals /\ v \in local) + One(l \in locals /\ v \in {w})
    BY <2>3, <2>4 DEF One
  <2>8. seen'[l][v] = seen[l][v] + One(l \in locals /\ v \in {w})
    <3>1. CASE l \in locals /\ v \in {w}
      <4>1. seen'[l][v] = seen[l][v] + 1
        BY <1>3, <2>4, <3>1
      <4>. QED  BY <3>1, <4>1 DEF One
    <3>2. CASE ~(l \in locals /\ v \in {w})
      <4>1. seen'[l][v] = seen[l][v]
        BY <2>4, <3>2
      <4>. QED  BY <1>3, <3>2, <4>1 DEF One
    <3>. QED  BY <3>1, <3>2
  <2>9. \A P : One(P) \in 0 .. 1
    BY DEF One
  <2>. QED  BY <1>3, <2>5, <2>6, <2>7, <2>8, <2>9 DEF Sources
<1>5. CASE \E vs \in SUBSET values : StorageExpired(vs)
  <2>1. PICK vs \in SUBSET values : StorageExpired(vs)
    BY <1>5
  <2>2. PICK no \in SUBSET locals : Notify(locals, vs, TRUE, no)
    BY <2>1 DEF StorageExpired
  <2>3. vs \subseteq local /\ local' = local \ vs
    BY <2>1 DEF StorageExpired
  <2>4. /\ l \notin stopped /\ status[l] = "active"
        /\ l \in locals' <=> l \in locals
        /\ l \in lst'[IPv4] <=> l \in lst[IPv4]
        /\ l \in lst'[IPv6] <=> l \in lst[IPv6]
        /\ seen'[l][v] = IF l \in locals /\ v \in vs
                         THEN Counted(seen[l][v], TRUE) ELSE seen[l][v]
    <3>1. stopped' = stopped \cup no /\ Unregister(Active(no)) /\ no \in SUBSET Listener
      BY <1>2, <2>2 DEF Notify
    <3>2. /\ l \notin stopped /\ status[l] = "active" /\ l \notin Active(no)
          /\ l \in locals' <=> l \in locals
          /\ l \in lst'[IPv4] <=> l \in lst[IPv4]
          /\ l \in lst'[IPv6] <=> l \in lst[IPv6]
      BY <3>1, NotifyKeeps
    <3>3. seen'[l][v] = IF l \in locals /\ v \in vs
                        THEN Counted(seen[l][v], TRUE) ELSE seen[l][v]
      BY <1>2, <2>2, <3>2 DEF Notify
    <3>. QED  BY <3>2, <3>3
  <2>5. seen[l][v] = Sources(l, v)
    BY <2>4 DEF SeenInv
  <2>6. l \in locals /\ v \in vs => seen[l][v] > 0
    BY <1>3, <2>3, <2>5 DEF Sources, One
  <2>7. /\ One(l \in lst'[IPv4] /\ refs'[IPv4][v] > 0) = One(l \in lst[IPv4] /\ refs[IPv4][v] > 0)
        /\ One(l \in lst'[IPv6] /\ refs'[IPv6][v] > 0) = One(l \in lst[IPv6] /\ refs[IPv6][v] > 0)
    BY <1>1, <2>4 DEF One
  <2>8. One(l \in locals' /\ v \in local')
          = One(l \in locals /\ v \in local) - One(l \in locals /\ v \in vs)
    BY <2>3, <2>4 DEF One
  <2>9. seen'[l][v] = seen[l][v] - One(l \in locals /\ v \in vs)
    <3>1. CASE l \in locals /\ v \in vs
      <4>1. seen'[l][v] = seen[l][v] - 1
        BY <1>3, <2>4, <2>6, <3>1
      <4>. QED  BY <3>1, <4>1 DEF One
    <3>2. CASE ~(l \in locals /\ v \in vs)
      <4>1. seen'[l][v] = seen[l][v]
        BY <2>4, <3>2
      <4>. QED  BY <1>3, <3>2, <4>1 DEF One
    <3>. QED  BY <3>1, <3>2
  <2>10. \A P : One(P) \in 0 .. 1
    BY DEF One
  <2>. QED  BY <1>3, <2>5, <2>7, <2>8, <2>9, <2>10 DEF Sources
<1>. QED  BY <1>4, <1>5

(* The host's calls: a new listener is told of what each source holds. *)
LEMMA HostSeen ==
    ASSUME TypeOK, Registered, SeenInv, NEW l \in Listener,
           CancelListen(l) \/ \E yes \in Reply : Listen(l, yes)
    PROVE  SeenInv'
<1>1. CASE CancelListen(l)
  <2>1. /\ Unregister({l}) /\ seen' = [seen EXCEPT ![l] = NoRefs] /\ stopped' = stopped \cup {l}
        /\ UNCHANGED <<room, local, lost, refs>>
    BY <1>1 DEF CancelListen
  <2>2. ASSUME NEW k \in Listener \ stopped', status'[k] = "active", NEW v \in Wants[k] \ lost
        PROVE  seen'[k][v] = Sources(k, v)'
    <3>1. k # l /\ k \notin stopped
      BY <2>1
    <3>2. /\ status[k] = "active" /\ seen'[k] = seen[k]
          /\ k \in locals' <=> k \in locals
          /\ k \in lst'[IPv4] <=> k \in lst[IPv4]
          /\ k \in lst'[IPv6] <=> k \in lst[IPv6]
      BY <2>1, <2>2, <3>1, Families DEF Unregister, TypeOK
    <3>3. seen[k][v] = Sources(k, v)
      BY <3>1, <3>2 DEF SeenInv
    <3>. QED  BY <2>1, <3>2, <3>3 DEF Sources
  <2>. QED  BY <2>1, <2>2 DEF SeenInv
<1>2. CASE \E yes \in Reply : Listen(l, yes)
  <2>1. PICK Try \in SUBSET Family, Ok \in SUBSET Family, accepted \in BOOLEAN :
           ListenEffect(l, Try, Ok, accepted)
    BY <1>2, ListenFacts
  <2>2. UNCHANGED <<room, local, lost, refs>> /\ stopped \subseteq stopped' /\ status[l] = "none"
    BY <2>1 DEF ListenEffect
  <2>3. /\ \A k \in Listener \ {l} : seen'[k] = seen[k] /\ status'[k] = status[k]
        /\ status'[l] = IF accepted THEN "active" ELSE "refused"
        /\ locals' = IF accepted /\ room THEN locals \cup {l} ELSE locals
        /\ lst'[IPv4] = IF IPv4 \in Ok THEN lst[IPv4] \cup {l} ELSE lst[IPv4]
        /\ lst'[IPv6] = IF IPv6 \in Ok THEN lst[IPv6] \cup {l} ELSE lst[IPv6]
    BY <2>1, Families DEF ListenEffect, TypeOK
  <2>4. ASSUME NEW k \in Listener \ stopped', status'[k] = "active", NEW v \in Wants[k] \ lost
        PROVE  seen'[k][v] = Sources(k, v)'
    <3>1. CASE k # l
      <4>1. status[k] = "active" /\ k \notin stopped /\ seen'[k] = seen[k]
        BY <2>2, <2>3, <2>4, <3>1
      <4>2. seen[k][v] = Sources(k, v)
        BY <4>1 DEF SeenInv
      <4>3. /\ k \in locals' <=> k \in locals
            /\ k \in lst'[IPv4] <=> k \in lst[IPv4]
            /\ k \in lst'[IPv6] <=> k \in lst[IPv6]
        BY <2>3, <3>1
      <4>. QED  BY <2>2, <4>1, <4>2, <4>3 DEF Sources
    <3>2. CASE k = l
      <4>1. l \notin locals /\ l \notin lst[IPv4] /\ l \notin lst[IPv6]
        BY <2>2 DEF Registered
      <4>2. accepted /\ Ok = Try
        BY <2>1, <2>3, <2>4, <3>2 DEF ListenEffect
      <4>3. seen'[l][v] = One(v \in local) + One(IPv4 \in Try /\ refs[IPv4][v] > 0)
                                          + One(IPv6 \in Try /\ refs[IPv6][v] > 0)
        BY <2>1, <3>2, <4>2 DEF ListenEffect
      <4>4. /\ l \in lst'[IPv4] <=> IPv4 \in Try
            /\ l \in lst'[IPv6] <=> IPv6 \in Try
            /\ l \in locals' <=> room
        BY <2>3, <4>1, <4>2
      <4>5. v \in local <=> l \in locals' /\ v \in local
        BY <4>4 DEF SeenInv
      <4>. QED  BY <2>2, <3>2, <4>3, <4>4, <4>5 DEF Sources
    <3>. QED  BY <3>1, <3>2
  <2>. QED  BY <2>2, <2>4 DEF SeenInv
<1>. QED  BY <1>1, <1>2

(* Every step keeps the counts. *)
LEMMA SeenStep ==
    ASSUME TypeOK, Registered, SeenInv, [Next]_vars
    PROVE  SeenInv'
<1>1. ASSUME UNCHANGED <<room, hosts, storage, lst, refs>> PROVE SeenInv'
  BY <1>1 DEF SeenInv, Sources
<1>2. CASE UNCHANGED vars \/ Tick
  BY <1>1, <1>2 DEF vars, Tick
<1>3. CASE Callback
  BY <1>3, CallbackSeen
<1>4. CASE \E l \in Listener : CancelListen(l) \/ \E yes \in Reply : Listen(l, yes)
  BY <1>4, HostSeen
<1>5. CASE \/ \E v \in values : StorageChanged(v)
           \/ \E vs \in SUBSET values : StorageExpired(vs)
  BY <1>5, StorageSeen
<1>6. CASE \E w \in values : StorageErased(w)
  <2>1. PICK w \in values : StorageErased(w)
    BY <1>6
  <2>2. /\ local' = local \ {w} /\ lost' = lost \cup {w}
        /\ UNCHANGED <<room, hosts, locals, lst, refs>>
    BY <2>1 DEF StorageErased
  <2>3. ASSUME NEW l \in Listener \ stopped, status[l] = "active", NEW v \in Wants[l] \ lost'
        PROVE  seen[l][v] = Sources(l, v)'
    <3>1. seen[l][v] = Sources(l, v) /\ (v \in local' <=> v \in local)
      BY <2>2, <2>3 DEF SeenInv
    <3>. QED  BY <2>2, <3>1 DEF Sources
  <2>. QED  BY <2>2, <2>3 DEF SeenInv
<1>7. CASE \E n \in Node : SendListen(n) \/ ListenDone(n) \/ NodeGone(n)
  <2>1. UNCHANGED <<room, hosts, storage, lst, refs>>
    BY <1>7 DEF SendListen, ListenDone, NodeGone
  <2>. QED  BY <1>1, <2>1
<1>8. CASE \E n \in Node : Told(n) \/ ExpireValues(n)
  <2>1. UNCHANGED <<room, hosts, storage, lst, refs>>
    BY <1>8, OnValuesFacts
  <2>. QED  BY <1>1, <2>1
<1>9. CASE \E f \in Family : OpExpire(f)
  <2>1. PICK f \in Family : OpExpire(f)
    BY <1>9
  <2>2. UNCHANGED <<room, hosts, storage, lst>>
    BY <2>1 DEF OpExpire
  <2>3. CASE UNCHANGED refs
    BY <1>1, <2>2, <2>3
  <2>4. CASE lst[f] = {} /\ refs' = [refs EXCEPT ![f] = NoRefs]
    <3>1. \A g \in Family \ {f} : refs'[g] = refs[g]
      BY <2>4 DEF TypeOK
    <3>2. f = IPv4 \/ f = IPv6
      BY Families
    <3>3. \A l \in Listener, v \in Id : Sources(l, v)' = Sources(l, v)
      BY <2>2, <2>4, <3>1, <3>2, Families DEF Sources, One
    <3>4. \A l \in Listener : Wants[l] \subseteq Id
      BY WantsAssumption
    <3>. QED  BY <2>2, <3>3, <3>4 DEF SeenInv
  <2>. QED  BY <2>1, <2>3, <2>4 DEF OpExpire
<1>. QED  BY <1>2, <1>3, <1>4, <1>5, <1>6, <1>7, <1>8, <1>9 DEF Next

(* The first states: nobody was told of anything. *)
LEMMA SeenInit == Init => SeenInv
<1>. SUFFICES ASSUME Init PROVE SeenInv
  OBVIOUS
<1>1. \A l \in Listener : status[l] # "active"
  BY SceneAssumption DEF Init
<1>2. local = {}
  BY DEF Init
<1>. QED  BY <1>1, <1>2 DEF SeenInv

(* A search holds a value for a listener when some node does. *)
LEMMA HeldSomewhere ==
    ASSUME TypeOK, RefInv, Idle, NEW v \in Id, NEW f \in Family
    PROVE  refs[f][v] > 0 <=> \E n \in listening : FamilyOf[n] = f /\ v \in HeldBy(n)
<1>1. refs[f][v] = Cardinality(Holders(f, v)) /\ Holders(f, v) \in SUBSET Node
  BY RefIdle, HoldersFinite
<1>2. refs[f][v] > 0 <=> \E n \in Node : n \in Holders(f, v)
  BY <1>1, SomeNode
<1>. QED  BY <1>2 DEF Holders, InFamily, TypeOK

(* End to end: between callbacks, the values a listener was told of and not *)
(* told the end of are exactly those that some source it is registered with *)
(* holds, up to values that left the Storage without notice.                *)
THEOREM ListenSeen == Spec => []SeenIsHeld
<1>. DEFINE I == TypeOK /\ SyncExact /\ Registered /\ RefInv /\ LiveInv /\ SeenInv
<1>1. Init => I
  <2>1. Init => Registered
    BY Families DEF Init, Registered
  <2>. QED  BY <2>1, TypesInit, SyncInit, RefsInit, SeenInit
<1>2. I /\ [Next]_vars => I'
  BY TypesStep, RegisteredStep, RefsStep, SeenStep
<1>3. I => SeenIsHeld
  <2>. SUFFICES ASSUME I, Idle, NEW l \in Listener \ stopped, status[l] = "active",
                       NEW v \in Wants[l] \ lost
                PROVE  seen[l][v] > 0 <=>
                         \/ l \in locals /\ v \in local
                         \/ \E n \in listening : l \in lst[FamilyOf[n]] /\ v \in HeldBy(n)
    BY DEF SeenIsHeld
  <2>1. v \in Id
    BY WantsAssumption
  <2>2. seen[l][v] = Sources(l, v)
    BY DEF SeenInv
  <2>3. \A f \in Family :
          refs[f][v] > 0 <=> \E n \in listening : FamilyOf[n] = f /\ v \in HeldBy(n)
    BY <2>1, HeldSomewhere
  <2>4. seen[l][v] > 0 <=> \/ l \in locals /\ v \in local
                           \/ l \in lst[IPv4] /\ refs[IPv4][v] > 0
                           \/ l \in lst[IPv6] /\ refs[IPv6][v] > 0
    BY <2>2 DEF Sources, One
  <2>5. \A n \in listening : FamilyOf[n] = IPv4 \/ FamilyOf[n] = IPv6
    BY FamilyAssumption, Families DEF TypeOK
  <2>. QED  BY <2>3, <2>4, <2>5, Families
<1>. HIDE DEF I
<1>. QED  BY <1>1, <1>2, <1>3, PTL DEF Spec
=============================================================================
