---------------------------- MODULE StorageProofs ---------------------------
(***************************************************************************)
(* What holds of a node's storage for any keys, ids, contents, senders,     *)
(* limits and lifetimes.                                                    *)
(***************************************************************************)
EXTENDS Storage, FiniteSetTheorems, TLAPS

(* The memory that the values f of the slots in E occupy. *)
Memory(f, E) == {b \in E \X (1 .. MaxSize) : b[2] <= Size[f[b[1]].is]}

(* There are finitely many slots. *)
LEMMA SlotFinite == IsFiniteSet(Slot)
BY FiniteAssumption, FS_Product DEF Slot

(* Memory is finite. *)
LEMMA MemoryFinite ==
    ASSUME NEW f, NEW E \in SUBSET Slot
    PROVE  IsFiniteSet(Memory(f, E)) /\ Cardinality(Memory(f, E)) \in Nat
<1>1. IsFiniteSet(E)
  BY SlotFinite, FS_Subset
<1>2. IsFiniteSet(1 .. MaxSize)
  BY SizeAssumption, FS_Interval
<1>3. IsFiniteSet(E \X (1 .. MaxSize))
  BY <1>1, <1>2, FS_Product
<1>4. Memory(f, E) \in SUBSET (E \X (1 .. MaxSize))
  BY DEF Memory
<1>5. IsFiniteSet(Memory(f, E))
  BY <1>3, <1>4, FS_Subset
<1>. QED  BY <1>5, FS_CardinalityType

(* It depends on the contents only. *)
LEMMA MemorySame ==
    ASSUME NEW f, NEW g, NEW E \in SUBSET Slot, \A s \in E : f[s].is = g[s].is
    PROVE  Memory(f, E) = Memory(g, E)
BY DEF Memory

(* Erasing slots frees their memory. *)
LEMMA MemoryRemove ==
    ASSUME NEW f, NEW D \in SUBSET Slot, NEW E \in SUBSET D
    PROVE  Cardinality(Memory(f, D \ E)) = Cardinality(Memory(f, D)) - Cardinality(Memory(f, E))
<1>1. Memory(f, D \ E) = Memory(f, D) \ Memory(f, E)
  BY DEF Memory
<1>2. Memory(f, D) \cap Memory(f, E) = Memory(f, E)
  BY DEF Memory
<1>3. IsFiniteSet(Memory(f, D))
  BY MemoryFinite
<1>4. Cardinality(Memory(f, D) \ Memory(f, E))
        = Cardinality(Memory(f, D)) - Cardinality(Memory(f, D) \cap Memory(f, E))
  BY <1>3, FS_Difference
<1>. QED  BY <1>1, <1>2, <1>4

(* There are n numbers from 1 to n. *)
LEMMA CountUpTo ==
    ASSUME NEW n \in Nat
    PROVE  IsFiniteSet(1 .. n) /\ Cardinality(1 .. n) = n
<1>1. /\ IsFiniteSet(1 .. n)
      /\ Cardinality(1 .. n) = IF 1 > n THEN 0 ELSE n - 1 + 1
  BY FS_Interval
<1>. QED  BY <1>1

(* A new slot takes the size of its content. *)
LEMMA MemoryAdd ==
    ASSUME NEW f, NEW g, NEW E \in SUBSET Slot, NEW s \in Slot, NEW c \in Content,
           s \notin E, g[s].is = c, \A t \in E : g[t].is = f[t].is
    PROVE  Cardinality(Memory(g, E \cup {s})) = Cardinality(Memory(f, E)) + Size[c]
<1>. DEFINE M == {s} \X (1 .. Size[c])
<1>0. Size[c] \in Nat /\ MaxSize \in Nat /\ Size[c] <= MaxSize
  BY SizeAssumption
<1>1. Memory(g, E \cup {s}) = Memory(f, E) \cup M
  <2>1. ASSUME NEW b \in Memory(g, E \cup {s})  PROVE  b \in Memory(f, E) \cup M
    BY <1>0 DEF Memory
  <2>2. ASSUME NEW b \in Memory(f, E)  PROVE  b \in Memory(g, E \cup {s})
    BY DEF Memory
  <2>3. ASSUME NEW b \in M  PROVE  b \in Memory(g, E \cup {s})
    BY <1>0 DEF Memory
  <2>. QED  BY <2>1, <2>2, <2>3
<1>2. Memory(f, E) \cap M = {}
  BY DEF Memory
<1>3. IsFiniteSet(M) /\ Cardinality(M) = Size[c]
  <2>1. IsFiniteSet(1 .. Size[c]) /\ Cardinality(1 .. Size[c]) = Size[c]
    BY <1>0, CountUpTo
  <2>2. IsFiniteSet({s}) /\ Cardinality({s}) = 1
    BY FS_Singleton
  <2>3. IsFiniteSet(M) /\ Cardinality(M) = Cardinality({s}) * Cardinality(1 .. Size[c])
    BY <2>1, <2>2, FS_Product
  <2>. QED  BY <2>1, <2>2, <2>3, <1>0
<1>4. IsFiniteSet(Memory(f, E)) /\ Cardinality(Memory(f, E)) \in Nat
  BY MemoryFinite
<1>. HIDE DEF M
<1>5. Cardinality(Memory(f, E) \cup M)
        = Cardinality(Memory(f, E)) + Cardinality(M) - Cardinality(Memory(f, E) \cap M)
  BY <1>3, <1>4, FS_Union
<1>6. Cardinality(Memory(f, E) \cap M) = 0
  BY <1>2, FS_EmptySet
<1>7. Cardinality(Memory(f, E) \cup M) = Cardinality(Memory(f, E)) + Size[c]
  BY <1>0, <1>3, <1>4, <1>5, <1>6
<1>. QED  BY <1>1, <1>7

-----------------------------------------------------------------------------
(* What the bookkeeping is about. *)
Books == TotalsExact /\ QuotaExact

(* A value that is charged is charged to a bucket that exists. *)
ChargedKnown == \A s \in Present : vals[s].sb \in Addr => vals[s].sb \in quota

(* What is present is a value. *)
LEMMA PresentValue ==
    ASSUME TypeOK, NEW s \in Present
    PROVE  s \in Slot /\ vals[s] \in Value /\ vals[s].is \in Content /\ vals[s] # NoValue
BY DEF TypeOK, Present, Value

(* Storage::remove and expire: the slots in E are empty afterwards and      *)
(* nothing else changes.                                                    *)
LEMMA RemoveSlots ==
    ASSUME TypeOK, NEW E \in SUBSET Present, Remove(E)
    PROVE  /\ vals' \in [Slot -> Value \cup {NoValue}]
           /\ Present' = Present \ E
           /\ \A s \in Present \ E : vals'[s] = vals[s]
           /\ \A a \in Addr : ChargedTo(a)' = ChargedTo(a) \ E
<1>1. vals' = [s \in Slot |-> IF s \in E THEN NoValue ELSE vals[s]]
  BY DEF Remove
<1>2. vals \in [Slot -> Value \cup {NoValue}]
  BY DEF TypeOK
<1>3. E \subseteq Slot
  BY DEF Present
<1>. QED  BY <1>1, <1>2, <1>3 DEF Present, ChargedTo

(* The totals stay exact. *)
LEMMA RemoveTotals ==
    ASSUME TypeOK, TotalsExact, NEW E \in SUBSET Present, Remove(E)
    PROVE  TotalsExact'
<1>0. Present \in SUBSET Slot /\ E \in SUBSET Slot
  BY DEF Present
<1>1. Present' = Present \ E /\ \A s \in Present \ E : vals'[s] = vals[s]
  BY RemoveSlots
<1>2. Memory(vals', Present') = Memory(vals, Present \ E)
  BY <1>0, <1>1, MemorySame
<1>3. Cardinality(Memory(vals, Present \ E))
        = Cardinality(Memory(vals, Present)) - Cardinality(Memory(vals, E))
  BY <1>0, MemoryRemove
<1>4. total' = total - Cardinality(Memory(vals, E)) /\ total = Cardinality(Memory(vals, Present))
  BY DEF Remove, Bytes, Memory, TotalsExact
<1>5. total' = Cardinality(Memory(vals', Present'))
  BY <1>2, <1>3, <1>4
<1>6. Cardinality(Present \ E) = Cardinality(Present) - Cardinality(Present \cap E)
  BY <1>0, SlotFinite, FS_Subset, FS_Difference
<1>7. Present \cap E = E
  OBVIOUS
<1>8. count' = Cardinality(Present')
  BY <1>1, <1>6, <1>7 DEF Remove, TotalsExact
<1>. QED  BY <1>5, <1>8 DEF TotalsExact, Bytes, Memory

(* Each bucket loses exactly what was charged to it, if it was exact. *)
LEMMA RemoveQuota ==
    ASSUME TypeOK, QuotaExact, NEW E \in SUBSET Present, Remove(E), drift' = drift
    PROVE  QuotaExact'
<1>. SUFFICES ASSUME drift = 0, NEW a \in Addr
              PROVE  /\ used'[a] = Cardinality(Memory(vals', ChargedTo(a)'))
                     /\ \A e \in Entry : stored'[a][e] =
                          IF e[2] \in ChargedTo(a)' /\ e = <<vals'[e[2]].exp, e[2]>> THEN 1 ELSE 0
  BY DEF QuotaExact, Bytes, Memory, IsEntry
<1>0. ChargedTo(a) \in SUBSET Present /\ ChargedTo(a) \in SUBSET Slot
  BY DEF ChargedTo, Present
<1>1. ChargedTo(a)' = ChargedTo(a) \ E /\ \A s \in Present \ E : vals'[s] = vals[s]
  BY RemoveSlots
<1>2. Memory(vals', ChargedTo(a)') = Memory(vals, ChargedTo(a) \ (E \cap ChargedTo(a)))
  <2>1. ChargedTo(a)' = ChargedTo(a) \ (E \cap ChargedTo(a))
    BY <1>1
  <2>. QED  BY <1>0, <1>1, <2>1, MemorySame
<1>3. Cardinality(Memory(vals, ChargedTo(a) \ (E \cap ChargedTo(a))))
        = Cardinality(Memory(vals, ChargedTo(a))) - Cardinality(Memory(vals, E \cap ChargedTo(a)))
  BY <1>0, MemoryRemove
<1>4. /\ used[a] = Cardinality(Memory(vals, ChargedTo(a)))
      /\ \A e \in Entry : stored[a][e] =
           IF e[2] \in ChargedTo(a) /\ e = <<vals[e[2]].exp, e[2]>> THEN 1 ELSE 0
  BY DEF QuotaExact, Bytes, Memory, IsEntry
<1>5. used'[a] = used[a] - Cardinality(Memory(vals, E \cap ChargedTo(a)))
  BY DEF Remove, UsedWithout, Bytes, Memory
<1>6. ASSUME NEW e \in Entry
      PROVE  stored'[a][e] =
               IF e[2] \in ChargedTo(a)' /\ e = <<vals'[e[2]].exp, e[2]>> THEN 1 ELSE 0
  <2>1. stored'[a][e] = IF e[2] \in E \cap ChargedTo(a) /\ e = <<vals[e[2]].exp, e[2]>>
                        THEN Larger(stored[a][e] - 1, 0) ELSE stored[a][e]
    BY DEF Remove, StoredWithout, IsEntry
  <2>. QED  BY <1>0, <1>1, <1>4, <2>1 DEF Larger
<1>. QED  BY <1>2, <1>3, <1>4, <1>5, <1>6

(* A value is written into a slot. *)
Written(s, c, exp, sb) == vals' = [vals EXCEPT ![s] = [is |-> c, exp |-> exp, sb |-> sb]]

(* Only that slot changes. *)
LEMMA WrittenSlots ==
    ASSUME TypeOK, NEW s \in Slot, NEW c \in Content, NEW exp \in Time,
           NEW sb \in Addr \cup {Local}, Written(s, c, exp, sb)
    PROVE  /\ vals' \in [Slot -> Value \cup {NoValue}]
           /\ Present' = Present \cup {s}
           /\ vals'[s] = [is |-> c, exp |-> exp, sb |-> sb]
           /\ \A t \in Slot \ {s} : vals'[t] = vals[t]
           /\ \A a \in Addr : ChargedTo(a)' = (ChargedTo(a) \ {s}) \cup (IF a = sb THEN {s} ELSE {})
<1>. DEFINE r == [is |-> c, exp |-> exp, sb |-> sb]
<1>1. r \in Value /\ r.is = c /\ r.exp = exp /\ r.sb = sb
  BY DEF Value
<1>2. r # NoValue
  BY <1>1, NoValueAssumption
<1>. HIDE DEF r
<1>3. vals' = [vals EXCEPT ![s] = r]
  BY DEF Written, r
<1>4. vals \in [Slot -> Value \cup {NoValue}]
  BY DEF TypeOK
<1>5. /\ vals' \in [Slot -> Value \cup {NoValue}] /\ vals'[s] = r
      /\ \A t \in Slot \ {s} : vals'[t] = vals[t]
  BY <1>1, <1>3, <1>4
<1>6. Present' = Present \cup {s}
  BY <1>2, <1>5 DEF Present
<1>7. ASSUME NEW a \in Addr
      PROVE  ChargedTo(a)' = (ChargedTo(a) \ {s}) \cup (IF a = sb THEN {s} ELSE {})
  BY <1>1, <1>5, <1>6 DEF ChargedTo, Present
<1>. QED  BY <1>5, <1>6, <1>7 DEF r

(* The memory of a set of slots that may gain the slot that is written. *)
LEMMA WrittenMemory ==
    ASSUME TypeOK, NEW s \in Slot, NEW c \in Content, NEW exp \in Time,
           NEW sb \in Addr \cup {Local}, Written(s, c, exp, sb), NEW E \in SUBSET (Slot \ {s})
    PROVE  /\ Memory(vals', E) = Memory(vals, E)
           /\ Cardinality(Memory(vals', E \cup {s})) = Cardinality(Memory(vals, E)) + Size[c]
<1>1. /\ vals'[s] = [is |-> c, exp |-> exp, sb |-> sb]
      /\ \A t \in Slot \ {s} : vals'[t] = vals[t]
  BY WrittenSlots
<1>2. vals'[s].is = c /\ \A t \in E : vals'[t].is = vals[t].is
  BY <1>1
<1>. QED  BY <1>2, MemorySame, MemoryAdd

(* A new value leaves totals and buckets exact. *)
LEMMA InsertBooks ==
    ASSUME TypeOK, Books, NEW s \in Slot, NEW c \in Content, NEW exp \in Time,
           NEW sb \in Addr \cup {Local}, s \notin Present, Insert(s, c, exp, sb)
    PROVE  Books'
<1>0. Written(s, c, exp, sb) /\ drift' = drift
  BY DEF Insert, Written
<1>1. /\ Present' = Present \cup {s}
      /\ vals'[s] = [is |-> c, exp |-> exp, sb |-> sb]
      /\ \A t \in Slot \ {s} : vals'[t] = vals[t]
      /\ \A a \in Addr : ChargedTo(a)' = (ChargedTo(a) \ {s}) \cup (IF a = sb THEN {s} ELSE {})
  BY <1>0, WrittenSlots
<1>2. Present \in SUBSET (Slot \ {s}) /\ \A a \in Addr : ChargedTo(a) \in SUBSET (Slot \ {s})
  BY DEF Present, ChargedTo
<1>3. TotalsExact'
  <2>1. Cardinality(Memory(vals', Present')) = Cardinality(Memory(vals, Present)) + Size[c]
    BY <1>0, <1>1, <1>2, WrittenMemory
  <2>2. Cardinality(Present') = Cardinality(Present) + 1
    BY <1>1, <1>2, SlotFinite, FS_Subset, FS_AddElement
  <2>. QED  BY <2>1, <2>2 DEF Insert, Books, TotalsExact, Bytes, Memory
<1>4. ASSUME drift = 0, NEW a \in Addr
      PROVE  /\ used'[a] = Cardinality(Memory(vals', ChargedTo(a)'))
             /\ \A e \in Entry : stored'[a][e] =
                  IF e[2] \in ChargedTo(a)' /\ e = <<vals'[e[2]].exp, e[2]>> THEN 1 ELSE 0
  <2>1. /\ used[a] = Cardinality(Memory(vals, ChargedTo(a)))
        /\ \A e \in Entry : stored[a][e] =
             IF e[2] \in ChargedTo(a) /\ e = <<vals[e[2]].exp, e[2]>> THEN 1 ELSE 0
    BY <1>4 DEF Books, QuotaExact, Bytes, Memory, IsEntry
  <2>2. /\ used'[a] = IF a = sb THEN used[a] + Size[c] ELSE used[a]
        /\ \A e \in Entry : stored'[a][e] =
             IF a = sb /\ e = <<exp, s>> THEN stored[a][e] + 1 ELSE stored[a][e]
    BY DEF Insert
  <2>3. ChargedTo(a)' = IF a = sb THEN ChargedTo(a) \cup {s} ELSE ChargedTo(a)
    BY <1>1, <1>2
  <2>4. used'[a] = Cardinality(Memory(vals', ChargedTo(a)'))
    <3>1. CASE a = sb
      BY <3>1, <1>0, <1>2, <2>1, <2>2, <2>3, WrittenMemory
    <3>2. CASE a # sb
      BY <3>2, <1>0, <1>2, <2>1, <2>2, <2>3, WrittenMemory
    <3>. QED  BY <3>1, <3>2
  <2>5. ASSUME NEW e \in Entry
        PROVE  stored'[a][e] =
                 IF e[2] \in ChargedTo(a)' /\ e = <<vals'[e[2]].exp, e[2]>> THEN 1 ELSE 0
    BY <1>1, <1>2, <2>1, <2>2, <2>3
  <2>. QED  BY <2>4, <2>5
<1>5. QuotaExact'
  BY <1>0, <1>4 DEF QuotaExact, Bytes, Memory, IsEntry
<1>. QED  BY <1>3, <1>5 DEF Books

(* A replacement leaves the totals exact, and the buckets too if the value  *)
(* that is replaced was charged to nobody.                                  *)
LEMMA ReplaceBooks ==
    ASSUME TypeOK, Books, NEW s \in Slot, NEW c \in Content, NEW exp \in Time,
           NEW sb \in Addr \cup {Local}, s \in Present, Replace(s, c, exp, sb)
    PROVE  Books'
<1>0. Written(s, c, exp, sb)
  BY DEF Replace, Written
<1>1. /\ Present' = Present \cup {s}
      /\ vals'[s] = [is |-> c, exp |-> exp, sb |-> sb]
      /\ \A t \in Slot \ {s} : vals'[t] = vals[t]
      /\ \A a \in Addr : ChargedTo(a)' = (ChargedTo(a) \ {s}) \cup (IF a = sb THEN {s} ELSE {})
  BY <1>0, WrittenSlots
<1>2. TotalsExact'
  <2>1. Present \ {s} \in SUBSET (Slot \ {s}) /\ Present \in SUBSET Slot /\ {s} \in SUBSET Present
    BY DEF Present
  <2>2. Present' = (Present \ {s}) \cup {s} /\ Present' = Present
    BY <1>1
  <2>3. Cardinality(Memory(vals', Present')) = Cardinality(Memory(vals, Present \ {s})) + Size[c]
    BY <1>0, <2>1, <2>2, WrittenMemory
  <2>4. Cardinality(Memory(vals, Present \ {s}))
          = Cardinality(Memory(vals, Present)) - Cardinality(Memory(vals, {s}))
    BY <2>1, MemoryRemove
  <2>5. Cardinality(Memory(vals, {s})) = Size[vals[s].is]
    <3>1. Cardinality(Memory(vals, {} \cup {s})) = Cardinality(Memory(vals, {})) + Size[vals[s].is]
      BY PresentValue, MemoryAdd
    <3>2. Memory(vals, {}) = {} /\ {} \cup {s} = {s}
      BY DEF Memory
    <3>3. Size[vals[s].is] \in Nat
      BY PresentValue, SizeAssumption
    <3>. QED  BY <3>1, <3>2, <3>3, FS_EmptySet
  <2>6. Size[c] \in Nat /\ Size[vals[s].is] \in Nat /\ Cardinality(Memory(vals, Present)) \in Nat
    BY <2>1, PresentValue, SizeAssumption, MemoryFinite
  <2>7. total' = total + Size[c] - Size[vals[s].is] /\ count' = count
    BY <2>6 DEF Replace, SizeDiff, Books, TotalsExact, Bytes, Memory, TypeOK
  <2>8. total = Cardinality(Memory(vals, Present)) /\ count = Cardinality(Present)
    BY DEF Books, TotalsExact, Bytes, Memory
  <2>9. total' = Cardinality(Memory(vals', Present'))
    BY <2>3, <2>4, <2>5, <2>6, <2>7, <2>8
  <2>. QED  BY <2>2, <2>7, <2>8, <2>9 DEF TotalsExact, Bytes, Memory
<1>3. ASSUME drift' = 0, NEW a \in Addr
      PROVE  /\ used'[a] = Cardinality(Memory(vals', ChargedTo(a)'))
             /\ \A e \in Entry : stored'[a][e] =
                  IF e[2] \in ChargedTo(a)' /\ e = <<vals'[e[2]].exp, e[2]>> THEN 1 ELSE 0
  <2>1. drift = 0 /\ vals[s].sb = Local
    BY <1>3 DEF Replace, Drifts, TypeOK
  <2>2. a # Local /\ \A b \in Addr : s \notin ChargedTo(b)
    BY <2>1, AddrAssumption DEF Local, ChargedTo
  <2>3. ChargedTo(a) \in SUBSET (Slot \ {s})
    BY <2>2 DEF ChargedTo, Present
  <2>4. /\ used[a] = Cardinality(Memory(vals, ChargedTo(a)))
        /\ \A e \in Entry : stored[a][e] =
             IF e[2] \in ChargedTo(a) /\ e = <<vals[e[2]].exp, e[2]>> THEN 1 ELSE 0
    BY <2>1 DEF Books, QuotaExact, Bytes, Memory, IsEntry
  <2>5. Size[c] \in Nat /\ used[a] \in Int
    BY SizeAssumption DEF TypeOK
  <2>6. used'[a] = IF a = sb THEN used[a] + Size[c] ELSE used[a]
    BY <2>1, <2>2, <2>5 DEF Replace
  <2>7. ASSUME NEW e \in Entry
        PROVE  stored'[a][e] = IF a = sb /\ e = <<exp, s>> THEN stored[a][e] + 1 ELSE stored[a][e]
    <3>1. stored[a][e] \in Nat
      BY DEF TypeOK
    <3>2. StoredWithout({s})[a][e] = stored[a][e]
      BY <2>2 DEF StoredWithout
    <3>3. stored'[a][e] = StoredWithout({s})[a][e] + (IF a = sb /\ e = <<exp, s>> THEN 1 ELSE 0)
      BY DEF Replace
    <3>. QED  BY <3>1, <3>2, <3>3
  <2>8. ChargedTo(a)' = IF a = sb THEN ChargedTo(a) \cup {s} ELSE ChargedTo(a)
    BY <1>1, <2>3
  <2>9. used'[a] = Cardinality(Memory(vals', ChargedTo(a)'))
    <3>1. CASE a = sb
      BY <3>1, <1>0, <2>3, <2>4, <2>6, <2>8, WrittenMemory
    <3>2. CASE a # sb
      BY <3>2, <1>0, <2>3, <2>4, <2>6, <2>8, WrittenMemory
    <3>. QED  BY <3>1, <3>2
  <2>10. ASSUME NEW e \in Entry
         PROVE  stored'[a][e] =
                  IF e[2] \in ChargedTo(a)' /\ e = <<vals'[e[2]].exp, e[2]>> THEN 1 ELSE 0
    BY <1>1, <2>3, <2>4, <2>7, <2>8
  <2>. QED  BY <2>9, <2>10
<1>4. QuotaExact'
  BY <1>3 DEF QuotaExact, Bytes, Memory, IsEntry
<1>. QED  BY <1>2, <1>4 DEF Books

-----------------------------------------------------------------------------
(* What no step may break, besides the types. *)
Safe == ChargedKnown /\ LimitKept /\ ExpiryScheduled /\ HangNeedsDrift

Inv == TypeOK /\ Books /\ Safe

(* Initially nothing is stored. *)
LEMMA InitInv == Init => Inv
<1>. SUFFICES ASSUME Init  PROVE  Inv
  OBVIOUS
<1>1. vals = [s \in Slot |-> NoValue] /\ Present = {}
  BY DEF Init, Present
<1>2. \A a \in Addr : ChargedTo(a) = {}
  BY <1>1 DEF ChargedTo
<1>3. TypeOK
  <2>1. now \in 0 .. MaxTime /\ drift \in 0 .. MaxDrift
    BY TimeAssumption, LimitAssumption DEF Init
  <2>2. used \in [Addr -> Int] /\ stored \in [Addr -> [Entry -> Nat]]
    BY DEF Init
  <2>3. fresh \in [slot: Slot \cup {NoValue}, moved: BOOLEAN]
    BY DEF Init, Nothing
  <2>. QED  BY <1>1, <2>1, <2>2, <2>3 DEF Init, TypeOK
<1>4. Bytes({}) = {}
  BY DEF Bytes
<1>5. TotalsExact
  BY <1>1, <1>4, FS_EmptySet DEF TotalsExact, Init
<1>6. QuotaExact
  BY <1>2, <1>4, FS_EmptySet DEF QuotaExact, Init
<1>7. Safe
  BY <1>1 DEF Safe, ChargedKnown, LimitKept, ExpiryScheduled, HangNeedsDrift, Init
<1>. QED  BY <1>3, <1>5, <1>6, <1>7 DEF Inv, Books

(* The totals of a next state whose totals are exact are numbers. *)
LEMMA TotalsType ==
    ASSUME vals' \in [Slot -> Value \cup {NoValue}], TotalsExact'
    PROVE  total' \in Nat /\ count' \in Nat
<1>1. Present' \in SUBSET Slot
  BY DEF Present
<1>2. total' = Cardinality(Memory(vals', Present')) /\ count' = Cardinality(Present')
  BY DEF TotalsExact, Bytes, Memory
<1>3. IsFiniteSet(Present')
  BY <1>1, SlotFinite, FS_Subset
<1>. QED  BY <1>1, <1>2, <1>3, MemoryFinite, FS_CardinalityType

(* Erasing values keeps the books, and does not bring charged values back   *)
(* over the limit.                                                          *)
LEMMA RemoveKeeps ==
    ASSUME Inv, fate = "ok", NEW E \in SUBSET Present, Remove(E),
           drift' = drift, quota' = quota, sweep' = "no" => sweep = "no"
    PROVE  Books' /\ ChargedKnown' /\ LimitKept' /\ HangNeedsDrift'
<1>0. TypeOK /\ TotalsExact /\ QuotaExact
  BY DEF Inv, Books
<1>1. Present' = Present \ E /\ \A s \in Present \ E : vals'[s] = vals[s]
  BY <1>0, RemoveSlots
<1>2. Books'
  BY <1>0, RemoveTotals, RemoveQuota DEF Books
<1>3. ChargedKnown'
  BY <1>1 DEF ChargedKnown, Inv, Safe
<1>4. total' <= total
  <2>1. E \in SUBSET Slot
    BY DEF Present
  <2>2. Cardinality(Memory(vals, E)) \in Nat
    BY <2>1, MemoryFinite
  <2>3. total' = total - Cardinality(Memory(vals, E)) /\ total \in Nat
    BY <1>0 DEF Remove, Bytes, Memory, TypeOK
  <2>. QED  BY <2>2, <2>3
<1>5. LimitKept'
  <2>. SUFFICES ASSUME sweep' = "no", total' > Limit, NEW s \in Present'
                PROVE  vals'[s].sb \notin Addr
    BY DEF LimitKept, Idle
  <2>1. total \in Nat /\ total' \in Int /\ Limit \in Nat
    <3>1. Cardinality(Bytes(E)) \in Nat
      <4>1. E \in SUBSET Slot
        BY DEF Present
      <4>. QED  BY <4>1, MemoryFinite DEF Bytes, Memory
    <3>. QED  BY <1>0, <3>1, LimitAssumption DEF Remove, TypeOK
  <2>2. total > Limit
    BY <1>4, <2>1
  <2>3. vals[s].sb \notin Addr
    BY <1>1, <2>2 DEF Inv, Safe, LimitKept, Idle
  <2>. QED  BY <1>1, <2>3
<1>6. HangNeedsDrift'
  BY DEF HangNeedsDrift, Remove
<1>. QED  BY <1>2, <1>3, <1>5, <1>6

(* ... and well-typed what it changes. *)
LEMMA RemoveTypes ==
    ASSUME Inv, NEW E \in SUBSET Present, Remove(E)
    PROVE  /\ vals' \in [Slot -> Value \cup {NoValue}]
           /\ total' \in Nat /\ count' \in Nat
           /\ used' \in [Addr -> Int] /\ stored' \in [Addr -> [Entry -> Nat]]
           /\ fate' \in {"ok", "undefined"}
<1>0. TypeOK /\ TotalsExact
  BY DEF Inv, Books
<1>1. vals' \in [Slot -> Value \cup {NoValue}]
  BY <1>0, RemoveSlots
<1>2. total' \in Nat /\ count' \in Nat
  BY <1>0, <1>1, RemoveTotals, TotalsType
<1>3. ASSUME NEW a \in Addr  PROVE  used[a] - Cardinality(Bytes(E \cap ChargedTo(a))) \in Int
  <2>1. E \cap ChargedTo(a) \in SUBSET Slot
    BY DEF Present
  <2>2. Cardinality(Bytes(E \cap ChargedTo(a))) \in Nat
    BY <2>1, MemoryFinite DEF Bytes, Memory
  <2>. QED  BY <1>0, <2>2 DEF TypeOK
<1>4. used' \in [Addr -> Int]
  BY <1>3 DEF Remove, UsedWithout
<1>5. ASSUME NEW a \in Addr, NEW e \in Entry
      PROVE  stored[a][e] \in Nat /\ Larger(stored[a][e] - 1, 0) \in Nat
  BY <1>0 DEF TypeOK, Larger
<1>6. stored' \in [Addr -> [Entry -> Nat]]
  BY <1>5 DEF Remove, StoredWithout
<1>7. fate' \in {"ok", "undefined"}
  BY DEF Remove
<1>. QED  BY <1>1, <1>2, <1>4, <1>6, <1>7

-----------------------------------------------------------------------------
(* storageStore, of a value that fits. *)
LEMMA StoreInv ==
    ASSUME Inv, fate = "ok", Idle, NEW s \in Slot, NEW c \in Content, NEW exp \in Time,
           NEW sb \in Addr \cup {Local}, storageStore(s, c, exp, sb)
    PROVE  Inv'
<1>0. TypeOK /\ Books
  BY DEF Inv
<1>1. Written(s, c, exp, sb)
  BY DEF storageStore, Replace, Insert, Written
<1>2. /\ vals' \in [Slot -> Value \cup {NoValue}]
      /\ Present' = Present \cup {s}
      /\ vals'[s] = [is |-> c, exp |-> exp, sb |-> sb]
      /\ \A t \in Slot \ {s} : vals'[t] = vals[t]
  BY <1>0, <1>1, WrittenSlots
<1>3. Books'
  BY <1>0, InsertBooks, ReplaceBooks DEF storageStore
<1>4. total' \in Nat /\ count' \in Nat
  BY <1>2, <1>3, TotalsType DEF Books
<1>5. used' \in [Addr -> Int] /\ stored' \in [Addr -> [Entry -> Nat]]
  <2>0. Size[c] \in Nat
    BY SizeAssumption
  <2>1. CASE Insert(s, c, exp, sb)
    BY <1>0, <2>0, <2>1 DEF Insert, TypeOK
  <2>2. CASE Replace(s, c, exp, sb)
    <3>1. ASSUME NEW a \in Addr, NEW e \in Entry  PROVE  StoredWithout({s})[a][e] \in Nat
      BY <1>0 DEF StoredWithout, TypeOK, Larger
    <3>2. ASSUME NEW a \in Addr
          PROVE  used[a] - (IF a = vals[s].sb THEN Size[c] ELSE 0) + (IF a = sb THEN Size[c] ELSE 0) \in Int
      BY <1>0, <2>0 DEF TypeOK
    <3>3. used' = [a \in Addr |-> used[a] - (IF a = vals[s].sb THEN Size[c] ELSE 0)
                                         + (IF a = sb THEN Size[c] ELSE 0)]
      BY <2>2 DEF Replace
    <3>4. stored' = [a \in Addr |-> [e \in Entry |->
                       StoredWithout({s})[a][e] + (IF a = sb /\ e = <<exp, s>> THEN 1 ELSE 0)]]
      BY <2>2 DEF Replace
    <3>5. ASSUME NEW a \in Addr, NEW e \in Entry
          PROVE  StoredWithout({s})[a][e] + (IF a = sb /\ e = <<exp, s>> THEN 1 ELSE 0) \in Nat
      BY <3>1
    <3>. QED  BY <3>2, <3>3, <3>4, <3>5
  <2>. QED  BY <2>1, <2>2 DEF storageStore
<1>6. drift' \in 0 .. MaxDrift /\ fate' \in {"ok", "undefined"}
  BY <1>0, LimitAssumption DEF storageStore, Insert, Replace, Drifts, TypeOK
<1>7. jobs' \subseteq Time \X Key /\ jobs \subseteq jobs' /\ (exp # Never => <<exp, s[1]>> \in jobs')
  BY <1>0 DEF storageStore, Schedule, TypeOK, Slot
<1>8. quota' \subseteq Addr /\ quota \subseteq quota' /\ (sb \in Addr => sb \in quota')
  BY <1>0, AddrAssumption DEF storageStore, TypeOK, Local
<1>9. TypeOK'
  <2>1. keys' \subseteq Key /\ listened' \subseteq keys'
    BY <1>0 DEF storageStore, TypeOK, Slot
  <2>2. sweep' \in {"no", "expire", "discard"} /\ fresh' \in [slot: Slot \cup {NoValue}, moved: BOOLEAN]
    <3>1. \/ sweep' = "expire" /\ fresh' = [slot |-> s, moved |-> FALSE]
          \/ sweep' = sweep /\ fresh' = fresh
      BY DEF storageStore
    <3>2. [slot |-> s, moved |-> FALSE] \in [slot: Slot \cup {NoValue}, moved: BOOLEAN]
      OBVIOUS
    <3>3. fresh \in [slot: Slot \cup {NoValue}, moved: BOOLEAN] /\ sweep \in {"no", "expire", "discard"}
      BY <1>0 DEF TypeOK
    <3>. QED  BY <3>1, <3>2, <3>3, Zenon
  <2>3. now' = now
    BY DEF storageStore
  <2>. QED  BY <1>0, <1>2, <1>4, <1>5, <1>6, <1>7, <1>8, <2>1, <2>2, <2>3 DEF TypeOK
<1>10. ChargedKnown'
  <2>. SUFFICES ASSUME NEW t \in Present', vals'[t].sb \in Addr  PROVE  vals'[t].sb \in quota'
    BY DEF ChargedKnown
  <2>1. CASE t = s
    BY <1>2, <1>8, <2>1
  <2>2. CASE t # s
    BY <1>2, <1>8, <2>2 DEF Inv, Safe, ChargedKnown, Present
  <2>. QED  BY <2>1, <2>2
<1>11. LimitKept'
  <2>1. total' > Limit => sweep' = "expire"
    BY DEF storageStore, Exceeds
  <2>. QED  BY <2>1 DEF LimitKept, Idle
<1>12. ExpiryScheduled'
  <2>. SUFFICES ASSUME NEW t \in Present', vals'[t].exp # Never  PROVE  <<vals'[t].exp, t[1]>> \in jobs'
    BY DEF ExpiryScheduled
  <2>1. CASE t = s
    BY <1>2, <1>7, <2>1
  <2>2. CASE t # s
    BY <1>2, <1>7, <2>2 DEF Inv, Safe, ExpiryScheduled, Present
  <2>. QED  BY <2>1, <2>2
<1>13. HangNeedsDrift'
  BY <1>6 DEF HangNeedsDrift
<1>. QED  BY <1>3, <1>9, <1>10, <1>11, <1>12, <1>13 DEF Inv, Safe

(* Steps that leave the values and the books alone. *)
Untouched == UNCHANGED <<vals, total, count, used, stored, drift>>

(* They keep everything that is about them alone. *)
LEMMA UntouchedBooks ==
    ASSUME Books, Untouched
    PROVE  Books' /\ Present' = Present
<1>1. Present' = Present /\ (\A a \in Addr : ChargedTo(a)' = ChargedTo(a))
  BY DEF Untouched, Present, ChargedTo
<1>2. \A E : Bytes(E)' = Bytes(E)
  BY DEF Untouched, Bytes
<1>. QED  BY <1>1, <1>2 DEF Books, TotalsExact, QuotaExact, IsEntry, Untouched

(* A step that only moves the clock, the sweep, keys, listeners or buckets  *)
(* without values keeps the invariant.                                      *)
LEMMA UntouchedInv ==
    ASSUME Inv, Untouched, fate = "ok", fate' \in {"ok", "undefined"}, quota \subseteq quota', jobs' = jobs,
           sweep' \in {sweep, "expire"},
           quota' \subseteq Addr, now' \in 0 .. MaxTime, keys' \subseteq Key, listened' \subseteq keys',
           fresh' \in [slot: Slot \cup {NoValue}, moved: BOOLEAN]
    PROVE  Inv'
<1>1. Books' /\ Present' = Present
  BY UntouchedBooks DEF Inv
<1>2. TypeOK'
  BY DEF Inv, TypeOK, Untouched
<1>3. ChargedKnown' /\ ExpiryScheduled'
  BY <1>1 DEF Inv, Safe, ChargedKnown, ExpiryScheduled, Untouched
<1>4. LimitKept'
  BY <1>1 DEF Inv, Safe, LimitKept, Idle, Untouched
<1>5. HangNeedsDrift'
  BY DEF HangNeedsDrift
<1>. QED  BY <1>1, <1>2, <1>3, <1>4, <1>5 DEF Inv, Safe

(* Refresh: the value lives longer, and a job waits for its new end. *)
LEMMA RefreshInv ==
    ASSUME Inv, fate = "ok", NEW s \in Slot, Refresh(s)
    PROVE  Inv'
<1>. DEFINE exp == Larger(vals[s].exp, now + Ttl)
<1>0. TypeOK /\ Books /\ s \in Present
  BY DEF Inv, Refresh
<1>1. /\ vals' = [vals EXCEPT ![s].exp = exp]
      /\ jobs' = Schedule(exp, s[1])
      /\ Drifts(exp # vals[s].exp /\ vals[s].sb # Local)
      /\ UNCHANGED <<now, keys, listened, total, count, quota, used, stored, sweep, fresh, fate>>
  BY DEF Refresh, quotas
<1>2. vals[s] \in Value /\ vals[s] # NoValue
  BY <1>0, PresentValue
<1>3. exp \in Time
  BY <1>0, <1>2, TimeAssumption DEF TypeOK, Value, Larger, Time, Never
<1>. HIDE DEF exp
<1>4. /\ vals' \in [Slot -> Value \cup {NoValue}]
      /\ vals'[s] \in Value
      /\ vals'[s].exp = exp /\ vals'[s].is = vals[s].is /\ vals'[s].sb = vals[s].sb
      /\ \A t \in Slot \ {s} : vals'[t] = vals[t]
  <2>1. vals \in [Slot -> Value \cup {NoValue}]
    BY <1>0 DEF TypeOK
  <2>2. [vals[s] EXCEPT !.exp = exp] \in Value
    BY <1>2, <1>3 DEF Value
  <2>3. vals' = [vals EXCEPT ![s] = [vals[s] EXCEPT !.exp = exp]]
    BY <1>1
  <2>. QED  BY <1>2, <1>3, <2>1, <2>2, <2>3 DEF Value
<1>5. Present' = Present /\ \A a \in Addr : ChargedTo(a)' = ChargedTo(a)
  BY <1>0, <1>2, <1>4, NoValueAssumption DEF Present, ChargedTo
<1>6. \A t \in Present : vals'[t].is = vals[t].is /\ vals'[t].sb = vals[t].sb
  BY <1>4 DEF Present
<1>7. Books'
  <2>1. Memory(vals', Present') = Memory(vals, Present)
    <3>1. Present \in SUBSET Slot
      BY DEF Present
    <3>. QED  BY <1>5, <1>6, <3>1, MemorySame
  <2>2. TotalsExact'
    BY <1>0, <1>1, <1>5, <2>1 DEF Books, TotalsExact, Bytes, Memory
  <2>3. ASSUME drift' = 0, NEW a \in Addr
        PROVE  /\ used'[a] = Cardinality(Memory(vals', ChargedTo(a)'))
               /\ \A e \in Entry : stored'[a][e] =
                    IF e[2] \in ChargedTo(a)' /\ e = <<vals'[e[2]].exp, e[2]>> THEN 1 ELSE 0
    <3>1. drift = 0 /\ (exp = vals[s].exp \/ vals[s].sb = Local)
      BY <1>0, <1>1, <2>3 DEF Drifts, TypeOK
    <3>2. ChargedTo(a) \in SUBSET Slot /\ \A t \in ChargedTo(a) : vals'[t].is = vals[t].is
      BY <1>6 DEF ChargedTo, Present
    <3>3. \A t \in ChargedTo(a) : vals'[t].exp = vals[t].exp
      BY <1>4, <3>1, AddrAssumption DEF ChargedTo, Present, Local
    <3>4. Memory(vals', ChargedTo(a)') = Memory(vals, ChargedTo(a))
      BY <1>5, <3>2, MemorySame
    <3>5. /\ used[a] = Cardinality(Memory(vals, ChargedTo(a)))
          /\ \A e \in Entry : stored[a][e] =
               IF e[2] \in ChargedTo(a) /\ e = <<vals[e[2]].exp, e[2]>> THEN 1 ELSE 0
      BY <1>0, <3>1 DEF Books, QuotaExact, Bytes, Memory, IsEntry
    <3>. QED  BY <1>1, <1>5, <3>3, <3>4, <3>5
  <2>4. QuotaExact'
    BY <2>3 DEF QuotaExact, Bytes, Memory, IsEntry
  <2>. QED  BY <2>2, <2>4 DEF Books
<1>8. jobs' \subseteq Time \X Key /\ jobs \subseteq jobs' /\ (exp # Never => <<exp, s[1]>> \in jobs')
  BY <1>0, <1>1, <1>3 DEF Schedule, TypeOK, Slot
<1>9. drift' \in 0 .. MaxDrift
  BY <1>0, <1>1, LimitAssumption DEF Drifts, TypeOK
<1>10. TypeOK'
  BY <1>0, <1>1, <1>4, <1>8, <1>9 DEF TypeOK
<1>11. ChargedKnown' /\ LimitKept' /\ HangNeedsDrift'
  BY <1>1, <1>5, <1>6 DEF Inv, Safe, ChargedKnown, LimitKept, HangNeedsDrift, Idle
<1>12. ExpiryScheduled'
  <2>. SUFFICES ASSUME NEW t \in Present, vals'[t].exp # Never  PROVE  <<vals'[t].exp, t[1]>> \in jobs'
    BY <1>5 DEF ExpiryScheduled
  <2>1. CASE t = s
    BY <1>4, <1>8, <2>1
  <2>2. CASE t # s
    BY <1>4, <1>8, <2>2 DEF Inv, Safe, ExpiryScheduled, Present
  <2>. QED  BY <2>1, <2>2
<1>. QED  BY <1>7, <1>10, <1>11, <1>12 DEF Inv, Safe

(* storageErase. *)
LEMMA EraseInv ==
    ASSUME Inv, fate = "ok", NEW s \in Slot, Erase(s)
    PROVE  Inv'
<1>0. /\ {s} \in SUBSET Present /\ Remove({s})
      /\ UNCHANGED <<now, keys, listened, quota, jobs, sweep, fresh, drift>>
  BY DEF Erase
<1>1. Books' /\ ChargedKnown' /\ LimitKept' /\ HangNeedsDrift'
  BY <1>0, RemoveKeeps
<1>2. TypeOK'
  BY <1>0, RemoveTypes DEF Inv, TypeOK
<1>3. Present' = Present \ {s} /\ \A t \in Present \ {s} : vals'[t] = vals[t]
  BY <1>0, RemoveSlots DEF Inv
<1>4. ExpiryScheduled'
  BY <1>0, <1>3 DEF Inv, Safe, ExpiryScheduled
<1>. QED  BY <1>1, <1>2, <1>4 DEF Inv, Safe

(* expireStorage: the job that goes is one no remaining value waits for. *)
LEMMA ExpireStorageInv ==
    ASSUME Inv, fate = "ok", NEW j \in jobs, ExpireStorage(j[1], j[2])
    PROVE  Inv'
<1>. DEFINE E == Expired \cap ValuesOf(j[2])
<1>0. /\ E \in SUBSET Present /\ Remove(E) /\ j[1] <= now
      /\ jobs' = jobs \ {<<j[1], j[2]>>}
      /\ listened' \in {listened, listened \ {j[2]}}
      /\ UNCHANGED <<now, keys, quota, sweep, fresh, drift>>
  BY DEF ExpireStorage, Expired
<1>. HIDE DEF E
<1>1. Books' /\ ChargedKnown' /\ LimitKept' /\ HangNeedsDrift'
  BY <1>0, RemoveKeeps
<1>2. TypeOK'
  BY <1>0, RemoveTypes DEF Inv, TypeOK
<1>3. Present' = Present \ E /\ \A t \in Present \ E : vals'[t] = vals[t]
  BY <1>0, RemoveSlots DEF Inv
<1>4. ExpiryScheduled'
  <2>. SUFFICES ASSUME NEW t \in Present \ E, vals[t].exp # Never
                PROVE  <<vals[t].exp, t[1]>> \in jobs'
    BY <1>3 DEF ExpiryScheduled
  <2>1. <<vals[t].exp, t[1]>> \in jobs
    BY DEF Inv, Safe, ExpiryScheduled
  <2>2. ASSUME vals[t].exp = j[1], t[1] = j[2]  PROVE  FALSE
    BY <1>0, <2>2 DEF E, Expired, ValuesOf
  <2>. QED  BY <1>0, <2>1, <2>2
<1>. QED  BY <1>1, <1>2, <1>4 DEF Inv, Safe

(* The first part of the sweep. *)
LEMMA SweepExpiredInv ==
    ASSUME Inv, fate = "ok", SweepExpired
    PROVE  Inv'
<1>0. /\ Expired \in SUBSET Present /\ Remove(Expired)
      /\ sweep' = "discard" /\ listened' \subseteq listened
      /\ keys' = {k \in keys : Needed(k)}
      /\ UNCHANGED <<now, quota, jobs, drift>>
  BY DEF SweepExpired, Expired
<1>1. Books' /\ ChargedKnown' /\ LimitKept' /\ HangNeedsDrift'
  BY <1>0, RemoveKeeps
<1>2. fresh' \in [slot: Slot \cup {NoValue}, moved: BOOLEAN]
  <2>1. fresh \in [slot: Slot \cup {NoValue}, moved: BOOLEAN]
    BY DEF Inv, TypeOK
  <2>2. PICK b \in BOOLEAN : fresh' = [fresh EXCEPT !.moved = b]
    BY <2>1, Zenon DEF SweepExpired
  <2>. QED  BY <2>1, <2>2
<1>3. keys' \subseteq Key /\ listened' \subseteq keys'
  BY <1>0 DEF Inv, TypeOK, Needed
<1>4. TypeOK'
  BY <1>0, <1>2, <1>3, RemoveTypes DEF Inv, TypeOK
<1>5. Present' = Present \ Expired /\ \A t \in Present \ Expired : vals'[t] = vals[t]
  BY <1>0, RemoveSlots DEF Inv
<1>6. ExpiryScheduled'
  BY <1>0, <1>5 DEF Inv, Safe, ExpiryScheduled
<1>. QED  BY <1>1, <1>4, <1>6 DEF Inv, Safe

(* A round that removes a value. *)
LEMMA DiscardInv ==
    ASSUME Inv, fate = "ok", Discard
    PROVE  Inv'
<1>0. PICK a \in Largest : \E e \in Oldest(a) :
        /\ e[2] \in Present /\ Remove({e[2]})
        /\ fresh' = [fresh EXCEPT !.moved = @ \/ (fresh.slot # NoValue /\ e[2][1] = fresh.slot[1])]
  BY DEF Discard
<1>1. PICK e \in Oldest(a) :
        /\ e[2] \in Present /\ Remove({e[2]})
        /\ fresh' = [fresh EXCEPT !.moved = @ \/ (fresh.slot # NoValue /\ e[2][1] = fresh.slot[1])]
  BY <1>0
<1>2. /\ {e[2]} \in SUBSET Present
      /\ UNCHANGED <<now, keys, listened, quota, jobs, sweep, drift>> /\ sweep = "discard"
  BY <1>1 DEF Discard, MakingRoom
<1>3. Books' /\ ChargedKnown' /\ LimitKept' /\ HangNeedsDrift'
  BY <1>1, <1>2, RemoveKeeps
<1>4. fresh' \in [slot: Slot \cup {NoValue}, moved: BOOLEAN]
  <2>1. fresh \in [slot: Slot \cup {NoValue}, moved: BOOLEAN]
    BY DEF Inv, TypeOK
  <2>2. PICK b \in BOOLEAN : fresh' = [fresh EXCEPT !.moved = b]
    BY <1>1, <2>1, Zenon
  <2>. QED  BY <2>1, <2>2
<1>5. TypeOK'
  BY <1>1, <1>2, <1>4, RemoveTypes DEF Inv, TypeOK
<1>6. Present' = Present \ {e[2]} /\ \A t \in Present \ {e[2]} : vals'[t] = vals[t]
  BY <1>1, <1>2, RemoveSlots DEF Inv
<1>7. ExpiryScheduled'
  BY <1>2, <1>6 DEF Inv, Safe, ExpiryScheduled
<1>. QED  BY <1>3, <1>5, <1>7 DEF Inv, Safe

(* A round that finds an entry without a value: only a bucket that is not   *)
(* exact has one.                                                           *)
LEMMA DiscardForeverInv ==
    ASSUME Inv, DiscardForever
    PROVE  Inv'
<1>0. Untouched /\ fate' = "hung" /\ UNCHANGED <<now, keys, listened, quota, jobs, sweep, fresh>>
  BY DEF DiscardForever, Untouched, quotas
<1>1. Books' /\ Present' = Present
  BY <1>0, UntouchedBooks DEF Inv
<1>2. TypeOK'
  BY <1>0 DEF Inv, TypeOK, Untouched
<1>3. ChargedKnown' /\ LimitKept' /\ ExpiryScheduled'
  BY <1>0, <1>1 DEF Inv, Safe, ChargedKnown, LimitKept, ExpiryScheduled, Untouched
<1>4. drift # 0
  <2>. SUFFICES ASSUME drift = 0  PROVE  FALSE
    OBVIOUS
  <2>0. PICK a \in Largest : \E e \in Oldest(a) : e[2] \notin Present
    BY DEF DiscardForever
  <2>1. PICK e \in Oldest(a) : e[2] \notin Present
    BY <2>0
  <2>2. a \in Addr
    BY DEF Largest, Candidates, Inv, TypeOK
  <2>3. e \in Entry /\ stored[a][e] > 0
    BY DEF Oldest, Entries
  <2>4. e[2] \in ChargedTo(a)
    BY <2>2, <2>3 DEF Inv, Books, QuotaExact
  <2>. QED  BY <2>1, <2>4 DEF ChargedTo
<1>5. HangNeedsDrift'
  BY <1>0, <1>4 DEF HangNeedsDrift, Untouched, Inv, TypeOK
<1>. QED  BY <1>1, <1>2, <1>3, <1>5 DEF Inv, Safe

(* A round that finds no entry at all. *)
LEMMA DiscardNothingInv ==
    ASSUME Inv, fate = "ok", DiscardNothing
    PROVE  Inv'
<1>1. /\ Untouched /\ fate' = "undefined"
      /\ UNCHANGED <<now, keys, listened, quota, jobs, sweep, fresh>>
  BY DEF DiscardNothing, Untouched, quotas
<1>. QED  BY <1>1, UntouchedInv DEF Inv, TypeOK

(* A full key: at most a bucket is added. *)
LEMMA StoreFullInv ==
    ASSUME Inv, fate = "ok", NEW s, NEW exp, NEW a \in Addr, StoreFull(s, exp, a)
    PROVE  Inv'
<1>1. /\ Untouched /\ fate' = "ok" /\ quota' = quota \cup {a}
      /\ UNCHANGED <<now, keys, listened, jobs, sweep, fresh>>
  BY DEF StoreFull, Untouched
<1>. QED  BY <1>1, UntouchedInv DEF Inv, TypeOK

(* A listener, the clock and the start of a sweep. *)
LEMMA ListenInv ==
    ASSUME Inv, fate = "ok", NEW k \in Key, Listen(k)
    PROVE  Inv'
<1>1. /\ Untouched /\ fate' = "ok" /\ keys' = keys \cup {k} /\ listened' = listened \cup {k}
      /\ UNCHANGED <<now, quota, jobs, sweep, fresh>>
  BY DEF Listen, Untouched, quotas
<1>. QED  BY <1>1, UntouchedInv DEF Inv, TypeOK

(* The clock moves only between operations. *)
LEMMA TickInv ==
    ASSUME Inv, fate = "ok", Tick
    PROVE  Inv'
<1>1. /\ Untouched /\ fate' = "ok" /\ now < MaxTime /\ now' = now + 1
      /\ UNCHANGED <<keys, listened, quota, jobs, sweep, fresh>>
  BY DEF Tick, Untouched, quotas
<1>2. now' \in 0 .. MaxTime
  BY <1>1, TimeAssumption DEF Inv, TypeOK
<1>. QED  BY <1>1, <1>2, UntouchedInv DEF Inv, TypeOK

(* The record of no value is one of its type. *)
LEMMA NothingType == Nothing \in [slot: Slot \cup {NoValue}, moved: BOOLEAN]
BY DEF Nothing

(* The periodic sweep begins. *)
LEMMA ExpireInv ==
    ASSUME Inv, fate = "ok", Expire
    PROVE  Inv'
<1>1. /\ Untouched /\ fate' = "ok" /\ sweep' = "expire" /\ fresh' = Nothing
      /\ UNCHANGED <<now, keys, listened, quota, jobs>>
  BY DEF Expire, Untouched, quotas
<1>. QED  BY <1>1, NothingType, UntouchedInv DEF Inv, TypeOK

(* The end of the sweep: the values of the erased buckets dangle, so they   *)
(* are charged to nobody.                                                   *)
LEMMA SweepEndInv ==
    ASSUME Inv, fate = "ok", SweepEnd
    PROVE  Inv'
<1>. DEFINE unused == {a \in quota : used[a] = 0}
            Loses(s) == \E a \in unused : s \in ChargedTo(a)
<1>0. /\ total <= Limit \/ quota = {}
      /\ sweep' = "no" /\ fresh' = Nothing /\ quota' = quota \ unused
      /\ stored' = [a \in Addr |-> IF a \in unused THEN [e \in Entry |-> 0] ELSE stored[a]]
      /\ vals' = [s \in Slot |-> IF Loses(s) THEN [vals[s] EXCEPT !.sb = Dangling] ELSE vals[s]]
      /\ fate' \in {"ok", "undefined"}
      /\ UNCHANGED <<now, keys, listened, total, count, used, jobs, drift>>
  BY DEF SweepEnd
<1>1. TypeOK /\ Books /\ Safe /\ unused \subseteq Addr
  BY DEF Inv, TypeOK
<1>. HIDE DEF unused
<1>2. ASSUME NEW s \in Slot, Loses(s)
      PROVE  /\ s \in Present /\ vals'[s] \in Value /\ vals'[s] # NoValue
             /\ vals'[s].is = vals[s].is /\ vals'[s].exp = vals[s].exp /\ vals'[s].sb = Dangling
  <2>1. s \in Present
    BY <1>2 DEF ChargedTo
  <2>2. vals[s] \in Value
    BY <1>1, <2>1, PresentValue
  <2>3. vals'[s] = [vals[s] EXCEPT !.sb = Dangling]
    BY <1>0, <1>2
  <2>4. /\ vals'[s] \in Value
        /\ vals'[s].is = vals[s].is /\ vals'[s].exp = vals[s].exp /\ vals'[s].sb = Dangling
    BY <2>2, <2>3 DEF Value
  <2>. QED  BY <2>1, <2>4, NoValueAssumption
<1>3. ASSUME NEW s \in Slot, ~Loses(s)  PROVE  vals'[s] = vals[s]
  BY <1>0, <1>3
<1>. HIDE DEF Loses
<1>4. vals' \in [Slot -> Value \cup {NoValue}]
  <2>1. \A s \in Slot : vals'[s] \in Value \cup {NoValue}
    BY <1>1, <1>2, <1>3 DEF TypeOK
  <2>2. vals' = [s \in Slot |-> vals'[s]]
    BY <1>0
  <2>. QED  BY <2>1, <2>2
<1>5. Present' = Present
  BY <1>2, <1>3 DEF Present
<1>6. \A s \in Present : vals'[s].is = vals[s].is /\ vals'[s].exp = vals[s].exp
  BY <1>2, <1>3 DEF Present
<1>7. Dangling \notin Addr
  BY AddrAssumption DEF Dangling
<1>8. ASSUME NEW a \in Addr
      PROVE  ChargedTo(a)' = IF a \in unused THEN {} ELSE ChargedTo(a)
  <2>1. ASSUME a \in unused, NEW s \in ChargedTo(a)'  PROVE  FALSE
    <3>1. s \in Present /\ s \in Slot /\ vals'[s].sb = a
      BY <1>5, <2>1 DEF ChargedTo, Present
    <3>2. ~Loses(s)
      BY <1>2, <1>7, <3>1
    <3>3. vals[s].sb = a
      BY <1>3, <3>1, <3>2
    <3>. QED  BY <2>1, <3>1, <3>2, <3>3 DEF Loses, ChargedTo
  <2>2. ASSUME a \notin unused, NEW s \in Present
        PROVE  s \in ChargedTo(a)' <=> s \in ChargedTo(a)
    <3>1. CASE Loses(s)
      <4>1. vals'[s].sb # a
        BY <1>2, <1>7, <3>1 DEF Present
      <4>2. vals[s].sb # a
        BY <2>2, <3>1 DEF Loses, ChargedTo
      <4>. QED  BY <4>1, <4>2 DEF ChargedTo
    <3>2. CASE ~Loses(s)
      <4>1. vals'[s] = vals[s]
        BY <1>3, <3>2 DEF Present
      <4>. QED  BY <4>1, <1>5 DEF ChargedTo
    <3>. QED  BY <3>1, <3>2
  <2>. QED  BY <1>5, <2>1, <2>2 DEF ChargedTo
<1>9. TotalsExact'
  <2>1. Present \in SUBSET Slot
    BY DEF Present
  <2>2. Memory(vals', Present') = Memory(vals, Present)
    BY <1>5, <1>6, <2>1, MemorySame
  <2>. QED  BY <1>0, <1>1, <1>5, <2>2 DEF Books, TotalsExact, Bytes, Memory
<1>10. ASSUME drift' = 0, NEW a \in Addr
       PROVE  /\ used'[a] = Cardinality(Memory(vals', ChargedTo(a)'))
              /\ \A e \in Entry : stored'[a][e] =
                   IF e[2] \in ChargedTo(a)' /\ e = <<vals'[e[2]].exp, e[2]>> THEN 1 ELSE 0
  <2>1. /\ used[a] = Cardinality(Memory(vals, ChargedTo(a)))
        /\ \A e \in Entry : stored[a][e] =
             IF e[2] \in ChargedTo(a) /\ e = <<vals[e[2]].exp, e[2]>> THEN 1 ELSE 0
    BY <1>0, <1>1, <1>10 DEF Books, QuotaExact, Bytes, Memory, IsEntry
  <2>2. ChargedTo(a) \in SUBSET Slot /\ ChargedTo(a) \in SUBSET Present
    BY DEF ChargedTo, Present
  <2>3. CASE a \in unused
    <3>1. ChargedTo(a)' = {} /\ used'[a] = 0 /\ \A e \in Entry : stored'[a][e] = 0
      BY <1>0, <1>8, <2>3 DEF unused
    <3>2. Memory(vals', {}) = {}
      BY DEF Memory
    <3>. QED  BY <3>1, <3>2, FS_EmptySet
  <2>4. CASE a \notin unused
    <3>1. ChargedTo(a)' = ChargedTo(a) /\ used'[a] = used[a] /\ stored'[a] = stored[a]
      BY <1>0, <1>8, <2>4
    <3>2. Memory(vals', ChargedTo(a)) = Memory(vals, ChargedTo(a))
      BY <1>6, <2>2, MemorySame
    <3>. QED  BY <1>6, <2>1, <2>2, <3>1, <3>2
  <2>. QED  BY <2>3, <2>4
<1>11. QuotaExact'
  BY <1>10 DEF QuotaExact, Bytes, Memory, IsEntry
<1>12. TypeOK'
  <2>1. stored' \in [Addr -> [Entry -> Nat]]
    <3>1. [e \in Entry |-> 0] \in [Entry -> Nat]
      OBVIOUS
    <3>. QED  BY <1>0, <1>1, <3>1 DEF TypeOK
  <2>. QED  BY <1>0, <1>1, <1>4, <2>1, NothingType DEF TypeOK
<1>13. ChargedKnown'
  <2>. SUFFICES ASSUME NEW s \in Present, vals'[s].sb \in Addr  PROVE  vals'[s].sb \in quota'
    BY <1>5 DEF ChargedKnown
  <2>1. ~Loses(s)
    BY <1>2, <1>7 DEF Present
  <2>2. vals'[s] = vals[s]
    BY <1>3, <2>1 DEF Present
  <2>3. vals[s].sb \in quota
    BY <1>1, <2>2 DEF Safe, ChargedKnown
  <2>4. vals[s].sb \notin unused
    BY <2>1 DEF Loses, ChargedTo
  <2>5. quota' = quota \ unused
    BY <1>0
  <2>. QED  BY <2>2, <2>3, <2>4, <2>5
<1>14. LimitKept'
  <2>. SUFFICES ASSUME ~(total <= Limit), NEW s \in Present  PROVE  vals'[s].sb \notin Addr
    BY <1>0, <1>1, <1>5, LimitAssumption DEF LimitKept, TypeOK
  <2>1. quota' = {}
    BY <1>0
  <2>. QED  BY <1>5, <1>13, <2>1 DEF ChargedKnown
<1>15. ExpiryScheduled'
  BY <1>0, <1>1, <1>5, <1>6 DEF Safe, ExpiryScheduled
<1>16. HangNeedsDrift'
  BY <1>0 DEF HangNeedsDrift
<1>. QED  BY <1>9, <1>11, <1>12, <1>13, <1>14, <1>15, <1>16 DEF Inv, Safe, Books

(* Every step keeps the invariant. *)
LEMMA NextInv ==
    ASSUME Inv, [Next]_vars
    PROVE  Inv'
<1>1. CASE UNCHANGED vars
  <2>1. Untouched /\ UNCHANGED <<now, keys, listened, quota, jobs, sweep, fresh, fate>>
    BY <1>1 DEF vars, quotas, Untouched
  <2>2. Books' /\ Present' = Present
    BY <2>1, UntouchedBooks DEF Inv
  <2>3. TypeOK'
    BY <2>1 DEF Inv, TypeOK, Untouched
  <2>4. Safe'
    BY <2>1, <2>2 DEF Inv, Safe, ChargedKnown, LimitKept, ExpiryScheduled, HangNeedsDrift,
                      Idle, Untouched
  <2>. QED  BY <2>2, <2>3, <2>4 DEF Inv
<1>2. ASSUME fate = "ok", NEW s \in Slot, NEW c \in Content, NEW permanent \in BOOLEAN,
             Put(s, c, permanent)
      PROVE  Inv'
  <2>. DEFINE exp == IF permanent THEN Never ELSE now + Ttl
  <2>1. exp \in Time
    BY TimeAssumption DEF Inv, TypeOK, Time, Never
  <2>2. storageStore(s, c, exp, Local) /\ Idle
    BY <1>2 DEF Put
  <2>. HIDE DEF exp
  <2>. QED  BY <1>2, <2>1, <2>2, StoreInv
<1>3. ASSUME fate = "ok", NEW s \in Slot, NEW c \in Content, NEW created \in 0 .. MaxTime,
             NEW a \in Addr, Announce(s, c, created, a)
      PROVE  Inv'
  <2>1. created + Ttl \in Time
    BY TimeAssumption DEF Time, Never
  <2>2. CASE storageStore(s, c, created + Ttl, a)
    <3>1. Idle
      BY <1>3 DEF Announce
    <3>2. a \in Addr \cup {Local}
      OBVIOUS
    <3>. QED  BY <1>3, <2>1, <2>2, <3>1, <3>2, StoreInv
  <2>3. CASE StoreFull(s, created + Ttl, a)
    BY <1>3, <2>3, StoreFullInv
  <2>. QED  BY <1>3, <2>2, <2>3 DEF Announce
<1>. QED
  BY <1>1, <1>2, <1>3, RefreshInv, EraseInv, ListenInv, ExpireStorageInv, ExpireInv,
     SweepExpiredInv, SweepEndInv, DiscardInv, DiscardForeverInv, DiscardNothingInv, TickInv
  DEF Next

(* The invariant holds always. *)
LEMMA StorageInv == Spec => []Inv
BY InitInv, NextInv, PTL DEF Spec

-----------------------------------------------------------------------------
(* Every variable keeps its type; in particular the totals, unsigned in the *)
(* code, never fall below zero.                                             *)
THEOREM StorageTypes == Spec => []TypeOK
<1>1. Inv => TypeOK
  BY DEF Inv
<1>. QED  BY <1>1, StorageInv, PTL

(* The totals are what is stored, through stores, replacements, expiry and  *)
(* sweeps.                                                                  *)
THEOREM StorageTotals == Spec => []TotalsExact
<1>1. Inv => TotalsExact
  BY DEF Inv, Books
<1>. QED  BY <1>1, StorageInv, PTL

(* The buckets are exact until a charged value is refreshed or replaced.    *)
THEOREM StorageQuotas == Spec => []QuotaExact
<1>1. Inv => QuotaExact
  BY DEF Inv, Books
<1>. QED  BY <1>1, StorageInv, PTL

(* Between operations only values charged to nobody exceed the limit.       *)
THEOREM StorageLimit == Spec => []LimitKept
<1>1. Inv => LimitKept
  BY DEF Inv, Safe
<1>. QED  BY <1>1, StorageInv, PTL

(* Every value that expires has a job at its expiration.                    *)
THEOREM StorageExpiry == Spec => []ExpiryScheduled
<1>1. Inv => ExpiryScheduled
  BY DEF Inv, Safe
<1>. QED  BY <1>1, StorageInv, PTL

(* The sweep hangs only after a charged value was refreshed or replaced.    *)
THEOREM StorageHang == Spec => []HangNeedsDrift
<1>1. Inv => HangNeedsDrift
  BY DEF Inv, Safe
<1>. QED  BY <1>1, StorageInv, PTL
=============================================================================
