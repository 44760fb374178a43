------------------------------- MODULE Storage ------------------------------
(***************************************************************************)
(* The values one node stores for the DHT: dht::Storage per key, the totals *)
(* of dht::Dht, the quota it keeps for each address that sent values        *)
(* (StorageBucket), the jobs that expire values, and the sweep that makes   *)
(* room when the limit is exceeded.                                         *)
(*                                                                         *)
(* All of it runs on the DHT thread.  The sweep (expireStore) is taken      *)
(* apart into the iterations of its loop; nothing else happens while it     *)
(* runs.  Values of a key are a function of their ids: the order of the     *)
(* vector matters only for the pointer that storageStore uses after the     *)
(* sweep.  Storage maintenance is off, as in the program's configuration.   *)
(***************************************************************************)
EXTENDS Integers, FiniteSets

CONSTANTS
    Key, Id,      \* keys of the DHT and ids of values
    Content,      \* what a value holds
    Size,         \* Value::size
    MaxSize,      \* MAX_VALUE_SIZE
    Addr,         \* addresses of other nodes, as numbers in the order of ipCmp
    NoValue,      \* an id that a key does not hold
    Ttl,          \* ValueType::expiration
    Limit,        \* max_store_size
    MaxKeys,      \* max_store_keys
    MaxValues,    \* Storage::MAX_VALUES
    MaxTime,      \* bound on the clock
    MaxDrift,     \* bound on refreshes and replacements of charged values
    SizeRange     \* 2^w for the width of size_t

Slot == Key \X Id
Never == MaxTime + Ttl + 1   \* time_point::max
Time == 0 .. Never
Local == 0                   \* no bucket: the value was put by this node
Dangling == -1               \* a bucket that has been erased

Value == [is: Content, exp: Time, sb: Addr \cup {Local, Dangling}]

ASSUME SizeAssumption == MaxSize \in Nat /\ Size \in [Content -> 0 .. MaxSize]
ASSUME AddrAssumption == Addr \subseteq Nat \ {0}
ASSUME FiniteAssumption == IsFiniteSet(Key) /\ IsFiniteSet(Id) /\ IsFiniteSet(Addr)
ASSUME NoValueAssumption == NoValue \notin Value
ASSUME TimeAssumption == MaxTime \in Nat /\ Ttl \in Nat
ASSUME LimitAssumption == {Limit, MaxKeys, MaxValues, MaxDrift, SizeRange} \subseteq Nat

VARIABLES
    now,       \* scheduler.time()
    keys,      \* the keys of store
    listened,  \* the keys with listeners
    vals,      \* the values of the keys
    total,     \* total_store_size
    count,     \* total_values
    quota,     \* the keys of store_quota
    used,      \* totalSize_ of each bucket
    stored,    \* storedValues_ of each bucket, a multiset
    jobs,      \* scheduled calls of expireStorage
    sweep,     \* where expireStore is
    fresh,     \* the value that storageStore reports after the sweep
    drift,     \* history: how often a charged value was refreshed or replaced
    fate       \* ok, an endless loop, or undefined behaviour

quotas == <<quota, used, stored>>
vars == <<now, keys, listened, vals, total, count, quotas, jobs, sweep, fresh, drift, fate>>

Entry == Time \X Slot
Present == {s \in Slot : vals[s] # NoValue}
ChargedTo(a) == {s \in Present : vals[s].sb = a}

(* The memory that values occupy, byte by byte. *)
Bytes(E) == {b \in E \X (1 .. MaxSize) : b[2] <= Size[vals[b[1]].is]}

TypeOK ==
    /\ now \in 0 .. MaxTime
    /\ keys \subseteq Key /\ listened \subseteq keys
    /\ vals \in [Slot -> Value \cup {NoValue}]
    /\ total \in Nat /\ count \in Nat
    /\ quota \subseteq Addr
    /\ used \in [Addr -> Int]
    /\ stored \in [Addr -> [Entry -> Nat]]
    /\ jobs \subseteq Time \X Key
    /\ sweep \in {"no", "expire", "discard"}
    /\ fresh \in [slot: Slot \cup {NoValue}, moved: BOOLEAN]
    /\ drift \in 0 .. MaxDrift
    /\ fate \in {"ok", "hung", "undefined"}

Nothing == [slot |-> NoValue, moved |-> FALSE]

Init ==
    /\ now = 0 /\ keys = {} /\ listened = {} /\ jobs = {}
    /\ vals = [s \in Slot |-> NoValue] /\ total = 0 /\ count = 0
    /\ quota = {} /\ used = [a \in Addr |-> 0]
    /\ stored = [a \in Addr |-> [e \in Entry |-> 0]]
    /\ sweep = "no" /\ fresh = Nothing /\ drift = 0 /\ fate = "ok"

-----------------------------------------------------------------------------
(* StorageBucket. *)

Larger(m, n) == IF m > n THEN m ELSE n

(* The entry a value has when its bucket was told of its expiration. *)
IsEntry(e, s) == e = <<vals[s].exp, s>>

(* Mutant of UsedWithout: a bucket is never credited. *)
UsedForEver(E) == used

(* Buckets after the values in E are erased; an entry is found only under   *)
(* the expiration the value has now.                                        *)
UsedWithout(E) == [a \in Addr |-> used[a] - Cardinality(Bytes(E \cap ChargedTo(a)))]

StoredWithout(E) ==
    [a \in Addr |-> [e \in Entry |->
        IF e[2] \in E \cap ChargedTo(a) /\ IsEntry(e, e[2])
        THEN Larger(stored[a][e] - 1, 0) ELSE stored[a][e]]]

(* Storage::remove and Storage::expire, with the totals of their callers. *)
Remove(E) ==
    /\ vals' = [s \in Slot |-> IF s \in E THEN NoValue ELSE vals[s]]
    /\ total' = total - Cardinality(Bytes(E))
    /\ count' = count - Cardinality(E)
    /\ used' = UsedWithout(E)
    /\ stored' = StoredWithout(E)
    /\ fate' = IF \E s \in E : vals[s].sb = Dangling THEN "undefined" ELSE "ok"

-----------------------------------------------------------------------------
(* storageStore. *)

(* Mutant of Schedule: no job is added. *)
ScheduleNothing(exp, k) == jobs

(* scheduler.add of expireStorage, unless the value is permanent. *)
Schedule(exp, k) == IF exp = Never THEN jobs ELSE jobs \cup {<<exp, k>>}

(* Mutant of SizeDiff: the old value is not subtracted. *)
SizeDiffNew(s, c) == Size[c]

(* The size_diff of a replacement. *)
SizeDiff(s, c) == Size[c] - Size[vals[s].is]

(* Mutant of Exceeds: off by one. *)
ExceedsLate(n) == n > Limit + 1

(* The test that starts the sweep. *)
Exceeds(n) == n > Limit

(* The history and its bound. *)
Drifts(b) ==
    /\ b => drift < MaxDrift
    /\ drift' = IF b THEN drift + 1 ELSE drift

ValuesOf(k) == {s \in Present : s[1] = k}

(* A new value, charged to the bucket of its sender. *)
Insert(s, c, exp, sb) ==
    /\ vals' = [vals EXCEPT ![s] = [is |-> c, exp |-> exp, sb |-> sb]]
    /\ total' = total + Size[c]
    /\ count' = count + 1
    /\ used' = [a \in Addr |-> IF a = sb THEN used[a] + Size[c] ELSE used[a]]
    /\ stored' = [a \in Addr |-> [e \in Entry |->
                    IF a = sb /\ e = <<exp, s>> THEN stored[a][e] + 1 ELSE stored[a][e]]]
    /\ UNCHANGED <<drift, fate>>

(* Another value with the id: the bucket of the old value is credited with  *)
(* the size of the new one.                                                 *)
Replace(s, c, exp, sb) ==
    LET old == vals[s]
    IN  /\ vals' = [vals EXCEPT ![s] = [is |-> c, exp |-> exp, sb |-> sb]]
        /\ total' = total + SizeDiff(s, c)
        /\ used' = [a \in Addr |-> used[a] - (IF a = old.sb THEN Size[c] ELSE 0)
                                           + (IF a = sb THEN Size[c] ELSE 0)]
        /\ stored' = [a \in Addr |-> [e \in Entry |->
                        StoredWithout({s})[a][e] + (IF a = sb /\ e = <<exp, s>> THEN 1 ELSE 0)]]
        /\ fate' = IF old.sb = Dangling THEN "undefined" ELSE fate
        /\ Drifts(old.sb # Local)
        /\ UNCHANGED count

storageStore(s, c, exp, sb) ==
    /\ exp >= now
    /\ s[1] \in keys \/ Cardinality(keys) < MaxKeys
    /\ keys' = keys \cup {s[1]}
    /\ quota' = IF sb = Local THEN quota ELSE quota \cup {sb}
    /\ \/ /\ s \in Present
          /\ Replace(s, c, exp, sb)
       \/ /\ s \notin Present /\ Cardinality(ValuesOf(s[1])) < MaxValues
          /\ Insert(s, c, exp, sb)
    /\ jobs' = Schedule(exp, s[1])
    /\ IF Exceeds(total')
       THEN sweep' = "expire" /\ fresh' = [slot |-> s, moved |-> FALSE]
       ELSE UNCHANGED <<sweep, fresh>>
    /\ UNCHANGED <<now, listened>>

(* A value that finds its key full: only the bucket may be new. *)
StoreFull(s, exp, sb) ==
    /\ exp >= now
    /\ s \notin Present /\ Cardinality(ValuesOf(s[1])) >= MaxValues
    /\ s[1] \in keys
    /\ quota' = quota \cup {sb}
    /\ UNCHANGED <<now, keys, listened, vals, total, count, used, stored, jobs,
                   sweep, fresh, drift, fate>>

Idle == sweep = "no"

(* Dht::put by this node; the same value again changes nothing. *)
Put(s, c, permanent) ==
    /\ Idle
    /\ storageStore(s, c, IF permanent THEN Never ELSE now + Ttl, Local)

(* onAnnounce of a value that is new or differs from the stored one, when   *)
(* the policies of its type accept it; its creation date is the sender's.   *)
Announce(s, c, created, a) ==
    /\ Idle /\ created <= now
    /\ s \in Present => vals[s].is # c
    /\ storageStore(s, c, created + Ttl, a) \/ StoreFull(s, created + Ttl, a)

(* onAnnounce of the stored value, and onRefresh: the value lives longer,   *)
(* its bucket is not told.                                                  *)
Refresh(s) ==
    /\ Idle /\ s \in Present
    /\ LET exp == Larger(vals[s].exp, now + Ttl)
       IN  /\ vals' = [vals EXCEPT ![s].exp = exp]
           /\ jobs' = Schedule(exp, s[1])
           /\ Drifts(exp # vals[s].exp /\ vals[s].sb # Local)
    /\ UNCHANGED <<now, keys, listened, total, count, quotas, sweep, fresh, fate>>

(* cancelPut of a value this node announces: storageErase. *)
Erase(s) ==
    /\ Idle /\ s \in Present
    /\ Remove({s})
    /\ UNCHANGED <<now, keys, listened, quota, jobs, sweep, fresh, drift>>

(* Dht::listen and storageAddListener. *)
Listen(k) ==
    /\ Idle /\ k \notin listened
    /\ k \in keys \/ Cardinality(keys) < MaxKeys
    /\ keys' = keys \cup {k}
    /\ listened' = listened \cup {k}
    /\ UNCHANGED <<now, vals, total, count, quotas, jobs, sweep, fresh, drift, fate>>

-----------------------------------------------------------------------------
(* Expiry. *)

Expired == {s \in Present : vals[s].exp <= now}

(* A job that is due: expireStorage.  Old listeners expire with it; the      *)
(* ones that are cancelled may be forgotten here or in the sweep.           *)
ExpireStorage(t, k) ==
    /\ Idle /\ <<t, k>> \in jobs /\ t <= now
    /\ jobs' = jobs \ {<<t, k>>}
    /\ Remove(Expired \cap ValuesOf(k))
    /\ listened' \in {listened, listened \ {k}}
    /\ UNCHANGED <<now, keys, quota, sweep, fresh, drift>>

(* The periodic Dht::expire. *)
Expire ==
    /\ Idle
    /\ sweep' = "expire" /\ fresh' = Nothing
    /\ UNCHANGED <<now, keys, listened, vals, total, count, quotas, jobs, drift, fate>>

(* Mutant of Needed: listeners do not keep a storage. *)
NeededForValues(k) == ValuesOf(k) \ Expired # {}

(* A storage stays while it has values or listeners. *)
Needed(k) == k \in listened' \/ ValuesOf(k) \ Expired # {}

(* expireStore: expired values go, then storages that are empty and have    *)
(* no listeners.                                                            *)
SweepExpired ==
    /\ sweep = "expire"
    /\ sweep' = "discard"
    /\ Remove(Expired)
    /\ \E L \in SUBSET listened : listened' = L
    /\ keys' = {k \in keys : Needed(k)}
    /\ fresh' = [fresh EXCEPT !.moved =
                    @ \/ (fresh.slot # NoValue /\ \E s \in Expired : s[1] = fresh.slot[1])]
    /\ UNCHANGED <<now, quota, jobs, drift>>

AsUnsigned(n) == IF n < 0 THEN n + SizeRange ELSE n

(* The consumer that is discarded from: the largest after the first, in the *)
(* order of addresses, and the earliest of equals; at most one.             *)
Candidates == {a \in quota : \E b \in quota : b < a}
Largest ==
    {a \in Candidates : \A b \in Candidates :
        \/ AsUnsigned(used[a]) > AsUnsigned(used[b])
        \/ AsUnsigned(used[a]) = AsUnsigned(used[b]) /\ a <= b}

(* Mutant of Entries: erased entries are still found. *)
EntriesEver(a) == {e \in Entry : stored[a][e] >= 0}

(* StorageBucket::getOldest. *)
Entries(a) == {e \in Entry : stored[a][e] > 0}

Oldest(a) == {e \in Entries(a) : \A f \in Entries(a) : e[1] <= f[1]}

MakingRoom == sweep = "discard" /\ total > Limit /\ quota # {}

(* One round of the loop: the oldest entry of the consumer names a value. *)
Discard ==
    /\ MakingRoom
    /\ \E a \in Largest : \E e \in Oldest(a) :
         LET s == e[2]
         IN  /\ s \in Present
             /\ Remove({s})
             /\ fresh' = [fresh EXCEPT !.moved =
                   @ \/ (fresh.slot # NoValue /\ s[1] = fresh.slot[1])]
    /\ UNCHANGED <<now, keys, listened, quota, jobs, sweep, drift>>

(* An entry without a value is found again for ever. *)
DiscardForever ==
    /\ MakingRoom
    /\ \E a \in Largest : \E e \in Oldest(a) : e[2] \notin Present
    /\ fate' = "hung"
    /\ UNCHANGED <<now, keys, listened, vals, total, count, quotas, jobs, sweep, fresh, drift>>

(* Without a second consumer, or an entry of it, an end iterator is         *)
(* dereferenced.                                                            *)
DiscardNothing ==
    /\ MakingRoom
    /\ \A a \in Largest : Entries(a) = {}
    /\ fate' = "undefined"
    /\ UNCHANGED <<now, keys, listened, vals, total, count, quotas, jobs, sweep, fresh, drift>>

(* The pointer to the value that was stored is good if the value is still   *)
(* there and no value before it in its vector is gone.                      *)
PointerMayHold == fresh.slot \in Present \cup {NoValue}
PointerMayDangle == fresh.slot # NoValue /\ (fresh.slot \notin Present \/ fresh.moved)

(* The end of expireStore: buckets of size 0 are erased, whatever still     *)
(* points to them; storageStore then uses its pointer.                      *)
SweepEnd ==
    LET unused == {a \in quota : used[a] = 0}
    IN  /\ sweep = "discard" /\ (total <= Limit \/ quota = {})
        /\ sweep' = "no" /\ fresh' = Nothing
        /\ quota' = quota \ unused
        /\ stored' = [a \in Addr |-> IF a \in unused THEN [e \in Entry |-> 0] ELSE stored[a]]
        /\ vals' = [s \in Slot |-> IF \E a \in unused : s \in ChargedTo(a)
                                   THEN [vals[s] EXCEPT !.sb = Dangling] ELSE vals[s]]
        /\ \/ PointerMayHold /\ fate' = fate
           \/ PointerMayDangle /\ fate' = "undefined"
        /\ UNCHANGED <<now, keys, listened, total, count, used, jobs, drift>>

Tick ==
    /\ Idle /\ now < MaxTime
    /\ now' = now + 1
    /\ UNCHANGED <<keys, listened, vals, total, count, quotas, jobs, sweep, fresh, drift, fate>>

-----------------------------------------------------------------------------
Next ==
    /\ fate = "ok"
    /\ \/ \E s \in Slot, c \in Content :
            \/ \E permanent \in BOOLEAN : Put(s, c, permanent)
            \/ \E created \in 0 .. MaxTime, a \in Addr : Announce(s, c, created, a)
       \/ \E s \in Slot : Refresh(s) \/ Erase(s)
       \/ \E k \in Key : Listen(k)
       \/ \E j \in jobs : ExpireStorage(j[1], j[2])
       \/ Expire \/ SweepExpired \/ SweepEnd
       \/ Discard \/ DiscardForever \/ DiscardNothing
       \/ Tick

Spec == Init /\ [][Next]_vars

-----------------------------------------------------------------------------
(* The totals are exact through every store, replacement, expiry and sweep: *)
(* they never underflow, and the limit is tested on what is really stored   *)
(* (dht.cpp:1243).                                                          *)
TotalsExact ==
    /\ total = Cardinality(Bytes(Present))
    /\ count = Cardinality(Present)

(* As long as no charged value is refreshed or replaced, each bucket knows  *)
(* exactly the values charged to it and their size (storage.h:31).          *)
QuotaExact ==
    drift = 0 => \A a \in Addr :
        /\ used[a] = Cardinality(Bytes(ChargedTo(a)))
        /\ \A e \in Entry :
             stored[a][e] = IF e[2] \in ChargedTo(a) /\ IsEntry(e, e[2]) THEN 1 ELSE 0

(* Between operations the limit is exceeded only by values that are charged *)
(* to nobody (dht.cpp:1358).                                                *)
LimitKept ==
    fate = "ok" /\ Idle /\ total > Limit => \A s \in Present : vals[s].sb \notin Addr

(* Every value that expires has a job at its expiration, also after it was  *)
(* refreshed or replaced (dht.cpp:1246, 2497).                              *)
ExpiryScheduled ==
    \A s \in Present : vals[s].exp # Never => <<vals[s].exp, s[1]>> \in jobs

(* The loop that makes room runs for ever only after a charged value was    *)
(* refreshed or replaced (dht.cpp:1372).                                    *)
HangNeedsDrift == fate = "hung" => drift > 0
=============================================================================
