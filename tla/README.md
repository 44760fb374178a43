# Verified Blockchain: a TLA+ development

This directory specifies the consensus protocol of Verified Blockchain (the
C++ library under `verified-blockchain/src`) and the parts of OpenDHT (under
`opendht-2.1.4`) that carry its messages, checks them with TLC on small
instances, and proves their main properties with TLAPS. File and line references
below are relative to `verified-blockchain/src`, and for the modules `Runner`,
`Storage` and `Listen` to `opendht-2.1.4/src`.

## 1. The system

The library is loaded by a host program, one process per user. A process joins
an OpenDHT network, on which the user's id (an InfoHash) is the key where it
receives values. Peers exchange requests and responses; a third peer certifies
that both sides tell the same; verifiers of earlier transactions confirm that
the sides' history is on a chain; verified transactions are recorded in blocks.

| component | state | operations | talks to |
|---|---|---|---|
| `block` | index, time, data, prevHash | constructor, `calculateHash` | sha256 |
| `chain` | static trie `blockchain`, key = block hash | `addBlock`, `getSize` | VTrie |
| `transaction` | static tries `certificationRequests`, `transactionStore` | `out`, `in`, `certify`, `verify`, `verified` | chain, node (DHT put), client |
| `client` | `user`, `sessions`, four listen tokens, a thread handle | `startListening`, `stopListening`, the four listeners, `handleOutboundRequest`, `handleInboundResponse` | node (DHT listen), transaction, asset |
| `asset` | static trie `astore` | `recordRequest`, `recordResponse` (no caller) | token |
| `token` | static trie `cstore` | `transfer`, `transferFrom`, `balanceOf` | VTrie |
| `node` | static `DhtRunner`, worker thread, `nodes` | `start`, `stop`, `export_nodes` | OpenDHT |
| `peer` | `logged`, `public_key`, `userid` | `signup`, `signin`, `signout` | node, client |
| `resource`, `provider` | none | `calculateCost` returns 0; nothing | |
| `DhtRunner` | `running`, two queues of operations, `ongoing_ops`, `shutdownCallbacks_`, `listeners_`, the DHT thread | `run`, `bootstrap`, `get`, `put`, `query`, `listen`, `cancelListen`, `shutdown`, `join` | host threads, Dht |
| `Storage`, `StorageBucket` | values per key, totals, a quota per sender, expiry jobs | `storageStore`, `storageRefresh`, `storageErase`, `storageAddListener`, `expireStorage`, `expireStore` | Dht, other nodes |
| `ValueCache`, `OpCache`, `SearchCache`, `OpValueCache` | values per node, per search and per listener, with reference counts and expiry jobs | `listen`, `cancelListen`, `onValues`, `expireValues`, `expire` | Dht, searches, callbacks |

VTrie (a Patricia trie, only its header is in the repository), OpenDHT (its
source is), msgpack and sha256 are libraries. The bindings are generated by SWIG.

How the parts interact:

1. The host calls `handleOutboundRequest`: `asset::recordRequest` checks that
   the request is not logged and that the user has a via balance, logs it, and
   `transaction::out` puts it at the addressee's key.
2. The addressee's host answers and calls `handleInboundResponse`: the same
   gate, then `transaction::in` puts the response at `sendTo` and a
   certification request at a certifier's key.
3. A certifier's listener runs `certify`: a first request is stored; a second
   is compared with the stored one and the outcome is put at both sides. If
   neither side has previous verifiers, `verified` runs at once.
4. A verifier that listens at a side's key runs `verify` on a certification and
   sends a verdict to the certifier.
5. A certifier that gets a verdict runs `verified`: a block is added, both
   sides get the verdict, and on success it listens for both sides from then on.
6. A side that gets a positive verdict stores the transaction.

Below that, every put, get and listen is an operation that a host thread queues
in the process's one `DhtRunner`. The DHT thread runs it: a put stores the value
in the node's own `Storage` and announces it to others, where it is stored,
refreshed and expired; a listen registers the callback with the node's `Storage`
and with a search per address family, which listens to several nodes and merges
what they tell.

What is hard: handlers of many peers interleave through a network that may
delay, repeat, reorder and lose values, and the code treats arrival and expiry
of a value alike; a process may end inside a handler between a local write and
the sends it queued; tries are built empty in every process; keys differ
between reads and writes; entries may be undecodable. In OpenDHT, host threads
test the state of the runner outside the lock that guards its queues, and
shutdown, join and a new run race with them; a storage at its limit discards
values by quotas that refreshes and replacements falsify; the same value comes
and goes through several nodes and the node's own storage, and callbacks cancel
the listener they are called for. `PROJECT.json` lists these hazards at their lines with the properties that cover them.

What makes each component correct: a chain must be an append-only log with
blocks numbered in order; certification must rest on two requests that agree;
nothing may settle or be chained that was not agreed, and nothing settle that
is not chained; a host that repeats itself must be refused, and certification
asked for only once there is a response. The
runner must answer what it accepted and not call back too often or too early;
a storage must know its size and let nothing outlive its time; a listener must
have been told exactly of what its sources hold.

## 2. Modules

| module | models |
|---|---|
| `Block` | a block, its key, and the trie of blocks as a value (`block.cpp`, `chain.cpp`) |
| `Log` | the abstract promise of a chain: an append-only log |
| `Chain` | one peer's chain as a state machine; refines `Log` |
| `Transaction` | `certify`, `verify`, `verified` and the listeners of `client.cpp`, for a set of peers; uses `Block` for every peer's chain |
| `Token` | the token store as a value and the operations on it |
| `Exchange` | the host's entry points, `recordRequest`, `out`, `in`; uses `Token` |
| `Runner` | `DhtRunner`: host threads, the owner and the DHT thread (`dhtrunner.cpp`) |
| `Storage` | the values a node stores, with limit, quotas and expiry (`storage.h`, `dht.cpp`) |
| `Listen` | from nodes and storage to a listener's callback (`value_cache.h`, `op_cache.h`, `op_cache.cpp`, `search.h`, `dht.cpp`) |
| `MCChain`, `MCTransaction`, `MCExchange`, `MCRunner`, `MCStorage`, `MCListen` | instances for TLC |
| `BlockProofs`, `ChainProofs`, `TransactionProofs`, `ExchangeProofs`, `RunnerProofs`, `StorageProofs`, `ListenProofs` | proofs |

**Block and Chain.** A trie is the set of its block entries; `calculateHash`
is what identifies one. sha256 is taken to be injective, and what is hashed is
kept as it is: index and clock are printed without a separator and without
padding (block.cpp:30). The two together are the number
`index * TimeBase + current_time` only while the clock has a constant number of
digits, as the seconds since 1970 do until the year 2286; runs and theorems are
about such clocks. A clock that gains a digit (as a test with small times would)
can make two blocks share a key: 1 and 12 print as 11 and 2 do. Given the
constant width, that the key is unambiguous is a fact the proofs use, not an
assumption. `Insert` overwrites, as VTrie's does.
`prevHash` is the verifier's id: blocks are ordered by index only. A failed
`Insert` is a stuttering step of `Chain`. A restart empties the trie, since no
code restores its root.

**Transaction.** Values on the DHT are two sets, `certs` and `verdicts`, of
records with the key and the peer that put them. A value stays and may be handled at any time,
again and again, or never: this stands for delay, reordering, repetition
(arrival and expiry both run a handler), loss, and values that cannot be
decoded because they were built from a dangling `c_str()`. Every branch of
`certify` is an action: nothing found and stored (`CertifyStore`), nothing
found and the trie refuses (`CertifyRefuse`), a decision that waits for
verification (`CertifyDecide`), one that does not (`CertifyFinal`, which
includes `verified`). `Verify`, `StoreVerdict` and `RecordVerdict` are the
other listeners. A handler without effect (garbled entry, negative verdict at a
side) is a stuttering step.

`certify` looks up `sha256(pack(hash))` and stores under `hash`. `Digest` is
that function; a stored request is found only by a request whose hash has the
stored one's hash as digest, and the instance has such a pair, since otherwise
no certification would ever happen. The peers never put values of type
"certify" of their own accord (`transaction::in` leaves the type empty), so
those come from outside, a bounded number of them. `ForeignPut` puts a
certifiedTx and `ForeignVerdict` a verifiedTx at any key, and nothing is assumed
of either but that it can be decoded, since no listener looks at the sender.
Two of them reach a side without a certifier between: a verdict put at the
side's own key, and a certification that names the side as `certifying_peer`,
where `verify` sends its verdict (transaction.cpp:288). `Bypassed` is those two,
and `SettledIsChained` names them as its exceptions; it fails without either.

`setting` is chosen once from `Settings` and says under which circumstances the
peers run. With `JoinableAborts` assigning to a joinable `std::thread` ends the
process, as the standard has it, inside `listenForVerifications` and before
anything that was queued is sent; without it the protocol is checked as it works
once these handles are detached. `Failing` and `Forgetful` are the peers whose
tries may refuse writes and may be empty after a restart. The two bounds belong
to the setting too. The three listeners on a peer's own id are there from the
start: see the note at `Init`.

**Token and Exchange.** Balances are read under the account's name and written
under the sha256 of it, so an account has two entries. A missing `return` gives
any value; a sum is wrapped as a 32-bit long of the supported x86 build is.
`Exchange` has one action per entry point and branch. `Nodes` is empty because
`export_nodes` reads from an unpacker that is never fed. `transaction::out` and
`in` decode the last entry of the transaction store, which may throw: then the
request stays logged and nothing is sent. `transaction::in` puts the response
and then the certification request; the process may end after `recordRequest`,
and between the two puts. Restarting with empty tries is an
action of the peers in `Forgetful`; a process that comes back with its tries
is a stuttering step there.

**Runner.** The calls of host threads are constants: `Ops` (get, put,
putSigned, query), `Listens`, `Shutdowns`, and tokens that `stopListening`
cancels although nothing was assigned to them (`Unset`). A call is two steps,
the test of `running` and the part under `storage_mtx`, because everything else
may happen between. The owner runs, bootstraps and joins. The DHT thread is a
program counter over `run`'s loop: `Wake` is the test of the loop, `Take` moves
a queue out under the lock, `Exec` runs one operation, `Periodic` ends the
iteration with whatever status the DHT reports. Results come at any time the
thread works (`Complete`); `opEnded`, `checkShutdown` and the move of the
callbacks are three steps, since host threads change what they read. A
cancellation waits for its future: it is not enabled while the token is pending,
and a broken promise or an invalid future ends the process, because nothing
catches the exception. `peer::signout`, `client::stopListening` and
`node::start` are calls the model allows in any order. The failed
compare-and-swap of a second `shutdown` and its read of `ongoing_ops`
(dhtrunner.cpp:266-267) are one step: what may happen between them may as well
happen before.

**Storage.** A value is content, expiration and the bucket it is charged to. A
bucket is a total and a multiset of entries, and both are updated exactly as
the code does: an entry is erased only if it has the expiration the value has
now, and a replacement credits the size of the new value. `expireStore` is
taken apart into steps: expired values and empty storages, one round of the
discard loop at a time, and the end, which erases buckets of size 0 whatever
still points to them. An endless round and the uses of an end iterator, of an
erased bucket or of a moved value are steps to `fate`, after which the model
makes no claim. `drift` counts what falsifies a bucket, so that the properties
can say what holds without it and what needs it.

**Listen.** One key, one query, three kinds of source. A `ValueCache` per node
is a function from values to expirations; it changes first and then calls back,
which is what `due` holds. An `OpCache` per family counts the caches that hold a
value and tells its listeners of the first and the last; each listener has a
count of its own over storage, IPv4 and IPv6. A callback may return false at
any time it is called, which unregisters the listener everywhere its token is
known. `Dht::listen` is one action with all its refusals: by the callback on
what it is offered, and by a family without a socket. The `DhtException` that
`listenTo` throws when no search can be created is left out.

## 3. Runs

| run | states | what it shows |
|---|---|---|
| `chain` | 4 681 | numbering, no block replaced, refinement of `Log`; up to 4 blocks, two clock readings, two data, two verifiers |
| `transaction` | 319 314 | two settings: detached handles and sound tries, and aborting handles with a certifier whose tries fail and forget. Certification rests on two requests that agree; only agreed transactions settle or are chained; what settles is chained unless it bypassed the certifiers; chains stay numbered |
| `exchange` | 241 920 | two hosts, one request, one of them moving tokens and the other losing its stores, processes that end between two puts: nobody speaks twice, the requestor does not certify, a certification is asked for only after the response; a three-bit long, so that sums overflow |
| `runner` | 217 315 | an operation, two listens, a cancelled token that was never assigned, two shutdowns, two runs of the node: exact count, complete and answered shutdown, answered operations, cancellations that hit their listener and never wait for ever |
| `storage` | 111 900 | two senders and the node itself store values of one and two bytes in a store for two: totals and limit, jobs, exact quotas without drift, and no endless loop without it |
| `listen` | 1 144 855 | two listeners, two nodes in one family and one in the other, with and without sockets and room: counts, what a listener was told, silence after a stop, jobs |
| `runner_join` | violation | a callback left behind by `join` is called by a later run (documentation of `join`, include/opendht/dhtrunner.h:422) |
| `stored_request` | violation | `certify` replaces a stored request by another one with its hash (comments at transaction.cpp:160 and 189) |
| `root_proved` | violation | `verify` cannot prove a known side's root (comment at transaction.cpp:251) |
| `responses_certified` | violation | a requestor never sends a certification request for a response (comment at transaction.cpp:118) |
| `certifier_asked` | violation | a certification request goes to the zero hash, which is the key of no peer (comment at transaction.cpp:145) |
| `spent_balance` | violation | a spent balance opens the gate of `recordRequest` (comment at asset.cpp:23) |

Bounds. `MaxBlocks` stops a chain from growing; 4 in `chain` gives every pair
of index and clock a chance to collide, 3 in `transaction` is one more than the
two requests and one certification of a scenario record. `MaxForeign` is 3 in
the detached setting, which allows two requests that agree and a third value
that differs, is repeated, certifies or verifies; 2 is enough with faults, where
restarts multiply states. The values from outside are requests at the certifier
and at a side, certifications by the certifier and by a side, and verdicts at
the certifier and at a side.
Three peers are two sides and a certifier; a fourth would be another certifier
that works like the first. One hash pair is enough because requests with
unrelated hashes touch different keys. In `exchange` requests are independent
(each has its own log entry), so one is enough, and the balances are the
boundary cases of the gate and of the long.

In `runner`, `Casts` names the sets of calls that happen together: two
shutdowns with an operation they must wait for; two listens, whose tokens could
be confused; one call of each kind; a listen beside a token never assigned.
`MaxRuns = 2` is what it takes for a call of one run to meet the next. In
`storage`, two addresses are needed because the first is never discarded from;
three ids and `MaxValues = 2` let a key be full; one tick is a whole lifetime;
`MaxDrift = 1` suffices for an entry without a value. In `listen`, `Scenes`
names what takes part: every choice of sockets and room with one value and both
listeners, and a cache that overflows with one listener; `MaxSeen` stops a value
that leaves the storage unannounced from being counted for ever, and two ticks
reach both sides of a lifetime and of a grace period. Symmetry is used where
nothing tells elements apart: keys and ids in `storage`, the two nodes of one
family in `listen`; both runs check invariants only.

Deadlock is not checked in the three runs: clocks and calls are bounded, and
the models end at `dead` or at a `fate` that is not ok.

Every property of a passing run has a mutant of the code, listed in
`PROJECT.json`, that breaks it; mutants are defined before what they change.

Fairness. The safety runs assume none: a value may never be delivered and a
host may never act. `FairSpec` in `Exchange` is used by `responses_certified`
only: a host for which handling a response is possible eventually handles one.
The listener delivers every value while it is on, and the assumption favours
the claim that is refuted; in the counterexample the response is refused by
`recordRequest`, and no process ends. `FairSpec` in `Runner` is used by `runner`: a thread
that can go on does (the DHT thread, and a host thread that is past its test);
a get or put in flight is reported when the thread works often enough, which
the timeouts of requests and searches see to (strong fairness, since the thread
also waits); and the status does not stay Connecting for ever, because pings
are answered or expire. Nobody is assumed to call anything.

## 4. Proofs

All for any sets of peers, hashes, terms, requests and amounts, any digest that
is injective and has no fixed point, any clock with a constant number of
digits, any width of long, any set of failing and forgetful peers, any values
and verdicts from outside, any calls of host threads and any number of runs and joins, any
nodes, values and listeners, and for the constants' named assumptions only.

* `BlockProofs`: adding a block to a numbered trie gives a numbered trie with
  one more block and replaces nothing. The key of the new block differs from
  all others because `index * TimeBase + time` with `time < TimeBase`
  determines the index, and the index is new.
* `ChainProofs`: `ChainInv` is type, finiteness and numbering. `TypeOK` alone is not
  inductive, since the number of the next block is a cardinality.
  `ChainIsLog` shows the refinement: initial states map to the empty log, and
  `addBlock` maps to one `Record`, because the positions of old blocks keep
  their blocks.
* `TransactionProofs`, in three layers. `Base`: types and numbering of every
  chain. `Provenance`: whatever the peers put or hold as a request has an origin
  outside with the same hash, terms and freshness; positive certifications are
  backed by two such requests; "certified" values come from outside only.
  `CertifiedByTwo` follows from this and is not inductive without it, since a
  stored request may be a reply that was certified again. `Settlement`: every
  positive verdict on the DHT is agreed, and one at a side's key is on a chain
  or bypassed the certifiers; `SettledIsAgreed`, `ChainedIsAgreed` and
  `SettledIsChained` follow only together with this, because what a side stores
  or a certifier chains is a verdict that was on its way. The proof uses an
  abstract step, `Moves`, that each action is shown to be.
* `ExchangeProofs`: `Inv` adds to the properties that whatever a lasting peer
  has put is logged (`Logged`), without which nothing keeps it from speaking
  again. Each action is one of three kinds of step: log and put, move tokens,
  restart.
* `StorageProofs`: all six properties of `Storage`, for any finite sets of keys,
  ids and senders, any sizes, limits and lifetimes. `Inv` is the properties and
  `ChargedKnown`: a value that is charged is charged to a bucket that exists,
  without which `LimitKept` does not survive the end of a sweep that found no
  bucket. Memory is counted byte by byte, so sums of sizes are cardinalities
  and the library's facts on unions and differences apply. Each action erases
  values, writes one slot, or leaves values and books alone; `RemoveKeeps`,
  `WrittenSlots` and `UntouchedInv` say once what each kind keeps. `HangNeedsDrift`
  rests on `QuotaExact`: an exact bucket has no entry without a value.

* `RunnerProofs`: all safety properties of `Runner`, one invariant for each
  concern, all on top of `TypeOK`. `ThreadInv` ties the thread to `running`: it
  is off before a run, and has no batch while it waits. `QueueInv` is the
  discipline of the queues: a counted call is at most once in the two queues and
  the batch together, and while it is there its state is queued. `OngoingExact`
  needs it: executing a call that another run dropped or finished would change
  its state without the count. `CallbackInv`: a callback waits
  once, was not called, and the call of a shutdown that has not decided yet left
  none; hence `CalledOnce`. `TokenInv`: a token that names a listener names that
  of its own listen, because tokens are never given twice, not even after a
  join; hence `CancelsOwnListener`. `PromiseInv`: a promise that is pending has
  its listen in a queue, and ahead of every cancellation that waits for it, in
  the same queue or in the batch the thread has; hence `CancelNeverBlocks`. The
  thread takes a whole queue at a time, which is why the order survives.
* `ListenProofs`: all six properties of `Listen`. `TypeOK` needs `SyncExact`,
  without which a counter of nodes could go below zero. `RefInv` is
  `RefCountExact` in the middle of the callbacks: a count and the additions due
  equal the caches that hold the value and the removals due. `SeenInv` does the
  same for a listener: its count is the number of sources, out of the storage
  and the two searches, that hold the value and have the listener, in every
  state; it takes the reference counts as they are, and only the last step of
  `SeenIsHeld` uses `RefInv` to say which nodes hold the value. `Registered` says
  what statuses the listeners of each source have; `StoppedSilent` follows, and
  a new listener is nowhere yet. `ExpiryScheduled` is inductive with `RefInv` and
  `LiveInv` (every node listened to feeds an OpCache): a search whose OpCache is
  new holds nothing, so it cannot refuse the listener it was made for and be
  left without listeners and without a job. `ListenEffect` states once what
  `Dht::listen` does, for all its refusals. That the job of a cache is the
  earliest expiration rests on the library's theorem that a well-founded
  relation has minimal elements.

A proof corrected the model: the initial promise of a token that is never
assigned was given by two cases of a CASE that overlapped.

Only model-checked: the violations, and `ResponsesCertified`, `ShutdownAnswered`
and `OpAnswered`, which are liveness properties under fairness.

## 5. Not modelled

* `peer::signup` and `signin`, `client::startListening`, `node::stop`: each ends
  the process or blocks for ever on every call (a local `node` with a joinable
  thread is destroyed, a second thread is assigned to a joinable handle, a
  worker that never ends is joined), so no later state is left to say anything
  about. What they would drive, `run`, `bootstrap`, `listen`, `cancelListen`,
  `shutdown` and `join` of the runner, is in `Runner`.
* OpenDHT's searches, routing table, requests and packets: seen from above, as
  values that arrive late, repeatedly or never, and nodes that come and go. Its
  proxy, peer discovery and indexation are not used by the program; its
  cryptography, HTTP and sockets are I/O.
* `recordResponse` and `resource`: no caller; `recordResponse` cannot decode
  what `recordRequest` stores, because the entry begins with the packed sender.
* Concurrent access to a static trie by the host's and the DHT's thread: the
  trie's implementation is not in the repository.
* The contents of messages beyond what handlers compare, time stamps, message
  formats, cryptography, the bindings.

## 6. Plan

Done: `Block`, `Log`, `Chain`, `Transaction`, `Token`, `Exchange`, `Runner`,
`Storage` and `Listen`, with proofs of all their invariants and action
properties.

1. The retries of a request (`request.h`, `network_engine.cpp`) and a search's
   choice of nodes, which `Listen` and `Runner` take as nondeterministic.
2. What `drift` costs at most: a bound on the error of a bucket in `Storage`.
