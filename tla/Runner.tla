------------------------------- MODULE Runner -------------------------------
(***************************************************************************)
(* The thread that drives the DHT node: dht::DhtRunner, of which node keeps *)
(* the process's one instance.  Threads of the host hand it operations      *)
(* through two queues; the DHT thread runs them, and a counter of ongoing   *)
(* operations tells when a shutdown is complete.                            *)
(*                                                                         *)
(* One owner thread calls run and join; any number of others call get,      *)
(* put, putSigned or query (an operation), listen, cancelListen, bootstrap  *)
(* and shutdown.  The test of the state that opens most of these calls is   *)
(* not under the lock that guards the queues, and is a step of its own.     *)
(* There is no proxy server (the program configures none), so shutdown ends *)
(* one DHT.  The wait of the thread ends at the next job of the DHT's       *)
(* scheduler, which always has one, so a notification that comes too early  *)
(* only delays it.                                                          *)
(***************************************************************************)
EXTENDS Integers, Sequences, FiniteSets

CONSTANTS
    Ops,        \* calls of get, put, putSigned and query
    Listens,    \* calls of listen, each with the promise of its token
    Shutdowns,  \* calls of shutdown, each with its callback
    Unset,      \* tokens cancelled although no listen was assigned to them
    Casts,      \* sets of calls that happen together; the others were made,
                \* and refused, before the node first ran
    MaxRuns     \* how often the owner starts the node

ASSUME OpsAssumption == IsFiniteSet(Ops) /\ IsFiniteSet(Shutdowns)
ASSUME DistinctAssumption == Ops \cap Shutdowns = {}
ASSUME UnsetAssumption == Unset \subseteq Listens
ASSUME BoundAssumption == MaxRuns \in Nat

(* What ongoing_ops counts. *)
Counted == Ops \cup Shutdowns

VARIABLES
    running,         \* State: Idle, Running or Stopping
    runs,            \* calls of run so far, the generation of dht_
    connecting,      \* getStatus() is Connecting
    pending,         \* pending_ops
    prio,            \* pending_ops_prio
    batch,           \* the queue loop_ has taken and is executing
    ongoing,         \* ongoing_ops
    st,              \* what became of each counted call
    cbs,             \* shutdownCallbacks_
    calls,           \* per shutdown, how often its callback was called
    left,            \* the shutdowns whose callbacks a join left behind
    promise, token,  \* per listen, the promise of its token, and the token
    held,            \* the listens whose future the host holds
    listeners,       \* listeners_, from tokens to listens
    listener_token,  \* listener_token_
    pc,              \* the DHT thread
    ending,          \* where it is in opEnded
    call,            \* the owner's call that has not returned: start or join
    dead             \* an exception left the thread: the process has ended

calling == <<st, calls, left, promise, token, held>>
queues == <<pending, prio, ongoing, cbs>>
thread == <<pc, batch, ending, connecting, dead>>
registry == <<listeners, listener_token>>
owner == <<running, runs, call>>
vars == <<calling, queues, thread, registry, owner>>

NoToken == 0
Stage == {"none", "refused", "passed", "again", "queued", "flight", "done", "dropped"}
Promise == {"unset", "none", "passed", "pending", "set", "broken"}
Work ==
    [kind: {"op"}, of: Ops] \cup [kind: {"listen", "cancel"}, of: Listens]
    \cup [kind: {"cancelToken"}, of: Nat] \cup [kind: {"shutdown"}, of: Shutdowns]
    \cup [kind: {"bootstrap"}, of: {NoToken}]

TypeOK ==
    /\ running \in {"Idle", "Running", "Stopping"}
    /\ runs \in Nat
    /\ connecting \in BOOLEAN
    /\ pending \in Seq(Work) /\ prio \in Seq(Work) /\ batch \in Seq(Work)
    /\ ongoing \in Int
    /\ st \in [Counted -> Stage]
    /\ cbs \in Seq(Shutdowns)
    /\ calls \in [Shutdowns -> Nat] /\ left \subseteq Shutdowns
    /\ promise \in [Listens -> Promise] /\ token \in [Listens -> Nat]
    /\ held \subseteq Listens
    /\ listener_token \in Nat \ {NoToken}
    /\ DOMAIN listeners \subseteq 1 .. listener_token - 1
    /\ listeners \in [DOMAIN listeners -> Listens]
    /\ pc \in {"off", "wait", "take", "exec"}
    /\ ending \in {"no", "check", "take"}
    /\ call \in {"none", "start", "join"} /\ dead \in BOOLEAN

Init ==
    /\ running = "Idle" /\ runs = 0 /\ connecting = FALSE
    /\ pending = <<>> /\ prio = <<>> /\ batch = <<>> /\ ongoing = 0
    /\ cbs = <<>> /\ left = {}
    /\ \E cast \in Casts :
         /\ st = [x \in Counted |-> IF x \in cast THEN "none" ELSE "refused"]
         /\ calls = [s \in Shutdowns |-> IF s \in cast THEN 0 ELSE 1]
         /\ promise = [l \in Listens |-> CASE l \in Unset -> "unset"
                                            [] l \in cast \ Unset -> "none"
                                            [] OTHER -> "set"]
         /\ held = Unset \cap cast
    /\ token = [l \in Listens |-> NoToken]
    /\ listeners = <<>> /\ listener_token = 1
    /\ pc = "off" /\ ending = "no" /\ call = "none" /\ dead = FALSE

-----------------------------------------------------------------------------
(* Calls of the host's threads. *)

(* get, put, putSigned, query: refused at once unless the node runs. *)
OpCheck(o) ==
    /\ st[o] = "none"
    /\ st' = [st EXCEPT ![o] = IF running = "Running" THEN "passed" ELSE "refused"]
    /\ UNCHANGED <<calls, left, promise, token, held, queues, thread, registry, owner>>

(* ... and then counted and queued under the lock. *)
OpEnqueue(o) ==
    /\ st[o] = "passed"
    /\ st' = [st EXCEPT ![o] = "queued"]
    /\ ongoing' = ongoing + 1
    /\ pending' = Append(pending, [kind |-> "op", of |-> o])
    /\ UNCHANGED <<calls, left, promise, token, held, prio, cbs, thread, registry, owner>>

(* listen: token 0 at once unless the node runs. *)
ListenCheck(l) ==
    /\ promise[l] = "none"
    /\ IF running = "Running"
       THEN promise' = [promise EXCEPT ![l] = "passed"] /\ UNCHANGED held
       ELSE promise' = [promise EXCEPT ![l] = "set"] /\ held' = held \cup {l}
    /\ UNCHANGED <<st, calls, left, token, queues, thread, registry, owner>>

ListenEnqueue(l) ==
    /\ promise[l] = "passed"
    /\ promise' = [promise EXCEPT ![l] = "pending"]
    /\ held' = held \cup {l}
    /\ pending' = Append(pending, [kind |-> "listen", of |-> l])
    /\ UNCHANGED <<st, calls, left, token, prio, ongoing, cbs, thread, registry, owner>>

(* Mutant of CancelListen: the cancellation is a priority operation. *)
CancelListenFirst(l) ==
    /\ l \in held
    /\ held' = held \ {l}
    /\ prio' = Append(prio, [kind |-> "cancel", of |-> l])
    /\ UNCHANGED <<st, calls, left, promise, token, pending, ongoing, cbs, thread, registry, owner>>

(* cancelListen with a future, which the call takes over; it is queued      *)
(* whatever the state of the node.  client::stopListening passes its tokens *)
(* also when no listen was assigned to them.                                *)
CancelListen(l) ==
    /\ l \in held
    /\ held' = held \ {l}
    /\ pending' = Append(pending, [kind |-> "cancel", of |-> l])
    /\ UNCHANGED <<st, calls, left, promise, token, prio, ongoing, cbs, thread, registry, owner>>

(* shutdown: the first caller stops the node; a later one waits with it if  *)
(* operations are ongoing and is otherwise answered at once.                *)
Shutdown(s) ==
    /\ st[s] = "none"
    /\ \/ /\ running = "Running"
          /\ running' = "Stopping"
          /\ st' = [st EXCEPT ![s] = "passed"]
          /\ UNCHANGED calls
       \/ /\ running = "Stopping" /\ ongoing # 0
          /\ st' = [st EXCEPT ![s] = "again"]
          /\ UNCHANGED <<running, calls>>
       \/ /\ running = "Idle" \/ (running = "Stopping" /\ ongoing = 0)
          /\ st' = [st EXCEPT ![s] = "refused"]
          /\ calls' = [calls EXCEPT ![s] = @ + 1]
          /\ UNCHANGED running
    /\ UNCHANGED <<runs, call, left, promise, token, held, queues, thread, registry>>

ShutdownEnqueue(s) ==
    /\ st[s] = "passed"
    /\ st' = [st EXCEPT ![s] = "queued"]
    /\ ongoing' = ongoing + 1
    /\ cbs' = Append(cbs, s)
    /\ prio' = Append(prio, [kind |-> "shutdown", of |-> s])
    /\ UNCHANGED <<calls, left, promise, token, held, pending, thread, registry, owner>>

ShutdownWait(s) ==
    /\ st[s] = "again"
    /\ st' = [st EXCEPT ![s] = "done"]
    /\ cbs' = Append(cbs, s)
    /\ UNCHANGED <<calls, left, promise, token, held, pending, prio, ongoing, thread, registry, owner>>

-----------------------------------------------------------------------------
(* The owner. *)

(* node::start runs the node ... *)
Run ==
    /\ running = "Idle" /\ call = "none" /\ runs < MaxRuns
    /\ call' = "start"
    /\ running' = "Running"
    /\ runs' = runs + 1
    /\ pc' = "wait"
    /\ UNCHANGED <<calling, queues, batch, ending, connecting, dead, registry>>

(* ... and then has it contact a known node. *)
Bootstrap ==
    /\ call = "start"
    /\ call' = "none"
    /\ prio' = Append(prio, [kind |-> "bootstrap", of |-> NoToken])
    /\ UNCHANGED <<running, runs, calling, pending, ongoing, cbs, thread, registry>>

(* join takes dht_mtx, which the thread holds while it works. *)
JoinStart ==
    /\ call = "none" /\ running # "Idle" /\ pc # "exec"
    /\ running' = "Idle"
    /\ call' = "join"
    /\ UNCHANGED <<runs, calling, queues, thread, registry>>

(* Mutant of OngoingAfterJoin: the count survives the join. *)
OngoingKept == ongoing

(* join resets ongoing_ops with the queues. *)
OngoingAfterJoin == 0

(* Mutant of TokenAfterJoin: tokens start again with each run. *)
TokenReset == 1

(* resetDht empties listeners_ and lets listener_token_ count on. *)
TokenAfterJoin == listener_token

(* Once the thread has ended: the queues and the DHT go, with the promises *)
(* of the listens they hold; shutdownCallbacks_ and listener_token_ stay.  *)
JoinFinish ==
    /\ call = "join" /\ pc = "off"
    /\ call' = "none"
    /\ pending' = <<>> /\ prio' = <<>> /\ ongoing' = OngoingAfterJoin
    /\ st' = [x \in Counted |-> IF st[x] \in {"queued", "flight"} THEN "dropped" ELSE st[x]]
    /\ promise' = [l \in Listens |-> IF promise[l] = "pending" THEN "broken" ELSE promise[l]]
    /\ listeners' = <<>> /\ listener_token' = TokenAfterJoin
    /\ connecting' = FALSE
    /\ left' = left \cup {cbs[i] : i \in DOMAIN cbs}
    /\ UNCHANGED <<calls, token, held, cbs, pc, batch, ending, dead, running, runs>>

-----------------------------------------------------------------------------
(* The DHT thread. *)

Wake ==
    /\ pc = "wait"
    /\ pc' = IF running = "Idle" THEN "off" ELSE "take"
    /\ UNCHANGED <<batch, ending, connecting, dead, calling, queues, registry, owner>>

(* Mutant of OrdinaryTurn: ordinary operations run while connecting. *)
OrdinaryTurnInverted == prio = <<>> /\ connecting

(* Ordinary operations have their turn only when no priority operation     *)
(* waits and the node is not just connecting.                              *)
OrdinaryTurn == prio = <<>> /\ ~connecting

(* loop_ takes all of one queue. *)
Take ==
    /\ pc = "take"
    /\ pc' = "exec"
    /\ IF OrdinaryTurn
       THEN batch' = pending /\ pending' = <<>> /\ UNCHANGED prio
       ELSE batch' = prio /\ prio' = <<>> /\ UNCHANGED pending
    /\ UNCHANGED <<ending, connecting, dead, calling, ongoing, cbs, registry, owner>>

Without(t) == [u \in DOMAIN listeners \ {t} |-> listeners[u]]

(* Mutant of NextToken: the token is not advanced. *)
SameToken == listener_token

(* listener_token_++. *)
NextToken == listener_token + 1

(* The operation of a listen: a fresh token, which its promise gets. *)
RunListen(l) ==
    /\ listeners' = [t \in DOMAIN listeners \cup {listener_token} |->
                        IF t = listener_token THEN l ELSE listeners[t]]
    /\ listener_token' = NextToken
    /\ promise' = [promise EXCEPT ![l] = "set"]
    /\ token' = [token EXCEPT ![l] = listener_token]
    /\ UNCHANGED <<st, calls, left, held, dead>>

(* The operation of a cancelListen: future::get waits for a token that is   *)
(* pending and throws when the promise is gone or there never was one.      *)
RunCancel(w) ==
    /\ w.kind = "cancel" => promise[w.of] # "pending"
    /\ dead' = (w.kind = "cancel" /\ promise[w.of] \in {"broken", "unset"})
    /\ listeners' = IF dead' THEN listeners
                    ELSE Without(IF w.kind = "cancel" THEN token[w.of] ELSE w.of)
    /\ UNCHANGED <<calling, listener_token>>

(* Operations and the shutdown are now with the DHT, which reports later. *)
RunCounted(x) ==
    /\ st' = [st EXCEPT ![x] = "flight"]
    /\ UNCHANGED <<calls, left, promise, token, held, registry, dead>>

Exec ==
    /\ pc = "exec" /\ ending = "no" /\ batch # <<>>
    /\ LET w == Head(batch)
       IN  CASE w.kind \in {"op", "shutdown"} -> RunCounted(w.of)
             [] w.kind = "listen" -> RunListen(w.of)
             [] w.kind = "bootstrap" -> UNCHANGED <<calling, registry, dead>>
             [] OTHER -> RunCancel(w)
    /\ batch' = Tail(batch)
    /\ UNCHANGED <<pc, ending, connecting, queues, owner>>

(* Mutant of LastEnded: the counter is tested before it is decremented. *)
LastEndedEarly == ongoing = 0

(* opEnded: --ongoing_ops == 0. *)
LastEnded == ongoing - 1 = 0

(* A result: the callback bound by bindOpDoneCallback, and opEnded. *)
Complete(x) ==
    /\ pc = "exec" /\ ending = "no"
    /\ st[x] = "flight"
    /\ st' = [st EXCEPT ![x] = "done"]
    /\ ongoing' = ongoing - 1
    /\ ending' = IF LastEnded THEN "check" ELSE "no"
    /\ UNCHANGED <<pc, batch, connecting, dead, calls, left, promise, token, held, pending, prio, cbs, registry, owner>>

(* Mutant of Drained: the counter is not read again. *)
DrainedUnread == running = "Stopping"

(* The test of checkShutdown. *)
Drained == running = "Stopping" /\ ongoing = 0

CheckShutdown ==
    /\ ending = "check"
    /\ ending' = IF Drained THEN "take" ELSE "no"
    /\ UNCHANGED <<pc, batch, connecting, dead, calling, queues, registry, owner>>

(* Mutant of CallbacksLeft: the callbacks are copied, not moved. *)
CallbacksCopied == cbs

(* checkShutdown moves shutdownCallbacks_ out. *)
CallbacksLeft == <<>>

TakeCallbacks ==
    /\ ending = "take"
    /\ ending' = "no"
    /\ cbs' = CallbacksLeft
    /\ calls' = [s \in Shutdowns |->
                    calls[s] + Cardinality({i \in DOMAIN cbs : cbs[i] = s})]
    /\ UNCHANGED <<pc, batch, connecting, dead, st, left, promise, token, held, pending, prio, ongoing, registry, owner>>

(* A value callback that returns false cancels its listener by token. *)
Decline(t) ==
    /\ pc = "exec" /\ batch = <<>> /\ ending = "no"
    /\ t \in DOMAIN listeners
    /\ LET w == [kind |-> "cancelToken", of |-> t]
       IN  /\ \A i \in DOMAIN pending : pending[i] # w   \* once per token
           /\ pending' = Append(pending, w)
    /\ UNCHANGED <<calling, prio, ongoing, cbs, thread, registry, owner>>

(* The end of loop_: the status the DHT reports, and the wait. *)
Periodic ==
    /\ pc = "exec" /\ batch = <<>> /\ ending = "no"
    /\ connecting' \in BOOLEAN
    /\ pc' = "wait"
    /\ UNCHANGED <<batch, ending, dead, calling, queues, registry, owner>>

-----------------------------------------------------------------------------
DhtThread ==
    \/ Wake \/ Take \/ Exec \/ CheckShutdown \/ TakeCallbacks \/ Periodic

Host ==
    \/ \E o \in Ops : OpCheck(o) \/ OpEnqueue(o)
    \/ \E l \in Listens : ListenCheck(l) \/ ListenEnqueue(l) \/ CancelListen(l)
    \/ \E s \in Shutdowns : Shutdown(s) \/ ShutdownEnqueue(s) \/ ShutdownWait(s)

Next ==
    /\ ~dead
    /\ \/ Host
       \/ Run \/ Bootstrap \/ JoinStart \/ JoinFinish
       \/ DhtThread
       \/ \E x \in Counted : Complete(x)
       \/ \E t \in DOMAIN listeners : Decline(t)

Spec == Init /\ [][Next]_vars

(* The thread and the calls that are past their test go on; a search or a   *)
(* put in flight ends, at the latest by its timeouts; and the status does   *)
(* not stay Connecting: pings are answered or expire.                       *)
Fairness ==
    /\ WF_vars(~dead /\ DhtThread)
    /\ \A o \in Ops : WF_vars(~dead /\ OpEnqueue(o))
    /\ \A s \in Shutdowns : WF_vars(~dead /\ ShutdownEnqueue(s))
    /\ \A x \in Counted : SF_vars(~dead /\ Complete(x))
    /\ SF_vars(~dead /\ Periodic /\ ~connecting')

FairSpec == Spec /\ Fairness

-----------------------------------------------------------------------------
(* The counter of opEnded (dhtrunner.cpp:291) is exact through every race   *)
(* of calls, results, shutdown and join: it counts the calls that are       *)
(* queued or with the DHT, so it neither underflows nor sticks.             *)
OngoingExact ==
    ongoing = Cardinality({x \in Counted : st[x] \in {"queued", "flight"}})

(* Shutdown callbacks are called only when, at the test in checkShutdown,   *)
(* no operation was queued or in flight (dhtrunner.cpp:313).                *)
ShutdownDrained ==
    [][ending = "check" /\ ending' = "take" =>
         \A x \in Counted : st[x] \notin {"queued", "flight"}]_vars

(* A callback given to shutdown is called at most once, whatever joins and  *)
(* runs follow (dhtrunner.cpp:263).                                         *)
CalledOnce == \A s \in Shutdowns : calls[s] <= 1

(* The thread never waits in future::get for a token that only it could     *)
(* provide: the listen ran, or was dropped, before its cancellation runs    *)
(* (dhtrunner.cpp:794).                                                     *)
CancelNeverBlocks ==
    \A i \in DOMAIN batch :
        batch[i].kind = "cancel" /\ promise[batch[i].of] = "pending" =>
            \E j \in 1 .. i - 1 : batch[j] = [kind |-> "listen", of |-> batch[i].of]

(* A cancellation removes the listener it was made for and no other, also   *)
(* when it comes from before a join and runs in a later run, where tokens   *)
(* of the earlier one mean nothing (dhtrunner.cpp:794).                     *)
CancelsOwnListener ==
    [][\A t \in DOMAIN listeners \ DOMAIN listeners' :
         pc = "exec" /\ Head(batch).kind = "cancel" => listeners[t] = Head(batch).of]_vars

(* The callback of the call that stopped the node is called, unless a join  *)
(* takes the node away (dhtrunner.cpp:274).                                 *)
ShutdownAnswered ==
    \A s \in Shutdowns :
        st[s] = "passed" /\ running = "Stopping" ~>
            calls[s] > 0 \/ running # "Stopping" \/ dead

(* An operation that was accepted is answered, unless a join comes first:   *)
(* priority operations and a node that is connecting hold it back, but not  *)
(* for ever (dhtrunner.cpp:622).                                            *)
OpAnswered ==
    \A o \in Ops : st[o] = "passed" ~> st[o] = "done" \/ running = "Idle" \/ dead

(* What the documentation of join says: no callback is called after it has  *)
(* returned.                                                                *)
NoCallbackAfterJoin ==
    [][\A s \in Shutdowns : calls'[s] > calls[s] => s \notin left]_vars
=============================================================================
