---------------------------- MODULE RunnerProofs ----------------------------
(***************************************************************************)
(* What holds of the runner for any number of calls, threads, runs and      *)
(* joins.                                                                   *)
(***************************************************************************)
EXTENDS Runner, FiniteSetTheorems, SequenceTheorems, TLAPS

(* The queued calls, by kind. *)
LEMMA WorkKinds ==
    ASSUME NEW w \in Work
    PROVE  /\ w.kind \in {"op", "listen", "cancel", "cancelToken", "shutdown", "bootstrap"}
           /\ w.kind = "op" => w.of \in Ops
           /\ w.kind \in {"listen", "cancel"} => w.of \in Listens
           /\ w.kind = "cancelToken" => w.of \in Nat
           /\ w.kind = "shutdown" => w.of \in Shutdowns
BY DEF Work

(* ... and back. *)
LEMMA WorkOf ==
    /\ \A o \in Ops : [kind |-> "op", of |-> o] \in Work
    /\ \A l \in Listens : [kind |-> "listen", of |-> l] \in Work /\ [kind |-> "cancel", of |-> l] \in Work
    /\ \A s \in Shutdowns : [kind |-> "shutdown", of |-> s] \in Work
    /\ \A t \in Nat : [kind |-> "cancelToken", of |-> t] \in Work
    /\ [kind |-> "bootstrap", of |-> NoToken] \in Work
BY DEF Work

(* The positions of a sequence where something is found are finitely many. *)
LEMMA PositionsFinite ==
    ASSUME NEW S, NEW q \in Seq(S), NEW P \in SUBSET DOMAIN q
    PROVE  IsFiniteSet(P) /\ Cardinality(P) \in Nat
<1>1. DOMAIN q = 1 .. Len(q) /\ Len(q) \in Nat
  BY LenProperties
<1>2. IsFiniteSet(1 .. Len(q))
  BY <1>1, FS_Interval
<1>3. IsFiniteSet(P)
  BY <1>1, <1>2, FS_Subset
<1>. QED  BY <1>3, FS_CardinalityType

(* An operation that the thread executes, by kind. *)
LEMMA ExecKinds ==
    ASSUME TypeOK, Exec
    PROVE  LET w == Head(batch)
           IN  /\ w \in Work /\ batch # <<>> /\ pc = "exec" /\ batch' = Tail(batch)
               /\ UNCHANGED <<pc, ending, connecting, queues, owner>>
               /\ \/ w.kind \in {"op", "shutdown"} /\ w.of \in Counted /\ RunCounted(w.of)
                  \/ w.kind = "listen" /\ w.of \in Listens /\ RunListen(w.of)
                  \/ w.kind = "bootstrap" /\ UNCHANGED <<calling, registry, dead>>
                  \/ w.kind \in {"cancel", "cancelToken"} /\ RunCancel(w)
<1>. DEFINE w == Head(batch)
<1>1. w \in Work
  BY HeadTailProperties DEF Exec, TypeOK
<1>2. /\ w.kind \in {"op", "listen", "cancel", "cancelToken", "shutdown", "bootstrap"}
      /\ w.kind \in {"op", "shutdown"} => w.of \in Counted
      /\ w.kind = "listen" => w.of \in Listens
  BY <1>1, WorkKinds DEF Counted
<1>3. CASE w.kind \in {"op", "shutdown"}
  BY <1>1, <1>2, <1>3 DEF Exec
<1>4. CASE w.kind = "listen"
  BY <1>1, <1>2, <1>4 DEF Exec
<1>5. CASE w.kind = "bootstrap"
  BY <1>1, <1>2, <1>5 DEF Exec
<1>6. CASE w.kind \in {"cancel", "cancelToken"}
  BY <1>1, <1>2, <1>6 DEF Exec
<1>. QED  BY <1>2, <1>3, <1>4, <1>5, <1>6

-----------------------------------------------------------------------------
(* Types. *)

(* Initial states. *)
LEMMA TypeInit == Init => TypeOK
<1>. SUFFICES ASSUME Init  PROVE  TypeOK
  OBVIOUS
<1>1. PICK cast \in Casts :
         /\ st = [x \in Counted |-> IF x \in cast THEN "none" ELSE "refused"]
         /\ calls = [s \in Shutdowns |-> IF s \in cast THEN 0 ELSE 1]
         /\ promise = [l \in Listens |-> CASE l \in Unset -> "unset"
                                            [] l \in cast \ Unset -> "none"
                                            [] OTHER -> "set"]
         /\ held = Unset \cap cast
  BY DEF Init
<1>2. st \in [Counted -> Stage] /\ calls \in [Shutdowns -> Nat] /\ held \subseteq Listens
  BY <1>1, UnsetAssumption DEF Stage
<1>3. promise \in [Listens -> Promise]
  BY <1>1 DEF Promise
<1>4. <<>> \in Seq(Work) /\ <<>> \in Seq(Shutdowns)
  BY EmptySeq
<1>5. DOMAIN listeners \subseteq 1 .. listener_token - 1 /\ listeners \in [DOMAIN listeners -> Listens]
  BY DEF Init
<1>6. /\ running = "Idle" /\ runs = 0 /\ connecting = FALSE
      /\ pending = <<>> /\ prio = <<>> /\ batch = <<>> /\ ongoing = 0
      /\ cbs = <<>> /\ left = {} /\ listener_token = 1
      /\ pc = "off" /\ ending = "no" /\ call = "none" /\ dead = FALSE
  BY DEF Init
<1>7. token \in [Listens -> Nat]
  BY DEF Init, NoToken
<1>8. pending \in Seq(Work) /\ prio \in Seq(Work) /\ batch \in Seq(Work) /\ cbs \in Seq(Shutdowns)
  BY <1>4, <1>6
<1>9. /\ running \in {"Idle", "Running", "Stopping"} /\ runs \in Nat
      /\ ongoing \in Int /\ left \subseteq Shutdowns /\ listener_token \in Nat \ {NoToken}
      /\ pc \in {"off", "wait", "take", "exec"} /\ ending \in {"no", "check", "take"}
      /\ call \in {"none", "start", "join"}
  BY <1>6 DEF NoToken
<1>10. connecting \in BOOLEAN /\ dead \in BOOLEAN
  BY <1>6, Zenon
<1>. QED  BY <1>2, <1>3, <1>5, <1>7, <1>8, <1>9, <1>10 DEF TypeOK

(* Steps. *)
LEMMA TypeStep ==
    ASSUME TypeOK, [Next]_vars
    PROVE  TypeOK'
<1>. USE DEF TypeOK, calling, queues, thread, registry, owner
<1>1. ASSUME NEW o \in Ops, OpCheck(o)  PROVE  TypeOK'
  BY <1>1 DEF OpCheck, Stage
<1>2. ASSUME NEW o \in Ops, OpEnqueue(o)  PROVE  TypeOK'
  <2>1. pending' \in Seq(Work)
    BY <1>2, WorkOf, AppendProperties DEF OpEnqueue
  <2>2. st' \in [Counted -> Stage] /\ ongoing' \in Int
    <3>1. st' = [st EXCEPT ![o] = "queued"] /\ ongoing' = ongoing + 1
      BY <1>2 DEF OpEnqueue
    <3>2. st' \in [Counted -> Stage]
      BY <3>1 DEF Stage
    <3>3. ongoing' \in Int
      BY <3>1
    <3>. QED  BY <3>2, <3>3
  <2>3. UNCHANGED <<calls, left, promise, token, held, prio, cbs, thread, registry, owner>>
    BY <1>2 DEF OpEnqueue
  <2>. QED  BY <2>1, <2>2, <2>3
<1>3. ASSUME NEW l \in Listens, ListenCheck(l)  PROVE  TypeOK'
  BY <1>3 DEF ListenCheck, Promise
<1>4. ASSUME NEW l \in Listens, ListenEnqueue(l)  PROVE  TypeOK'
  <2>1. pending' \in Seq(Work)
    BY <1>4, WorkOf, AppendProperties DEF ListenEnqueue
  <2>. QED  BY <1>4, <2>1 DEF ListenEnqueue, Promise
<1>5. ASSUME NEW l \in Listens, CancelListen(l)  PROVE  TypeOK'
  <2>1. pending' \in Seq(Work)
    BY <1>5, WorkOf, AppendProperties DEF CancelListen
  <2>. QED  BY <1>5, <2>1 DEF CancelListen
<1>6. ASSUME NEW s \in Shutdowns, Shutdown(s)  PROVE  TypeOK'
  <2>1. running' \in {"Idle", "Running", "Stopping"} /\ calls' \in [Shutdowns -> Nat]
    BY <1>6 DEF Shutdown
  <2>2. st' \in [Counted -> Stage]
    BY <1>6 DEF Shutdown, Stage
  <2>. QED  BY <1>6, <2>1, <2>2 DEF Shutdown
<1>7. ASSUME NEW s \in Shutdowns, ShutdownEnqueue(s)  PROVE  TypeOK'
  <2>1. prio' \in Seq(Work) /\ cbs' \in Seq(Shutdowns)
    BY <1>7, WorkOf, AppendProperties DEF ShutdownEnqueue
  <2>2. st' \in [Counted -> Stage] /\ ongoing' \in Int
    <3>1. st' = [st EXCEPT ![s] = "queued"] /\ ongoing' = ongoing + 1
      BY <1>7 DEF ShutdownEnqueue
    <3>2. st' \in [Counted -> Stage]
      BY <3>1 DEF Stage
    <3>3. ongoing' \in Int
      BY <3>1
    <3>. QED  BY <3>2, <3>3
  <2>3. UNCHANGED <<calls, left, promise, token, held, pending, thread, registry, owner>>
    BY <1>7 DEF ShutdownEnqueue
  <2>. QED  BY <2>1, <2>2, <2>3
<1>8. ASSUME NEW s \in Shutdowns, ShutdownWait(s)  PROVE  TypeOK'
  <2>1. cbs' \in Seq(Shutdowns)
    BY <1>8, AppendProperties DEF ShutdownWait
  <2>. QED  BY <1>8, <2>1 DEF ShutdownWait, Stage
<1>9. CASE Run
  BY <1>9 DEF Run
<1>10. CASE Bootstrap
  <2>1. prio' \in Seq(Work)
    BY <1>10, WorkOf, AppendProperties DEF Bootstrap
  <2>. QED  BY <1>10, <2>1 DEF Bootstrap
<1>11. CASE JoinStart
  BY <1>11 DEF JoinStart
<1>12. CASE JoinFinish
  <2>1. pending' \in Seq(Work) /\ prio' \in Seq(Work)
    BY <1>12, EmptySeq DEF JoinFinish
  <2>2. st' \in [Counted -> Stage] /\ promise' \in [Listens -> Promise]
    BY <1>12 DEF JoinFinish, Stage, Promise
  <2>3. left' \subseteq Shutdowns
    BY <1>12, ElementOfSeq, LenProperties DEF JoinFinish
  <2>4. DOMAIN listeners' \subseteq 1 .. listener_token' - 1 /\ listeners' \in [DOMAIN listeners' -> Listens]
    BY <1>12 DEF JoinFinish
  <2>5. /\ ongoing' = 0 /\ listener_token' = listener_token /\ connecting' = FALSE
        /\ call' = "none"
        /\ UNCHANGED <<calls, token, held, cbs, pc, batch, ending, dead, running, runs>>
    BY <1>12 DEF JoinFinish, OngoingAfterJoin, TokenAfterJoin
  <2>6. connecting' \in BOOLEAN
    BY <2>5, Zenon
  <2>7. ongoing' \in Int /\ call' \in {"none", "start", "join"}
    BY <2>5
  <2>. QED  BY <2>1, <2>2, <2>3, <2>4, <2>5, <2>6, <2>7
<1>13. CASE Wake
  BY <1>13 DEF Wake
<1>14. CASE Take
  <2>1. <<>> \in Seq(Work)
    BY EmptySeq
  <2>. QED  BY <1>14, <2>1 DEF Take
<1>15. CASE Exec
  <2>. DEFINE w == Head(batch)
  <2>1. /\ w \in Work /\ batch' \in Seq(Work)
        /\ UNCHANGED <<pc, ending, connecting, queues, owner>>
        /\ \/ w.kind \in {"op", "shutdown"} /\ w.of \in Counted /\ RunCounted(w.of)
           \/ w.kind = "listen" /\ w.of \in Listens /\ RunListen(w.of)
           \/ w.kind = "bootstrap" /\ UNCHANGED <<calling, registry, dead>>
           \/ w.kind \in {"cancel", "cancelToken"} /\ RunCancel(w)
    BY <1>15, ExecKinds, HeadTailProperties
  <2>. HIDE DEF w
  <2>2. CASE w.kind \in {"op", "shutdown"} /\ w.of \in Counted /\ RunCounted(w.of)
    BY <2>1, <2>2 DEF RunCounted, Stage
  <2>3. CASE w.kind = "listen" /\ w.of \in Listens /\ RunListen(w.of)
    <3>1. listener_token' = listener_token + 1
      BY <2>3 DEF RunListen, NextToken
    <3>2. /\ DOMAIN listeners' \subseteq 1 .. listener_token' - 1
          /\ listeners' \in [DOMAIN listeners' -> Listens]
      BY <2>3, <3>1 DEF RunListen, NoToken
    <3>3. promise' \in [Listens -> Promise] /\ token' \in [Listens -> Nat]
      BY <2>3 DEF RunListen, Promise
    <3>. QED  BY <2>1, <2>3, <3>1, <3>2, <3>3 DEF RunListen, NoToken
  <2>4. CASE w.kind = "bootstrap" /\ UNCHANGED <<calling, registry, dead>>
    BY <2>1, <2>4
  <2>5. CASE w.kind \in {"cancel", "cancelToken"} /\ RunCancel(w)
    <3>1. /\ DOMAIN listeners' \subseteq 1 .. listener_token' - 1
          /\ listeners' \in [DOMAIN listeners' -> Listens]
      BY <2>5 DEF RunCancel, Without
    <3>2. dead' \in BOOLEAN
      BY <2>5 DEF RunCancel
    <3>. QED  BY <2>1, <2>5, <3>1, <3>2 DEF RunCancel
  <2>. QED  BY <2>1, <2>2, <2>3, <2>4, <2>5
<1>16. ASSUME NEW x \in Counted, Complete(x)  PROVE  TypeOK'
  BY <1>16 DEF Complete, Stage
<1>17. CASE CheckShutdown
  BY <1>17 DEF CheckShutdown
<1>18. CASE TakeCallbacks
  <2>1. <<>> \in Seq(Shutdowns)
    BY EmptySeq
  <2>2. ASSUME NEW s \in Shutdowns  PROVE  Cardinality({i \in DOMAIN cbs : cbs[i] = s}) \in Nat
    BY PositionsFinite
  <2>3. calls' \in [Shutdowns -> Nat]
    <3>1. calls' = [s \in Shutdowns |-> calls[s] + Cardinality({i \in DOMAIN cbs : cbs[i] = s})]
      BY <1>18 DEF TakeCallbacks
    <3>2. \A s \in Shutdowns : calls[s] + Cardinality({i \in DOMAIN cbs : cbs[i] = s}) \in Nat
      BY <2>2
    <3>. QED  BY <3>1, <3>2, Zenon
  <2>. QED  BY <1>18, <2>1, <2>3 DEF TakeCallbacks, CallbacksLeft
<1>19. ASSUME NEW t \in DOMAIN listeners, Decline(t)  PROVE  TypeOK'
  <2>1. pending' \in Seq(Work)
    BY <1>19, WorkOf, AppendProperties DEF Decline
  <2>. QED  BY <1>19, <2>1 DEF Decline
<1>20. CASE Periodic
  BY <1>20 DEF Periodic
<1>21. CASE UNCHANGED vars
  BY <1>21 DEF vars
<1>. QED
  BY <1>1, <1>2, <1>3, <1>4, <1>5, <1>6, <1>7, <1>8, <1>9, <1>10, <1>11, <1>12, <1>13, <1>14,
     <1>15, <1>16, <1>17, <1>18, <1>19, <1>20, <1>21 DEF Next, Host, DhtThread

(* Every variable keeps its type; tokens of listeners are below the next    *)
(* one, whatever runs and joins happened (dhtrunner.cpp:781).               *)
THEOREM RunnerTypes == Spec => []TypeOK
BY TypeInit, TypeStep, PTL DEF Spec

-----------------------------------------------------------------------------
(* The queues. *)

(* What ongoing_ops counts among the queued calls. *)
IsCounted(w) == w.kind \in {"op", "shutdown"}

(* A call is in a queue once, in one queue only, and waits. *)
Once(q) == \A i, j \in DOMAIN q :
    IsCounted(q[i]) /\ IsCounted(q[j]) /\ q[i].of = q[j].of => i = j
Apart(q, r) == \A i \in DOMAIN q, j \in DOMAIN r :
    IsCounted(q[i]) /\ IsCounted(r[j]) => q[i].of # r[j].of
Waits(q, f) == \A i \in DOMAIN q : IsCounted(q[i]) => f[q[i].of] = "queued"

(* The thread is off while no run has been started, and has no batch while  *)
(* it waits.                                                                *)
ThreadInv ==
    /\ running = "Idle" /\ call # "join" => pc = "off"
    /\ pc # "exec" => batch = <<>>

QueueInv ==
    /\ Once(pending) /\ Once(prio) /\ Once(batch)
    /\ Apart(pending, prio) /\ Apart(pending, batch) /\ Apart(prio, batch)
    /\ Waits(pending, st) /\ Waits(prio, st) /\ Waits(batch, st)

(* A queue that grows at its end. *)
LEMMA AppendQueue ==
    ASSUME NEW q \in Seq(Work), NEW w \in Work
    PROVE  /\ Append(q, w) \in Seq(Work)
           /\ DOMAIN q = 1 .. Len(q) /\ Len(q) \in Nat
           /\ DOMAIN Append(q, w) = 1 .. Len(q) + 1
           /\ \A i \in 1 .. Len(q) : Append(q, w)[i] = q[i]
           /\ Append(q, w)[Len(q) + 1] = w
<1>1. Append(q, w) \in Seq(Work) /\ Len(Append(q, w)) = Len(q) + 1
  BY AppendProperties
<1>2. DOMAIN Append(q, w) = 1 .. Len(q) + 1 /\ DOMAIN q = 1 .. Len(q) /\ Len(q) \in Nat
  BY <1>1, LenProperties
<1>. QED  BY <1>1, <1>2, AppendProperties

(* ... and shrinks at its head. *)
LEMMA TailQueue ==
    ASSUME NEW q \in Seq(Work), q # <<>>
    PROVE  /\ Tail(q) \in Seq(Work)
           /\ DOMAIN q = 1 .. Len(q) /\ Len(q) \in Nat \ {0}
           /\ DOMAIN Tail(q) = 1 .. Len(q) - 1
           /\ \A i \in 1 .. Len(q) - 1 : Tail(q)[i] = q[i + 1]
           /\ Head(q) = q[1] /\ Head(q) \in Work
<1>1. Tail(q) \in Seq(Work) /\ Len(Tail(q)) = Len(q) - 1 /\ Head(q) \in Work
      /\ \A i \in 1 .. Len(Tail(q)) : Tail(q)[i] = q[i + 1]
  BY HeadTailProperties
<1>2. DOMAIN Tail(q) = 1 .. Len(q) - 1 /\ DOMAIN q = 1 .. Len(q)
  BY <1>1, LenProperties
<1>3. Len(q) \in Nat \ {0}
  BY EmptySeq
<1>4. Head(q) = q[1]
  BY <1>3
<1>. QED  BY <1>1, <1>2, <1>3, <1>4

(* No queued call is the one that is counted under x. *)
Free(q, x) == \A i \in DOMAIN q : IsCounted(q[i]) => q[i].of # x

(* Appending a call that is not in a queue keeps its calls distinct. *)
LEMMA AppendOnce ==
    ASSUME NEW q \in Seq(Work), NEW w \in Work, Once(q), IsCounted(w) => Free(q, w.of)
    PROVE  Once(Append(q, w))
BY AppendQueue DEF Once, Free

(* ... keeps two queues apart, if it is in neither. *)
LEMMA AppendApart ==
    ASSUME NEW q \in Seq(Work), NEW r, NEW w \in Work, IsCounted(w) => Free(r, w.of)
    PROVE  /\ Apart(q, r) => Apart(Append(q, w), r)
           /\ Apart(r, q) => Apart(r, Append(q, w))
BY AppendQueue DEF Apart, Free

(* ... and keeps every queued call waiting, if it waits. *)
LEMMA AppendWaits ==
    ASSUME NEW q \in Seq(Work), NEW f, NEW w \in Work,
           Waits(q, f), IsCounted(w) => f[w.of] = "queued"
    PROVE  Waits(Append(q, w), f)
BY AppendQueue DEF Waits

(* Executing keeps it too, and the call that is taken is not queued again. *)
LEMMA TailKeeps ==
    ASSUME NEW q \in Seq(Work), q # <<>>, NEW r, NEW f
    PROVE  /\ Once(q) => Once(Tail(q))
           /\ Once(q) /\ IsCounted(Head(q)) => Free(Tail(q), Head(q).of)
           /\ Apart(r, q) => Apart(r, Tail(q))
           /\ Apart(r, q) /\ IsCounted(Head(q)) => Free(r, Head(q).of)
           /\ Waits(q, f) => Waits(Tail(q), f)
           /\ Waits(q, f) /\ IsCounted(Head(q)) => f[Head(q).of] = "queued"
<1>. USE TailQueue
<1>1. Once(q) => Once(Tail(q))
  <2>. SUFFICES ASSUME Once(q), NEW i \in 1 .. Len(q) - 1, NEW j \in 1 .. Len(q) - 1,
                       IsCounted(q[i + 1]), IsCounted(q[j + 1]), q[i + 1].of = q[j + 1].of
                PROVE  i = j
    BY DEF Once
  <2>1. i + 1 \in DOMAIN q /\ j + 1 \in DOMAIN q
    OBVIOUS
  <2>2. i + 1 = j + 1
    BY <2>1 DEF Once
  <2>. QED  BY <2>2
<1>2. Once(q) /\ IsCounted(Head(q)) => Free(Tail(q), Head(q).of)
  BY DEF Once, Free
<1>3. Apart(r, q) => Apart(r, Tail(q))
  BY DEF Apart
<1>4. Apart(r, q) /\ IsCounted(Head(q)) => Free(r, Head(q).of)
  BY DEF Apart, Free
<1>5. Waits(q, f) => Waits(Tail(q), f)
  BY DEF Waits
<1>6. Waits(q, f) /\ IsCounted(Head(q)) => f[Head(q).of] = "queued"
  BY DEF Waits
<1>. QED  BY <1>1, <1>2, <1>3, <1>4, <1>5, <1>6

(* Another call may change its stage meanwhile. *)
LEMMA WaitsOn ==
    ASSUME NEW q \in Seq(Work), NEW f \in [Counted -> Stage], NEW x, NEW v,
           Waits(q, f), f[x] = "queued" => Free(q, x)
    PROVE  Waits(q, [f EXCEPT ![x] = v])
<1>1. \A i \in DOMAIN q : IsCounted(q[i]) => q[i].of \in Counted
  BY LenProperties, ElementOfSeq, WorkKinds DEF IsCounted, Counted
<1>2. \A i \in DOMAIN q : IsCounted(q[i]) => q[i].of # x
  BY DEF Waits, Free
<1>. QED  BY <1>1, <1>2 DEF Waits

(* A call that does not wait is in no queue. *)
LEMMA NotQueued ==
    ASSUME NEW q, NEW f, NEW x, Waits(q, f), f[x] # "queued"
    PROVE  Free(q, x)
BY DEF Waits, Free

(* Nothing is in an empty queue. *)
LEMMA EmptyQueue ==
    ASSUME NEW q, NEW f
    PROVE  Once(<<>>) /\ Apart(<<>>, q) /\ Apart(q, <<>>) /\ Waits(<<>>, f)
BY DEF Once, Apart, Waits

(* Initially. *)
LEMMA QueueInit == Init => ThreadInv /\ QueueInv
BY EmptyQueue DEF Init, ThreadInv, QueueInv

(* The thread goes through its states. *)
LEMMA ThreadStep ==
    ASSUME TypeOK, ThreadInv, [Next]_vars
    PROVE  ThreadInv'
<1>. USE DEF calling, queues, thread, registry, owner, ThreadInv
<1>1. CASE Run \/ Bootstrap \/ JoinStart \/ JoinFinish
  BY <1>1 DEF Run, Bootstrap, JoinStart, JoinFinish
<1>2. CASE Wake \/ Take \/ CheckShutdown \/ TakeCallbacks \/ Periodic
  BY <1>2 DEF Wake, Take, CheckShutdown, TakeCallbacks, Periodic
<1>3. CASE Exec
  BY <1>3 DEF Exec
<1>4. CASE Host
  BY <1>4 DEF Host, OpCheck, OpEnqueue, ListenCheck, ListenEnqueue, CancelListen, Shutdown,
              ShutdownEnqueue, ShutdownWait
<1>5. CASE \E x \in Counted : Complete(x)
  BY <1>5 DEF Complete
<1>6. CASE \E t \in DOMAIN listeners : Decline(t)
  BY <1>6 DEF Decline
<1>7. CASE UNCHANGED vars
  BY <1>7 DEF vars
<1>. QED  BY <1>1, <1>2, <1>3, <1>4, <1>5, <1>6, <1>7 DEF Next, DhtThread

(* A counted call that is queued. *)
LEMMA EnqueueCounted ==
    ASSUME TypeOK, QueueInv, NEW x \in Counted, NEW w \in Work, IsCounted(w), w.of = x,
           st[x] # "queued", st' = [st EXCEPT ![x] = "queued"], batch' = batch,
           \/ pending' = Append(pending, w) /\ prio' = prio
           \/ prio' = Append(prio, w) /\ pending' = pending
    PROVE  QueueInv'
<1>. USE DEF TypeOK
<1>1. Free(pending, x) /\ Free(prio, x) /\ Free(batch, x)
  BY NotQueued DEF QueueInv
<1>2. Waits(pending, st') /\ Waits(prio, st') /\ Waits(batch, st')
  BY WaitsOn DEF QueueInv
<1>3. st'[w.of] = "queued"
  OBVIOUS
<1>4. CASE pending' = Append(pending, w) /\ prio' = prio
  BY <1>1, <1>2, <1>3, <1>4, AppendOnce, AppendApart, AppendWaits DEF QueueInv
<1>5. CASE prio' = Append(prio, w) /\ pending' = pending
  BY <1>1, <1>2, <1>3, <1>5, AppendOnce, AppendApart, AppendWaits DEF QueueInv
<1>. QED  BY <1>4, <1>5

(* A call that is not counted. *)
LEMMA EnqueueOther ==
    ASSUME TypeOK, QueueInv, NEW w \in Work, ~IsCounted(w), UNCHANGED <<st, batch>>,
           \/ pending' = Append(pending, w) /\ prio' = prio
           \/ prio' = Append(prio, w) /\ pending' = pending
    PROVE  QueueInv'
<1>. USE DEF TypeOK
<1>1. CASE pending' = Append(pending, w) /\ prio' = prio
  BY <1>1, AppendOnce, AppendApart, AppendWaits DEF QueueInv
<1>2. CASE prio' = Append(prio, w) /\ pending' = pending
  BY <1>2, AppendOnce, AppendApart, AppendWaits DEF QueueInv
<1>. QED  BY <1>1, <1>2

(* A call that is in no queue goes on. *)
LEMMA StageOn ==
    ASSUME TypeOK, QueueInv, NEW x \in Counted, NEW v, st[x] # "queued",
           st' = [st EXCEPT ![x] = v], UNCHANGED <<pending, prio, batch>>
    PROVE  QueueInv'
<1>1. Waits(pending, st') /\ Waits(prio, st') /\ Waits(batch, st')
  BY WaitsOn DEF QueueInv, TypeOK
<1>. QED  BY <1>1 DEF QueueInv

(* The thread takes one more. *)
LEMMA QueueExec ==
    ASSUME TypeOK, QueueInv, Exec
    PROVE  /\ QueueInv'
           /\ IsCounted(Head(batch)) => st[Head(batch).of] = "queued"
<1>. DEFINE w == Head(batch)
<1>1. /\ w \in Work /\ batch # <<>> /\ pc = "exec" /\ batch' = Tail(batch)
      /\ UNCHANGED <<pc, pending, prio>>
  BY ExecKinds DEF queues
<1>2. batch \in Seq(Work) /\ pending \in Seq(Work) /\ prio \in Seq(Work) /\ st \in [Counted -> Stage]
  BY DEF TypeOK
<1>3. Once(Tail(batch)) /\ Apart(pending, Tail(batch)) /\ Apart(prio, Tail(batch)) /\ Waits(Tail(batch), st)
  BY <1>1, <1>2, TailKeeps DEF QueueInv
<1>4. IsCounted(w) => /\ Free(Tail(batch), w.of) /\ Free(pending, w.of) /\ Free(prio, w.of)
                      /\ st[w.of] = "queued"
  BY <1>1, <1>2, TailKeeps DEF QueueInv
<1>5. Tail(batch) \in Seq(Work)
  BY <1>1, <1>2, TailQueue
<1>. HIDE DEF w
<1>6. Waits(Tail(batch), st') /\ Waits(pending, st') /\ Waits(prio, st')
  <2>1. CASE IsCounted(w)
    <3>1. st' = [st EXCEPT ![w.of] = "flight"]
      BY <2>1, ExecKinds DEF IsCounted, RunCounted, w
    <3>. QED  BY <1>2, <1>3, <1>4, <1>5, <2>1, <3>1, WaitsOn DEF QueueInv
  <2>2. CASE ~IsCounted(w)
    <3>1. st' = st
      BY <2>2, ExecKinds DEF IsCounted, RunListen, RunCancel, calling, w
    <3>. QED  BY <1>3, <3>1 DEF QueueInv
  <2>. QED  BY <2>1, <2>2
<1>7. QueueInv'
  BY <1>1, <1>3, <1>6 DEF QueueInv
<1>. QED  BY <1>4, <1>7 DEF w

(* Steps. *)
LEMMA QueueStep ==
    ASSUME TypeOK, ThreadInv, QueueInv, [Next]_vars
    PROVE  QueueInv'
<1>. USE DEF calling, queues, thread, registry, owner
<1>1. ASSUME NEW o \in Ops, OpCheck(o)  PROVE  QueueInv'
  BY <1>1, StageOn DEF OpCheck, Counted
<1>2. ASSUME NEW o \in Ops, OpEnqueue(o)  PROVE  QueueInv'
  <2>. DEFINE w == [kind |-> "op", of |-> o]
  <2>1. w \in Work /\ IsCounted(w) /\ w.of = o /\ o \in Counted
    BY WorkOf DEF IsCounted, Counted
  <2>2. /\ st[o] # "queued" /\ st' = [st EXCEPT ![o] = "queued"]
        /\ pending' = Append(pending, w) /\ UNCHANGED <<prio, batch>>
    BY <1>2 DEF OpEnqueue
  <2>. QED  BY <2>1, <2>2, EnqueueCounted
<1>3. ASSUME NEW l \in Listens, ListenCheck(l)  PROVE  QueueInv'
  BY <1>3 DEF ListenCheck, QueueInv
<1>4. ASSUME NEW l \in Listens, ListenEnqueue(l)  PROVE  QueueInv'
  <2>1. [kind |-> "listen", of |-> l] \in Work /\ ~IsCounted([kind |-> "listen", of |-> l])
    BY WorkOf DEF IsCounted
  <2>. QED  BY <1>4, <2>1, EnqueueOther DEF ListenEnqueue
<1>5. ASSUME NEW l \in Listens, CancelListen(l)  PROVE  QueueInv'
  <2>1. [kind |-> "cancel", of |-> l] \in Work /\ ~IsCounted([kind |-> "cancel", of |-> l])
    BY WorkOf DEF IsCounted
  <2>. QED  BY <1>5, <2>1, EnqueueOther DEF CancelListen
<1>6. ASSUME NEW s \in Shutdowns, Shutdown(s)  PROVE  QueueInv'
  <2>1. PICK v : st' = [st EXCEPT ![s] = v]
    BY <1>6 DEF Shutdown
  <2>. QED  BY <1>6, <2>1, StageOn DEF Shutdown, Counted
<1>7. ASSUME NEW s \in Shutdowns, ShutdownEnqueue(s)  PROVE  QueueInv'
  <2>. DEFINE w == [kind |-> "shutdown", of |-> s]
  <2>1. w \in Work /\ IsCounted(w) /\ w.of = s /\ s \in Counted
    BY WorkOf DEF IsCounted, Counted
  <2>2. /\ st[s] # "queued" /\ st' = [st EXCEPT ![s] = "queued"]
        /\ prio' = Append(prio, w) /\ UNCHANGED <<pending, batch>>
    BY <1>7 DEF ShutdownEnqueue
  <2>. QED  BY <2>1, <2>2, EnqueueCounted
<1>8. ASSUME NEW s \in Shutdowns, ShutdownWait(s)  PROVE  QueueInv'
  BY <1>8, StageOn DEF ShutdownWait, Counted
<1>9. CASE Run
  BY <1>9 DEF Run, QueueInv
<1>10. CASE Bootstrap
  <2>1. [kind |-> "bootstrap", of |-> NoToken] \in Work /\ ~IsCounted([kind |-> "bootstrap", of |-> NoToken])
    BY WorkOf DEF IsCounted
  <2>. QED  BY <1>10, <2>1, EnqueueOther DEF Bootstrap
<1>11. CASE JoinStart
  BY <1>11 DEF JoinStart, QueueInv
<1>12. CASE JoinFinish
  <2>1. batch' = <<>> /\ pending' = <<>> /\ prio' = <<>>
    BY <1>12 DEF JoinFinish, ThreadInv
  <2>. QED  BY <2>1, EmptyQueue DEF QueueInv
<1>13. CASE Wake
  BY <1>13 DEF Wake, QueueInv
<1>14. CASE Take
  <2>1. /\ batch = <<>> /\ st' = st
        /\ \/ batch' = pending /\ pending' = <<>> /\ prio' = prio
           \/ batch' = prio /\ prio' = <<>> /\ pending' = pending
    BY <1>14 DEF Take, ThreadInv
  <2>2. Apart(prio, pending)
    BY DEF QueueInv, Apart
  <2>. QED  BY <2>1, <2>2, EmptyQueue DEF QueueInv
<1>15. CASE Exec
  BY <1>15, QueueExec
<1>16. ASSUME NEW x \in Counted, Complete(x)  PROVE  QueueInv'
  BY <1>16, StageOn DEF Complete
<1>17. CASE CheckShutdown
  BY <1>17 DEF CheckShutdown, QueueInv
<1>18. CASE TakeCallbacks
  BY <1>18 DEF TakeCallbacks, QueueInv
<1>19. ASSUME NEW t \in DOMAIN listeners, Decline(t)  PROVE  QueueInv'
  <2>. DEFINE w == [kind |-> "cancelToken", of |-> t]
  <2>1. t \in Nat
    BY DEF TypeOK
  <2>2. w \in Work /\ ~IsCounted(w)
    BY <2>1, WorkOf DEF IsCounted
  <2>. QED  BY <1>19, <2>2, EnqueueOther DEF Decline
<1>20. CASE Periodic
  BY <1>20 DEF Periodic, QueueInv
<1>21. CASE UNCHANGED vars
  BY <1>21 DEF vars, QueueInv
<1>. QED
  BY <1>1, <1>2, <1>3, <1>4, <1>5, <1>6, <1>7, <1>8, <1>9, <1>10, <1>11, <1>12, <1>13, <1>14,
     <1>15, <1>16, <1>17, <1>18, <1>19, <1>20, <1>21 DEF Next, Host, DhtThread

-----------------------------------------------------------------------------
(* The counter. *)
Ongoing == {x \in Counted : st[x] \in {"queued", "flight"}}

(* There are finitely many calls. *)
LEMMA OngoingFinite == IsFiniteSet(Ongoing)
<1>1. IsFiniteSet(Counted)
  BY OpsAssumption, FS_Union DEF Counted
<1>. QED  BY <1>1, FS_Subset DEF Ongoing

(* A call that joins the ongoing ones, leaves them, or neither. *)
LEMMA OngoingMoves ==
    ASSUME TypeOK, OngoingExact, NEW x \in Counted, NEW v, st' = [st EXCEPT ![x] = v],
           \/ x \notin Ongoing /\ v \in {"queued", "flight"} /\ ongoing' = ongoing + 1
           \/ x \in Ongoing /\ v \notin {"queued", "flight"} /\ ongoing' = ongoing - 1
           \/ (x \in Ongoing <=> v \in {"queued", "flight"}) /\ ongoing' = ongoing
    PROVE  OngoingExact'
<1>1. Ongoing' = IF v \in {"queued", "flight"} THEN Ongoing \cup {x} ELSE Ongoing \ {x}
  BY DEF Ongoing, TypeOK
<1>2. ongoing = Cardinality(Ongoing) /\ Cardinality(Ongoing) \in Nat
  BY OngoingFinite, FS_CardinalityType DEF OngoingExact, Ongoing
<1>3. Cardinality(Ongoing \cup {x}) = IF x \in Ongoing THEN Cardinality(Ongoing) ELSE Cardinality(Ongoing) + 1
  BY OngoingFinite, FS_AddElement
<1>4. Cardinality(Ongoing \ {x}) = IF x \in Ongoing THEN Cardinality(Ongoing) - 1 ELSE Cardinality(Ongoing)
  BY OngoingFinite, FS_RemoveElement
<1>5. ongoing' = Cardinality(Ongoing')
  BY <1>1, <1>2, <1>3, <1>4
<1>. QED  BY <1>5 DEF OngoingExact, Ongoing

(* Initially nothing is ongoing. *)
LEMMA OngoingInit == Init => OngoingExact
<1>. SUFFICES ASSUME Init  PROVE  OngoingExact
  OBVIOUS
<1>1. Ongoing = {} /\ ongoing = 0
  BY DEF Init, Ongoing
<1>. QED  BY <1>1, FS_EmptySet DEF OngoingExact, Ongoing

(* Every step counts what it moves. *)
LEMMA OngoingStep ==
    ASSUME TypeOK, ThreadInv, QueueInv, OngoingExact, [Next]_vars
    PROVE  OngoingExact'
<1>. USE DEF calling, queues, thread, registry, owner
<1>1. ASSUME NEW o \in Ops, OpCheck(o) \/ OpEnqueue(o)  PROVE  OngoingExact'
  <2>1. o \in Counted
    BY DEF Counted
  <2>2. CASE OpCheck(o)
    BY <2>1, <2>2, OngoingMoves DEF OpCheck, Ongoing
  <2>3. CASE OpEnqueue(o)
    <3>1. o \notin Ongoing /\ st' = [st EXCEPT ![o] = "queued"] /\ ongoing' = ongoing + 1
      BY <2>3 DEF OpEnqueue, Ongoing
    <3>. QED  BY <2>1, <3>1, OngoingMoves
  <2>. QED  BY <1>1, <2>2, <2>3
<1>2. ASSUME NEW l \in Listens, ListenCheck(l) \/ ListenEnqueue(l) \/ CancelListen(l)
      PROVE  OngoingExact'
  <2>1. UNCHANGED <<st, ongoing>>
    BY <1>2 DEF ListenCheck, ListenEnqueue, CancelListen
  <2>. QED  BY <2>1 DEF OngoingExact
<1>3. ASSUME NEW s \in Shutdowns, Shutdown(s) \/ ShutdownEnqueue(s) \/ ShutdownWait(s)
      PROVE  OngoingExact'
  <2>1. s \in Counted
    BY DEF Counted
  <2>2. CASE Shutdown(s)
    <3>1. PICK v \in {"passed", "again", "refused"} : st' = [st EXCEPT ![s] = v]
      BY <2>2 DEF Shutdown
    <3>2. s \notin Ongoing /\ ongoing' = ongoing
      BY <2>2 DEF Shutdown, Ongoing
    <3>. QED  BY <2>1, <3>1, <3>2, OngoingMoves
  <2>3. CASE ShutdownEnqueue(s)
    <3>1. s \notin Ongoing /\ st' = [st EXCEPT ![s] = "queued"] /\ ongoing' = ongoing + 1
      BY <2>3 DEF ShutdownEnqueue, Ongoing
    <3>. QED  BY <2>1, <3>1, OngoingMoves
  <2>4. CASE ShutdownWait(s)
    <3>1. s \notin Ongoing /\ st' = [st EXCEPT ![s] = "done"] /\ ongoing' = ongoing
      BY <2>4 DEF ShutdownWait, Ongoing
    <3>. QED  BY <2>1, <3>1, OngoingMoves
  <2>. QED  BY <1>3, <2>2, <2>3, <2>4
<1>4. CASE JoinFinish
  <2>1. Ongoing' = {} /\ ongoing' = 0
    BY <1>4 DEF JoinFinish, Ongoing, OngoingAfterJoin
  <2>. QED  BY <2>1, FS_EmptySet DEF OngoingExact, Ongoing
<1>5. CASE Exec
  <2>. DEFINE w == Head(batch)
  <2>1. ongoing' = ongoing
    BY <1>5, ExecKinds
  <2>2. CASE IsCounted(w)
    <3>1. st' = [st EXCEPT ![w.of] = "flight"] /\ w.of \in Counted
      BY <1>5, <2>2, ExecKinds DEF IsCounted, RunCounted
    <3>2. w.of \in Ongoing
      BY <1>5, <2>2, <3>1, QueueExec DEF Ongoing
    <3>. QED  BY <2>1, <3>1, <3>2, OngoingMoves
  <2>3. CASE ~IsCounted(w)
    <3>1. st' = st
      BY <1>5, <2>3, ExecKinds DEF IsCounted, RunListen, RunCancel
    <3>. QED  BY <2>1, <3>1 DEF OngoingExact
  <2>. QED  BY <2>2, <2>3
<1>6. ASSUME NEW x \in Counted, Complete(x)  PROVE  OngoingExact'
  <2>1. x \in Ongoing /\ st' = [st EXCEPT ![x] = "done"] /\ ongoing' = ongoing - 1
    BY <1>6 DEF Complete, Ongoing
  <2>. QED  BY <2>1, OngoingMoves
<1>7. CASE \/ Run \/ Bootstrap \/ JoinStart
           \/ Wake \/ Take \/ CheckShutdown \/ TakeCallbacks \/ Periodic
           \/ UNCHANGED vars
  <2>1. UNCHANGED <<st, ongoing>>
    BY <1>7 DEF Run, Bootstrap, JoinStart, Wake, Take, CheckShutdown, TakeCallbacks, Periodic, vars
  <2>. QED  BY <2>1 DEF OngoingExact
<1>8. ASSUME NEW t \in DOMAIN listeners, Decline(t)  PROVE  OngoingExact'
  BY <1>8 DEF Decline, OngoingExact
<1>. QED
  BY <1>1, <1>2, <1>3, <1>4, <1>5, <1>6, <1>7, <1>8 DEF Next, Host, DhtThread

(* The counter never underflows or sticks: it counts the calls that are     *)
(* queued or in flight, for any number of them, of threads and of runs      *)
(* (dhtrunner.cpp:291).                                                     *)
THEOREM RunnerOngoing == Spec => []OngoingExact
<1>. DEFINE I == TypeOK /\ ThreadInv /\ QueueInv /\ OngoingExact
<1>1. Init => I
  BY TypeInit, QueueInit, OngoingInit
<1>2. I /\ [Next]_vars => I'
  BY TypeStep, ThreadStep, QueueStep, OngoingStep
<1>3. I => OngoingExact
  OBVIOUS
<1>. HIDE DEF I
<1>. QED  BY <1>1, <1>2, <1>3, PTL DEF Spec

(* checkShutdown goes on to the callbacks only when no call is queued or in *)
(* flight (dhtrunner.cpp:313).                                              *)
THEOREM RunnerDrained == Spec => ShutdownDrained
<1>1. ASSUME OngoingExact, [Next]_vars, ending = "check", ending' = "take", NEW x \in Counted
      PROVE  st[x] \notin {"queued", "flight"}
  <2>1. ending' # ending
    BY <1>1
  <2>2. CheckShutdown
    <3>. USE DEF calling, queues, thread, registry, owner
    <3>1. ~Host
      BY <2>1 DEF Host, OpCheck, OpEnqueue, ListenCheck, ListenEnqueue, CancelListen, Shutdown,
                  ShutdownEnqueue, ShutdownWait
    <3>2. ~(Run \/ Bootstrap \/ JoinStart \/ JoinFinish)
      BY <2>1 DEF Run, Bootstrap, JoinStart, JoinFinish
    <3>3. ~(Wake \/ Take \/ Exec \/ TakeCallbacks \/ Periodic)
      BY <1>1, <2>1 DEF Wake, Take, Exec, TakeCallbacks, Periodic
    <3>4. ~(\E y \in Counted : Complete(y)) /\ ~(\E t \in DOMAIN listeners : Decline(t))
      BY <1>1, <2>1 DEF Complete, Decline
    <3>5. ~UNCHANGED vars
      BY <2>1 DEF vars
    <3>. QED  BY <1>1, <3>1, <3>2, <3>3, <3>4, <3>5 DEF Next, DhtThread
  <2>3. ongoing = 0
    BY <1>1, <2>2 DEF CheckShutdown, Drained
  <2>4. Ongoing = {}
    BY <1>1, <2>3, OngoingFinite, FS_EmptySet DEF OngoingExact, Ongoing
  <2>. QED  BY <2>4 DEF Ongoing
<1>2. OngoingExact /\ [Next]_vars =>
        [ending = "check" /\ ending' = "take" =>
           \A x \in Counted : st[x] \notin {"queued", "flight"}]_vars
  BY <1>1
<1>. QED  BY <1>2, RunnerOngoing, PTL DEF Spec, ShutdownDrained

-----------------------------------------------------------------------------
(* Callbacks of shutdown. *)

(* A callback waits once, has not been called, and its call is past the     *)
(* tests of shutdown.                                                       *)
Undecided == {"none", "passed", "again"}
CallbackInv ==
    /\ \A i, j \in DOMAIN cbs : cbs[i] = cbs[j] => i = j
    /\ \A i \in DOMAIN cbs : calls[cbs[i]] = 0 /\ st[cbs[i]] \notin Undecided
    /\ \A s \in Shutdowns : st[s] \in Undecided => calls[s] = 0
    /\ CalledOnce

(* Initially no callback waits. *)
LEMMA CallbackInit == Init => CallbackInv
BY DEF Init, CallbackInv, CalledOnce, Undecided, Counted

(* A step that touches neither shutdowns nor callbacks. *)
LEMMA CallbackSame ==
    ASSUME TypeOK, CallbackInv, UNCHANGED <<cbs, calls>>,
           \A s \in Shutdowns : st'[s] \in Undecided => st[s] \in Undecided
    PROVE  CallbackInv'
<1>1. \A i \in DOMAIN cbs : cbs[i] \in Shutdowns
  BY LenProperties, ElementOfSeq DEF TypeOK
<1>. QED  BY <1>1 DEF CallbackInv, CalledOnce

(* A callback that begins to wait. *)
LEMMA CallbackAdd ==
    ASSUME TypeOK, CallbackInv, NEW s \in Shutdowns, NEW v, v \notin Undecided,
           st[s] \in Undecided, st' = [st EXCEPT ![s] = v], cbs' = Append(cbs, s), calls' = calls
    PROVE  CallbackInv'
<1>1. /\ DOMAIN cbs = 1 .. Len(cbs) /\ Len(cbs) \in Nat
      /\ DOMAIN cbs' = 1 .. Len(cbs) + 1
      /\ \A i \in 1 .. Len(cbs) : cbs'[i] = cbs[i]
      /\ cbs'[Len(cbs) + 1] = s
  BY AppendProperties, LenProperties DEF TypeOK
<1>2. \A i \in DOMAIN cbs : cbs[i] \in Shutdowns /\ cbs[i] # s
  BY LenProperties, ElementOfSeq DEF TypeOK, CallbackInv
<1>3. st \in [Counted -> Stage] /\ Shutdowns \subseteq Counted
  BY DEF TypeOK, Counted
<1>4. st'[s] = v /\ \A r \in Shutdowns \ {s} : st'[r] = st[r]
  BY <1>3
<1>5. \A i, j \in DOMAIN cbs' : cbs'[i] = cbs'[j] => i = j
  BY <1>1, <1>2 DEF CallbackInv
<1>6. \A i \in DOMAIN cbs' : calls[cbs'[i]] = 0 /\ st'[cbs'[i]] \notin Undecided
  BY <1>1, <1>2, <1>4 DEF CallbackInv
<1>7. \A r \in Shutdowns : st'[r] \in Undecided => calls[r] = 0
  BY <1>4 DEF CallbackInv
<1>. QED  BY <1>5, <1>6, <1>7 DEF CallbackInv, CalledOnce

(* A callback that is found once is called once. *)
LEMMA CountOne ==
    ASSUME TypeOK, CallbackInv, NEW s \in Shutdowns
    PROVE  LET P == {i \in DOMAIN cbs : cbs[i] = s}
           IN  Cardinality(P) = IF \E i \in DOMAIN cbs : cbs[i] = s THEN 1 ELSE 0
<1>1. CASE \E i \in DOMAIN cbs : cbs[i] = s
  <2>1. PICK i \in DOMAIN cbs : cbs[i] = s
    BY <1>1
  <2>2. {j \in DOMAIN cbs : cbs[j] = s} = {i}
    BY <2>1 DEF CallbackInv
  <2>. QED  BY <1>1, <2>2, FS_Singleton
<1>2. CASE ~ \E i \in DOMAIN cbs : cbs[i] = s
  <2>1. {j \in DOMAIN cbs : cbs[j] = s} = {}
    BY <1>2
  <2>. QED  BY <1>2, <2>1, FS_EmptySet
<1>. QED  BY <1>1, <1>2

(* Steps. *)
LEMMA CallbackStep ==
    ASSUME TypeOK, CallbackInv, [Next]_vars
    PROVE  CallbackInv'
<1>. USE DEF calling, queues, thread, registry, owner
<1>0. st \in [Counted -> Stage] /\ Shutdowns \subseteq Counted /\ calls \in [Shutdowns -> Nat]
  BY DEF TypeOK, Counted
<1>1. ASSUME NEW o \in Ops, OpCheck(o) \/ OpEnqueue(o)  PROVE  CallbackInv'
  <2>1. \A s \in Shutdowns : st'[s] = st[s]
    BY <1>0, <1>1, DistinctAssumption DEF OpCheck, OpEnqueue
  <2>2. UNCHANGED <<cbs, calls>>
    BY <1>1 DEF OpCheck, OpEnqueue
  <2>. QED  BY <2>1, <2>2, CallbackSame
<1>2. ASSUME NEW l \in Listens, ListenCheck(l) \/ ListenEnqueue(l) \/ CancelListen(l)
      PROVE  CallbackInv'
  <2>1. UNCHANGED <<st, cbs, calls>>
    BY <1>2 DEF ListenCheck, ListenEnqueue, CancelListen
  <2>. QED  BY <2>1, CallbackSame
<1>3. ASSUME NEW s \in Shutdowns, Shutdown(s)  PROVE  CallbackInv'
  <2>1. CASE calls' = calls
    <3>1. \A r \in Shutdowns : st'[r] \in Undecided => st[r] \in Undecided
      BY <1>0, <1>3 DEF Shutdown, Undecided
    <3>. QED  BY <1>3, <2>1, <3>1, CallbackSame DEF Shutdown
  <2>2. CASE /\ st' = [st EXCEPT ![s] = "refused"]
             /\ calls' = [calls EXCEPT ![s] = @ + 1]
    <3>1. st[s] \in Undecided /\ cbs' = cbs
      BY <1>3 DEF Shutdown, Undecided
    <3>2. \A i \in DOMAIN cbs : cbs[i] \in Shutdowns /\ cbs[i] # s
      BY <3>1, LenProperties, ElementOfSeq DEF TypeOK, CallbackInv
    <3>3. calls[s] = 0
      BY <3>1 DEF CallbackInv
    <3>4. /\ calls'[s] = 1 /\ st'[s] = "refused"
          /\ \A r \in Shutdowns \ {s} : calls'[r] = calls[r] /\ st'[r] = st[r]
      BY <1>0, <2>2, <3>3
    <3>. QED  BY <3>1, <3>2, <3>4 DEF CallbackInv, CalledOnce, Undecided
  <2>. QED  BY <1>3, <2>1, <2>2 DEF Shutdown
<1>4. ASSUME NEW s \in Shutdowns, ShutdownEnqueue(s) \/ ShutdownWait(s)  PROVE  CallbackInv'
  <2>1. PICK v \in {"queued", "done"} : st' = [st EXCEPT ![s] = v]
    BY <1>4 DEF ShutdownEnqueue, ShutdownWait
  <2>2. st[s] \in Undecided /\ cbs' = Append(cbs, s) /\ calls' = calls /\ v \notin Undecided
    BY <1>4 DEF ShutdownEnqueue, ShutdownWait, Undecided
  <2>. QED  BY <2>1, <2>2, CallbackAdd
<1>5. CASE JoinFinish
  <2>1. \A s \in Shutdowns : st'[s] \in Undecided => st[s] \in Undecided
    BY <1>0, <1>5 DEF JoinFinish, Undecided
  <2>. QED  BY <1>5, <2>1, CallbackSame DEF JoinFinish
<1>6. CASE Exec
  <2>1. UNCHANGED <<cbs, calls>>
    BY <1>6, ExecKinds DEF RunCounted, RunListen, RunCancel
  <2>2. st' = st \/ st' = [st EXCEPT ![Head(batch).of] = "flight"]
    BY <1>6, ExecKinds DEF RunCounted, RunListen, RunCancel
  <2>3. \A s \in Shutdowns : st'[s] \in Undecided => st[s] \in Undecided
    BY <1>0, <2>2 DEF Undecided
  <2>. QED  BY <2>1, <2>3, CallbackSame
<1>7. ASSUME NEW x \in Counted, Complete(x)  PROVE  CallbackInv'
  <2>1. \A s \in Shutdowns : st'[s] \in Undecided => st[s] \in Undecided
    BY <1>0, <1>7 DEF Complete, Undecided
  <2>. QED  BY <1>7, <2>1, CallbackSame DEF Complete
<1>8. CASE TakeCallbacks
  <2>1. /\ cbs' = <<>> /\ st' = st
        /\ calls' = [s \in Shutdowns |-> calls[s] + Cardinality({i \in DOMAIN cbs : cbs[i] = s})]
    BY <1>8 DEF TakeCallbacks, CallbacksLeft
  <2>2. ASSUME NEW s \in Shutdowns
        PROVE  calls'[s] <= 1 /\ (st[s] \in Undecided => calls'[s] = 0)
    <3>1. calls'[s] = calls[s] + IF \E i \in DOMAIN cbs : cbs[i] = s THEN 1 ELSE 0
      BY <2>1, CountOne
    <3>2. CASE \E i \in DOMAIN cbs : cbs[i] = s
      BY <3>1, <3>2 DEF CallbackInv
    <3>3. CASE ~ \E i \in DOMAIN cbs : cbs[i] = s
      BY <1>0, <3>1, <3>3 DEF CallbackInv, CalledOnce
    <3>. QED  BY <3>2, <3>3
  <2>3. DOMAIN cbs' = {}
    BY <2>1
  <2>. QED  BY <2>1, <2>2, <2>3 DEF CallbackInv, CalledOnce
<1>9. CASE \/ Run \/ Bootstrap \/ JoinStart
           \/ Wake \/ Take \/ CheckShutdown \/ Periodic
           \/ UNCHANGED vars
  <2>1. UNCHANGED <<st, cbs, calls>>
    BY <1>9 DEF Run, Bootstrap, JoinStart, Wake, Take, CheckShutdown, Periodic, vars
  <2>. QED  BY <2>1, CallbackSame
<1>10. ASSUME NEW t \in DOMAIN listeners, Decline(t)  PROVE  CallbackInv'
  BY <1>10, CallbackSame DEF Decline
<1>. QED
  BY <1>1, <1>2, <1>3, <1>4, <1>5, <1>6, <1>7, <1>8, <1>9, <1>10 DEF Next, Host, DhtThread

(* No callback of a shutdown is called twice, whatever joins leave behind   *)
(* and later runs take up (dhtrunner.cpp:263).                              *)
THEOREM RunnerCalledOnce == Spec => []CalledOnce
<1>. DEFINE I == TypeOK /\ CallbackInv
<1>1. Init => I
  BY TypeInit, CallbackInit
<1>2. I /\ [Next]_vars => I'
  BY TypeStep, CallbackStep
<1>3. I => CalledOnce
  BY DEF CallbackInv
<1>. HIDE DEF I
<1>. QED  BY <1>1, <1>2, <1>3, PTL DEF Spec

-----------------------------------------------------------------------------
(* Tokens. *)

(* A token that names a listener names the one of its listen. *)
TokenInv ==
    \A l \in Listens :
        /\ token[l] < listener_token
        /\ token[l] \in DOMAIN listeners => listeners[token[l]] = l

(* Initially no token is given. *)
LEMMA TokenInit == Init => TokenInv
BY DEF Init, TokenInv, NoToken

(* Steps: only the thread's listens, its cancellations and a join touch     *)
(* tokens and listeners.                                                    *)
LEMMA TokenStep ==
    ASSUME TypeOK, TokenInv, [Next]_vars
    PROVE  TokenInv'
<1>. USE DEF calling, queues, thread, registry, owner
<1>1. CASE JoinFinish
  <2>1. DOMAIN listeners' = {} /\ UNCHANGED <<token, listener_token>>
    BY <1>1 DEF JoinFinish, TokenAfterJoin
  <2>. QED  BY <2>1 DEF TokenInv
<1>2. CASE Exec
  <2>. DEFINE w == Head(batch)
  <2>1. \/ w.of \in Listens /\ RunListen(w.of)
        \/ RunCancel(w)
        \/ UNCHANGED <<token, listeners, listener_token>>
    BY <1>2, ExecKinds DEF RunCounted
  <2>. HIDE DEF w
  <2>2. CASE w.of \in Listens /\ RunListen(w.of)
    <3>1. /\ token \in [Listens -> Nat] /\ listener_token \in Nat
          /\ DOMAIN listeners \subseteq 1 .. listener_token - 1
      BY DEF TypeOK
    <3>2. /\ token' = [token EXCEPT ![w.of] = listener_token]
          /\ listener_token' = listener_token + 1
          /\ listeners' = [t \in DOMAIN listeners \cup {listener_token} |->
                              IF t = listener_token THEN w.of ELSE listeners[t]]
      BY <2>2 DEF RunListen, NextToken
    <3>3. ASSUME NEW l \in Listens
          PROVE  /\ token'[l] < listener_token'
                 /\ token'[l] \in DOMAIN listeners' => listeners'[token'[l]] = l
      <4>1. CASE l = w.of
        BY <3>1, <3>2, <4>1
      <4>2. CASE l # w.of
        BY <3>1, <3>2, <4>2 DEF TokenInv
      <4>. QED  BY <4>1, <4>2
    <3>. QED  BY <3>3 DEF TokenInv
  <2>3. CASE RunCancel(w)
    BY <2>3 DEF RunCancel, Without, TokenInv
  <2>4. CASE UNCHANGED <<token, listeners, listener_token>>
    BY <2>4 DEF TokenInv
  <2>. QED  BY <2>1, <2>2, <2>3, <2>4
<1>3. CASE \/ Host \/ Run \/ Bootstrap \/ JoinStart
           \/ Wake \/ Take \/ CheckShutdown \/ TakeCallbacks \/ Periodic
           \/ (\E x \in Counted : Complete(x)) \/ (\E t \in DOMAIN listeners : Decline(t))
           \/ UNCHANGED vars
  <2>1. UNCHANGED <<token, listeners, listener_token>>
    BY <1>3 DEF Host, OpCheck, OpEnqueue, ListenCheck, ListenEnqueue, CancelListen, Shutdown,
                ShutdownEnqueue, ShutdownWait, Run, Bootstrap, JoinStart, Wake, Take,
                CheckShutdown, TakeCallbacks, Periodic, Complete, Decline, vars
  <2>. QED  BY <2>1 DEF TokenInv
<1>. QED  BY <1>1, <1>2, <1>3 DEF Next, DhtThread

(* A cancellation removes the listener of its own listen and no other, also *)
(* when it was queued before a join (dhtrunner.cpp:794).                    *)
THEOREM RunnerCancels == Spec => CancelsOwnListener
<1>. DEFINE I == TypeOK /\ ThreadInv /\ TokenInv
<1>1. Init => I
  BY TypeInit, QueueInit, TokenInit
<1>2. I /\ [Next]_vars => I'
  BY TypeStep, ThreadStep, TokenStep
<1>3. ASSUME TypeOK, TokenInv, [Next]_vars, NEW t \in DOMAIN listeners \ DOMAIN listeners',
             pc = "exec", Head(batch).kind = "cancel"
      PROVE  listeners[t] = Head(batch).of
  <2>. USE DEF calling, queues, thread, registry, owner
  <2>. DEFINE w == Head(batch)
  <2>1. listeners' # listeners
    BY <1>3
  <2>2. Exec
    <3>1. ~(\/ Host \/ Run \/ Bootstrap \/ JoinStart
            \/ Wake \/ Take \/ CheckShutdown \/ TakeCallbacks \/ Periodic
            \/ (\E x \in Counted : Complete(x)) \/ (\E u \in DOMAIN listeners : Decline(u))
            \/ UNCHANGED vars)
      BY <2>1 DEF Host, OpCheck, OpEnqueue, ListenCheck, ListenEnqueue, CancelListen, Shutdown,
                  ShutdownEnqueue, ShutdownWait, Run, Bootstrap, JoinStart, Wake, Take,
                  CheckShutdown, TakeCallbacks, Periodic, Complete, Decline, vars
    <3>2. ~JoinFinish
      BY <1>3 DEF JoinFinish
    <3>. QED  BY <1>3, <3>1, <3>2 DEF Next, DhtThread
  <2>3. w \in Work /\ RunCancel(w)
    BY <1>3, <2>2, ExecKinds
  <2>4. w.of \in Listens
    BY <1>3, <2>3, WorkKinds
  <2>5. listeners' = Without(token[w.of])
    BY <1>3, <2>1, <2>3 DEF RunCancel
  <2>6. t = token[w.of]
    BY <1>3, <2>5 DEF Without
  <2>. QED  BY <1>3, <2>4, <2>6 DEF TokenInv
<1>4. I /\ [Next]_vars =>
        [\A t \in DOMAIN listeners \ DOMAIN listeners' :
           pc = "exec" /\ Head(batch).kind = "cancel" => listeners[t] = Head(batch).of]_vars
  BY <1>3
<1>. HIDE DEF I
<1>. QED  BY <1>1, <1>2, <1>4, PTL DEF Spec, CancelsOwnListener

-----------------------------------------------------------------------------
(* Promises. *)

(* The listen of a future is queued until its promise is set or broken, and *)
(* ahead of the cancellation.                                               *)
ListenOf(l) == [kind |-> "listen", of |-> l]
Holds(q, w) == \E i \in DOMAIN q : q[i] = w
Ahead(q, r, f) == \A i \in DOMAIN q :
    q[i].kind = "cancel" /\ f[q[i].of] = "pending" =>
        (\E j \in 1 .. i - 1 : q[j] = ListenOf(q[i].of)) \/ Holds(r, ListenOf(q[i].of))
Made(q, f) == \A i \in DOMAIN q : q[i].kind = "cancel" => f[q[i].of] \notin {"none", "passed"}

PromiseInv ==
    /\ Ahead(batch, <<>>, promise) /\ Ahead(pending, batch, promise)
    /\ \A l \in Listens : promise[l] = "pending" =>
         Holds(pending, ListenOf(l)) \/ Holds(batch, ListenOf(l))
    /\ \A l \in held : promise[l] \notin {"none", "passed"}
    /\ Made(pending, promise) /\ Made(batch, promise)
    /\ \A i \in DOMAIN prio : prio[i].kind \notin {"listen", "cancel"}

(* Initially nothing is queued, and the futures that are held were never    *)
(* assigned.                                                                *)
LEMMA PromiseInit == Init => PromiseInv
<1>. SUFFICES ASSUME Init  PROVE  PromiseInv
  OBVIOUS
<1>1. PICK cast \in Casts :
         /\ promise = [l \in Listens |-> CASE l \in Unset -> "unset"
                                            [] l \in cast \ Unset -> "none"
                                            [] OTHER -> "set"]
         /\ held = Unset \cap cast
  BY DEF Init
<1>2. ASSUME NEW l \in held  PROVE  promise[l] = "unset"
  <2>1. l \in Unset /\ l \in Listens
    BY <1>1, UnsetAssumption
  <2>. QED  BY <1>1, <2>1
<1>3. \A l \in Listens : promise[l] # "pending"
  BY <1>1
<1>4. DOMAIN batch = {} /\ DOMAIN pending = {} /\ DOMAIN prio = {}
  BY DEF Init
<1>. QED  BY <1>2, <1>3, <1>4 DEF PromiseInv, Ahead, Made

(* A step that changes neither queues nor promises. *)
LEMMA PromiseSame ==
    ASSUME PromiseInv, UNCHANGED <<pending, prio, batch, promise, held>>
    PROVE  PromiseInv'
BY DEF PromiseInv

(* A call that is queued and is neither a listen nor a cancellation. *)
LEMMA PromiseOther ==
    ASSUME TypeOK, PromiseInv, NEW w \in Work, w.kind \notin {"listen", "cancel"},
           UNCHANGED <<batch, promise, held>>,
           \/ pending' = Append(pending, w) /\ prio' = prio
           \/ prio' = Append(prio, w) /\ pending' = pending
    PROVE  PromiseInv'
<1>. USE DEF TypeOK
<1>1. CASE pending' = Append(pending, w) /\ prio' = prio
  <2>. USE AppendQueue, <1>1
  <2>1. Ahead(pending', batch, promise)
    BY DEF PromiseInv, Ahead
  <2>2. ASSUME NEW l \in Listens, Holds(pending, ListenOf(l))  PROVE  Holds(pending', ListenOf(l))
    <3>1. PICK i \in DOMAIN pending : pending[i] = ListenOf(l)
      BY <2>2 DEF Holds
    <3>2. i \in DOMAIN pending' /\ pending'[i] = pending[i]
      OBVIOUS
    <3>. QED  BY <3>1, <3>2 DEF Holds
  <2>3. Made(pending', promise)
    BY DEF PromiseInv, Made
  <2>. QED  BY <2>1, <2>2, <2>3 DEF PromiseInv
<1>2. CASE prio' = Append(prio, w) /\ pending' = pending
  <2>1. \A i \in DOMAIN prio' : prio'[i].kind \notin {"listen", "cancel"}
    BY <1>2, AppendQueue DEF PromiseInv
  <2>. QED  BY <1>2, <2>1 DEF PromiseInv
<1>. QED  BY <1>1, <1>2

(* A listen is queued, with a promise that nobody waits for yet. *)
LEMMA PromiseListen ==
    ASSUME TypeOK, PromiseInv, NEW l \in Listens, ListenEnqueue(l)
    PROVE  PromiseInv'
<1>0. /\ promise[l] = "passed" /\ promise' = [promise EXCEPT ![l] = "pending"]
      /\ held' = held \cup {l} /\ pending' = Append(pending, ListenOf(l))
      /\ UNCHANGED <<prio, batch>>
  BY DEF ListenEnqueue, ListenOf, thread
<1>1. /\ ListenOf(l) \in Work
      /\ pending \in Seq(Work) /\ promise \in [Listens -> Promise] /\ held \subseteq Listens
      /\ batch \in Seq(Work)
  BY WorkOf DEF TypeOK, ListenOf
<1>2. /\ DOMAIN pending = 1 .. Len(pending) /\ Len(pending) \in Nat
      /\ DOMAIN pending' = 1 .. Len(pending) + 1
      /\ \A i \in 1 .. Len(pending) : pending'[i] = pending[i]
      /\ pending'[Len(pending) + 1] = ListenOf(l)
  BY <1>0, <1>1, AppendQueue
<1>3. \A k \in Listens \ {l} : promise'[k] = promise[k]
  BY <1>0, <1>1
<1>4. promise'[l] = "pending"
  BY <1>0, <1>1
<1>5. /\ \A i \in DOMAIN pending : pending[i].kind = "cancel" => pending[i].of \in Listens \ {l}
      /\ \A i \in DOMAIN batch : batch[i].kind = "cancel" => batch[i].of \in Listens \ {l}
  BY <1>0, <1>1, LenProperties, ElementOfSeq, WorkKinds DEF PromiseInv, Made
<1>6. Ahead(batch, <<>>, promise') /\ Made(batch, promise')
  BY <1>3, <1>5 DEF PromiseInv, Ahead, Made
<1>7. ListenOf(l).kind = "listen"
  BY DEF ListenOf
<1>8. Made(pending', promise')
  BY <1>2, <1>3, <1>5, <1>7 DEF PromiseInv, Made
<1>9. Ahead(pending', batch, promise')
  BY <1>2, <1>3, <1>5, <1>7 DEF PromiseInv, Ahead
<1>10. \A k \in Listens : promise'[k] = "pending" =>
          Holds(pending', ListenOf(k)) \/ Holds(batch, ListenOf(k))
  BY <1>2, <1>3 DEF PromiseInv, Holds
<1>11. \A k \in held' : promise'[k] \notin {"none", "passed"}
  BY <1>0, <1>1, <1>3, <1>4 DEF PromiseInv
<1>. QED  BY <1>0, <1>6, <1>8, <1>9, <1>10, <1>11 DEF PromiseInv

(* A cancellation is queued: its listen is queued before it, or has run. *)
LEMMA PromiseCancel ==
    ASSUME TypeOK, PromiseInv, NEW l \in Listens, CancelListen(l)
    PROVE  PromiseInv'
<1>. DEFINE w == [kind |-> "cancel", of |-> l]
<1>0. /\ l \in held /\ held' = held \ {l} /\ pending' = Append(pending, w)
      /\ UNCHANGED <<prio, batch, promise>>
  BY DEF CancelListen, thread
<1>1. w \in Work /\ pending \in Seq(Work) /\ w.kind = "cancel" /\ w.of = l
  BY WorkOf DEF TypeOK
<1>. HIDE DEF w
<1>2. /\ DOMAIN pending = 1 .. Len(pending) /\ Len(pending) \in Nat
      /\ DOMAIN pending' = 1 .. Len(pending) + 1
      /\ \A i \in 1 .. Len(pending) : pending'[i] = pending[i]
      /\ pending'[Len(pending) + 1] = w
  BY <1>0, <1>1, AppendQueue
<1>3. promise[l] \notin {"none", "passed"}
  BY <1>0 DEF PromiseInv
<1>4. Made(pending', promise)
  BY <1>1, <1>2, <1>3 DEF PromiseInv, Made
<1>5. Ahead(pending', batch, promise)
  <2>. SUFFICES ASSUME NEW i \in DOMAIN pending', pending'[i].kind = "cancel",
                       promise[pending'[i].of] = "pending"
                PROVE  \/ \E j \in 1 .. i - 1 : pending'[j] = ListenOf(pending'[i].of)
                       \/ Holds(batch, ListenOf(pending'[i].of))
    BY DEF Ahead
  <2>1. CASE i \in 1 .. Len(pending)
    BY <1>2, <2>1 DEF PromiseInv, Ahead
  <2>2. CASE i = Len(pending) + 1
    <3>1. pending'[i].of = l /\ promise[l] = "pending"
      BY <1>1, <1>2, <2>2
    <3>2. Holds(pending, ListenOf(l)) \/ Holds(batch, ListenOf(l))
      BY <3>1 DEF PromiseInv
    <3>. QED  BY <1>2, <2>2, <3>1, <3>2 DEF Holds
  <2>. QED  BY <1>2, <2>1, <2>2
<1>6. \A k \in Listens : Holds(pending, ListenOf(k)) => Holds(pending', ListenOf(k))
  BY <1>2 DEF Holds
<1>. QED  BY <1>0, <1>4, <1>5, <1>6 DEF PromiseInv

(* The thread takes a queue. *)
LEMMA PromiseTake ==
    ASSUME ThreadInv, PromiseInv, Take
    PROVE  PromiseInv'
<1>1. /\ batch = <<>> /\ UNCHANGED <<promise, held>>
      /\ \/ batch' = pending /\ pending' = <<>> /\ prio' = prio
         \/ batch' = prio /\ prio' = <<>> /\ pending' = pending
  BY DEF Take, ThreadInv, calling
<1>2. \A w : ~Holds(<<>>, w)
  BY DEF Holds
<1>3. DOMAIN <<>> = {}
  OBVIOUS
<1>4. CASE batch' = pending /\ pending' = <<>> /\ prio' = prio
  BY <1>1, <1>2, <1>3, <1>4 DEF PromiseInv, Ahead, Made
<1>5. CASE batch' = prio /\ prio' = <<>> /\ pending' = pending
  <2>1. Ahead(batch', <<>>, promise) /\ Made(batch', promise)
    BY <1>5 DEF PromiseInv, Ahead, Made
  <2>2. Ahead(pending, batch', promise)
    BY <1>1, <1>2 DEF PromiseInv, Ahead
  <2>. QED  BY <1>1, <1>2, <1>3, <1>5, <2>1, <2>2 DEF PromiseInv
<1>. QED  BY <1>1, <1>4, <1>5

(* The thread executes: a listen sets its promise, nothing else makes one   *)
(* pending or undecided.                                                    *)
LEMMA PromiseExec ==
    ASSUME TypeOK, PromiseInv, Exec
    PROVE  PromiseInv'
<1>. DEFINE w == Head(batch)
<1>0. /\ w \in Work /\ batch # <<>> /\ batch' = Tail(batch)
      /\ UNCHANGED <<pending, prio, held>>
  BY ExecKinds DEF queues, calling, RunCounted, RunListen, RunCancel
<1>1. \/ w.kind = "listen" /\ w.of \in Listens /\ promise' = [promise EXCEPT ![w.of] = "set"]
      \/ w.kind # "listen" /\ promise' = promise
  BY ExecKinds DEF calling, RunCounted, RunListen, RunCancel
<1>2. /\ DOMAIN batch = 1 .. Len(batch) /\ Len(batch) \in Nat \ {0}
      /\ DOMAIN batch' = 1 .. Len(batch) - 1
      /\ \A i \in 1 .. Len(batch) - 1 : batch'[i] = batch[i + 1]
      /\ w = batch[1]
  BY <1>0, TailQueue DEF TypeOK
<1>. HIDE DEF w
<1>3. promise \in [Listens -> Promise] /\ held \subseteq Listens
  BY DEF TypeOK
<1>4. /\ \A l \in Listens : promise'[l] = "pending" => promise[l] = "pending" /\ w # ListenOf(l)
      /\ \A l \in Listens : promise'[l] \in {"none", "passed"} => promise[l] \in {"none", "passed"}
  BY <1>1, <1>3 DEF ListenOf
<1>5. /\ \A i \in DOMAIN pending : pending[i].kind = "cancel" => pending[i].of \in Listens
      /\ \A i \in DOMAIN batch : batch[i].kind = "cancel" => batch[i].of \in Listens
  BY LenProperties, ElementOfSeq, WorkKinds DEF TypeOK
<1>6. ASSUME NEW l \in Listens, w # ListenOf(l), Holds(batch, ListenOf(l))
      PROVE  Holds(batch', ListenOf(l))
  <2>1. PICK i \in 1 .. Len(batch) : batch[i] = ListenOf(l)
    BY <1>2, <1>6 DEF Holds
  <2>2. i # 1
    BY <1>2, <1>6, <2>1
  <2>3. i - 1 \in DOMAIN batch' /\ batch'[i - 1] = batch[i]
    BY <1>2, <2>1, <2>2
  <2>. QED  BY <2>1, <2>3 DEF Holds
<1>7. Made(pending, promise') /\ Made(batch', promise')
  <2>1. Made(pending, promise')
    BY <1>4, <1>5 DEF PromiseInv, Made
  <2>2. ASSUME NEW i \in DOMAIN batch', batch'[i].kind = "cancel"
        PROVE  promise'[batch'[i].of] \notin {"none", "passed"}
    <3>1. i + 1 \in DOMAIN batch /\ batch'[i] = batch[i + 1]
      BY <1>2
    <3>. QED  BY <1>4, <1>5, <2>2, <3>1 DEF PromiseInv, Made
  <2>. QED  BY <2>1, <2>2 DEF Made
<1>8. Ahead(pending, batch', promise')
  <2>. SUFFICES ASSUME NEW i \in DOMAIN pending, pending[i].kind = "cancel",
                       promise'[pending[i].of] = "pending"
                PROVE  \/ \E j \in 1 .. i - 1 : pending[j] = ListenOf(pending[i].of)
                       \/ Holds(batch', ListenOf(pending[i].of))
    BY DEF Ahead
  <2>. QED  BY <1>4, <1>5, <1>6 DEF PromiseInv, Ahead
<1>9. Ahead(batch', <<>>, promise')
  <2>. SUFFICES ASSUME NEW i \in DOMAIN batch', batch'[i].kind = "cancel",
                       promise'[batch'[i].of] = "pending"
                PROVE  \E j \in 1 .. i - 1 : batch'[j] = ListenOf(batch'[i].of)
    BY DEF Ahead
  <2>1. i \in 1 .. Len(batch) - 1 /\ i + 1 \in DOMAIN batch /\ batch'[i] = batch[i + 1]
    BY <1>2
  <2>2. promise[batch'[i].of] = "pending" /\ w # ListenOf(batch'[i].of)
    BY <1>4, <1>5, <2>1
  <2>3. ~Holds(<<>>, ListenOf(batch'[i].of))
    BY DEF Holds
  <2>4. PICK j \in 1 .. i : batch[j] = ListenOf(batch'[i].of)
    <3>1. PICK k \in DOMAIN batch : k = i + 1
      BY <2>1
    <3>2. batch[k].kind = "cancel" /\ promise[batch[k].of] = "pending" /\ batch'[i].of = batch[k].of
      BY <2>1, <2>2, <3>1
    <3>3. \E j \in 1 .. k - 1 : batch[j] = ListenOf(batch[k].of)
      BY <2>3, <3>2 DEF PromiseInv, Ahead
    <3>4. k - 1 = i
      BY <2>1, <3>1
    <3>. QED  BY <3>2, <3>3, <3>4
  <2>5. j # 1
    BY <1>2, <2>2, <2>4
  <2>6. j - 1 \in 1 .. i - 1 /\ batch'[j - 1] = batch[j]
    BY <1>2, <2>1, <2>4, <2>5
  <2>. QED  BY <2>4, <2>6
<1>10. \A l \in Listens : promise'[l] = "pending" =>
          Holds(pending, ListenOf(l)) \/ Holds(batch', ListenOf(l))
  BY <1>4, <1>6 DEF PromiseInv
<1>11. \A l \in held : promise'[l] \notin {"none", "passed"}
  BY <1>3, <1>4 DEF PromiseInv
<1>. QED  BY <1>0, <1>7, <1>8, <1>9, <1>10, <1>11 DEF PromiseInv

(* Steps. *)
LEMMA PromiseStep ==
    ASSUME TypeOK, ThreadInv, PromiseInv, [Next]_vars
    PROVE  PromiseInv'
<1>. USE DEF calling, queues, thread, registry, owner
<1>1. ASSUME NEW o \in Ops, OpEnqueue(o)  PROVE  PromiseInv'
  <2>. DEFINE w == [kind |-> "op", of |-> o]
  <2>1. w \in Work /\ w.kind \notin {"listen", "cancel"}
    BY WorkOf
  <2>2. pending' = Append(pending, w) /\ UNCHANGED <<prio, batch, promise, held>>
    BY <1>1 DEF OpEnqueue
  <2>. QED  BY <2>1, <2>2, PromiseOther
<1>2. ASSUME NEW s \in Shutdowns, ShutdownEnqueue(s)  PROVE  PromiseInv'
  <2>. DEFINE w == [kind |-> "shutdown", of |-> s]
  <2>1. w \in Work /\ w.kind \notin {"listen", "cancel"}
    BY WorkOf
  <2>2. prio' = Append(prio, w) /\ UNCHANGED <<pending, batch, promise, held>>
    BY <1>2 DEF ShutdownEnqueue
  <2>. QED  BY <2>1, <2>2, PromiseOther
<1>3. CASE Bootstrap
  <2>. DEFINE w == [kind |-> "bootstrap", of |-> NoToken]
  <2>1. w \in Work /\ w.kind \notin {"listen", "cancel"}
    BY WorkOf
  <2>2. prio' = Append(prio, w) /\ UNCHANGED <<pending, batch, promise, held>>
    BY <1>3 DEF Bootstrap
  <2>. QED  BY <2>1, <2>2, PromiseOther
<1>4. ASSUME NEW t \in DOMAIN listeners, Decline(t)  PROVE  PromiseInv'
  <2>. DEFINE w == [kind |-> "cancelToken", of |-> t]
  <2>1. t \in Nat
    BY DEF TypeOK
  <2>2. w \in Work /\ w.kind \notin {"listen", "cancel"}
    BY <2>1, WorkOf
  <2>3. pending' = Append(pending, w) /\ UNCHANGED <<prio, batch, promise, held>>
    BY <1>4 DEF Decline
  <2>. QED  BY <2>2, <2>3, PromiseOther
<1>5. ASSUME NEW l \in Listens, ListenCheck(l)  PROVE  PromiseInv'
  <2>1. /\ promise[l] = "none" /\ UNCHANGED <<pending, prio, batch>>
        /\ \/ promise' = [promise EXCEPT ![l] = "passed"] /\ held' = held
           \/ promise' = [promise EXCEPT ![l] = "set"] /\ held' = held \cup {l}
    BY <1>5 DEF ListenCheck
  <2>2. promise \in [Listens -> Promise] /\ held \subseteq Listens
    BY DEF TypeOK
  <2>3. \A k \in Listens \ {l} : promise'[k] = promise[k]
    BY <2>1, <2>2
  <2>4. promise'[l] # "pending"
    BY <2>1, <2>2
  <2>5. /\ \A i \in DOMAIN pending : pending[i].kind = "cancel" => pending[i].of \in Listens \ {l}
        /\ \A i \in DOMAIN batch : batch[i].kind = "cancel" => batch[i].of \in Listens \ {l}
    BY <2>1, LenProperties, ElementOfSeq, WorkKinds DEF PromiseInv, Made, TypeOK
  <2>6. Ahead(batch, <<>>, promise') /\ Ahead(pending, batch, promise')
    BY <2>3, <2>5 DEF PromiseInv, Ahead
  <2>7. Made(batch, promise') /\ Made(pending, promise')
    BY <2>3, <2>5 DEF PromiseInv, Made
  <2>8. \A k \in held' : promise'[k] \notin {"none", "passed"}
    BY <2>1, <2>2, <2>3 DEF PromiseInv
  <2>. QED  BY <2>1, <2>3, <2>4, <2>6, <2>7, <2>8 DEF PromiseInv
<1>6. CASE JoinFinish
  <2>1. /\ DOMAIN batch' = {} /\ DOMAIN pending' = {} /\ DOMAIN prio' = {} /\ held' = held
        /\ promise' = [l \in Listens |-> IF promise[l] = "pending" THEN "broken" ELSE promise[l]]
    BY <1>6 DEF JoinFinish, ThreadInv
  <2>2. held \subseteq Listens
    BY DEF TypeOK
  <2>3. /\ \A l \in Listens : promise'[l] # "pending"
        /\ \A l \in held : promise'[l] \notin {"none", "passed"}
    BY <2>1, <2>2 DEF PromiseInv
  <2>. QED  BY <2>1, <2>3 DEF PromiseInv, Ahead, Made
<1>7. CASE \/ (\E o \in Ops : OpCheck(o)) \/ (\E s \in Shutdowns : Shutdown(s) \/ ShutdownWait(s))
           \/ Run \/ JoinStart \/ Wake \/ CheckShutdown \/ TakeCallbacks \/ Periodic
           \/ (\E x \in Counted : Complete(x)) \/ UNCHANGED vars
  <2>1. UNCHANGED <<pending, prio, batch, promise, held>>
    BY <1>7 DEF OpCheck, Shutdown, ShutdownWait, Run, JoinStart, Wake, CheckShutdown,
                TakeCallbacks, Periodic, Complete, vars
  <2>. QED  BY <2>1, PromiseSame
<1>. QED
  BY <1>1, <1>2, <1>3, <1>4, <1>5, <1>6, <1>7, PromiseListen, PromiseCancel, PromiseTake,
     PromiseExec DEF Next, Host, DhtThread

(* The thread never waits for a token that only it could provide            *)
(* (dhtrunner.cpp:794).                                                     *)
THEOREM RunnerNeverBlocks == Spec => []CancelNeverBlocks
<1>. DEFINE I == TypeOK /\ ThreadInv /\ PromiseInv
<1>1. Init => I
  BY TypeInit, QueueInit, PromiseInit
<1>2. I /\ [Next]_vars => I'
  BY TypeStep, ThreadStep, PromiseStep
<1>3. I => CancelNeverBlocks
  BY DEF PromiseInv, Ahead, Holds, ListenOf, CancelNeverBlocks
<1>. HIDE DEF I
<1>. QED  BY <1>1, <1>2, <1>3, PTL DEF Spec
=============================================================================
