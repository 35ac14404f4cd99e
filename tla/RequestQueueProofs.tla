-------------------------- MODULE RequestQueueProofs --------------------------
(***************************************************************************)
(* Proofs about the request queue, for any number of workers, any queue    *)
(* capacity and any set of descriptors.                                    *)
(***************************************************************************)
EXTENDS RequestQueue, FiniteSetTheorems, SequenceTheorems, TLAPS

(* The part of the inductive invariant that fixes who is where: the holder *)
(* of the mutex is the one thread inside a critical section, the threads   *)
(* in a wait set are blocked, and a thread past the while condition still  *)
(* finds what the condition established.                                   *)
Control ==
  /\ pc[Master] \in {"accept", "lock", "check", "wait", "push"}
  /\ \A w \in Workers : pc[w] \in {"lock", "check", "wait", "pop", "handle"}
  /\ \A t \in Threads : pc[t] \in {"check", "push", "pop"} <=> mutex = t
  /\ \A t \in not_full \cup not_empty : pc[t] = "wait"
  /\ pc[Master] = "push" => count < Cap
  /\ \A w \in Workers : pc[w] = "pop" => count > 0

(* The part about the data: the tail follows from the other two indices,   *)
(* and every open connection is in exactly one place.                      *)
PcOwns ==
  /\ pc[Master] = "accept" <=> conn[Master] = NoFd
  /\ \A w \in Workers : pc[w] = "handle" <=> conn[w] # NoFd

Places ==
  /\ tail = (head + count) % Cap
  /\ \A t \in Threads : conn[t] # NoFd => conn[t] \in open
  /\ \A i \in 1..count : Contents[i] \in open
  /\ \A t, u \in Threads : conn[t] = conn[u] /\ conn[t] # NoFd => t = u
  /\ \A i, j \in 1..count : Contents[i] = Contents[j] => i = j
  /\ \A t \in Threads : \A i \in 1..count : conn[t] # Contents[i]
  /\ \A fd \in open : \/ \E t \in Threads : conn[t] = fd
                      \/ \E i \in 1..count : Contents[i] = fd

Ownership == PcOwns /\ Places

IInv == TypeOK /\ Control /\ Ownership /\ MasterSleepsOnlyWhenFull
-----------------------------------------------------------------------------
(* Arithmetic of the ring. *)

(* An index already below the capacity is not moved by the modulus. *)
LEMMA ModSmall ==
  ASSUME NEW a \in 0..Cap-1
  PROVE  a % Cap = a
BY QueueAssumption

(* An index at most one turn above the capacity wraps once. *)
LEMMA ModOnce ==
  ASSUME NEW a \in Cap..(2 * Cap - 1)
  PROVE  a % Cap = a - Cap
BY QueueAssumption

(* Any index stays in the ring. *)
LEMMA ModRange ==
  ASSUME NEW a \in Nat
  PROVE  a % Cap \in 0..Cap-1
BY QueueAssumption

(* The two cases above in one formula, without the modulus. *)
LEMMA ModWrap ==
  ASSUME NEW a \in 0..(2 * Cap - 1)
  PROVE  /\ a < Cap => a % Cap = a
         /\ ~(a < Cap) => a % Cap = a - Cap
<1>1. Cap \in Nat \ {0}
  BY QueueAssumption
<1>2. CASE a < Cap
  BY <1>1, <1>2, ModSmall
<1>3. CASE a >= Cap
  BY <1>1, <1>3, ModOnce
<1> QED BY <1>1, <1>2, <1>3

(* The slot after the last queued one is none of the queued ones. *)
LEMMA FreeSlot ==
  ASSUME NEW h \in 0..Cap-1, NEW n \in 0..Cap-1, NEW i \in 1..n
  PROVE  (h + i - 1) % Cap # (h + n) % Cap
<1>1. Cap \in Nat \ {0}
  BY QueueAssumption
<1>2. h + i - 1 \in 0..(2 * Cap - 1) /\ h + n \in 0..(2 * Cap - 1)
  BY <1>1
<1>3. /\ h + i - 1 < Cap => (h + i - 1) % Cap = h + i - 1
      /\ ~(h + i - 1 < Cap) => (h + i - 1) % Cap = h + i - 1 - Cap
  BY <1>2, QueueAssumption
<1>4. /\ h + n < Cap => (h + n) % Cap = h + n
      /\ ~(h + n < Cap) => (h + n) % Cap = h + n - Cap
  BY <1>2, QueueAssumption
<1> QED BY <1>1, <1>3, <1>4

(* The slot that follows the last queued one is the next last one. *)
LEMMA NextSlot ==
  ASSUME NEW h \in 0..Cap-1, NEW n \in 0..Cap-1
  PROVE  (((h + n) % Cap) + 1) % Cap = (h + n + 1) % Cap
<1>1. Cap \in Nat \ {0}
  BY QueueAssumption
<1>2. CASE Cap = 1
  BY <1>2
<1>3. CASE Cap > 1
  <2>1. /\ h + n < Cap => (h + n) % Cap = h + n
        /\ ~(h + n < Cap) => (h + n) % Cap = h + n - Cap
    BY <1>1
  <2>2. /\ h + n + 1 < Cap => (h + n + 1) % Cap = h + n + 1
        /\ ~(h + n + 1 < Cap) => (h + n + 1) % Cap = h + n + 1 - Cap
    BY <1>1, <1>3
  <2>3. PICK k \in 0..Cap-1 : k = (h + n) % Cap
    BY <1>1, <2>1
  <2>4. /\ k + 1 < Cap => (k + 1) % Cap = k + 1
        /\ ~(k + 1 < Cap) => (k + 1) % Cap = k + 1 - Cap
    BY <1>1, <1>3
  <2>5. (k + 1) % Cap = (h + n + 1) % Cap
    BY <1>1, <2>1, <2>2, <2>3, <2>4
  <2> QED BY <2>3, <2>5
<1> QED BY <1>1, <1>2, <1>3

(* Reducing twice is reducing once: an index may be wrapped at every step. *)
LEMMA ModTwice ==
  ASSUME NEW a \in 0..Cap, NEW b \in 0..Cap-1
  PROVE  ((a % Cap) + b) % Cap = (a + b) % Cap
<1>1. Cap \in Nat \ {0}
  BY QueueAssumption
<1>2. a \in 0..(2 * Cap - 1) /\ a + b \in 0..(2 * Cap - 1)
  BY <1>1
<1>3. CASE a < Cap
  <2>1. a \in 0..Cap-1
    BY <1>1, <1>3
  <2>2. a % Cap = a
    BY <2>1, ModSmall
  <2> QED BY <2>2, Zenon
<1>4. CASE a = Cap
  <2>1. a % Cap = 0
    BY <1>1, <1>4, <1>2, ModWrap
  <2>2. b % Cap = b
    BY ModSmall
  <2>3. (a + b) % Cap = b
    BY <1>1, <1>4, <1>2, ModWrap
  <2> QED BY <1>1, <2>1, <2>2, <2>3
<1> QED BY <1>1, <1>3, <1>4
-----------------------------------------------------------------------------
(* The control part and the types are inductive together: the types need   *)
(* the bounds that the while conditions leave behind.                      *)
LEMMA ControlInit == Init => TypeOK /\ Control
BY QueueAssumption DEF Init, TypeOK, Labels, Control, Threads

(* Every step of any thread keeps the types and the control invariant. *)
LEMMA ControlStep == TypeOK /\ Control /\ [Next]_vars => TypeOK' /\ Control'
<1> SUFFICES ASSUME TypeOK, Control, [Next]_vars
             PROVE  TypeOK' /\ Control'
  OBVIOUS
<1> USE QueueAssumption DEF TypeOK, Labels, Control, Threads, qvars
<1>1. ASSUME NEW fd \in FDs, Accept(fd) PROVE TypeOK' /\ Control'
  BY <1>1 DEF Accept, Goto
<1>2. ASSUME NEW t \in Threads, Lock(t) PROVE TypeOK' /\ Control'
  BY <1>2 DEF Lock, Goto
<1>3. ASSUME NEW t \in Threads, Relock(t) PROVE TypeOK' /\ Control'
  BY <1>3 DEF Relock, Goto
<1>4. CASE PushWait
  BY <1>4 DEF PushWait, WaitOn, Goto
<1>5. CASE PushReady
  BY <1>5 DEF PushReady, Goto
<1>6. CASE Push
  <2>1. tail' \in 0..Cap-1 /\ count' \in 1..Cap
    <3>1. tail + 1 \in Nat
      OBVIOUS
    <3>2. (tail + 1) % Cap \in 0..Cap-1
      BY <3>1, ModRange
    <3>3. tail' = (tail + 1) % Cap
      BY <1>6 DEF Push
    <3>4. count' \in 1..Cap
      BY <1>6 DEF Push
    <3> QED BY <3>2, <3>3, <3>4
  <2>2. not_empty' \subseteq not_empty
    BY <1>6 DEF Push, Signal
  <2>3. /\ items' \in [0..Cap-1 -> FDs \cup {NoFd}]
        /\ conn' = [conn EXCEPT ![Master] = NoFd]
        /\ pc[Master] = "push" /\ pc' = [pc EXCEPT ![Master] = "accept"]
        /\ mutex' = Nobody
        /\ UNCHANGED <<head, not_full, open>>
    BY <1>6 DEF Push, Goto
  <2> QED BY <2>1, <2>2, <2>3
<1>7. ASSUME NEW w \in Workers, PopWait(w) PROVE TypeOK' /\ Control'
  BY <1>7 DEF PopWait, WaitOn, Goto
<1>8. ASSUME NEW w \in Workers, PopReady(w) PROVE TypeOK' /\ Control'
  BY <1>8 DEF PopReady, Goto
<1>9. ASSUME NEW w \in Workers, Pop(w) PROVE TypeOK' /\ Control'
  <2>1. head' \in 0..Cap-1 /\ count' \in 0..Cap-1
    <3>1. head + 1 \in Nat
      OBVIOUS
    <3>2. (head + 1) % Cap \in 0..Cap-1
      BY <3>1, ModRange
    <3>3. head' = (head + 1) % Cap
      BY <1>9 DEF Pop
    <3>4. count' \in 0..Cap-1
      BY <1>9 DEF Pop
    <3> QED BY <3>2, <3>3, <3>4
  <2>2. not_full' \subseteq not_full
    BY <1>9 DEF Pop, Signal
  <2>3. /\ conn' \in [Threads -> FDs \cup {NoFd}]
        /\ pc[w] = "pop" /\ pc' = [pc EXCEPT ![w] = "handle"]
        /\ mutex' = Nobody
        /\ UNCHANGED <<items, tail, not_empty, open>>
    BY <1>9 DEF Pop, Goto
  <2> QED BY <2>1, <2>2, <2>3
<1>10. ASSUME NEW w \in Workers, Finish(w) PROVE TypeOK' /\ Control'
  BY <1>10 DEF Finish, Goto
<1>11. ASSUME NEW t \in Threads, SpuriousWake(t) PROVE TypeOK' /\ Control'
  BY <1>11 DEF SpuriousWake
<1>12. CASE UNCHANGED vars
  BY <1>12 DEF vars
<1> QED
  BY <1>1, <1>2, <1>3, <1>4, <1>5, <1>6, <1>7, <1>8, <1>9, <1>10, <1>11, <1>12
  DEF Next, MasterStep, WorkerStep

(* The types of server.c's queue state are kept for every capacity and     *)
(* number of threads: the indices stay in the ring and the count between 0 *)
(* and the capacity, although no assignment tests for that.                *)
THEOREM TypeCorrect == Spec => []TypeOK
BY ControlInit, ControlStep, PTL DEF Spec

(* The control invariant holds in every reachable state. *)
LEMMA ControlInvariant == Spec => [](TypeOK /\ Control)
BY ControlInit, ControlStep, PTL DEF Spec
-----------------------------------------------------------------------------
(* No lost wakeups. *)

(* The master is in the wait set only from a PushWait to the next Pop,     *)
(* and the queue stays full between the two.                               *)
LEMMA MasterWakeup ==
  TypeOK /\ Control /\ MasterSleepsOnlyWhenFull /\ [Next]_vars => MasterSleepsOnlyWhenFull'
<1> SUFFICES ASSUME TypeOK, Control, MasterSleepsOnlyWhenFull, [Next]_vars
             PROVE  MasterSleepsOnlyWhenFull'
  OBVIOUS
<1> USE QueueAssumption DEF TypeOK, Control, Threads, qvars, MasterSleepsOnlyWhenFull
<1>1. CASE PushWait
  BY <1>1 DEF PushWait
<1>2. CASE Push
  BY <1>2 DEF Push
<1>3. ASSUME NEW w \in Workers, Pop(w) PROVE MasterSleepsOnlyWhenFull'
  <2>1. not_full' = {}
    BY <1>3 DEF Pop, Signal
  <2> QED BY <2>1
<1>4. CASE UNCHANGED <<not_full, count>>
  BY <1>4
<1>5. ASSUME NEW t \in Threads, SpuriousWake(t) PROVE MasterSleepsOnlyWhenFull'
  BY <1>5 DEF SpuriousWake
<1> QED
  BY <1>1, <1>2, <1>3, <1>4, <1>5
  DEF Next, MasterStep, WorkerStep, vars, Accept, Lock, Relock, PushReady, PopWait,
      PopReady, Finish

(* The master is never asleep in queue_push while the queue has room:      *)
(* the signal of every queue_pop reaches it.                               *)
THEOREM MasterNeverSleepsWithRoom == Spec => []MasterSleepsOnlyWhenFull
<1>1. Init => MasterSleepsOnlyWhenFull
  BY DEF Init, MasterSleepsOnlyWhenFull
<1> QED
  BY <1>1, MasterWakeup, ControlInvariant, PTL DEF Spec
-----------------------------------------------------------------------------
(* The condition not_empty: a counting argument over the workers that are  *)
(* on their way to a pop.  Only Pop takes a worker out of Heading while    *)
(* the queue is not empty, and it takes a connection with it; Push either  *)
(* brings a sleeping worker in or finds none.                              *)
LEMMA WorkerWakeup ==
  TypeOK /\ Control /\ NoIdleWorkerWhileBacklog /\ [Next]_vars => NoIdleWorkerWhileBacklog'
<1> SUFFICES ASSUME TypeOK, Control, NoIdleWorkerWhileBacklog, [Next]_vars,
                    not_empty' # {}
             PROVE  count' <= Cardinality(Heading')
  BY DEF NoIdleWorkerWhileBacklog
<1> USE QueueAssumption DEF TypeOK, Threads, qvars
<1>0. /\ IsFiniteSet(Heading) /\ Cardinality(Heading) \in Nat
      /\ IsFiniteSet(Heading') /\ Cardinality(Heading') \in Nat
  <2>1. Heading \in SUBSET Workers /\ Heading' \in SUBSET Workers
    BY DEF Heading
  <2> QED BY <2>1, FS_Subset, FS_CardinalityType
<1>1. ASSUME Heading \subseteq Heading', not_empty # {}, count' = count
      PROVE  count' <= Cardinality(Heading')
  <2>1. Cardinality(Heading) <= Cardinality(Heading')
    BY <1>0, <1>1, FS_Subset
  <2> QED BY <1>0, <1>1, <2>1 DEF NoIdleWorkerWhileBacklog
<1>2. ASSUME NEW fd \in FDs, Accept(fd) PROVE count' <= Cardinality(Heading')
  BY <1>1, <1>2 DEF Accept, Goto, Heading
<1>3. ASSUME NEW t \in Threads, Lock(t) PROVE count' <= Cardinality(Heading')
  BY <1>1, <1>3 DEF Lock, Goto, Heading
<1>4. ASSUME NEW t \in Threads, Relock(t) PROVE count' <= Cardinality(Heading')
  BY <1>1, <1>4 DEF Relock, Goto, Heading
<1>5. CASE PushWait \/ PushReady
  BY <1>1, <1>5 DEF PushWait, PushReady, WaitOn, Goto, Heading
<1>6. CASE Push
  <2>1. PICK u \in not_empty : not_empty' = not_empty \ {u}
    BY <1>6 DEF Push, Signal
  <2>2. u \in Workers /\ pc[u] = "wait" /\ u \notin Heading
    BY <2>1 DEF Control, Heading
  <2>3. pc' = [pc EXCEPT ![Master] = "accept"] /\ count' = count + 1
    BY <1>6 DEF Push, Goto
  <2>4. Heading \cup {u} \subseteq Heading'
    BY <2>1, <2>2, <2>3 DEF Heading
  <2>5. IsFiniteSet(Heading \cup {u}) /\ Cardinality(Heading \cup {u}) = Cardinality(Heading) + 1
    BY <1>0, <2>2, FS_AddElement
  <2>6. Cardinality(Heading) + 1 <= Cardinality(Heading')
    BY <1>0, <2>4, <2>5, FS_Subset
  <2>7. count <= Cardinality(Heading)
    BY <2>1 DEF NoIdleWorkerWhileBacklog
  <2> QED BY <1>0, <2>3, <2>6, <2>7
<1>7. ASSUME NEW w \in Workers, PopWait(w) PROVE count' <= Cardinality(Heading')
  BY <1>0, <1>7 DEF PopWait
<1>8. ASSUME NEW w \in Workers, PopReady(w) PROVE count' <= Cardinality(Heading')
  BY <1>1, <1>8 DEF PopReady, Goto, Heading
<1>9. ASSUME NEW w \in Workers, Pop(w) PROVE count' <= Cardinality(Heading')
  <2>1. /\ pc[w] = "pop" /\ pc' = [pc EXCEPT ![w] = "handle"]
        /\ not_empty' = not_empty /\ count' = count - 1
    BY <1>9 DEF Pop, Goto
  <2>2. w \in Heading /\ Heading' = Heading \ {w}
    BY <2>1 DEF Heading
  <2>3. Cardinality(Heading') = Cardinality(Heading) - 1
    BY <1>0, <2>2, FS_RemoveElement
  <2> QED BY <1>0, <2>1, <2>3 DEF NoIdleWorkerWhileBacklog
<1>10. ASSUME NEW w \in Workers, Finish(w) PROVE count' <= Cardinality(Heading')
  BY <1>1, <1>10 DEF Finish, Goto, Heading
<1>11. ASSUME NEW t \in Threads, SpuriousWake(t) PROVE count' <= Cardinality(Heading')
  BY <1>1, <1>11 DEF SpuriousWake, Heading
<1>12. CASE UNCHANGED vars
  BY <1>1, <1>12 DEF vars, Heading
<1> QED
  BY <1>2, <1>3, <1>4, <1>5, <1>6, <1>7, <1>8, <1>9, <1>10, <1>11, <1>12
  DEF Next, MasterStep, WorkerStep

(* While a worker sleeps in queue_pop, every queued connection has an      *)
(* awake worker coming for it: the signal of each queue_push is never lost *)
(* or absorbed, whatever barges in between.                                *)
THEOREM NoLostWakeup == Spec => []NoIdleWorkerWhileBacklog
<1>1. Init => NoIdleWorkerWhileBacklog
  BY DEF Init, NoIdleWorkerWhileBacklog
<1> QED
  BY <1>1, WorkerWakeup, ControlInvariant, PTL DEF Spec
-----------------------------------------------------------------------------
(* What the two critical sections do to the contents of the ring. *)

(* queue_push adds its connection behind the queued ones and moves none. *)
LEMMA PushContents ==
  ASSUME TypeOK, Control, Ownership, Push
  PROVE  /\ count \in 0..Cap-1 /\ count' = count + 1
         /\ \A i \in 1..count : Contents'[i] = Contents[i]
         /\ Contents'[count + 1] = conn[Master]
         /\ tail' = (head' + count') % Cap
<1>1. /\ Cap \in Nat \ {0} /\ head \in 0..Cap-1 /\ count \in 0..Cap-1
      /\ head' = head /\ count' = count + 1 /\ tail = (head + count) % Cap
      /\ items \in [0..Cap-1 -> FDs \cup {NoFd}]
      /\ items' = [items EXCEPT ![tail] = conn[Master]]
      /\ tail' = (tail + 1) % Cap
  <2>1. tail = (head + count) % Cap
    BY DEF Ownership, PcOwns, Places
  <2> QED BY <2>1, QueueAssumption DEF TypeOK, Control, Push
<1>2. ASSUME NEW i \in 1..count PROVE Contents'[i] = Contents[i]
  <2>1. (head + i - 1) % Cap # tail
    BY <1>1, FreeSlot
  <2>2. (head + i - 1) % Cap \in 0..Cap-1
    <3>1. head + i - 1 \in Nat
      BY <1>1
    <3> QED BY <3>1, ModRange, Zenon
  <2>3. items'[(head + i - 1) % Cap] = items[(head + i - 1) % Cap]
    BY <1>1, <2>1, <2>2
  <2>4. i \in 1..count'
    BY <1>1
  <2> QED BY <1>1, <2>3, <2>4 DEF Contents
<1>3. Contents'[count + 1] = conn[Master]
  <2>1. count + 1 \in 1..count' /\ head + (count + 1) - 1 = head + count
    BY <1>1
  <2>2. (head + count) % Cap \in 0..Cap-1
    <3>1. head + count \in Nat
      BY <1>1
    <3> QED BY <3>1, ModRange, Zenon
  <2>3. items'[(head + count) % Cap] = conn[Master]
    BY <1>1, <2>2
  <2> QED BY <1>1, <2>1, <2>3 DEF Contents
<1>4. tail' = (head' + count') % Cap
  <2>1. head' + count' = head + count + 1
    BY <1>1
  <2>2. (((head + count) % Cap) + 1) % Cap = (head + count + 1) % Cap
    BY <1>1, NextSlot
  <2> QED BY <1>1, <2>1, <2>2
<1> QED BY <1>1, <1>2, <1>3, <1>4

(* queue_pop hands out the first queued connection and moves the others up. *)
LEMMA PopContents ==
  ASSUME TypeOK, Control, Ownership, NEW w \in Workers, Pop(w)
  PROVE  /\ count \in 1..Cap /\ count' = count - 1
         /\ \A i \in 1..count' : Contents'[i] = Contents[i + 1]
         /\ conn' = [conn EXCEPT ![w] = Contents[1]]
         /\ tail' = (head' + count') % Cap
<1>1. /\ Cap \in Nat \ {0} /\ head \in 0..Cap-1 /\ count \in 1..Cap
      /\ count' = count - 1 /\ tail = (head + count) % Cap
      /\ conn' = [conn EXCEPT ![w] = items[head]]
      /\ head' = (head + 1) % Cap /\ tail' = tail /\ items' = items
  <2>1. tail = (head + count) % Cap
    BY DEF Ownership, PcOwns, Places
  <2> QED BY <2>1, QueueAssumption DEF TypeOK, Control, Pop
<1>2. ASSUME NEW i \in 1..count' PROVE Contents'[i] = Contents[i + 1]
  <2>1. head + 1 \in 0..Cap /\ i - 1 \in 0..Cap-1 /\ i + 1 \in 1..count
    BY <1>1
  <2>2. (head' + (i - 1)) % Cap = (head + 1 + (i - 1)) % Cap
    BY <1>1, <2>1, ModTwice
  <2>3. head' \in Nat
    BY <1>1, ModRange
  <2>4. head' + i - 1 = head' + (i - 1) /\ head + 1 + (i - 1) = head + (i + 1) - 1
    BY <1>1, <2>3
  <2>5. (head' + i - 1) % Cap = (head + (i + 1) - 1) % Cap
    BY <2>2, <2>4
  <2> QED BY <1>1, <2>1, <2>5 DEF Contents
<1>3. Contents[1] = items[head]
  <2>1. head + 1 - 1 = head /\ head % Cap = head /\ 1 \in 1..count
    BY <1>1, ModSmall
  <2> QED BY <2>1 DEF Contents
<1>4. tail' = (head' + count') % Cap
  <2>1. head + 1 \in 0..Cap /\ count - 1 \in 0..Cap-1 /\ head + 1 + (count - 1) = head + count
    BY <1>1
  <2>2. (((head + 1) % Cap) + (count - 1)) % Cap = (head + 1 + (count - 1)) % Cap
    BY <2>1, ModTwice
  <2> QED BY <1>1, <2>1, <2>2
<1> QED BY <1>1, <1>2, <1>3, <1>4

(* A step that leaves the ring alone leaves its contents alone. *)
LEMMA SameContents ==
  ASSUME UNCHANGED qvars
  PROVE  Contents' = Contents
BY DEF qvars, Contents

(* Every open connection has one owner, and moves from owner to owner. *)
LEMMA OwnershipStep ==
  TypeOK /\ Control /\ Ownership /\ [Next]_vars => Ownership'
<1> SUFFICES ASSUME TypeOK, Control, Ownership, [Next]_vars
             PROVE  Ownership'
  OBVIOUS
<1>0. /\ Master \in Threads /\ Workers \subseteq Threads /\ Master \notin Workers
      /\ Threads = Workers \cup {Master}
      /\ conn \in [Threads -> FDs \cup {NoFd}] /\ pc \in [Threads -> Labels]
      /\ open \subseteq FDs /\ NoFd \notin FDs /\ count \in Nat
  BY QueueAssumption DEF TypeOK, Threads
<1>1. ASSUME NEW fd \in FDs, Accept(fd) PROVE Ownership'
  <2>1. /\ Contents' = Contents /\ conn' = [conn EXCEPT ![Master] = fd]
        /\ open' = open \cup {fd} /\ fd \notin open
        /\ pc' = [pc EXCEPT ![Master] = "lock"]
        /\ UNCHANGED <<head, tail, count>>
    BY <1>1, SameContents DEF Accept, Goto, qvars
  <2>2. \A t \in Threads : conn'[t] = IF t = Master THEN fd ELSE conn[t]
    BY <1>0, <2>1
  <2>3. \A t \in Threads : conn[t] # fd
    BY <1>0, <2>1 DEF Ownership, PcOwns, Places
  <2>4. \A i \in 1..count : Contents[i] # fd
    BY <2>1 DEF Ownership, PcOwns, Places
  <2>5. pc'[Master] = "lock" /\ \A w \in Workers : pc'[w] = pc[w]
    BY <1>0, <2>1
  <2>6. /\ \A t \in Threads : conn'[t] # NoFd => conn'[t] \in open'
        /\ \A i \in 1..count' : Contents'[i] \in open'
        /\ \A t \in Threads : \A i \in 1..count' : conn'[t] # Contents'[i]
    BY <1>0, <2>1, <2>2, <2>4 DEF Ownership, PcOwns, Places
  <2>7. \A t, u \in Threads : conn'[t] = conn'[u] /\ conn'[t] # NoFd => t = u
    BY <1>0, <2>2, <2>3 DEF Ownership, PcOwns, Places
  <2>8. \A f \in open' : \/ \E t \in Threads : conn'[t] = f
                         \/ \E i \in 1..count' : Contents'[i] = f
    <3>1. conn[Master] = NoFd
      BY <1>1 DEF Accept, Ownership, PcOwns, Places
    <3>2. \A f \in open : f # NoFd
      BY <1>0
    <3> QED BY <1>0, <2>1, <2>2, <3>1, <3>2 DEF Ownership, PcOwns, Places
  <2>9. fd # NoFd
    BY <1>0
  <2> QED BY <1>0, <2>1, <2>2, <2>5, <2>6, <2>7, <2>8, <2>9 DEF Ownership, PcOwns, Places
<1>2. CASE /\ UNCHANGED <<qvars, conn, open>>
           /\ \A t \in Threads : pc'[t] # pc[t] => {pc[t], pc'[t]} \cap {"accept", "handle"} = {}
  <2>1. Contents' = Contents /\ UNCHANGED <<head, tail, count>>
    BY <1>2, SameContents DEF qvars
  <2>2. \A t \in Threads : /\ (pc'[t] = "accept") <=> (pc[t] = "accept")
                           /\ (pc'[t] = "handle") <=> (pc[t] = "handle")
    BY <1>2
  <2>3. conn' = conn /\ open' = open
    BY <1>2
  <2>4. PcOwns'
    <3>1. pc'[Master] = "accept" <=> pc[Master] = "accept"
      BY <1>0, <2>2
    <3>2. \A w \in Workers : pc'[w] = "handle" <=> pc[w] = "handle"
      BY <1>0, <2>2
    <3>3. PcOwns
      BY DEF Ownership
    <3> QED BY <2>3, <3>1, <3>2, <3>3 DEF PcOwns
  <2>5. Places'
    <3>1. Places
      BY DEF Ownership
    <3> QED BY <2>1, <2>3, <3>1 DEF Places
  <2> QED BY <2>4, <2>5 DEF Ownership
<1>3. ASSUME NEW t \in Threads, Lock(t) PROVE Ownership'
  BY <1>0, <1>2, <1>3 DEF Lock, Goto
<1>4. ASSUME NEW t \in Threads, Relock(t) PROVE Ownership'
  BY <1>0, <1>2, <1>4 DEF Relock, Goto
<1>5. CASE PushWait \/ PushReady
  BY <1>0, <1>2, <1>5 DEF PushWait, PushReady, WaitOn, Goto
<1>6. CASE Push
  <2>1. /\ count \in 0..Cap-1 /\ count' = count + 1
        /\ \A i \in 1..count : Contents'[i] = Contents[i]
        /\ Contents'[count + 1] = conn[Master]
        /\ tail' = (head' + count') % Cap
    BY <1>6, PushContents
  <2>2. /\ conn' = [conn EXCEPT ![Master] = NoFd] /\ open' = open
        /\ pc[Master] = "push" /\ pc' = [pc EXCEPT ![Master] = "accept"]
    BY <1>6 DEF Push, Goto
  <2>3. conn[Master] # NoFd
    BY <2>2 DEF Ownership, PcOwns, Places
  <2>4. \A i \in 1..count' : i \in 1..count \/ i = count + 1
    BY <1>0, <2>1
  <2>5. 1..count \subseteq 1..count' /\ count + 1 \in 1..count' /\ count + 1 \notin 1..count
    BY <1>0, <2>1
  <2> HIDE DEF Contents
  <2> QED BY <1>0, <2>1, <2>2, <2>3, <2>4, <2>5 DEF Ownership, PcOwns, Places
<1>7. ASSUME NEW w \in Workers, PopWait(w) PROVE Ownership'
  BY <1>0, <1>2, <1>7 DEF PopWait, WaitOn, Goto
<1>8. ASSUME NEW w \in Workers, PopReady(w) PROVE Ownership'
  BY <1>0, <1>2, <1>8 DEF PopReady, Goto
<1>9. ASSUME NEW w \in Workers, Pop(w) PROVE Ownership'
  <2>1. /\ count \in 1..Cap /\ count' = count - 1
        /\ \A i \in 1..count' : Contents'[i] = Contents[i + 1]
        /\ conn' = [conn EXCEPT ![w] = Contents[1]]
        /\ tail' = (head' + count') % Cap
    BY <1>9, PopContents
  <2>2. /\ open' = open /\ pc[w] = "pop" /\ pc' = [pc EXCEPT ![w] = "handle"]
    BY <1>9 DEF Pop, Goto
  <2>3. conn[w] = NoFd
    BY <2>2 DEF Ownership, PcOwns, Places
  <2>4. \A i \in 1..count' : i + 1 \in 1..count /\ i + 1 # 1
    BY <1>0, <2>1
  <2>5. 1 \in 1..count /\ \A i \in 1..count : i = 1 \/ (i - 1 \in 1..count' /\ (i - 1) + 1 = i)
    BY <1>0, <2>1
  <2>6. \A i, j \in 1..count' : i + 1 = j + 1 => i = j
    BY <1>0, <2>1
  <2>7. \A t \in Threads : conn'[t] = IF t = w THEN Contents[1] ELSE conn[t]
    BY <1>0, <2>1
  <2>8. Contents[1] \in open /\ Contents[1] # NoFd
    BY <1>0, <2>5 DEF Ownership, PcOwns, Places
  <2>9. /\ \A t \in Threads : conn'[t] # NoFd => conn'[t] \in open'
        /\ \A i \in 1..count' : Contents'[i] \in open'
        /\ \A t, u \in Threads : conn'[t] = conn'[u] /\ conn'[t] # NoFd => t = u
    BY <1>0, <2>1, <2>2, <2>4, <2>5, <2>7, <2>8 DEF Ownership, PcOwns, Places
  <2>10. \A i, j \in 1..count' : Contents'[i] = Contents'[j] => i = j
    BY <2>1, <2>4, <2>6 DEF Ownership, PcOwns, Places
  <2>11. \A t \in Threads : \A i \in 1..count' : conn'[t] # Contents'[i]
    BY <2>1, <2>4, <2>5, <2>7 DEF Ownership, PcOwns, Places
  <2>12. \A f \in open' : \/ \E t \in Threads : conn'[t] = f
                          \/ \E i \in 1..count' : Contents'[i] = f
    <3> SUFFICES ASSUME NEW f \in open, \A t \in Threads : conn'[t] # f
                 PROVE  \E i \in 1..count' : Contents'[i] = f
      BY <2>2
    <3>1. Contents[1] # f /\ \A t \in Threads : conn[t] # f
      BY <1>0, <2>3, <2>7
    <3>2. PICK i \in 1..count : Contents[i] = f
      BY <3>1 DEF Ownership, PcOwns, Places
    <3>3. i - 1 \in 1..count' /\ (i - 1) + 1 = i
      BY <2>5, <3>1, <3>2
    <3> QED BY <2>1, <3>2, <3>3
  <2>13. pc'[Master] = pc[Master] /\ \A v \in Workers : pc'[v] = IF v = w THEN "handle" ELSE pc[v]
    BY <1>0, <2>2
  <2> QED BY <1>0, <2>1, <2>7, <2>8, <2>9, <2>10, <2>11, <2>12, <2>13 DEF Ownership, PcOwns, Places
<1>10. ASSUME NEW w \in Workers, Finish(w) PROVE Ownership'
  <2>1. /\ Contents' = Contents /\ conn' = [conn EXCEPT ![w] = NoFd]
        /\ open' = open \ {conn[w]} /\ conn[w] # NoFd
        /\ pc' = [pc EXCEPT ![w] = "lock"]
        /\ UNCHANGED <<head, tail, count>>
    BY <1>10, SameContents DEF Finish, Goto, qvars, Ownership, PcOwns, Places
  <2>2. \A t \in Threads : conn'[t] = IF t = w THEN NoFd ELSE conn[t]
    BY <1>0, <2>1
  <2>3. \A t \in Threads \ {w} : conn[t] # conn[w]
    BY <1>0, <2>1 DEF Ownership, PcOwns, Places
  <2>4. /\ \A t \in Threads : conn'[t] # NoFd => conn'[t] \in open'
        /\ \A i \in 1..count' : Contents'[i] \in open'
        /\ \A t \in Threads : \A i \in 1..count' : conn'[t] # Contents'[i]
    BY <1>0, <2>1, <2>2, <2>3 DEF Ownership, PcOwns, Places
  <2>5. \A t, u \in Threads : conn'[t] = conn'[u] /\ conn'[t] # NoFd => t = u
    BY <1>0, <2>2 DEF Ownership, PcOwns, Places
  <2>6. \A f \in open' : \/ \E t \in Threads : conn'[t] = f
                         \/ \E i \in 1..count' : Contents'[i] = f
    BY <1>0, <2>1, <2>2 DEF Ownership, PcOwns, Places
  <2>7. pc'[Master] = pc[Master] /\ \A v \in Workers : pc'[v] = IF v = w THEN "lock" ELSE pc[v]
    BY <1>0, <2>1
  <2> QED BY <1>0, <2>1, <2>2, <2>4, <2>5, <2>6, <2>7 DEF Ownership, PcOwns, Places
<1>11. ASSUME NEW t \in Threads, SpuriousWake(t) PROVE Ownership'
  BY <1>0, <1>2, <1>11 DEF SpuriousWake
<1>12. CASE UNCHANGED vars
  BY <1>0, <1>2, <1>12 DEF vars, qvars
<1> QED
  BY <1>1, <1>3, <1>4, <1>5, <1>6, <1>7, <1>8, <1>9, <1>10, <1>11, <1>12
  DEF Next, MasterStep, WorkerStep

(* The whole inductive invariant holds in every reachable state. *)
LEMMA InductiveInvariant == Spec => []IInv
<1>1. Init => Ownership
  <2> SUFFICES ASSUME Init PROVE Ownership
    OBVIOUS
  <2>1. count = 0 /\ 1..count = {} /\ head + count = 0 /\ tail = 0 /\ 0 % Cap = 0
    BY QueueAssumption DEF Init
  <2> QED BY <2>1, QueueAssumption DEF Init, Ownership, PcOwns, Places, Threads
<1> QED
  BY <1>1, OwnershipStep, ControlInvariant, MasterNeverSleepsWithRoom, PTL DEF Spec, IInv
-----------------------------------------------------------------------------
(* A set indexed by a finite set is no larger than it. *)
LEMMA ImageBound ==
  ASSUME NEW S, IsFiniteSet(S), NEW f, DOMAIN f = S
  PROVE  /\ IsFiniteSet({f[x] : x \in S})
         /\ Cardinality({f[x] : x \in S}) <= Cardinality(S)
<1> DEFINE T == {f[x] : x \in S}
           g == [x \in S |-> f[x]]
<1>1. g \in Surjection(S, T)
  BY DEF Surjection
<1> QED BY <1>1, FS_Surjection

(* Ownership stated with quantifiers gives OneOwner, which counts. *)
LEMMA OwnershipCounts == IInv => OneOwner
<1> SUFFICES ASSUME IInv PROVE OneOwner
  OBVIOUS
<1> DEFINE owners(fd) == {t \in Threads : conn[t] = fd}
           slots(fd) == {i \in 1..count : Contents[i] = fd}
<1>0. /\ Ownership /\ open \subseteq FDs /\ NoFd \notin FDs /\ count \in 0..Cap /\ Cap \in Nat
      /\ conn \in [Threads -> FDs \cup {NoFd}]
  BY QueueAssumption DEF IInv, TypeOK
<1>1. ASSUME NEW fd \in FDs
      PROVE  Cardinality(owners(fd)) + Cardinality(slots(fd)) = IF fd \in open THEN 1 ELSE 0
  <2>1. CASE fd \notin open
    <3>1. owners(fd) = {} /\ slots(fd) = {}
      BY <1>0, <2>1 DEF Ownership, PcOwns, Places
    <3> QED BY <2>1, <3>1, FS_EmptySet
  <2>2. ASSUME fd \in open, NEW t \in Threads, conn[t] = fd
        PROVE  Cardinality(owners(fd)) + Cardinality(slots(fd)) = 1
    <3>1. owners(fd) = {t} /\ slots(fd) = {}
      BY <1>0, <2>2 DEF Ownership, PcOwns, Places
    <3>2. Cardinality({t}) = 1 /\ Cardinality({}) = 0
      BY FS_EmptySet, FS_Singleton
    <3>3. Cardinality(owners(fd)) = 1 /\ Cardinality(slots(fd)) = 0
      BY <3>1, <3>2
    <3> QED BY <3>3
  <2>3. ASSUME fd \in open, NEW i \in 1..count, Contents[i] = fd
        PROVE  Cardinality(owners(fd)) + Cardinality(slots(fd)) = 1
    <3>1. owners(fd) = {} /\ slots(fd) = {i}
      BY <1>0, <2>3 DEF Ownership, PcOwns, Places
    <3>2. Cardinality({i}) = 1 /\ Cardinality({}) = 0
      BY FS_EmptySet, FS_Singleton
    <3>3. Cardinality(owners(fd)) = 0 /\ Cardinality(slots(fd)) = 1
      BY <3>1, <3>2
    <3> QED BY <3>3
  <2> QED BY <1>0, <2>1, <2>2, <2>3 DEF Ownership, PcOwns, Places
<1>2. Cardinality(open) <= Cap + Cardinality(Workers) + 1
  <2> DEFINE A == {conn[t] : t \in Threads}
             B == {Contents[i] : i \in 1..count}
  <2>1. IsFiniteSet(Threads) /\ Cardinality(Threads) = Cardinality(Workers) + 1
    BY QueueAssumption, FS_AddElement DEF Threads
  <2>2. IsFiniteSet(A) /\ Cardinality(A) <= Cardinality(Threads)
    BY <1>0, <2>1, ImageBound
  <2>3. IsFiniteSet(1..count) /\ Cardinality(1..count) = count
    BY <1>0, FS_Interval
  <2>4. IsFiniteSet(B) /\ Cardinality(B) <= count
    <3>1. DOMAIN Contents = 1..count
      BY DEF Contents
    <3> QED BY <2>3, <3>1, ImageBound
  <2>5. open \subseteq A \cup B
    BY <1>0 DEF Ownership, PcOwns, Places
  <2> HIDE DEF A, B
  <2>6. IsFiniteSet(A \cup B) /\ Cardinality(A \cup B) <= Cardinality(A) + Cardinality(B)
    <3>1. IsFiniteSet(A \cap B) /\ Cardinality(A \cap B) \in Nat
      BY <2>2, FS_Intersection, FS_CardinalityType
    <3>2. Cardinality(A) \in Nat /\ Cardinality(B) \in Nat
      BY <2>2, <2>4, FS_CardinalityType
    <3>3. /\ IsFiniteSet(A \cup B)
          /\ Cardinality(A \cup B) = Cardinality(A) + Cardinality(B) - Cardinality(A \cap B)
      BY <2>2, <2>4, FS_Union
    <3> QED BY <3>1, <3>2, <3>3
  <2>7. IsFiniteSet(open) /\ Cardinality(open) <= Cardinality(A \cup B)
    BY <2>5, <2>6, FS_Subset
  <2>8. /\ Cardinality(A) \in Nat /\ Cardinality(B) \in Nat /\ Cardinality(open) \in Nat
        /\ Cardinality(Workers) \in Nat /\ Cardinality(A \cup B) \in Nat
    BY <2>2, <2>4, <2>6, <2>7, QueueAssumption, FS_CardinalityType
  <2> QED BY <1>0, <2>1, <2>2, <2>4, <2>6, <2>7, <2>8
<1> QED BY <1>1, <1>2 DEF OneOwner

(* Every accepted connection is owned by exactly one of the master, a slot *)
(* of the ring and a worker until the worker closes it: no descriptor is   *)
(* served twice, dropped, or closed while another thread still uses it.    *)
THEOREM EveryConnectionHasOneOwner == Spec => []OneOwner
BY InductiveInvariant, OwnershipCounts, PTL
-----------------------------------------------------------------------------
(* Refinement of the abstract channel. *)

ContentsIsSeq ==
  Contents \in Seq(FDs) /\ Len(Contents) = count /\ DOMAIN Contents = 1..count

(* The contents are a sequence of descriptors as long as count says. *)
LEMMA ContentsSeq == IInv => ContentsIsSeq
<1> SUFFICES ASSUME IInv PROVE ContentsIsSeq
  OBVIOUS
<1> USE DEF ContentsIsSeq
<1>1. count \in Nat /\ \A i \in 1..count : Contents[i] \in FDs
  BY QueueAssumption DEF IInv, TypeOK, Ownership, PcOwns, Places
<1>2. DOMAIN Contents = 1..count /\ Contents = [i \in 1..count |-> Contents[i]]
  BY DEF Contents
<1> HIDE DEF Contents
<1>3. Contents \in [1..count -> FDs]
  BY <1>1, <1>2
<1> QED BY <1>1, <1>2, <1>3

(* Every step of the queue is a step of the channel or changes nothing     *)
(* the channel shows.                                                      *)
LEMMA FifoStep == IInv /\ IInv' /\ [Next]_vars => [Fifo!Next]_(Fifo!vars)
<1> SUFFICES ASSUME IInv, IInv', [Next]_vars
             PROVE  Fifo!Next \/ UNCHANGED Fifo!vars
  OBVIOUS
<1>0. /\ TypeOK /\ Control /\ Ownership /\ Master \in Threads /\ Workers \subseteq Threads
      /\ Master \notin Workers /\ conn \in [Threads -> FDs \cup {NoFd}]
      /\ open \subseteq FDs /\ NoFd \notin FDs
      /\ Contents \in Seq(FDs) /\ Len(Contents) = count /\ DOMAIN Contents = 1..count
      /\ Contents' \in Seq(FDs) /\ Len(Contents') = count' /\ DOMAIN Contents' = 1..count'
  <2>1. ContentsIsSeq
    BY ContentsSeq
  <2>2. ContentsIsSeq'
    BY ContentsSeq, PTL
  <2> QED BY <2>1, <2>2, QueueAssumption DEF ContentsIsSeq, IInv, TypeOK, Threads
<1>1. ASSUME NEW fd \in FDs, Accept(fd) PROVE Fifo!Next
  <2>1. /\ Contents' = Contents /\ conn' = [conn EXCEPT ![Master] = fd]
        /\ fd \notin open /\ conn[Master] = NoFd
    BY <1>0, <1>1, SameContents DEF Accept, qvars, Ownership, PcOwns, Places
  <2>2. fd \notin Fifo!Known
    BY <1>0, <2>1 DEF Fifo!Known, Ownership, PcOwns, Places
  <2>3. Fifo!Accept(fd)
    BY <1>0, <2>1, <2>2 DEF Fifo!Accept
  <2> QED BY <2>3 DEF Fifo!Next
<1>2. CASE UNCHANGED <<qvars, conn>>
  BY <1>2, SameContents DEF Fifo!vars
<1>3. CASE Push
  <2>1. /\ count \in 0..Cap-1 /\ count' = count + 1
        /\ \A i \in 1..count : Contents'[i] = Contents[i]
        /\ Contents'[count + 1] = conn[Master]
    BY <1>0, <1>3, PushContents
  <2>2. conn' = [conn EXCEPT ![Master] = NoFd] /\ pc[Master] = "push"
    BY <1>3 DEF Push
  <2>3. conn[Master] # NoFd
    BY <1>0, <2>2 DEF Ownership, PcOwns, Places
  <2>4. conn[Master] \in FDs
    BY <1>0, <2>3
  <2>5. Contents' = Append(Contents, conn[Master])
    <3>1. /\ Append(Contents, conn[Master]) \in Seq(FDs)
          /\ Len(Append(Contents, conn[Master])) = count + 1
          /\ \A i \in 1..count : Append(Contents, conn[Master])[i] = Contents[i]
          /\ Append(Contents, conn[Master])[count + 1] = conn[Master]
      BY <1>0, <2>4, AppendProperties
    <3>2. \A i \in 1..count + 1 : Append(Contents, conn[Master])[i] = Contents'[i]
      BY <2>1, <3>1
    <3> QED BY <1>0, <2>1, <3>1, <3>2, SeqEqual
  <2>6. Len(Contents) < Cap
    BY <1>0, <2>1, QueueAssumption
  <2>7. Fifo!Enqueue
    BY <1>0, <2>2, <2>3, <2>5, <2>6 DEF Fifo!Enqueue
  <2> QED BY <2>7 DEF Fifo!Next
<1>4. ASSUME NEW w \in Workers, Pop(w) PROVE Fifo!Next
  <2>1. /\ count \in 1..Cap /\ count' = count - 1
        /\ \A i \in 1..count' : Contents'[i] = Contents[i + 1]
        /\ conn' = [conn EXCEPT ![w] = Contents[1]]
    BY <1>0, <1>4, PopContents
  <2>2. conn[w] = NoFd
    BY <1>0, <1>4 DEF Pop, Ownership, PcOwns, Places
  <2>3. Contents # <<>>
    BY <1>0, <2>1, EmptySeq
  <2>4. Contents' = Tail(Contents)
    <3>1. /\ Tail(Contents) \in Seq(FDs) /\ Len(Tail(Contents)) = count - 1
          /\ \A i \in 1..Len(Tail(Contents)) : Tail(Contents)[i] = Contents[i + 1]
      BY <1>0, <2>3, HeadTailProperties
    <3> QED BY <1>0, <2>1, <3>1, SeqEqual
  <2>5. Head(Contents) = Contents[1]
    BY <1>0, <2>3
  <2>6. Fifo!Dequeue(w)
    BY <1>0, <2>1, <2>2, <2>3, <2>4, <2>5 DEF Fifo!Dequeue
  <2> QED BY <2>6 DEF Fifo!Next
<1>5. ASSUME NEW w \in Workers, Finish(w) PROVE Fifo!Next
  <2>1. /\ Contents' = Contents /\ conn' = [conn EXCEPT ![w] = NoFd] /\ conn[w] # NoFd
    BY <1>0, <1>5, SameContents DEF Finish, qvars, Ownership, PcOwns, Places
  <2>2. Fifo!Finish(w)
    BY <1>0, <2>1 DEF Fifo!Finish
  <2> QED BY <2>2 DEF Fifo!Next
<1> QED
  BY <1>1, <1>2, <1>3, <1>4, <1>5
  DEF Next, MasterStep, WorkerStep, vars, qvars, Lock, Relock, PushWait, PushReady, PopWait,
      PopReady, SpuriousWake

(* The ring buffer of server.c with its mutex and condition variables      *)
(* implements a bounded FIFO channel, for every capacity and every number  *)
(* of workers: queue_push appends and queue_pop removes the oldest.        *)
THEOREM QueueImplementsFifo == Spec => ImplementsFifo
<1>1. Init => Fifo!Init
  <2> SUFFICES ASSUME Init PROVE Fifo!Init
    OBVIOUS
  <2>1. Contents = <<>>
    <3>1. 1..count = {}
      BY DEF Init
    <3> QED BY <3>1 DEF Contents
  <2> QED BY <2>1, QueueAssumption DEF Init, Fifo!Init, Threads
<1> QED
  BY <1>1, FifoStep, InductiveInvariant, PTL DEF Spec, ImplementsFifo, Fifo!Safety
=============================================================================
