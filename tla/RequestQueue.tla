---------------------------- MODULE RequestQueue ----------------------------
(***************************************************************************)
(* The bounded request queue of the web server (server.c): a ring buffer   *)
(* guarded by one mutex and two condition variables, filled by the master  *)
(* thread's accept loop and emptied by the worker threads.                 *)
(*                                                                         *)
(* A thread takes one step to get the mutex, one to evaluate the while     *)
(* condition and one for the body of the critical section, so that every   *)
(* interleaving the mutex is there to exclude would be visible.  The body  *)
(* of a request (handle_request) is one step here.                         *)
(***************************************************************************)
EXTENDS Naturals, FiniteSets, Sequences

CONSTANTS
  Workers,   \* worker threads, g_tstats[0..num_threads-1]
  Master,    \* the thread running main()
  Nobody,    \* owner of a free mutex
  FDs,       \* descriptors accept() may return
  NoFd,      \* "no connection"
  Cap        \* queue_size

(* main() refuses threads <= 0 and queue_size <= 0.  The descriptor table  *)
(* is assumed large enough for accept() to succeed: OneOwner below is what *)
(* bounds the number of descriptors in use.                                *)
ASSUME QueueAssumption ==
  /\ Cap \in Nat \ {0}
  /\ IsFiniteSet(Workers)
  /\ Workers # {}
  /\ Master \notin Workers
  /\ Nobody \notin Workers \cup {Master}
  /\ NoFd \notin FDs

Threads == Workers \cup {Master}

VARIABLES
  items,      \* q->items, the connfd of each slot
  head, tail, count,
  mutex,      \* the thread holding q->mutex
  not_full,   \* threads blocked in Pthread_cond_wait(&q->not_full)
  not_empty,  \* threads blocked in Pthread_cond_wait(&q->not_empty)
  pc,         \* where each thread is
  conn,       \* connfd in main(), item.connfd in worker()
  open        \* connections accepted and not yet closed

qvars == <<items, head, tail, count>>
vars == <<items, head, tail, count, mutex, not_full, not_empty, pc, conn, open>>

Goto(t, label) == pc' = [pc EXCEPT ![t] = label]

(* Mutant: the signal is forgotten. *)
SignalForgotten(cond, condNext) == condNext = cond

(* Pthread_cond_signal wakes one of the threads blocked, if there is one.  *)
Signal(cond, condNext) ==
  \/ cond = {} /\ condNext = {}
  \/ \E t \in cond : condNext = cond \ {t}

(* Pthread_cond_wait releases the mutex and blocks, atomically. *)
WaitOn(t) ==
  /\ mutex' = Nobody
  /\ Goto(t, "wait")
-----------------------------------------------------------------------------
Init ==
  /\ items = [i \in 0..Cap-1 |-> NoFd]
  /\ head = 0 /\ tail = 0 /\ count = 0
  /\ mutex = Nobody
  /\ not_full = {} /\ not_empty = {}
  /\ pc = [t \in Threads |-> IF t = Master THEN "accept" ELSE "lock"]
  /\ conn = [t \in Threads |-> NoFd]
  /\ open = {}

(* The master's accept loop: Accept, then queue_push. *)
Accept(fd) ==
  /\ pc[Master] = "accept"
  /\ fd \notin open
  /\ open' = open \cup {fd}
  /\ conn' = [conn EXCEPT ![Master] = fd]
  /\ Goto(Master, "lock")
  /\ UNCHANGED <<qvars, mutex, not_full, not_empty>>

(* Mutant: the critical sections are entered without the mutex. *)
LockUnguarded(t) ==
  /\ pc[t] = "lock"
  /\ mutex' = t
  /\ Goto(t, "check")
  /\ UNCHANGED <<qvars, not_full, not_empty, conn, open>>

(* Pthread_mutex_lock at the top of queue_push and queue_pop. *)
Lock(t) ==
  /\ pc[t] = "lock"
  /\ mutex = Nobody
  /\ mutex' = t
  /\ Goto(t, "check")
  /\ UNCHANGED <<qvars, not_full, not_empty, conn, open>>

(* Mutant: "if" in place of "while" around Pthread_cond_wait. *)
RelockNoRecheck(t) ==
  /\ pc[t] = "wait"
  /\ t \notin not_full \cup not_empty
  /\ mutex = Nobody
  /\ mutex' = t
  /\ Goto(t, IF t = Master THEN "push" ELSE "pop")
  /\ UNCHANGED <<qvars, not_full, not_empty, conn, open>>

(* The tail of Pthread_cond_wait: a woken thread takes the mutex again and *)
(* returns to the while condition.                                         *)
Relock(t) ==
  /\ pc[t] = "wait"
  /\ t \notin not_full \cup not_empty
  /\ mutex = Nobody
  /\ mutex' = t
  /\ Goto(t, "check")
  /\ UNCHANGED <<qvars, not_full, not_empty, conn, open>>

PushWait ==
  /\ pc[Master] = "check"
  /\ count = Cap
  /\ WaitOn(Master)
  /\ not_full' = not_full \cup {Master}
  /\ UNCHANGED <<qvars, not_empty, conn, open>>

PushReady ==
  /\ pc[Master] = "check"
  /\ count # Cap
  /\ Goto(Master, "push")
  /\ UNCHANGED <<qvars, mutex, not_full, not_empty, conn, open>>

(* The rest of queue_push: fill the slot, advance, signal, unlock. *)
Push ==
  /\ pc[Master] = "push"
  /\ items' = [items EXCEPT ![tail] = conn[Master]]
  /\ tail' = (tail + 1) % Cap
  /\ count' = count + 1
  /\ Signal(not_empty, not_empty')
  /\ mutex' = Nobody
  /\ conn' = [conn EXCEPT ![Master] = NoFd]
  /\ Goto(Master, "accept")
  /\ UNCHANGED <<head, not_full, open>>

PopWait(w) ==
  /\ pc[w] = "check"
  /\ count = 0
  /\ WaitOn(w)
  /\ not_empty' = not_empty \cup {w}
  /\ UNCHANGED <<qvars, not_full, conn, open>>

PopReady(w) ==
  /\ pc[w] = "check"
  /\ count # 0
  /\ Goto(w, "pop")
  /\ UNCHANGED <<qvars, mutex, not_full, not_empty, conn, open>>

(* Mutant: queue_pop forgets the master. *)
PopNoSignal(w) ==
  /\ pc[w] = "pop"
  /\ conn' = [conn EXCEPT ![w] = items[head]]
  /\ head' = (head + 1) % Cap
  /\ count' = count - 1
  /\ mutex' = Nobody
  /\ Goto(w, "handle")
  /\ UNCHANGED <<items, tail, not_full, not_empty, open>>

(* The rest of queue_pop: take the item, advance, signal, unlock. *)
Pop(w) ==
  /\ pc[w] = "pop"
  /\ conn' = [conn EXCEPT ![w] = items[head]]
  /\ head' = (head + 1) % Cap
  /\ count' = count - 1
  /\ Signal(not_full, not_full')
  /\ mutex' = Nobody
  /\ Goto(w, "handle")
  /\ UNCHANGED <<items, tail, not_empty, open>>

(* worker(): handle_request, Close, next iteration. *)
Finish(w) ==
  /\ pc[w] = "handle"
  /\ open' = open \ {conn[w]}
  /\ conn' = [conn EXCEPT ![w] = NoFd]
  /\ Goto(w, "lock")
  /\ UNCHANGED <<qvars, mutex, not_full, not_empty>>

(* POSIX lets pthread_cond_wait return without a signal. *)
SpuriousWake(t) ==
  /\ t \in not_full \cup not_empty
  /\ not_full' = not_full \ {t}
  /\ not_empty' = not_empty \ {t}
  /\ UNCHANGED <<qvars, mutex, pc, conn, open>>

MasterStep == PushWait \/ PushReady \/ Push
WorkerStep(w) == PopWait(w) \/ PopReady(w) \/ Pop(w)

Next ==
  \/ \E fd \in FDs : Accept(fd)
  \/ \E t \in Threads : Lock(t) \/ Relock(t) \/ SpuriousWake(t)
  \/ MasterStep
  \/ \E w \in Workers : WorkerStep(w) \/ Finish(w)

Spec == Init /\ [][Next]_vars

(* Threads are scheduled, requests end (Finish), and spurious wakeups do   *)
(* not go on for ever.  Nothing is assumed of accept(): clients may stop   *)
(* connecting.  Weak fairness on the mutex is enough: no thread is         *)
(* promised the mutex in competition with others.                          *)
FairSpec ==
  /\ Spec
  /\ \A t \in Threads : WF_vars(Lock(t)) /\ WF_vars(Relock(t))
  /\ WF_vars(MasterStep)
  /\ \A w \in Workers : WF_vars(WorkerStep(w)) /\ WF_vars(Finish(w))
  /\ <>[][\A t \in Threads : ~SpuriousWake(t)]_vars
-----------------------------------------------------------------------------
Labels == {"accept", "lock", "check", "wait", "push", "pop", "handle"}

(* Type invariant: the ring's indices and its count stay in range, and     *)
(* only workers sleep on not_empty, only the master on not_full.           *)
TypeOK ==
  /\ items \in [0..Cap-1 -> FDs \cup {NoFd}]
  /\ head \in 0..Cap-1 /\ tail \in 0..Cap-1 /\ count \in 0..Cap
  /\ mutex \in Threads \cup {Nobody}
  /\ not_full \subseteq {Master} /\ not_empty \subseteq Workers
  /\ pc \in [Threads -> Labels]
  /\ conn \in [Threads -> FDs \cup {NoFd}]
  /\ open \subseteq FDs

(* The queued connections, oldest first. *)
Contents == [i \in 1..count |-> items[(head + i - 1) % Cap]]

Fifo == INSTANCE BoundedFifo WITH
          inhand  <- conn[Master],
          fifo    <- Contents,
          serving <- [w \in Workers |-> conn[w]]

(* Ring buffer, mutex and condition variables together implement a bounded *)
(* FIFO channel: queue_push appends, queue_pop hands the oldest connection *)
(* to one worker, and no connection is lost, duplicated or reordered.      *)
ImplementsFifo == Fifo!Safety

(* Under fair scheduling the implementation also makes the progress the    *)
(* abstract channel promises: the condition variables never leave the      *)
(* master or all workers asleep while there is something to do.            *)
ImplementsFairFifo == Fifo!Spec

(* The workers on their way to queue_pop's critical section. *)
Heading ==
  {w \in Workers : \/ pc[w] \in {"lock", "check", "pop"}
                   \/ pc[w] = "wait" /\ w \notin not_empty}

(* No lost wakeup on not_empty: while a worker sleeps, there are at least  *)
(* as many awake workers about to pop as there are queued connections, so  *)
(* none waits for a busy worker while another one sleeps.                  *)
NoIdleWorkerWhileBacklog == not_empty # {} => count <= Cardinality(Heading)

(* No lost wakeup on not_full: the master sleeps only while the queue is   *)
(* full, because every pop signals it.                                     *)
MasterSleepsOnlyWhenFull == Master \in not_full => count = Cap

(* Every open connection has exactly one owner (the master, one slot of    *)
(* the queue, or one worker) and no one else keeps a connection, so Close  *)
(* never hits a descriptor that is closed or reused, and at most           *)
(* queue_size + threads + 1 connections are open.                          *)
OneOwner ==
  LET owners(fd) == {t \in Threads : conn[t] = fd}
      slots(fd) == {i \in 1..count : Contents[i] = fd}
  IN  /\ \A fd \in FDs :
           Cardinality(owners(fd)) + Cardinality(slots(fd)) = IF fd \in open THEN 1 ELSE 0
      /\ Cardinality(open) <= Cap + Cardinality(Workers) + 1
=============================================================================
