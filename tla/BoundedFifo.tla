----------------------------- MODULE BoundedFifo -----------------------------
(***************************************************************************)
(* What the request queue of the web server promises: accepted connections *)
(* pass through one bounded first-in first-out channel and every one of    *)
(* them is handed to exactly one worker, which closes it.  No lock, no     *)
(* condition variable, no ring buffer.                                     *)
(***************************************************************************)
EXTENDS Naturals, Sequences

CONSTANTS
  Workers,   \* worker threads
  FDs,       \* connection descriptors
  NoFd,      \* "no connection"
  Cap        \* queue_size

VARIABLES
  inhand,    \* the connection the master has accepted and not yet queued
  fifo,      \* queued connections, oldest first
  serving    \* the connection each worker is serving

vars == <<inhand, fifo, serving>>

(* The connections the server knows about. *)
Known == {inhand} \cup {fifo[i] : i \in DOMAIN fifo} \cup {serving[w] : w \in Workers}

Init ==
  /\ inhand = NoFd
  /\ fifo = <<>>
  /\ serving = [w \in Workers |-> NoFd]

Accept(fd) ==
  /\ inhand = NoFd
  /\ fd \notin Known
  /\ inhand' = fd
  /\ UNCHANGED <<fifo, serving>>

Enqueue ==
  /\ inhand # NoFd
  /\ Len(fifo) < Cap
  /\ fifo' = Append(fifo, inhand)
  /\ inhand' = NoFd
  /\ UNCHANGED serving

Dequeue(w) ==
  /\ fifo # <<>>
  /\ serving[w] = NoFd
  /\ serving' = [serving EXCEPT ![w] = Head(fifo)]
  /\ fifo' = Tail(fifo)
  /\ UNCHANGED inhand

Finish(w) ==
  /\ serving[w] # NoFd
  /\ serving' = [serving EXCEPT ![w] = NoFd]
  /\ UNCHANGED <<inhand, fifo>>

Next ==
  \/ \E fd \in FDs : Accept(fd)
  \/ Enqueue
  \/ \E w \in Workers : Dequeue(w) \/ Finish(w)

Safety == Init /\ [][Next]_vars

(* An accepted connection does not stay in the master's hand while there   *)
(* is room, a queued one does not stay queued while a worker is idle, and  *)
(* a served one is closed.                                                 *)
Spec ==
  /\ Safety
  /\ WF_vars(Enqueue)
  /\ WF_vars(\E w \in Workers : Dequeue(w))
  /\ \A w \in Workers : WF_vars(Finish(w))
=============================================================================
