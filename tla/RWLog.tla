-------------------------------- MODULE RWLog --------------------------------
(***************************************************************************)
(* The server log (log.c): a growing buffer behind a reader-writer lock    *)
(* with writer priority, built from a mutex, two condition variables and   *)
(* three counters.  GET requests append (log_write), POST requests copy    *)
(* the whole buffer (log_read).                                            *)
(*                                                                         *)
(* The counters are only touched with log->mutex held, and the only        *)
(* blocking call made while holding it is Pthread_cond_wait, which gives   *)
(* it up: each stretch of code between taking and giving up the mutex is   *)
(* one step.  The buffer is accessed outside the mutex, under the          *)
(* reader-writer lock alone: there, every access is a step of its own.     *)
(***************************************************************************)
EXTENDS Naturals, FiniteSets

CONSTANTS
  Workers,   \* the threads that use the log
  Elens,     \* lengths an entry may have
  InitCap,   \* LOG_INIT_CAP
  MaxOps     \* bound: requests that reach the log

ASSUME LogAssumption ==
  /\ IsFiniteSet(Workers)
  /\ Elens \subseteq Nat \ {0}
  /\ InitCap \in Nat \ {0}
  /\ MaxOps \in Nat

VARIABLES
  data,             \* the buffer: a cell per byte allocated
  len, capacity,
  readers_active, writers_active, writers_waiting,
  can_read,         \* threads blocked on can_read
  can_write,        \* threads blocked on can_write
  pc,               \* where each thread is
  cur,              \* the entry a writer appends: its id and its length
  rlen,             \* log_read's local len
  out,              \* *out_buf of a reader
  ops,              \* operations begun
  logged,           \* ids of the entries whose log_write has returned
  seen              \* logged when the reader called log_read

bufvars  == <<data, len, capacity>>
lockvars == <<readers_active, writers_active, writers_waiting, can_read, can_write>>
locals   == <<cur, rlen, out, seen>>
vars == <<bufvars, lockvars, pc, locals, ops, logged>>

(* Byte k of entry e is the cell <<e, k>>; ids start at 1. *)
Nul     == <<0, 0>>
Garbage == <<0, 1>>
Cells   == (0..MaxOps) \X Nat
NoEntry == [id |-> 0, elen |-> 0]

Goto(t, label) == pc' = [pc EXCEPT ![t] = label]

(* Mutant: the signal is forgotten. *)
SignalForgotten(cond, condNext) == condNext = cond

(* A broadcast empties the wait set; a signal takes one thread out of it.  *)
Signal(cond, condNext) ==
  \/ cond = {} /\ condNext = {}
  \/ \E t \in cond : condNext = cond \ {t}

(* Mutants of the two while conditions, each with one disjunct dropped. *)
WriterIgnoresWriter == readers_active > 0
ReaderIgnoresWaiting == writers_active > 0

WriterBlocked == readers_active > 0 \/ writers_active > 0
ReaderBlocked == writers_active > 0 \/ writers_waiting > 0
-----------------------------------------------------------------------------
Init ==
  /\ data = [i \in 0..InitCap-1 |-> IF i = 0 THEN Nul ELSE Garbage]
  /\ len = 0 /\ capacity = InitCap
  /\ readers_active = 0 /\ writers_active = 0 /\ writers_waiting = 0
  /\ can_read = {} /\ can_write = {}
  /\ pc = [t \in Workers |-> "idle"]
  /\ cur = [t \in Workers |-> NoEntry]
  /\ rlen = [t \in Workers |-> 0]
  /\ out = [t \in Workers |-> <<>>]
  /\ ops = 0
  /\ logged = {}
  /\ seen = [t \in Workers |-> {}]

(* A handler calls log_write with an entry of n bytes. *)
BeginWrite(t, n) ==
  /\ pc[t] = "idle"
  /\ ops < MaxOps
  /\ ops' = ops + 1
  /\ cur' = [cur EXCEPT ![t] = [id |-> ops + 1, elen |-> n]]
  /\ Goto(t, "w_lock")
  /\ UNCHANGED <<bufvars, lockvars, rlen, out, seen, logged>>

(* rw_write_lock as far as the first evaluation of the while condition. *)
WriteLockWait(t) ==
  /\ pc[t] = "w_lock"
  /\ WriterBlocked
  /\ writers_waiting' = writers_waiting + 1
  /\ can_write' = can_write \cup {t}
  /\ Goto(t, "w_wait")
  /\ UNCHANGED <<bufvars, readers_active, writers_active, can_read, locals, ops, logged>>

WriteLockEnter(t) ==
  /\ pc[t] = "w_lock"
  /\ ~WriterBlocked
  /\ writers_active' = 1
  /\ Goto(t, "w_grow")
  /\ UNCHANGED <<bufvars, readers_active, writers_waiting, can_read, can_write,
                 locals, ops, logged>>

(* A writer woken from can_write evaluates the while condition again. *)
WriteWakeWait(t) ==
  /\ pc[t] = "w_wait" /\ t \notin can_write
  /\ WriterBlocked
  /\ can_write' = can_write \cup {t}
  /\ UNCHANGED <<bufvars, readers_active, writers_active, writers_waiting, can_read,
                 pc, locals, ops, logged>>

WriteWakeEnter(t) ==
  /\ pc[t] = "w_wait" /\ t \notin can_write
  /\ ~WriterBlocked
  /\ writers_waiting' = writers_waiting - 1
  /\ writers_active' = 1
  /\ Goto(t, "w_grow")
  /\ UNCHANGED <<bufvars, readers_active, can_read, can_write, locals, ops, logged>>

(* One iteration of the growth loop of log_write, or its exit. *)
WriteGrow(t) ==
  /\ pc[t] = "w_grow"
  /\ len + cur[t].elen + 1 > capacity
  /\ capacity' = capacity * 2
  /\ data' = [i \in 0..capacity*2-1 |-> IF i < capacity THEN data[i] ELSE Garbage]
  /\ UNCHANGED <<len, lockvars, pc, locals, ops, logged>>

(* Mutant: no room is kept for the terminator. *)
WriteFitsTight(t) ==
  /\ pc[t] = "w_grow"
  /\ len + cur[t].elen <= capacity
  /\ Goto(t, "w_copy")
  /\ UNCHANGED <<bufvars, lockvars, locals, ops, logged>>

WriteFits(t) ==
  /\ pc[t] = "w_grow"
  /\ len + cur[t].elen + 1 <= capacity
  /\ Goto(t, "w_copy")
  /\ UNCHANGED <<bufvars, lockvars, locals, ops, logged>>

(* memcpy(log->data + log->len, entry, elen) *)
WriteCopy(t) ==
  /\ pc[t] = "w_copy"
  /\ data' = [i \in 0..capacity-1 |->
                IF i \in len..len+cur[t].elen-1
                  THEN <<cur[t].id, i - len + 1>> ELSE data[i]]
  /\ Goto(t, "w_len")
  /\ UNCHANGED <<len, capacity, lockvars, locals, ops, logged>>

(* log->len += elen; log->data[log->len] = 0 *)
WriteLen(t) ==
  /\ pc[t] = "w_len"
  /\ len' = len + cur[t].elen
  /\ data' = [data EXCEPT ![len + cur[t].elen] = Nul]
  /\ Goto(t, "w_unlock")
  /\ UNCHANGED <<capacity, lockvars, locals, ops, logged>>

(* rw_write_unlock, and the return from log_write. *)
WriteUnlock(t) ==
  /\ pc[t] = "w_unlock"
  /\ writers_active' = 0
  /\ \/ /\ writers_waiting > 0
        /\ Signal(can_write, can_write')
        /\ UNCHANGED can_read
     \/ /\ writers_waiting = 0
        /\ can_read' = {}
        /\ UNCHANGED can_write
  /\ logged' = logged \cup {cur[t].id}
  /\ cur' = [cur EXCEPT ![t] = NoEntry]
  /\ Goto(t, "idle")
  /\ UNCHANGED <<bufvars, readers_active, writers_waiting, rlen, out, seen, ops>>

(* A handler calls log_read. *)
BeginRead(t) ==
  /\ pc[t] = "idle"
  /\ ops < MaxOps
  /\ ops' = ops + 1
  /\ seen' = [seen EXCEPT ![t] = logged]
  /\ Goto(t, "r_lock")
  /\ UNCHANGED <<bufvars, lockvars, cur, rlen, out, logged>>

(* rw_read_lock; a reader woken from can_read evaluates its condition again *)
(* and does nothing else that a new reader does not do.                     *)
ReadAtLock(t) == pc[t] = "r_lock" \/ (pc[t] = "r_wait" /\ t \notin can_read)

ReadLockWait(t) ==
  /\ ReadAtLock(t)
  /\ ReaderBlocked
  /\ can_read' = can_read \cup {t}
  /\ Goto(t, "r_wait")
  /\ UNCHANGED <<bufvars, readers_active, writers_active, writers_waiting, can_write,
                 locals, ops, logged>>

ReadLockEnter(t) ==
  /\ ReadAtLock(t)
  /\ ~ReaderBlocked
  /\ readers_active' = readers_active + 1
  /\ Goto(t, "r_len")
  /\ UNCHANGED <<bufvars, writers_active, writers_waiting, can_read, can_write,
                 locals, ops, logged>>

(* int len = log->len *)
ReadLen(t) ==
  /\ pc[t] = "r_len"
  /\ rlen' = [rlen EXCEPT ![t] = len]
  /\ Goto(t, "r_copy")
  /\ UNCHANGED <<bufvars, lockvars, cur, out, seen, ops, logged>>

(* Mutant: the terminator is not copied. *)
ReadCopyUnterminated(t) ==
  /\ pc[t] = "r_copy"
  /\ out' = [out EXCEPT ![t] = [i \in 0..rlen[t]-1 |-> data[i]]]
  /\ Goto(t, "r_unlock")
  /\ UNCHANGED <<bufvars, lockvars, cur, rlen, seen, ops, logged>>

(* The memcpy of len + 1 bytes into the new out_buf. *)
ReadCopy(t) ==
  /\ pc[t] = "r_copy"
  /\ out' = [out EXCEPT ![t] = [i \in 0..rlen[t] |-> data[i]]]
  /\ Goto(t, "r_unlock")
  /\ UNCHANGED <<bufvars, lockvars, cur, rlen, seen, ops, logged>>

(* rw_read_unlock, and the return from log_read. *)
ReadUnlock(t) ==
  /\ pc[t] = "r_unlock"
  /\ readers_active' = readers_active - 1
  /\ \/ /\ readers_active = 1
        /\ Signal(can_write, can_write')
     \/ /\ readers_active # 1
        /\ UNCHANGED can_write
  /\ out' = [out EXCEPT ![t] = <<>>]
  /\ rlen' = [rlen EXCEPT ![t] = 0]
  /\ seen' = [seen EXCEPT ![t] = {}]
  /\ Goto(t, "idle")
  /\ UNCHANGED <<bufvars, writers_active, writers_waiting, can_read, cur, ops, logged>>

(* POSIX lets pthread_cond_wait return without a signal. *)
SpuriousWake(t) ==
  /\ t \in can_read \cup can_write
  /\ can_read' = can_read \ {t}
  /\ can_write' = can_write \ {t}
  /\ UNCHANGED <<bufvars, readers_active, writers_active, writers_waiting, pc,
                 locals, ops, logged>>

WriteStep(t) ==
  \/ WriteLockWait(t) \/ WriteLockEnter(t) \/ WriteWakeWait(t) \/ WriteWakeEnter(t)
  \/ WriteGrow(t) \/ WriteFits(t) \/ WriteCopy(t) \/ WriteLen(t) \/ WriteUnlock(t)
ReadStep(t) ==
  ReadLockWait(t) \/ ReadLockEnter(t) \/ ReadLen(t) \/ ReadCopy(t) \/ ReadUnlock(t)

Next ==
  \E t \in Workers :
    \/ \E n \in Elens : BeginWrite(t, n)
    \/ BeginRead(t)
    \/ WriteStep(t)
    \/ ReadStep(t)
    \/ SpuriousWake(t)

Spec == Init /\ [][Next]_vars

(* A thread that can run is run; spurious wakeups do not go on for ever.   *)
FairSpec ==
  /\ Spec
  /\ \A t \in Workers : WF_vars(WriteStep(t)) /\ WF_vars(ReadStep(t))
  /\ <>[][\A t \in Workers : ~SpuriousWake(t)]_vars
-----------------------------------------------------------------------------
Labels == {"idle", "w_lock", "w_wait", "w_grow", "w_copy", "w_len", "w_unlock",
           "r_lock", "r_wait", "r_len", "r_copy", "r_unlock"}

(* Type invariant: the lock's counters are never decremented below zero,   *)
(* at most one writer is active, the buffer has the size it was given.     *)
TypeOK ==
  /\ len \in Nat /\ capacity \in Nat \ {0}
  /\ data \in [0..capacity-1 -> Cells]
  /\ readers_active \in Nat /\ writers_active \in {0, 1} /\ writers_waiting \in Nat
  /\ can_read \subseteq Workers /\ can_write \subseteq Workers
  /\ pc \in [Workers -> Labels]
  /\ cur \in [Workers -> [id : 0..MaxOps, elen : Nat]]
  /\ rlen \in [Workers -> Nat]
  /\ ops \in 0..MaxOps
  /\ logged \subseteq 1..MaxOps

Writing == {t \in Workers : pc[t] \in {"w_grow", "w_copy", "w_len", "w_unlock"}}
Reading == {t \in Workers : pc[t] \in {"r_len", "r_copy", "r_unlock"}}
Waiting == {t \in Workers : pc[t] = "w_wait"}

(* The lock excludes: a thread between rw_write_lock and rw_write_unlock   *)
(* shares the buffer with no other writer and with no reader.              *)
Exclusion == \A t \in Writing : \A u \in Writing \cup Reading : u = t

(* The bytes 0..n-1 of buf are whole entries: every byte has its           *)
(* predecessor and its successor within the entry next to it.              *)
WholeEntries(buf, n, elenOf(_)) ==
  \A i \in 0..n-1 :
    LET e == buf[i][1]  k == buf[i][2]
    IN  /\ e # 0
        /\ k > 1 => i > 0 /\ buf[i-1] = <<e, k - 1>>
        /\ k < elenOf(e) => i + 1 < n /\ buf[i+1] = <<e, k + 1>>

(* An entry ends where the next one starts, so its length can be read off. *)
LengthIn(buf, n, e) == Cardinality({i \in 0..n-1 : buf[i][1] = e})

(* The log is the concatenation of whole entries, one for every log_write  *)
(* that has returned (and for one that is about to), never torn by         *)
(* interleaved appends, with every byte inside the allocation; outside an  *)
(* append it is terminated.                                                *)
LogIntact ==
  LET entries == {data[i][1] : i \in 0..len-1}
      landed  == {cur[t].id : t \in {u \in Workers : pc[u] = "w_unlock"}}
  IN  /\ len + 1 <= capacity
      /\ WholeEntries(data, len, LAMBDA e : LengthIn(data, len, e))
      /\ entries = logged \cup landed
      /\ \A e \in entries : Cardinality({i \in 0..len-1 : data[i] = <<e, 1>>}) = 1
      /\ (\A t \in Workers : pc[t] # "w_len") => data[len] = Nul
      /\ \A t \in Workers : pc[t] \in {"w_copy", "w_len"} => len + cur[t].elen + 1 <= capacity

(* What log_read hands to a POST is a terminated snapshot of the log:      *)
(* whole entries only, and every entry whose log_write had returned when   *)
(* log_read was called.                                                    *)
ReadSnapshot ==
  \A t \in Workers : pc[t] = "r_unlock" =>
    /\ out[t] = [i \in 0..len |-> data[i]]
    /\ out[t][rlen[t]] = Nul
    /\ seen[t] \subseteq {out[t][i][1] : i \in 0..rlen[t]-1}

(* No lost wakeup: a reader sleeps only while a writer is in or before the *)
(* lock, and when the lock is free while writers sleep, one of the waiting *)
(* writers has been woken.                                                 *)
NoLostWakeup ==
  /\ can_read # {} => ReaderBlocked
  /\ can_write # {} /\ ~WriterBlocked => Waiting \ can_write # {}

(* Writer priority: while a writer waits, no reader enters. *)
WriterPriority == [][Waiting # {} => Reading' \subseteq Reading]_vars

(* Every log_write and log_read returns once requests stop arriving:       *)
(* no order of waits and wakeups leaves a thread blocked.                  *)
EveryCallReturns == \A t \in Workers : (pc[t] # "idle") ~> (pc[t] = "idle")
=============================================================================
