----------------------------- MODULE RWLogProofs -----------------------------
(***************************************************************************)
(* Proofs about the log's reader-writer lock, for any number of workers    *)
(* and any lengths of entries.                                             *)
(***************************************************************************)
EXTENDS RWLog, FiniteSetTheorems, TLAPS

(* The inductive invariant of the lock: the counters count the threads at  *)
(* the places the code increments and decrements them for, and threads in  *)
(* a wait set are blocked there.  Exclusion alone is not inductive: it     *)
(* speaks of places only, while the guards read the counters.              *)
LockInv ==
  /\ readers_active = Cardinality(Reading)
  /\ writers_waiting = Cardinality(Waiting)
  /\ writers_active = 1 <=> Writing # {}
  /\ Exclusion
  /\ can_write \subseteq Waiting
  /\ can_read \subseteq {t \in Workers : pc[t] = "r_wait"}

(* A thread inside log_write has an entry to append. *)
HasEntry ==
  \A t \in Workers :
    pc[t] \in {"w_lock", "w_wait", "w_grow", "w_copy", "w_len", "w_unlock"} => cur[t].id # 0

IInv == TypeOK /\ LockInv /\ HasEntry
-----------------------------------------------------------------------------
(* The three counted sets are finite, whatever the state. *)
LEMMA CountedFinite ==
  /\ IsFiniteSet(Reading) /\ Cardinality(Reading) \in Nat
  /\ IsFiniteSet(Waiting) /\ Cardinality(Waiting) \in Nat
<1>1. Reading \in SUBSET Workers /\ Waiting \in SUBSET Workers
  BY DEF Reading, Waiting
<1> QED BY <1>1, LogAssumption, FS_Subset, FS_CardinalityType

(* A counter that is decremented counts at least the thread leaving. *)
LEMMA Leave ==
  ASSUME NEW S, IsFiniteSet(S), NEW t \in S
  PROVE  /\ Cardinality(S) \in Nat \ {0}
         /\ Cardinality(S \ {t}) = Cardinality(S) - 1
<1>1. Cardinality(S) \in Nat /\ Cardinality(S) # 0
  BY FS_CardinalityType, FS_EmptySet
<1>2. Cardinality(S \ {t}) = Cardinality(S) - 1
  BY FS_RemoveElement
<1> QED BY <1>1, <1>2

(* A byte of an entry is a cell of the buffer. *)
LEMMA CellType ==
  ASSUME NEW e \in 0..MaxOps, NEW k \in Nat
  PROVE  <<e, k>> \in Cells
BY DEF Cells

(* The state log_init leaves satisfies the invariant. *)
LEMMA InitIInv == Init => IInv
<1> SUFFICES ASSUME Init PROVE IInv
  OBVIOUS
<1>1. TypeOK
  BY LogAssumption DEF Init, TypeOK, Cells, Nul, Garbage, NoEntry, Labels
<1>2. Reading = {} /\ Waiting = {} /\ Writing = {}
  BY DEF Init, Reading, Waiting, Writing
<1> QED BY <1>1, <1>2, FS_EmptySet DEF Init, IInv, LockInv, HasEntry, Exclusion

(* Every step of log_write and log_read keeps the invariant. *)
LEMMA StepIInv == IInv /\ [Next]_vars => IInv'
<1> SUFFICES ASSUME IInv, [Next]_vars PROVE IInv'
  OBVIOUS
<1> USE LogAssumption DEF IInv, TypeOK, LockInv, HasEntry, bufvars, lockvars, locals, Goto, Labels
<1>0. /\ IsFiniteSet(Reading) /\ Cardinality(Reading) \in Nat
      /\ IsFiniteSet(Waiting) /\ Cardinality(Waiting) \in Nat
  BY CountedFinite
<1>1. ASSUME NEW t \in Workers, NEW n \in Elens, BeginWrite(t, n) PROVE IInv'
  <2>1. UNCHANGED <<Reading, Waiting, Writing>>
    BY <1>1 DEF BeginWrite, Reading, Waiting, Writing
  <2>2. cur' \in [Workers -> [id : 0..MaxOps, elen : Nat]] /\ cur'[t].id # 0
    BY <1>1 DEF BeginWrite
  <2>3. \A u \in Workers \ {t} : cur'[u] = cur[u]
    BY <1>1 DEF BeginWrite
  <2> QED BY <1>1, <2>1, <2>2, <2>3 DEF BeginWrite, Exclusion
<1>2. ASSUME NEW t \in Workers, BeginRead(t) PROVE IInv'
  <2>1. UNCHANGED <<Reading, Waiting, Writing>>
    BY <1>2 DEF BeginRead, Reading, Waiting, Writing
  <2> QED BY <1>2, <2>1 DEF BeginRead, Exclusion
<1>3. ASSUME NEW t \in Workers, WriteLockWait(t) PROVE IInv'
  <2>1. UNCHANGED <<Reading, Writing>> /\ Waiting' = Waiting \cup {t} /\ t \notin Waiting
    BY <1>3 DEF WriteLockWait, Reading, Waiting, Writing
  <2>2. Cardinality(Waiting') = Cardinality(Waiting) + 1
    BY <1>0, <2>1, FS_AddElement
  <2> QED BY <1>0, <1>3, <2>1, <2>2 DEF WriteLockWait, Exclusion
<1>4. ASSUME NEW t \in Workers, WriteLockEnter(t) PROVE IInv'
  <2>1. UNCHANGED <<Reading, Waiting>> /\ Writing' = Writing \cup {t}
    BY <1>4 DEF WriteLockEnter, Reading, Waiting, Writing
  <2>2. Reading = {} /\ Writing = {}
    BY <1>0, <1>4, FS_EmptySet DEF WriteLockEnter, WriterBlocked
  <2> QED BY <1>0, <1>4, <2>1, <2>2 DEF WriteLockEnter, Exclusion
<1>5. ASSUME NEW t \in Workers, WriteWakeWait(t) PROVE IInv'
  <2>1. UNCHANGED <<Reading, Waiting, Writing>> /\ t \in Waiting
    BY <1>5 DEF WriteWakeWait, Reading, Waiting, Writing
  <2> QED BY <1>5, <2>1 DEF WriteWakeWait, Exclusion
<1>6. ASSUME NEW t \in Workers, WriteWakeEnter(t) PROVE IInv'
  <2>1. /\ UNCHANGED Reading /\ Writing' = Writing \cup {t}
        /\ t \in Waiting /\ Waiting' = Waiting \ {t}
    BY <1>6 DEF WriteWakeEnter, Reading, Waiting, Writing
  <2>2. Reading = {} /\ Writing = {}
    BY <1>0, <1>6, FS_EmptySet DEF WriteWakeEnter, WriterBlocked
  <2>3. Cardinality(Waiting) \in Nat \ {0} /\ Cardinality(Waiting') = Cardinality(Waiting) - 1
    BY <1>0, <2>1, Leave
  <2> QED BY <1>0, <1>6, <2>1, <2>2, <2>3 DEF WriteWakeEnter, Exclusion
<1>7. ASSUME NEW t \in Workers, WriteGrow(t) PROVE IInv'
  <2>1. UNCHANGED <<Reading, Waiting, Writing>>
    BY <1>7 DEF WriteGrow, Reading, Waiting, Writing
  <2>2. capacity' \in Nat \ {0} /\ data' \in [0..capacity'-1 -> Cells]
    <3>1. Garbage \in Cells
      BY DEF Garbage, Cells
    <3>2. \A i \in 0..capacity*2-1 : (IF i < capacity THEN data[i] ELSE Garbage) \in Cells
      BY <3>1
    <3> QED BY <1>7, <3>2 DEF WriteGrow
  <2> QED BY <1>7, <2>1, <2>2 DEF WriteGrow, Exclusion
<1>8. ASSUME NEW t \in Workers, WriteFits(t) PROVE IInv'
  <2>1. UNCHANGED <<Reading, Waiting, Writing>>
    BY <1>8 DEF WriteFits, Reading, Waiting, Writing
  <2> QED BY <1>8, <2>1 DEF WriteFits, Exclusion
<1>9. ASSUME NEW t \in Workers, WriteCopy(t) PROVE IInv'
  <2>1. UNCHANGED <<Reading, Waiting, Writing>>
    BY <1>9 DEF WriteCopy, Reading, Waiting, Writing
  <2>2. data' \in [0..capacity'-1 -> Cells]
    <3>1. cur[t].id \in 0..MaxOps
      OBVIOUS
    <3>2. \A i \in len..len+cur[t].elen-1 : i - len + 1 \in Nat
      OBVIOUS
    <3>3. \A i \in len..len+cur[t].elen-1 : <<cur[t].id, i - len + 1>> \in Cells
      BY <3>1, <3>2, CellType
    <3> DEFINE cell(i) == IF i \in len..len+cur[t].elen-1
                            THEN <<cur[t].id, i - len + 1>> ELSE data[i]
    <3>4. \A i \in 0..capacity-1 : cell(i) \in Cells
      BY <3>3
    <3>5. data' = [i \in 0..capacity-1 |-> cell(i)] /\ capacity' = capacity
      BY <1>9 DEF WriteCopy
    <3> HIDE DEF cell
    <3> QED BY <3>4, <3>5
  <2> QED BY <1>9, <2>1, <2>2 DEF WriteCopy, Exclusion
<1>10. ASSUME NEW t \in Workers, WriteLen(t) PROVE IInv'
  <2>1. UNCHANGED <<Reading, Waiting, Writing>>
    BY <1>10 DEF WriteLen, Reading, Waiting, Writing
  <2>2. data' \in [0..capacity'-1 -> Cells]
    <3>1. Nul \in Cells
      BY DEF Nul, Cells
    <3> QED BY <1>10, <3>1 DEF WriteLen
  <2> QED BY <1>10, <2>1, <2>2 DEF WriteLen, Exclusion
<1>11. ASSUME NEW t \in Workers, WriteUnlock(t) PROVE IInv'
  <2>1. UNCHANGED <<Reading, Waiting>> /\ t \in Writing /\ Writing' = Writing \ {t}
    BY <1>11 DEF WriteUnlock, Reading, Waiting, Writing
  <2>2. Writing' = {}
    BY <2>1 DEF Exclusion
  <2>3. can_write' \subseteq can_write /\ can_read' \subseteq can_read
    BY <1>11 DEF WriteUnlock, Signal
  <2>4. cur' \in [Workers -> [id : 0..MaxOps, elen : Nat]] /\ cur' = [cur EXCEPT ![t] = NoEntry]
    BY <1>11 DEF WriteUnlock, NoEntry
  <2>5. logged' \subseteq 1..MaxOps
    <3>1. logged' = logged \cup {cur[t].id}
      BY <1>11 DEF WriteUnlock
    <3>2. cur[t].id \in 0..MaxOps /\ cur[t].id # 0
      BY <1>11 DEF WriteUnlock
    <3>3. cur[t].id \in 1..MaxOps
      BY <3>2
    <3> QED BY <3>1, <3>3
  <2> QED BY <1>11, <2>1, <2>2, <2>3, <2>4, <2>5 DEF WriteUnlock, Exclusion
<1>12. ASSUME NEW t \in Workers, ReadLockWait(t) PROVE IInv'
  <2>1. UNCHANGED <<Reading, Waiting, Writing>>
    BY <1>12 DEF ReadLockWait, ReadAtLock, Reading, Waiting, Writing
  <2> QED BY <1>12, <2>1 DEF ReadLockWait, Exclusion
<1>13. ASSUME NEW t \in Workers, ReadLockEnter(t) PROVE IInv'
  <2>1. /\ UNCHANGED <<Waiting, Writing>> /\ Reading' = Reading \cup {t} /\ t \notin Reading
    BY <1>13 DEF ReadLockEnter, ReadAtLock, Reading, Waiting, Writing
  <2>2. Writing = {}
    BY <1>13 DEF ReadLockEnter, ReaderBlocked
  <2>3. Cardinality(Reading') = Cardinality(Reading) + 1
    BY <1>0, <2>1, FS_AddElement
  <2> QED BY <1>0, <1>13, <2>1, <2>2, <2>3 DEF ReadLockEnter, ReadAtLock, Exclusion
<1>14. ASSUME NEW t \in Workers, ReadLen(t) PROVE IInv'
  <2>1. UNCHANGED <<Reading, Waiting, Writing>>
    BY <1>14 DEF ReadLen, Reading, Waiting, Writing
  <2> QED BY <1>14, <2>1 DEF ReadLen, Exclusion
<1>15. ASSUME NEW t \in Workers, ReadCopy(t) PROVE IInv'
  <2>1. UNCHANGED <<Reading, Waiting, Writing>>
    BY <1>15 DEF ReadCopy, Reading, Waiting, Writing
  <2> QED BY <1>15, <2>1 DEF ReadCopy, Exclusion
<1>16. ASSUME NEW t \in Workers, ReadUnlock(t) PROVE IInv'
  <2>1. UNCHANGED <<Waiting, Writing>> /\ t \in Reading /\ Reading' = Reading \ {t}
    BY <1>16 DEF ReadUnlock, Reading, Waiting, Writing
  <2>2. Cardinality(Reading) \in Nat \ {0} /\ Cardinality(Reading') = Cardinality(Reading) - 1
    BY <1>0, <2>1, Leave
  <2>3. can_write' \subseteq can_write
    BY <1>16 DEF ReadUnlock, Signal
  <2> QED BY <1>0, <1>16, <2>1, <2>2, <2>3 DEF ReadUnlock, Exclusion
<1>17. ASSUME NEW t \in Workers, SpuriousWake(t) PROVE IInv'
  <2>1. UNCHANGED <<Reading, Waiting, Writing>>
    BY <1>17 DEF SpuriousWake, Reading, Waiting, Writing
  <2> QED BY <1>17, <2>1 DEF SpuriousWake, Exclusion
<1>18. CASE UNCHANGED vars
  BY <1>18 DEF vars, Reading, Waiting, Writing, Exclusion
<1> QED
  BY <1>1, <1>2, <1>3, <1>4, <1>5, <1>6, <1>7, <1>8, <1>9, <1>10, <1>11, <1>12, <1>13,
     <1>14, <1>15, <1>16, <1>17, <1>18
  DEF Next, WriteStep, ReadStep

(* The inductive invariant holds in every reachable state. *)
LEMMA InductiveInvariant == Spec => []IInv
BY InitIInv, StepIInv, PTL DEF Spec

(* The types of log.c's state are kept: no counter of the lock ever goes   *)
(* below zero, although the code never tests one before decrementing it.   *)
THEOREM TypeCorrect == Spec => []TypeOK
BY InductiveInvariant, PTL DEF IInv

(* log_write's critical section excludes every other access to the buffer. *)
THEOREM WritersExclude == Spec => []Exclusion
BY InductiveInvariant, PTL DEF IInv, LockInv
-----------------------------------------------------------------------------
(* No wakeup of the lock is lost: a reader sleeps only behind a writer, a  *)
(* writer sleeps on a free lock only if another writer is already awake.   *)
THEOREM LockWakeups == Spec => []NoLostWakeup
<1>1. Init => NoLostWakeup
  BY DEF Init, NoLostWakeup
<1>2. IInv /\ IInv' /\ NoLostWakeup /\ [Next]_vars => NoLostWakeup'
  <2> SUFFICES ASSUME IInv, IInv', NoLostWakeup, [Next]_vars PROVE NoLostWakeup'
    OBVIOUS
  <2> USE LogAssumption DEF NoLostWakeup, WriterBlocked, ReaderBlocked, bufvars, lockvars, locals
  <2>0. /\ readers_active \in Nat /\ writers_active \in {0, 1} /\ writers_waiting \in Nat
        /\ can_write \subseteq Waiting /\ can_read \subseteq Workers
        /\ pc \in [Workers -> Labels]
        /\ can_write # {} => writers_waiting > 0
    <3>1. can_write # {} => Cardinality(Waiting) # 0
      BY CountedFinite, FS_EmptySet DEF IInv, LockInv
    <3> QED BY <3>1 DEF IInv, TypeOK, LockInv
  <2>1. CASE UNCHANGED <<lockvars, Waiting>>
    BY <2>1
  <2>2. ASSUME NEW t \in Workers, WriteLockWait(t) PROVE NoLostWakeup'
    BY <2>0, <2>2 DEF WriteLockWait
  <2>3. ASSUME NEW t \in Workers, WriteLockEnter(t) \/ WriteWakeEnter(t) PROVE NoLostWakeup'
    BY <2>0, <2>3 DEF WriteLockEnter, WriteWakeEnter
  <2>4. ASSUME NEW t \in Workers, WriteWakeWait(t) PROVE NoLostWakeup'
    BY <2>0, <2>4 DEF WriteWakeWait
  <2>5. ASSUME NEW t \in Workers, WriteUnlock(t) PROVE NoLostWakeup'
    <3>1. UNCHANGED Waiting /\ UNCHANGED <<readers_active, writers_waiting>>
      BY <2>0, <2>5 DEF WriteUnlock, Goto, Waiting
    <3>2. can_write # {} => \E u \in can_write : can_write' = can_write \ {u}
      BY <2>0, <2>5 DEF WriteUnlock, Signal
    <3>3. can_write = {} => can_write' = {}
      BY <2>5 DEF WriteUnlock, Signal
    <3>4. writers_waiting > 0 \/ can_read' = {}
      BY <2>0, <2>5 DEF WriteUnlock
    <3> QED BY <2>0, <3>1, <3>2, <3>3, <3>4
  <2>6. ASSUME NEW t \in Workers, ReadLockWait(t) PROVE NoLostWakeup'
    BY <2>0, <2>6 DEF ReadLockWait, ReadAtLock, Goto, Waiting
  <2>7. ASSUME NEW t \in Workers, ReadLockEnter(t) PROVE NoLostWakeup'
    BY <2>0, <2>7 DEF ReadLockEnter, ReadAtLock, Goto, Waiting
  <2>8. ASSUME NEW t \in Workers, ReadUnlock(t) PROVE NoLostWakeup'
    <3>1. UNCHANGED Waiting /\ UNCHANGED <<writers_active, writers_waiting, can_read>>
      BY <2>0, <2>8 DEF ReadUnlock, Goto, Waiting
    <3>2. readers_active = 1 /\ can_write # {} => \E u \in can_write : can_write' = can_write \ {u}
      BY <2>8 DEF ReadUnlock, Signal
    <3>3. readers_active # 1 => readers_active' # 0 /\ readers_active' = readers_active - 1
      BY <2>0, <2>8 DEF ReadUnlock
    <3>4. readers_active' \in Nat
      BY DEF IInv, TypeOK
    <3>5. can_write = {} => can_write' = {}
      BY <2>8 DEF ReadUnlock, Signal
    <3> QED BY <2>0, <3>1, <3>2, <3>3, <3>4, <3>5
  <2>9. ASSUME NEW t \in Workers, SpuriousWake(t) PROVE NoLostWakeup'
    <3>1. UNCHANGED Waiting
      BY <2>9 DEF SpuriousWake, Waiting
    <3> QED BY <2>0, <2>9, <3>1 DEF SpuriousWake
  <2>10. ASSUME NEW t \in Workers, NEW n \in Elens, BeginWrite(t, n) PROVE NoLostWakeup'
    BY <2>0, <2>1, <2>10 DEF BeginWrite, Goto, Waiting
  <2>11. ASSUME NEW t \in Workers,
                BeginRead(t) \/ WriteGrow(t) \/ WriteFits(t) \/ WriteCopy(t) \/ WriteLen(t)
                \/ ReadLen(t) \/ ReadCopy(t)
         PROVE  NoLostWakeup'
    BY <2>0, <2>1, <2>11
    DEF BeginRead, WriteGrow, WriteFits, WriteCopy, WriteLen, ReadLen, ReadCopy, Goto, Waiting
  <2>12. CASE UNCHANGED vars
    BY <2>1, <2>12 DEF vars, Waiting
  <2> QED
    BY <2>2, <2>3, <2>4, <2>5, <2>6, <2>7, <2>8, <2>9, <2>10, <2>11, <2>12
    DEF Next, WriteStep, ReadStep
<1> QED BY <1>1, <1>2, InductiveInvariant, PTL DEF Spec

(* No reader gets past rw_read_lock while a writer waits in rw_write_lock. *)
THEOREM WritersGoFirst == Spec => WriterPriority
<1>1. IInv /\ [Next]_vars => (Waiting # {} => Reading' \subseteq Reading)
  <2> SUFFICES ASSUME IInv, [Next]_vars, Waiting # {}
               PROVE  Reading' \subseteq Reading
    OBVIOUS
  <2> USE DEF Goto, Reading, bufvars, lockvars, locals
  <2>0. pc \in [Workers -> Labels] /\ ReaderBlocked
    <3>1. Cardinality(Waiting) # 0 /\ Cardinality(Waiting) \in Nat
      BY CountedFinite, FS_EmptySet
    <3> QED BY <3>1 DEF IInv, TypeOK, LockInv, ReaderBlocked
  <2>1. ASSUME NEW t \in Workers, NEW n \in Elens, BeginWrite(t, n) PROVE Reading' \subseteq Reading
    BY <2>0, <2>1 DEF BeginWrite
  <2>2. ASSUME NEW t \in Workers, WriteStep(t) \/ BeginRead(t) PROVE Reading' \subseteq Reading
    BY <2>0, <2>2
    DEF BeginRead, WriteStep, WriteLockWait, WriteLockEnter, WriteWakeWait, WriteWakeEnter,
        WriteGrow, WriteFits, WriteCopy, WriteLen, WriteUnlock
  <2>3. ASSUME NEW t \in Workers, ReadStep(t) PROVE Reading' \subseteq Reading
    BY <2>0, <2>3 DEF ReadStep, ReadLockWait, ReadLockEnter, ReadLen, ReadCopy, ReadUnlock
  <2>4. ASSUME NEW t \in Workers, SpuriousWake(t) PROVE Reading' \subseteq Reading
    BY <2>4 DEF SpuriousWake
  <2>5. CASE UNCHANGED vars
    BY <2>5 DEF vars
  <2> QED BY <2>1, <2>2, <2>3, <2>4, <2>5 DEF Next
<1> QED BY <1>1, InductiveInvariant, PTL DEF Spec, WriterPriority
-----------------------------------------------------------------------------
(* The contents of the log *)

(* Ids tell entries apart: a thread appends an entry no other thread has   *)
(* and none that is in the log already.                                    *)
IdsFresh ==
  /\ logged \subseteq 1..ops
  /\ \A t \in Workers : cur[t].id # 0 =>
       /\ cur[t].id <= ops /\ cur[t].id \notin logged /\ cur[t].elen >= 1
       /\ \A u \in Workers \ {t} : cur[u].id # cur[t].id

(* Each entry e of E is laid out in d from start[e] on, size[e] bytes of   *)
(* it in order, and the first n bytes of d hold nothing else.              *)
IsLayout(d, n, E, start, size) ==
  /\ \A e \in E : size[e] >= 1 /\ start[e] + size[e] <= n
  /\ \A e \in E : \A k \in 1..size[e] : d[start[e] + k - 1] = <<e, k>>
  /\ \A i \in 0..n-1 : \E e \in E : start[e] <= i /\ i < start[e] + size[e]

LaidOut(d, n, E) == \E start, size \in [E -> Nat] : IsLayout(d, n, E, start, size)

Landed == {cur[t].id : t \in {u \in Workers : pc[u] = "w_unlock"}}

(* The invariant of the buffer. An entry counts from the moment len covers *)
(* it; between the memcpy and that moment it is behind the end of the log. *)
BufInv ==
  /\ LaidOut(data, len, logged \cup Landed)
  /\ len + 1 <= capacity
  /\ (\A t \in Workers : pc[t] # "w_len") => data[len] = Nul
  /\ \A t \in Workers : pc[t] \in {"w_copy", "w_len"} => len + cur[t].elen + 1 <= capacity
  /\ \A t \in Workers : pc[t] = "w_len" =>
       \A k \in 1..cur[t].elen : data[len + k - 1] = <<cur[t].id, k>>

(* What a reader has copied is still what the log is. *)
CopyInv ==
  /\ out = [t \in Workers |-> out[t]]
  /\ seen \in [Workers -> SUBSET logged]
  /\ \A t \in Workers : pc[t] \in {"r_copy", "r_unlock"} => rlen[t] = len
  /\ \A t \in Workers : pc[t] = "r_unlock" => out[t] = [i \in 0..len |-> data[i]]

LEMMA IdsStep == IInv /\ IdsFresh /\ [Next]_vars => IdsFresh'
<1> SUFFICES ASSUME IInv, IdsFresh, [Next]_vars PROVE IdsFresh'
  OBVIOUS
<1>0. /\ ops \in Nat /\ cur \in [Workers -> [id : 0..MaxOps, elen : Nat]]
      /\ \A t \in Workers : cur[t].id \in Nat
  BY LogAssumption DEF IInv, TypeOK
<1>1. CASE UNCHANGED <<cur, ops, logged>>
  BY <1>1 DEF IdsFresh
<1>2. ASSUME NEW t \in Workers, NEW n \in Elens, BeginWrite(t, n) PROVE IdsFresh'
  <2>1. /\ ops' = ops + 1 /\ logged' = logged /\ n \in Nat \ {0}
        /\ cur' = [cur EXCEPT ![t] = [id |-> ops + 1, elen |-> n]]
    BY <1>2, LogAssumption DEF BeginWrite
  <2>2. cur'[t].id = ops + 1 /\ cur'[t].elen >= 1 /\ \A u \in Workers \ {t} : cur'[u] = cur[u]
    BY <1>0, <2>1
  <2>3. logged' \subseteq 1..ops'
    BY <1>0, <2>1 DEF IdsFresh
  <2>4. ops + 1 \notin logged /\ \A u \in Workers : cur[u].id # ops + 1
    BY <1>0 DEF IdsFresh
  <2> QED BY <1>0, <2>1, <2>2, <2>3, <2>4 DEF IdsFresh
<1>3. ASSUME NEW t \in Workers, WriteUnlock(t) PROVE IdsFresh'
  <2>1. /\ ops' = ops /\ logged' = logged \cup {cur[t].id} /\ cur' = [cur EXCEPT ![t] = NoEntry]
        /\ cur[t].id # 0
    BY <1>3 DEF WriteUnlock, IInv, HasEntry
  <2>2. cur'[t].id = 0 /\ \A u \in Workers \ {t} : cur'[u] = cur[u] /\ cur[u].id # cur[t].id
    BY <1>0, <2>1 DEF NoEntry, IdsFresh
  <2>3. logged' \subseteq 1..ops'
    <3>1. cur[t].id \in 1..ops
      BY <1>0, <2>1 DEF IdsFresh
    <3> QED BY <2>1, <3>1 DEF IdsFresh
  <2> QED BY <1>0, <2>1, <2>2, <2>3 DEF IdsFresh
<1>4. ASSUME NEW t \in Workers, BeginRead(t) PROVE IdsFresh'
  <2>1. ops' = ops + 1 /\ UNCHANGED <<cur, logged>>
    BY <1>4 DEF BeginRead
  <2>2. logged' \subseteq 1..ops'
    BY <1>0, <2>1 DEF IdsFresh
  <2> QED BY <1>0, <2>1, <2>2 DEF IdsFresh
<1>5. ASSUME NEW t \in Workers,
             \/ WriteLockWait(t) \/ WriteLockEnter(t) \/ WriteWakeWait(t) \/ WriteWakeEnter(t)
             \/ WriteGrow(t) \/ WriteFits(t) \/ WriteCopy(t) \/ WriteLen(t)
             \/ ReadStep(t) \/ SpuriousWake(t)
      PROVE  IdsFresh'
  <2> USE DEF locals
  <2>1. CASE WriteLockWait(t) \/ WriteLockEnter(t) \/ WriteWakeWait(t) \/ WriteWakeEnter(t)
    BY <1>1, <2>1 DEF WriteLockWait, WriteLockEnter, WriteWakeWait, WriteWakeEnter
  <2>2. CASE WriteGrow(t) \/ WriteFits(t) \/ WriteCopy(t) \/ WriteLen(t)
    BY <1>1, <2>2 DEF WriteGrow, WriteFits, WriteCopy, WriteLen
  <2>3. CASE ReadLockWait(t) \/ ReadLockEnter(t) \/ ReadLen(t)
    BY <1>1, <2>3 DEF ReadLockWait, ReadLockEnter, ReadLen
  <2>4. CASE ReadCopy(t) \/ ReadUnlock(t) \/ SpuriousWake(t)
    BY <1>1, <2>4 DEF ReadCopy, ReadUnlock, SpuriousWake
  <2> QED BY <1>5, <2>1, <2>2, <2>3, <2>4 DEF ReadStep
<1>6. CASE UNCHANGED vars
  BY <1>1, <1>6 DEF vars, locals
<1> QED BY <1>2, <1>3, <1>4, <1>5, <1>6 DEF Next, WriteStep

(* A step away from the buffer. *)
LEMMA BufKept ==
  ASSUME BufInv, UNCHANGED <<data, len, capacity, logged>>,
         \A u \in Workers : pc[u] \in {"w_copy", "w_len", "w_unlock"}
                            \/ pc'[u] \in {"w_copy", "w_len", "w_unlock"} =>
                              pc'[u] = pc[u] /\ cur'[u] = cur[u]
  PROVE  BufInv'
<1>1. Landed' = Landed
  BY DEF Landed
<1> QED BY <1>1 DEF BufInv

(* Another entry behind the last one. *)
LEMMA Appended ==
  ASSUME NEW d, NEW n \in Nat, NEW E, LaidOut(d, n, E), NEW e, e \notin E, NEW s \in Nat \ {0},
         NEW d2, \A i \in 0..n-1 : d2[i] = d[i], \A k \in 1..s : d2[n + k - 1] = <<e, k>>
  PROVE  LaidOut(d2, n + s, E \cup {e})
<1>1. PICK start \in [E -> Nat], size \in [E -> Nat] : IsLayout(d, n, E, start, size)
  BY DEF LaidOut
<1> DEFINE F == E \cup {e}
           start2 == [f \in F |-> IF f = e THEN n ELSE start[f]]
           size2 == [f \in F |-> IF f = e THEN s ELSE size[f]]
<1>2. start2 \in [F -> Nat] /\ size2 \in [F -> Nat]
  OBVIOUS
<1>3. /\ start2[e] = n /\ size2[e] = s
      /\ \A f \in E : start2[f] = start[f] /\ size2[f] = size[f]
  OBVIOUS
<1> HIDE DEF start2, size2
<1>4. \A f \in E : size[f] \in Nat /\ start[f] \in Nat /\ size[f] >= 1 /\ start[f] + size[f] <= n
  BY <1>1 DEF IsLayout
<1>5. \A f \in F : size2[f] >= 1 /\ start2[f] + size2[f] <= n + s
  BY <1>3, <1>4
<1>6. ASSUME NEW f \in F, NEW k \in 1..size2[f] PROVE d2[start2[f] + k - 1] = <<f, k>>
  <2>1. CASE f = e
    BY <1>3, <2>1
  <2>2. CASE f \in E
    <3>1. k \in 1..size[f] /\ start2[f] = start[f]
      BY <1>3, <2>2
    <3>2. d[start[f] + k - 1] = <<f, k>>
      BY <1>1, <2>2, <3>1 DEF IsLayout
    <3>3. start[f] + k - 1 \in 0..n-1
      BY <1>4, <2>2, <3>1
    <3> QED BY <3>1, <3>2, <3>3
  <2> QED BY <2>1, <2>2
<1>7. ASSUME NEW i \in 0..(n+s)-1
      PROVE  \E f \in F : start2[f] <= i /\ i < start2[f] + size2[f]
  <2>1. CASE i < n
    <3>1. i \in 0..n-1
      BY <2>1
    <3>2. PICK f \in E : start[f] <= i /\ i < start[f] + size[f]
      BY <1>1, <3>1 DEF IsLayout
    <3> QED BY <1>3, <3>2
  <2>2. CASE i >= n
    BY <1>3, <2>2
  <2> QED BY <2>1, <2>2
<1>8. IsLayout(d2, n + s, F, start2, size2)
  BY <1>5, <1>6, <1>7 DEF IsLayout
<1> QED BY <1>2, <1>8 DEF LaidOut

(* The layout depends on the bytes of the log only. *)
LEMMA SameLayout ==
  ASSUME NEW d, NEW n \in Nat, NEW E, LaidOut(d, n, E), NEW d2, \A i \in 0..n-1 : d2[i] = d[i]
  PROVE  LaidOut(d2, n, E)
<1>1. PICK start \in [E -> Nat], size \in [E -> Nat] : IsLayout(d, n, E, start, size)
  BY DEF LaidOut
<1>2. ASSUME NEW f \in E, NEW k \in 1..size[f] PROVE d2[start[f] + k - 1] = <<f, k>>
  <2>1. d[start[f] + k - 1] = <<f, k>> /\ start[f] + size[f] <= n
    BY <1>1 DEF IsLayout
  <2>2. start[f] \in Nat /\ size[f] \in Nat
    BY <1>1
  <2>3. start[f] + k - 1 \in 0..n-1
    BY <2>1, <2>2
  <2> QED BY <2>1, <2>3
<1>3. IsLayout(d2, n, E, start, size)
  BY <1>1, <1>2 DEF IsLayout
<1> QED BY <1>3 DEF LaidOut

(* The steps of a writer inside the lock. *)
LEMMA BufGrow ==
  ASSUME IInv, BufInv, NEW t \in Workers, WriteGrow(t)
  PROVE  BufInv'
<1>1. /\ UNCHANGED <<len, pc, cur, logged>> /\ capacity' = capacity * 2
      /\ len \in Nat /\ capacity \in Nat /\ len + 1 <= capacity
      /\ data' = [i \in 0..capacity*2-1 |-> IF i < capacity THEN data[i] ELSE Garbage]
  BY DEF WriteGrow, locals, IInv, TypeOK, BufInv
<1>2. \A i \in 0..len : data'[i] = data[i]
  BY <1>1
<1>3. Landed' = Landed
  BY <1>1 DEF Landed
<1>4. LaidOut(data', len, logged \cup Landed)
  <2>1. LaidOut(data, len, logged \cup Landed) /\ len \in Nat
    BY <1>1 DEF BufInv
  <2>2. \A i \in 0..len-1 : data'[i] = data[i]
    BY <1>1, <1>2
  <2> QED BY <2>1, <2>2, SameLayout
<1>5. len + 1 <= capacity' /\ capacity <= capacity' /\ capacity' \in Nat
  BY <1>1
<1>6. \A u \in Workers : pc[u] # "w_len"
  BY DEF WriteGrow, IInv, LockInv, Exclusion, Writing
<1>7. data'[len] = data[len] /\ data[len] = Nul
  BY <1>1, <1>2, <1>6 DEF BufInv
<1>8. ASSUME NEW u \in Workers, pc[u] \in {"w_copy", "w_len"} PROVE FALSE
  BY <1>8 DEF WriteGrow, IInv, LockInv, Exclusion, Writing
<1> QED BY <1>1, <1>3, <1>4, <1>5, <1>6, <1>7, <1>8 DEF BufInv

LEMMA BufFits ==
  ASSUME IInv, BufInv, NEW t \in Workers, WriteFits(t)
  PROVE  BufInv'
<1>1. /\ UNCHANGED <<data, capacity, len, cur, logged>> /\ pc' = [pc EXCEPT ![t] = "w_copy"]
      /\ pc[t] = "w_grow" /\ len + cur[t].elen + 1 <= capacity /\ pc \in [Workers -> Labels]
  BY DEF WriteFits, Goto, bufvars, locals, IInv, TypeOK
<1>2. Landed' = Landed
  BY <1>1 DEF Landed
<1>3. \A u \in Workers : (pc'[u] = "w_len" <=> pc[u] = "w_len") /\ (u # t => pc'[u] = pc[u])
  BY <1>1
<1> QED BY <1>1, <1>2, <1>3 DEF BufInv

LEMMA BufCopy ==
  ASSUME IInv, BufInv, NEW t \in Workers, WriteCopy(t)
  PROVE  BufInv'
<1> DEFINE n == cur[t].elen
           e == cur[t].id
<1>1. /\ UNCHANGED <<len, capacity, cur, logged>> /\ pc' = [pc EXCEPT ![t] = "w_len"]
      /\ pc[t] = "w_copy" /\ pc \in [Workers -> Labels]
      /\ len \in Nat /\ capacity \in Nat /\ n \in Nat /\ len + n + 1 <= capacity
      /\ data' = [i \in 0..capacity-1 |->
                    IF i \in len..len+n-1 THEN <<e, i - len + 1>> ELSE data[i]]
  BY DEF WriteCopy, Goto, locals, IInv, TypeOK, BufInv
<1> HIDE DEF n, e
<1>2. \A i \in 0..len-1 : data'[i] = data[i]
  BY <1>1
<1>3. ASSUME NEW k \in 1..n PROVE data'[len + k - 1] = <<e, k>>
  <2>1. len + k - 1 \in 0..capacity-1 /\ len + k - 1 \in len..len+n-1 /\ (len + k - 1) - len + 1 = k
    BY <1>1
  <2> QED BY <1>1, <2>1
<1>4. Landed' = Landed
  BY <1>1 DEF Landed
<1>5. LaidOut(data', len, logged \cup Landed)
  BY <1>1, <1>2, SameLayout DEF BufInv
<1>6. \A u \in Workers : u # t => pc[u] \notin {"w_copy", "w_len"} /\ pc'[u] = pc[u]
  BY <1>1 DEF IInv, LockInv, Exclusion, Writing
<1>7. pc'[t] = "w_len"
  BY <1>1
<1>8. \A u \in Workers : pc'[u] \in {"w_copy", "w_len"} => u = t
  BY <1>6
<1>9. \A u \in Workers : pc'[u] = "w_len" =>
        \A k \in 1..cur[u].elen : data'[len + k - 1] = <<cur[u].id, k>>
  BY <1>3, <1>8 DEF n, e
<1>10. \A u \in Workers : pc'[u] \in {"w_copy", "w_len"} => len + cur[u].elen + 1 <= capacity
  BY <1>1, <1>8 DEF n
<1>11. len + 1 <= capacity
  BY DEF BufInv
<1> QED BY <1>1, <1>4, <1>5, <1>7, <1>9, <1>10, <1>11 DEF BufInv

LEMMA BufLen ==
  ASSUME IInv, IdsFresh, BufInv, NEW t \in Workers, WriteLen(t)
  PROVE  BufInv'
<1> DEFINE n == cur[t].elen
           e == cur[t].id
<1>1. /\ UNCHANGED <<capacity, cur, logged>> /\ pc' = [pc EXCEPT ![t] = "w_unlock"]
      /\ pc[t] = "w_len" /\ pc \in [Workers -> Labels]
      /\ len \in Nat /\ capacity \in Nat /\ n \in Nat /\ len + n + 1 <= capacity
      /\ DOMAIN data = 0..capacity-1
      /\ data' = [data EXCEPT ![len + n] = Nul] /\ len' = len + n
  BY DEF WriteLen, Goto, locals, IInv, TypeOK, BufInv
<1>2. e # 0 /\ e \notin logged /\ n \in Nat \ {0}
  BY <1>1 DEF IInv, HasEntry, IdsFresh
<1>3. \A u \in Workers : u # t => pc[u] \notin {"w_copy", "w_len", "w_unlock"} /\ pc'[u] = pc[u]
  BY <1>1 DEF IInv, LockInv, Exclusion, Writing
<1>4. pc'[t] = "w_unlock"
  BY <1>1
<1>5. Landed = {} /\ Landed' = {e}
  BY <1>1, <1>3, <1>4 DEF Landed
<1>6. \A k \in 1..n : data[len + k - 1] = <<e, k>>
  BY <1>1 DEF BufInv
<1> HIDE DEF n, e
<1>7. data'[len + n] = Nul /\ \A i \in 0..len+n-1 : data'[i] = data[i]
  BY <1>1
<1>8. LaidOut(data', len + n, logged \cup {e})
  <2>1. \A i \in 0..len-1 : data'[i] = data[i]
    BY <1>1, <1>7
  <2>2. ASSUME NEW k \in 1..n PROVE data'[len + k - 1] = <<e, k>>
    <3>1. len + k - 1 \in 0..len+n-1
      BY <1>1
    <3> QED BY <1>6, <1>7, <3>1
  <2>3. LaidOut(data, len, logged)
    BY <1>5 DEF BufInv
  <2> QED BY <1>1, <1>2, <2>1, <2>2, <2>3, Appended
<1> QED BY <1>1, <1>3, <1>4, <1>5, <1>7, <1>8 DEF BufInv

LEMMA BufUnlock ==
  ASSUME IInv, BufInv, NEW t \in Workers, WriteUnlock(t)
  PROVE  BufInv'
<1>1. /\ UNCHANGED <<data, len, capacity>> /\ pc' = [pc EXCEPT ![t] = "idle"]
      /\ pc[t] = "w_unlock" /\ pc \in [Workers -> Labels] /\ logged' = logged \cup {cur[t].id}
  BY DEF WriteUnlock, Goto, bufvars, IInv, TypeOK
<1>2. \A u \in Workers : u # t => pc[u] \notin {"w_copy", "w_len", "w_unlock"} /\ pc'[u] = pc[u]
  BY <1>1 DEF IInv, LockInv, Exclusion, Writing
<1>3. pc'[t] = "idle"
  BY <1>1
<1>4. Landed = {cur[t].id} /\ Landed' = {}
  BY <1>1, <1>2, <1>3 DEF Landed
<1> QED BY <1>1, <1>2, <1>3, <1>4 DEF BufInv

LEMMA BufStep == IInv /\ IdsFresh /\ BufInv /\ [Next]_vars => BufInv'
<1> SUFFICES ASSUME IInv, IdsFresh, BufInv, [Next]_vars PROVE BufInv'
  OBVIOUS
<1>0. pc \in [Workers -> Labels] /\ cur \in [Workers -> [id : 0..MaxOps, elen : Nat]]
  BY DEF IInv, TypeOK
<1> DEFINE Busy == {"w_copy", "w_len", "w_unlock"}
           Kept == /\ UNCHANGED <<data, len, capacity, logged>>
                   /\ \A u \in Workers : pc[u] \in Busy \/ pc'[u] \in Busy =>
                                           pc'[u] = pc[u] /\ cur'[u] = cur[u]
<1>1. Kept => BufInv'
  BY BufKept
<1>2. ASSUME NEW t \in Workers, NEW n \in Elens, BeginWrite(t, n) PROVE Kept
  BY <1>0, <1>2 DEF BeginWrite, Goto, bufvars
<1>3. ASSUME NEW t \in Workers, BeginRead(t) PROVE Kept
  BY <1>0, <1>3 DEF BeginRead, Goto, bufvars
<1>4. ASSUME NEW t \in Workers, WriteLockWait(t) \/ WriteLockEnter(t) PROVE Kept
  BY <1>0, <1>4 DEF WriteLockWait, WriteLockEnter, Goto, bufvars, locals
<1>5. ASSUME NEW t \in Workers, WriteWakeWait(t) \/ WriteWakeEnter(t) PROVE Kept
  BY <1>0, <1>5 DEF WriteWakeWait, WriteWakeEnter, Goto, bufvars, locals
<1>6. ASSUME NEW t \in Workers, ReadLockWait(t) \/ ReadLockEnter(t) PROVE Kept
  BY <1>0, <1>6 DEF ReadLockWait, ReadLockEnter, ReadAtLock, Goto, bufvars, locals
<1>7. ASSUME NEW t \in Workers, ReadLen(t) \/ ReadCopy(t) PROVE Kept
  BY <1>0, <1>7 DEF ReadLen, ReadCopy, Goto, bufvars
<1>8. ASSUME NEW t \in Workers, ReadUnlock(t) PROVE Kept
  BY <1>0, <1>8 DEF ReadUnlock, Goto, bufvars
<1>9. ASSUME NEW t \in Workers, SpuriousWake(t) PROVE Kept
  BY <1>9 DEF SpuriousWake, bufvars, locals
<1>10. CASE UNCHANGED vars
  <2>1. Kept
    BY <1>10 DEF vars, bufvars, locals
  <2> QED BY <1>1, <2>1
<1> HIDE DEF Kept
<1> QED
  BY <1>1, <1>2, <1>3, <1>4, <1>5, <1>6, <1>7, <1>8, <1>9, <1>10,
     BufGrow, BufFits, BufCopy, BufLen, BufUnlock
  DEF Next, WriteStep, ReadStep

LEMMA CopyStep == IInv /\ CopyInv /\ [Next]_vars => CopyInv'
<1> SUFFICES ASSUME IInv, CopyInv, [Next]_vars PROVE CopyInv'
  OBVIOUS
<1>0. pc \in [Workers -> Labels] /\ rlen \in [Workers -> Nat]
  BY DEF IInv, TypeOK
<1> DEFINE Copying == {"r_copy", "r_unlock"}
           Kept == /\ UNCHANGED <<rlen, out>> /\ logged \subseteq logged'
                   /\ seen' \in [Workers -> SUBSET logged']
                   /\ \A u \in Workers : pc'[u] \in Copying =>
                        pc'[u] = pc[u] /\ UNCHANGED <<data, len>>
<1>1. Kept => CopyInv'
  BY DEF CopyInv
<1>2. ASSUME NEW t \in Workers, NEW n \in Elens, BeginWrite(t, n) PROVE Kept
  BY <1>0, <1>2 DEF BeginWrite, Goto, bufvars, CopyInv
<1>3. ASSUME NEW t \in Workers, BeginRead(t) PROVE Kept
  BY <1>0, <1>3 DEF BeginRead, Goto, bufvars, CopyInv
<1>4. ASSUME NEW t \in Workers, WriteLockWait(t) \/ WriteLockEnter(t) PROVE Kept
  BY <1>0, <1>4 DEF WriteLockWait, WriteLockEnter, Goto, bufvars, locals, CopyInv
<1>5. ASSUME NEW t \in Workers, WriteWakeWait(t) \/ WriteWakeEnter(t) PROVE Kept
  BY <1>0, <1>5 DEF WriteWakeWait, WriteWakeEnter, Goto, bufvars, locals, CopyInv
<1>6. ASSUME NEW t \in Workers, ReadLockWait(t) \/ ReadLockEnter(t) PROVE Kept
  BY <1>0, <1>6 DEF ReadLockWait, ReadLockEnter, ReadAtLock, Goto, bufvars, locals, CopyInv
<1>7. ASSUME NEW t \in Workers, WriteFits(t) PROVE Kept
  BY <1>0, <1>7 DEF WriteFits, Goto, bufvars, locals, CopyInv
<1>8. ASSUME NEW t \in Workers, WriteGrow(t) \/ WriteCopy(t) \/ WriteLen(t) \/ WriteUnlock(t)
      PROVE  Kept
  <2>1. t \in Writing
    BY <1>8 DEF WriteGrow, WriteCopy, WriteLen, WriteUnlock, Writing
  <2>2. \A u \in Workers : pc[u] \notin Copying
    BY <2>1 DEF IInv, LockInv, Exclusion, Reading, Writing
  <2>3. /\ UNCHANGED <<rlen, out, seen>> /\ logged \subseteq logged'
        /\ (pc' = pc \/ \E l \in {"w_len", "w_unlock", "idle"} : pc' = [pc EXCEPT ![t] = l])
    BY <1>8 DEF WriteGrow, WriteCopy, WriteLen, WriteUnlock, Goto, locals
  <2>4. \A u \in Workers : pc'[u] \notin Copying
    BY <1>0, <2>2, <2>3
  <2> QED BY <2>3, <2>4 DEF CopyInv
<1>9. ASSUME NEW t \in Workers, SpuriousWake(t) PROVE Kept
  BY <1>9 DEF SpuriousWake, bufvars, locals, CopyInv
<1>10. CASE UNCHANGED vars
  <2>1. Kept
    BY <1>10 DEF vars, bufvars, locals, CopyInv
  <2> QED BY <1>1, <2>1
<1>11. ASSUME NEW t \in Workers, ReadLen(t) PROVE CopyInv'
  <2>1. /\ rlen' = [rlen EXCEPT ![t] = len] /\ pc' = [pc EXCEPT ![t] = "r_copy"]
        /\ UNCHANGED <<data, len, out, seen, logged>>
    BY <1>11 DEF ReadLen, Goto, bufvars
  <2>2. /\ rlen'[t] = len /\ pc'[t] = "r_copy"
        /\ \A u \in Workers \ {t} : rlen'[u] = rlen[u] /\ pc'[u] = pc[u]
    BY <1>0, <2>1
  <2> QED BY <2>1, <2>2 DEF CopyInv
<1>12. ASSUME NEW t \in Workers, ReadCopy(t) PROVE CopyInv'
  <2>1. /\ out' = [out EXCEPT ![t] = [i \in 0..rlen[t] |-> data[i]]] /\ pc[t] = "r_copy"
        /\ pc' = [pc EXCEPT ![t] = "r_unlock"] /\ UNCHANGED <<data, len, rlen, seen, logged>>
        /\ DOMAIN out = Workers
    BY <1>12 DEF ReadCopy, Goto, bufvars, CopyInv
  <2>2. rlen[t] = len
    BY <2>1 DEF CopyInv
  <2>3. /\ out'[t] = [i \in 0..len |-> data[i]] /\ pc'[t] = "r_unlock"
        /\ \A u \in Workers \ {t} : out'[u] = out[u] /\ pc'[u] = pc[u]
    BY <1>0, <2>1, <2>2
  <2>4. out' = [u \in Workers |-> out'[u]]
    BY <2>1
  <2>5. \A u \in Workers : pc[u] \in {"r_copy", "r_unlock"} => rlen[u] = len
    BY DEF CopyInv
  <2>6. \A u \in Workers : pc[u] = "r_unlock" => out[u] = [i \in 0..len |-> data[i]]
    BY DEF CopyInv
  <2>7. \A u \in Workers : pc'[u] \in {"r_copy", "r_unlock"} => rlen'[u] = len'
    BY <2>1, <2>2, <2>3, <2>5
  <2>8. \A u \in Workers : pc'[u] = "r_unlock" => out'[u] = [i \in 0..len' |-> data'[i]]
    BY <2>1, <2>3, <2>6
  <2>9. seen' \in [Workers -> SUBSET logged']
    BY <2>1 DEF CopyInv
  <2> QED BY <2>4, <2>7, <2>8, <2>9 DEF CopyInv
<1>13. ASSUME NEW t \in Workers, ReadUnlock(t) PROVE CopyInv'
  <2>1. /\ out' = [out EXCEPT ![t] = <<>>] /\ rlen' = [rlen EXCEPT ![t] = 0]
        /\ seen' = [seen EXCEPT ![t] = {}] /\ pc' = [pc EXCEPT ![t] = "idle"]
        /\ UNCHANGED <<data, len, logged>> /\ DOMAIN out = Workers
    BY <1>13 DEF ReadUnlock, Goto, bufvars, CopyInv
  <2>2. /\ pc'[t] = "idle"
        /\ \A u \in Workers \ {t} : out'[u] = out[u] /\ pc'[u] = pc[u] /\ rlen'[u] = rlen[u]
    BY <1>0, <2>1
  <2>3. out' = [u \in Workers |-> out'[u]]
    BY <2>1
  <2>4. seen' \in [Workers -> SUBSET logged]
    BY <2>1 DEF CopyInv
  <2>5. \A u \in Workers : pc[u] \in {"r_copy", "r_unlock"} => rlen[u] = len
    BY DEF CopyInv
  <2>6. \A u \in Workers : pc[u] = "r_unlock" => out[u] = [i \in 0..len |-> data[i]]
    BY DEF CopyInv
  <2>7. \A u \in Workers : pc'[u] \in {"r_copy", "r_unlock"} => rlen'[u] = len'
    BY <2>1, <2>2, <2>5
  <2>8. \A u \in Workers : pc'[u] = "r_unlock" => out'[u] = [i \in 0..len' |-> data'[i]]
    BY <2>1, <2>2, <2>6
  <2> QED BY <2>1, <2>3, <2>4, <2>7, <2>8 DEF CopyInv
<1> HIDE DEF Kept
<1> QED
  BY <1>1, <1>2, <1>3, <1>4, <1>5, <1>6, <1>7, <1>8, <1>9, <1>10, <1>11, <1>12, <1>13
  DEF Next, WriteStep, ReadStep

LEMMA InitContents == Init => IdsFresh /\ BufInv /\ CopyInv
<1> SUFFICES ASSUME Init PROVE IdsFresh /\ BufInv /\ CopyInv
  OBVIOUS
<1>1. IdsFresh
  BY LogAssumption DEF Init, IdsFresh, NoEntry
<1>2. BufInv
  <2>1. Landed = {} /\ logged = {} /\ len = 0 /\ capacity = InitCap
    BY DEF Init, Landed
  <2>2. LaidOut(data, 0, {})
    <3> DEFINE none == [e \in {} |-> 0]
    <3>1. IsLayout(data, 0, {}, none, none) /\ none \in [{} -> Nat]
      BY DEF IsLayout
    <3> QED BY <3>1 DEF LaidOut
  <2>3. data[len] = Nul /\ len + 1 <= capacity
    BY <2>1, LogAssumption DEF Init
  <2>4. \A t \in Workers : pc[t] = "idle"
    BY DEF Init
  <2> QED BY <2>1, <2>2, <2>3, <2>4 DEF BufInv
<1>3. CopyInv
  BY DEF Init, CopyInv
<1> QED BY <1>1, <1>2, <1>3

LEMMA ContentsInvariant == Spec => [](IInv /\ IdsFresh /\ BufInv /\ CopyInv)
BY InductiveInvariant, InitContents, IdsStep, BufStep, CopyStep, PTL DEF Spec

(* What a layout says of the bytes: whose byte i is, and where the bytes   *)
(* of an entry are.                                                        *)
LEMMA LayoutBytes ==
  ASSUME NEW d, NEW n \in Nat, NEW E, NEW start \in [E -> Nat], NEW size \in [E -> Nat],
         IsLayout(d, n, E, start, size)
  PROVE  /\ \A i \in 0..n-1 : \E e \in E :
              d[i] = <<e, i - start[e] + 1>> /\ start[e] <= i /\ i < start[e] + size[e]
         /\ \A e \in E : \A i \in 0..n-1 :
              d[i][1] = e <=> i \in start[e]..(start[e] + size[e] - 1)
         /\ \A e \in E : start[e] \in 0..n-1 /\ start[e] + size[e] - 1 \in 0..n-1
<1>1. \A e \in E : /\ start[e] \in Nat /\ size[e] \in Nat /\ size[e] >= 1
                   /\ start[e] + size[e] <= n
  BY DEF IsLayout
<1>2. ASSUME NEW e \in E, NEW i \in Int, start[e] <= i, i < start[e] + size[e]
      PROVE  d[i] = <<e, i - start[e] + 1>>
  <2>1. i - start[e] + 1 \in 1..size[e] /\ start[e] + (i - start[e] + 1) - 1 = i
    BY <1>1, <1>2
  <2>2. d[start[e] + (i - start[e] + 1) - 1] = <<e, i - start[e] + 1>>
    BY <2>1 DEF IsLayout
  <2> QED BY <2>1, <2>2
<1>3. ASSUME NEW i \in 0..n-1
      PROVE  \E e \in E : d[i] = <<e, i - start[e] + 1>> /\ start[e] <= i /\ i < start[e] + size[e]
  BY <1>2 DEF IsLayout
<1>4. ASSUME NEW e \in E, NEW i \in 0..n-1
      PROVE  d[i][1] = e <=> i \in start[e]..(start[e] + size[e] - 1)
  <2>1. ASSUME d[i][1] = e PROVE i \in start[e]..(start[e] + size[e] - 1)
    <3>1. PICK f \in E : d[i] = <<f, i - start[f] + 1>> /\ start[f] <= i /\ i < start[f] + size[f]
      BY <1>3
    <3>2. f = e
      BY <2>1, <3>1
    <3> QED BY <1>1, <3>1, <3>2
  <2>2. ASSUME i \in start[e]..(start[e] + size[e] - 1) PROVE d[i][1] = e
    <3>1. start[e] <= i /\ i < start[e] + size[e] /\ i \in Int
      BY <1>1, <2>2
    <3>2. d[i] = <<e, i - start[e] + 1>>
      BY <1>2, <3>1
    <3> QED BY <3>2
  <2> QED BY <2>1, <2>2
<1>5. \A e \in E : start[e] \in 0..n-1 /\ start[e] + size[e] - 1 \in 0..n-1
  BY <1>1
<1> QED BY <1>3, <1>4, <1>5

(* A laid out log has the entries, each of them once and whole. *)
LEMMA LayoutWhole ==
  ASSUME NEW d, NEW n \in Nat, NEW E, 0 \notin E, LaidOut(d, n, E)
  PROVE  /\ {d[i][1] : i \in 0..n-1} = E
         /\ \A e \in E : Cardinality({i \in 0..n-1 : d[i] = <<e, 1>>}) = 1
         /\ WholeEntries(d, n, LAMBDA e : LengthIn(d, n, e))
<1>1. PICK start \in [E -> Nat], size \in [E -> Nat] : IsLayout(d, n, E, start, size)
  BY DEF LaidOut
<1>2. /\ \A i \in 0..n-1 : \E e \in E :
              d[i] = <<e, i - start[e] + 1>> /\ start[e] <= i /\ i < start[e] + size[e]
      /\ \A e \in E : \A i \in 0..n-1 :
              d[i][1] = e <=> i \in start[e]..(start[e] + size[e] - 1)
      /\ \A e \in E : start[e] \in 0..n-1 /\ start[e] + size[e] - 1 \in 0..n-1
  BY <1>1, LayoutBytes
<1>3. \A e \in E : start[e] \in Nat /\ size[e] \in Nat /\ size[e] >= 1
  BY <1>1 DEF IsLayout
<1>0. ASSUME NEW e \in E PROVE start[e] \in 0..n-1 /\ d[start[e]][1] = e
  <2>1. start[e] \in 0..n-1 /\ start[e] \in start[e]..(start[e] + size[e] - 1)
    BY <1>2, <1>3
  <2> QED BY <1>2, <2>1
<1>4. {d[i][1] : i \in 0..n-1} = E
  <2>1. {d[i][1] : i \in 0..n-1} \subseteq E
    <3>1. \A i \in 0..n-1 : d[i][1] \in E
      BY <1>2
    <3> QED BY <3>1
  <2>2. E \subseteq {d[i][1] : i \in 0..n-1}
    BY <1>0
  <2> QED BY <2>1, <2>2
<1>5. ASSUME NEW e \in E PROVE Cardinality({i \in 0..n-1 : d[i] = <<e, 1>>}) = 1
  <2>1. \A i \in 0..n-1 : d[i] = <<e, 1>> <=> i = start[e]
    <3>1. ASSUME NEW i \in 0..n-1, d[i] = <<e, 1>> PROVE i = start[e]
      <4>1. PICK f \in E : d[i] = <<f, i - start[f] + 1>>
        BY <1>2
      <4>2. f = e /\ i - start[f] + 1 = 1
        BY <3>1, <4>1
      <4> QED BY <1>3, <4>2
    <3>2. d[start[e]] = <<e, 1>>
      <4>1. PICK f \in E : d[start[e]] = <<f, start[e] - start[f] + 1>>
        BY <1>0, <1>2
      <4>2. d[start[e]][1] = e
        BY <1>0
      <4>3. f = e /\ start[e] - start[f] + 1 = 1
        BY <1>3, <4>1, <4>2
      <4> QED BY <4>1, <4>3
    <3> QED BY <3>1, <3>2
  <2>2. {i \in 0..n-1 : d[i] = <<e, 1>>} = {start[e]}
    <3> DEFINE First(i) == d[i] = <<e, 1>>
    <3>1. start[e] \in 0..n-1 /\ \A i \in 0..n-1 : First(i) <=> i = start[e]
      BY <1>0, <2>1
    <3> HIDE DEF First
    <3>2. {i \in 0..n-1 : First(i)} = {start[e]}
      BY <3>1
    <3> QED BY <3>2 DEF First
  <2> QED BY <2>2, FS_Singleton
<1>6. ASSUME NEW e \in E PROVE LengthIn(d, n, e) = size[e]
  <2>1. {i \in 0..n-1 : d[i][1] = e} = start[e]..(start[e] + size[e] - 1)
    <3>1. \A i \in start[e]..(start[e] + size[e] - 1) : i \in 0..n-1
      BY <1>2, <1>3
    <3> QED BY <1>2, <3>1
  <2>2. Cardinality(start[e]..(start[e] + size[e] - 1)) = size[e]
    <3>1. start[e] \in Int /\ start[e] + size[e] - 1 \in Int /\ ~(start[e] > start[e] + size[e] - 1)
      BY <1>3
    <3>2. Cardinality(start[e]..(start[e] + size[e] - 1)) = (start[e] + size[e] - 1) - start[e] + 1
      BY <3>1, FS_Interval
    <3> QED BY <1>3, <3>2
  <2> QED BY <2>1, <2>2 DEF LengthIn
<1>7. ASSUME NEW i \in 0..n-1
      PROVE  LET e == d[i][1]  k == d[i][2]
             IN  /\ e # 0
                 /\ k > 1 => i > 0 /\ d[i-1] = <<e, k - 1>>
                 /\ k < LengthIn(d, n, e) => i + 1 < n /\ d[i+1] = <<e, k + 1>>
  <2>1. PICK e \in E : d[i] = <<e, i - start[e] + 1>> /\ start[e] <= i /\ i < start[e] + size[e]
    BY <1>2
  <2> DEFINE k == i - start[e] + 1
  <2>2. d[i][1] = e /\ d[i][2] = k /\ e # 0 /\ LengthIn(d, n, e) = size[e]
    BY <1>6, <2>1
  <2>3. \A j \in 0..n-1 : start[e] <= j /\ j < start[e] + size[e] => d[j] = <<e, j - start[e] + 1>>
    <3> SUFFICES ASSUME NEW j \in 0..n-1, start[e] <= j, j < start[e] + size[e]
                 PROVE  d[j] = <<e, j - start[e] + 1>>
      OBVIOUS
    <3>1. d[j][1] = e
      BY <1>2, <1>3
    <3>2. PICK f \in E : d[j] = <<f, j - start[f] + 1>>
      BY <1>2
    <3>3. f = e
      BY <3>1, <3>2
    <3> QED BY <3>2, <3>3
  <2>4. ASSUME k > 1 PROVE i > 0 /\ d[i-1] = <<e, k - 1>>
    <3>1. i - 1 \in 0..n-1 /\ start[e] <= i - 1 /\ i - 1 < start[e] + size[e]
          /\ (i - 1) - start[e] + 1 = k - 1 /\ i > 0
      BY <1>3, <2>1, <2>4
    <3> QED BY <2>3, <3>1
  <2>5. ASSUME k < size[e] PROVE i + 1 < n /\ d[i+1] = <<e, k + 1>>
    <3>1. i + 1 \in 0..n-1 /\ start[e] <= i + 1 /\ i + 1 < start[e] + size[e]
          /\ (i + 1) - start[e] + 1 = k + 1 /\ i + 1 < n
      BY <1>2, <1>3, <2>1, <2>5
    <3> QED BY <2>3, <3>1
  <2> HIDE DEF k
  <2> QED BY <2>2, <2>4, <2>5
<1>8. WholeEntries(d, n, LAMBDA e : LengthIn(d, n, e))
  BY <1>7 DEF WholeEntries
<1> QED BY <1>4, <1>5, <1>8

(* The entries there are have ids that were given out. *)
LEMMA EntriesNumbered ==
  ASSUME IInv
  PROVE  0 \notin logged \cup Landed
BY DEF IInv, TypeOK, HasEntry, Landed

(* The log is always whole entries, one for each log_write that has        *)
(* returned, inside the allocation and terminated.                         *)
THEOREM LogStaysIntact == Spec => []LogIntact
<1>1. IInv /\ BufInv => LogIntact
  <2> SUFFICES ASSUME IInv, BufInv PROVE LogIntact
    OBVIOUS
  <2>1. len \in Nat /\ LaidOut(data, len, logged \cup Landed) /\ 0 \notin logged \cup Landed
    BY EntriesNumbered DEF IInv, TypeOK, BufInv
  <2>2. /\ {data[i][1] : i \in 0..len-1} = logged \cup Landed
        /\ \A e \in logged \cup Landed : Cardinality({i \in 0..len-1 : data[i] = <<e, 1>>}) = 1
        /\ WholeEntries(data, len, LAMBDA e : LengthIn(data, len, e))
    BY <2>1, LayoutWhole
  <2> QED BY <2>2 DEF LogIntact, BufInv, Landed
<1> QED BY <1>1, ContentsInvariant, PTL

(* What log_read returns is the whole log as it was at one moment of the   *)
(* call, with every entry logged before the call.                          *)
THEOREM ReadsAreSnapshots == Spec => []ReadSnapshot
<1>1. IInv /\ BufInv /\ CopyInv => ReadSnapshot
  <2> SUFFICES ASSUME IInv, BufInv, CopyInv, NEW t \in Workers, pc[t] = "r_unlock"
               PROVE  /\ out[t] = [i \in 0..len |-> data[i]]
                      /\ out[t][rlen[t]] = Nul
                      /\ seen[t] \subseteq {out[t][i][1] : i \in 0..rlen[t]-1}
    BY DEF ReadSnapshot
  <2>1. out[t] = [i \in 0..len |-> data[i]] /\ rlen[t] = len /\ seen[t] \subseteq logged /\ len \in Nat
    BY DEF CopyInv, IInv, TypeOK
  <2>2. \A u \in Workers : pc[u] # "w_len"
    BY DEF IInv, LockInv, Exclusion, Reading, Writing
  <2>3. data[len] = Nul
    BY <2>2 DEF BufInv
  <2>4. {data[i][1] : i \in 0..len-1} = logged \cup Landed
    <3>1. LaidOut(data, len, logged \cup Landed) /\ 0 \notin logged \cup Landed
      BY EntriesNumbered DEF BufInv
    <3> QED BY <2>1, <3>1, LayoutWhole
  <2>5. \A i \in 0..len : out[t][i] = data[i]
    BY <2>1
  <2>6. {out[t][i][1] : i \in 0..len-1} = {data[i][1] : i \in 0..len-1}
    <3>1. \A i \in 0..len-1 : out[t][i] = data[i]
      BY <2>1, <2>5
    <3> QED BY <3>1
  <2>7. out[t][len] = Nul
    BY <2>1, <2>3, <2>5
  <2>8. seen[t] \subseteq {out[t][i][1] : i \in 0..len-1}
    BY <2>1, <2>4, <2>6
  <2> QED BY <2>1, <2>7, <2>8
<1> QED BY <1>1, ContentsInvariant, PTL
=============================================================================
