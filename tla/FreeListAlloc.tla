---------------------------- MODULE FreeListAlloc ----------------------------
(***************************************************************************)
(* The first-fit allocator of malloc_2.cpp: smalloc, scalloc, sfree,       *)
(* srealloc. Blocks come from sbrk, are never split, merged or given back, *)
(* and stay on one list from g_head, kept here as the sequence of their    *)
(* metadata. A block goes by the address of its metadata; its bytes start  *)
(* MetaSize further. A call runs alone and is one step.                    *)
(*                                                                         *)
(* The break is shared: other code of the program moves it up as well.     *)
(***************************************************************************)
EXTENDS Integers, Sequences, FiniteSetsExt

CONSTANTS
  MetaSize,   \* sizeof(MallocMetadata)
  MaxAlloc,   \* MAX_ALLOC_SIZE
  SizeT,      \* number of values of a size_t
  Limit,      \* how far the kernel lets the break move
  Sizes,      \* the sizes the program asks for
  Nums,       \* the element counts it passes to scalloc
  Steps       \* by how much other code moves the break

ASSUME FreeListAssumption ==
  /\ MetaSize \in Nat /\ MaxAlloc \in Nat /\ SizeT \in Nat /\ Limit \in Nat
  /\ Sizes \subseteq Nat /\ Nums \subseteq Nat /\ Steps \subseteq Nat

(* The program passes no product that wraps. *)
ASSUME NoWrapAssumption == \A n \in Nums, s \in Sizes : n * s < SizeT

VARIABLES
  list,       \* the metadata from g_head on
  brk,        \* the program break
  others,     \* the bytes other code took from it
  want,       \* for each block the program holds, the bytes it asked for
  intact      \* the blocks whose contents are what the program stored

vars == <<list, brk, others, want, intact>>

Block == [at : Nat, size : Nat, is_free : BOOLEAN]

Held == DOMAIN want

Init ==
  /\ list = <<>> /\ brk = 0 /\ others = 0
  /\ want = [p \in {} |-> 0] /\ intact = {}

-----------------------------------------------------------------------------
(* A variant that forgets to look at is_free. *)
FitsInUse(s) == {i \in DOMAIN list : list[i].size >= s}

(* The blocks find_free would take. *)
Fits(s) == {i \in DOMAIN list : list[i].is_free /\ list[i].size >= s}

(* The outcomes of smalloc(s) that are not nullptr: the block and what     *)
(* becomes of the list and the break. The first fit is taken whole; only   *)
(* when there is none is the break moved.                                  *)
FindFree(s) ==
  {[p |-> list[i].at, list |-> [list EXCEPT ![i].is_free = FALSE], brk |-> brk] :
     i \in {j \in Fits(s) : \A k \in Fits(s) : j <= k}}

(* A variant that forgets the metadata. *)
AllocBareBlock(s) ==
  {[p |-> b, list |-> Append(list, [at |-> b, size |-> s, is_free |-> FALSE]),
    brk |-> b + s] : b \in {brk} \cap 0..(Limit - s)}

AllocNewBlock(s) ==
  {[p |-> b, list |-> Append(list, [at |-> b, size |-> s, is_free |-> FALSE]),
    brk |-> b + MetaSize + s] : b \in {brk} \cap 0..(Limit - MetaSize - s)}

SmallocResults(s) == IF Fits(s) # {} THEN FindFree(s) ELSE AllocNewBlock(s)

(* l after sfree of block p. *)
Freed(l, p) == [i \in DOMAIN l |-> IF l[i].at = p THEN [l[i] EXCEPT !.is_free = TRUE] ELSE l[i]]

Valid(s) == s > 0 /\ s <= MaxAlloc

(* The program gets q, having asked for w bytes, and fills it. *)
Get(q, w) ==
  /\ want' = [p \in Held \cup {q} |-> IF p = q THEN w ELSE want[p]]
  /\ intact' = intact \cup {q}

-----------------------------------------------------------------------------
Smalloc(s) ==
  /\ Valid(s)
  /\ \E r \in SmallocResults(s) : list' = r.list /\ brk' = r.brk /\ Get(r.p, s)
  /\ UNCHANGED others

(* The product wraps; the program believes in the true one. *)
Scalloc(n, s) ==
  LET total == (n * s) % SizeT
  IN  /\ n # 0 /\ s # 0 /\ Valid(total)
      /\ \E r \in SmallocResults(total) : list' = r.list /\ brk' = r.brk /\ Get(r.p, n * s)
      /\ UNCHANGED others

(* sbrk fails: nullptr, for srealloc too, and the program keeps what it has. *)
SbrkFails(s) == Valid(s) /\ Fits(s) = {} /\ UNCHANGED vars

Sfree(p) ==
  /\ p \in Held
  /\ list' = Freed(list, p)
  /\ want' = [q \in Held \ {p} |-> want[q]]
  /\ intact' = intact \ {p}
  /\ UNCHANGED <<brk, others>>

(* A second sfree of a block nobody got since finds it free and returns. *)
SfreeAgain(i) == list[i].is_free /\ UNCHANGED vars

(* srealloc of the block list[i]. *)
SreallocInPlace(i, s) ==
  /\ list[i].at \in Held /\ Valid(s)
  /\ list[i].size >= s
  /\ want' = [want EXCEPT ![list[i].at] = s]
  /\ UNCHANGED <<list, brk, others, intact>>

(* A variant that forgets to free the old block. *)
SreallocMoveUnfreed(i, s) ==
  LET p == list[i].at
  IN  /\ p \in Held /\ Valid(s)
      /\ list[i].size < s
      /\ \E r \in SmallocResults(s) :
           /\ list' = r.list /\ brk' = r.brk
           /\ want' = [q \in (Held \ {p}) \cup {r.p} |-> IF q = r.p THEN s ELSE want[q]]
           /\ intact' = (intact \ {p}) \cup (IF p \in intact THEN {r.p} ELSE {})
      /\ UNCHANGED others

(* The new block is taken first, list[i].size bytes move, the old one is   *)
(* freed.                                                                  *)
SreallocMove(i, s) ==
  LET p == list[i].at
  IN  /\ p \in Held /\ Valid(s)
      /\ list[i].size < s
      /\ \E r \in SmallocResults(s) :
           /\ list' = Freed(r.list, p) /\ brk' = r.brk
           /\ want' = [q \in (Held \ {p}) \cup {r.p} |-> IF q = r.p THEN s ELSE want[q]]
           /\ intact' = (intact \ {p})
                          \cup (IF p \in intact /\ want[p] <= list[i].size THEN {r.p} ELSE {})
      /\ UNCHANGED others

(* Other code moves the break. *)
OtherSbrk(n) ==
  /\ brk + n <= Limit
  /\ brk' = brk + n /\ others' = others + n
  /\ UNCHANGED <<list, want, intact>>

Next ==
  \/ \E s \in Sizes : Smalloc(s) \/ SbrkFails(s)
  \/ \E n \in Nums, s \in Sizes : Scalloc(n, s)
  \/ \E p \in Held : Sfree(p)
  \/ \E i \in DOMAIN list : SfreeAgain(i)
  \/ \E i \in DOMAIN list, s \in Sizes : SreallocInPlace(i, s) \/ SreallocMove(i, s)
  \/ \E n \in Steps : OtherSbrk(n)

Spec == Init /\ [][Next]_vars
-----------------------------------------------------------------------------
(* The statistics functions *)

FreeBlocks == {i \in DOMAIN list : list[i].is_free}
BytesOf(S) == SumFunctionOnSet([i \in DOMAIN list |-> list[i].size], S)

NumFreeBlocks == Cardinality(FreeBlocks)
NumFreeBytes == BytesOf(FreeBlocks)
NumAllocatedBlocks == Len(list)
NumAllocatedBytes == BytesOf(DOMAIN list)
NumMetaDataBytes == NumAllocatedBlocks * MetaSize
-----------------------------------------------------------------------------
(* Type invariant. *)
TypeOK ==
  /\ list \in Seq(Block)
  /\ brk \in Nat /\ others \in Nat
  /\ Held \subseteq Nat /\ want \in [Held -> Nat] /\ intact \subseteq Held

EndOf(i) == list[i].at + MetaSize + list[i].size

(* What the comment on the struct says: the list is sorted by address. No  *)
(* block reaches into the next one or past the break, wherever other code  *)
(* moved it meanwhile, and what the program holds are the blocks that are  *)
(* not free, each with room for what it asked for: nothing is lost,        *)
(* nothing is handed out while it is held.                                 *)
ListSound ==
  /\ \A i, j \in DOMAIN list : i < j => EndOf(i) <= list[j].at
  /\ \A i \in DOMAIN list : EndOf(i) <= brk
  /\ \A i \in DOMAIN list : list[i].is_free <=> list[i].at \notin Held
  /\ \A p \in Held : \E i \in DOMAIN list : list[i].at = p /\ want[p] <= list[i].size

(* The statistics account for every byte taken from sbrk, and the blocks   *)
(* they count as used are those the program holds.                         *)
StatsExact ==
  /\ NumAllocatedBytes + NumMetaDataBytes + others = brk
  /\ NumAllocatedBlocks - NumFreeBlocks = Cardinality(Held)
  /\ NumAllocatedBytes - NumFreeBytes >= SumFunctionOnSet(want, Held)

(* The bytes behind a pointer the program holds. *)
BytesBehind(p) == (p + MetaSize)..(p + MetaSize + want[p] - 1)

Memory ==
  INSTANCE Allocator WITH
    Ptrs <- Nat, Bytes <- Nat,
    region <- [p \in Held |-> BytesBehind(p)]

(* To the program it is an allocator that never hands out a byte twice and *)
(* keeps what was stored across srealloc: the promise malloc_3.cpp makes.  *)
ImplementsAllocator == Memory!Spec
=============================================================================
