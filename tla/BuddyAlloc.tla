----------------------------- MODULE BuddyAlloc -----------------------------
(***************************************************************************)
(* The buddy allocators: malloc_3.cpp, and malloc_4.cpp which repeats its  *)
(* code and maps large blocks with huge pages where the kernel has them.   *)
(* hugepages tells which of the two the program is linked with.            *)
(*                                                                         *)
(* The heap is an array of units of MIN_BLOCK_SIZE bytes; an address is    *)
(* the number of a unit. Every unit can carry a MallocMetadata, whose      *)
(* fields are functions on addresses; a field of a unit inside a block is  *)
(* whatever was left there. size is in units, client sizes are in bytes.   *)
(* The mmap blocks live outside the heap; their list is the domain of      *)
(* mmaps.                                                                  *)
(*                                                                         *)
(* A call runs alone, in steps: one for each turn of a loop of the code    *)
(* that changes the heap. The registers of the running call are in call.   *)
(***************************************************************************)
EXTENDS Integers, FiniteSetsExt

CONSTANTS
  MaxOrder,      \* MAX_ORDER
  InitialBlocks, \* INITIAL_BLOCKS
  MinBlock,      \* MIN_BLOCK_SIZE, in bytes
  MetaSize,      \* sizeof(MallocMetadata), in bytes
  Page,          \* the page size, in bytes
  HugePage,      \* HUGEPAGE_SIZE
  HugeSmalloc,   \* HUGEPAGE_SMALLOC, the request that asks for huge pages
  HugeScalloc,   \* HUGEPAGE_SCALLOC, an element beyond it asks for them
  MaxAlloc,      \* MAX_ALLOC_SIZE
  SizeT,         \* number of values of a size_t
  Sizes,         \* the sizes the program asks for
  Nums,          \* the element counts it passes to scalloc
  MmapIds,       \* the mappings the kernel can hand out
  Null

Doubled[o \in Nat] == IF o = 0 THEN 1 ELSE 2 * Doubled[o - 1]
BlockSize(o) == Doubled[o]                  \* in units
Usable(o) == MinBlock * BlockSize(o) - MetaSize
Threshold == MinBlock * BlockSize(MaxOrder) \* MMAP_THRESHOLD, one block of MAX_ORDER
HeapSize == InitialBlocks * BlockSize(MaxOrder)
Addr == 0..HeapSize-1
Orders == 0..MaxOrder

ASSUME BuddyAssumption ==
  /\ MaxOrder \in Nat /\ InitialBlocks \in Nat \ {0}
  /\ MinBlock \in Nat /\ MetaSize \in 1..MinBlock-1
  /\ Page \in Nat \ {0} /\ HugePage \in Nat \ {0} /\ HugePage % Page = 0
  /\ HugeSmalloc \in Nat /\ HugeScalloc \in Nat
  /\ MaxAlloc \in Nat /\ SizeT \in Nat \ {0} /\ Sizes \subseteq Nat /\ Nums \subseteq Nat
  /\ Null \notin Int /\ MmapIds \cap Int = {} /\ Null \notin MmapIds

VARIABLES
  hugepages,                   \* the program is linked with malloc_4.cpp
  initialized,                 \* buddy_init has run
  free_lists,                  \* first block of each list
  size, is_free, next, prev,   \* the metadata fields
  mmaps,                       \* usable size of each mapping on mmap_list
  kernel,                      \* for each mapping: its bytes, and whether it has
                               \* huge pages
  live,                        \* for each pointer the program holds: the bytes it
                               \* asked for and the bytes of its data that are there
  pc,                          \* step of the running call
  call                         \* its registers

vars == <<hugepages, initialized, free_lists, size, is_free, next, prev, mmaps, kernel,
          live, pc, call>>
heap == <<size, is_free, next, prev>>
setup == <<hugepages, initialized>>
maps == <<mmaps, kernel>>

(* No call is running. *)
NoCall == [want |-> 0, total |-> 0, huge |-> FALSE, old |-> Null, target |-> 0, ord |-> 0,
           m |-> Null, ins |-> Null, cur |-> Null]

Init ==
  /\ hugepages \in BOOLEAN
  /\ initialized = FALSE
  /\ free_lists = [o \in Orders |-> Null]
  /\ size = [a \in Addr |-> 0]
  /\ is_free = [a \in Addr |-> FALSE]
  /\ next = [a \in Addr |-> Null]
  /\ prev = [a \in Addr |-> Null]
  /\ mmaps = [i \in {} |-> 0] /\ kernel = [i \in {} |-> 0]
  /\ live = [p \in {} |-> 0]
  /\ pc = "idle"
  /\ call = NoCall

-----------------------------------------------------------------------------
(* Helpers on sizes and addresses *)

(* The first order whose block holds the request, MAX_ORDER if none does. *)
SizeToOrder(bytes) ==
  Min({o \in Orders : MinBlock * BlockSize(o) >= bytes + MetaSize} \cup {MaxOrder})

GetOrder(m) == Min({o \in Orders : BlockSize(o) >= size[m]} \cup {MaxOrder})

(* offset ^ block_size(order): flips one bit of the offset. *)
GetBuddy(m, o) ==
  IF (m \div BlockSize(o)) % 2 = 0 THEN m + BlockSize(o) ELSE m - BlockSize(o)

(* The buddy of m can be merged with it at this order. *)
BuddyIsFree(m, o) ==
  LET b == GetBuddy(m, o)
  IN  b \in Addr /\ is_free[b] /\ size[b] = BlockSize(o)

(* n bytes rounded up to whole pages of this size. *)
RoundUp(n, page) == ((n + page - 1) \div page) * page

-----------------------------------------------------------------------------
(* Free lists. fl_remove is used on blocks that are in no list as well: it *)
(* goes by the links alone, and takes a block without prev for the first.  *)

Unlinked(m, link, back) ==
  [a \in Addr |-> IF a = m THEN Null ELSE IF a = back[m] THEN link[m] ELSE link[a]]

(* A variant that leaves the links of the removed block. *)
FlRemoveDangling(o, m) ==
  /\ free_lists' = [free_lists EXCEPT ![o] = IF prev[m] = Null THEN next[m] ELSE @]
  /\ next' = [Unlinked(m, next, prev) EXCEPT ![m] = next[m]]
  /\ prev' = [Unlinked(m, prev, next) EXCEPT ![m] = prev[m]]

FlRemove(o, m) ==
  /\ free_lists' = [free_lists EXCEPT ![o] = IF prev[m] = Null THEN next[m] ELSE @]
  /\ next' = Unlinked(m, next, prev)
  /\ prev' = Unlinked(m, prev, next)

(* fl_insert(call.ord, call.ins), the call going on at `then`. *)
FlInsertFirst(then) ==
  LET first == free_lists[call.ord]  m == call.ins
  IN  /\ pc = "insert" /\ call.cur = Null
      /\ first \notin 0..m                 \* Null, or a later block
      /\ is_free' = [is_free EXCEPT ![m] = TRUE]
      /\ next' = [next EXCEPT ![m] = first]
      /\ prev' = [a \in Addr |-> IF a = m THEN Null ELSE IF a = first THEN m ELSE prev[a]]
      /\ free_lists' = [free_lists EXCEPT ![call.ord] = m]
      /\ pc' = then
      /\ UNCHANGED size

FlInsertWalk ==
  LET cur == IF call.cur = Null THEN free_lists[call.ord] ELSE next[call.cur]
  IN  /\ pc = "insert"
      /\ cur \in 0..(call.ins - 1)
      /\ call' = [call EXCEPT !.cur = cur]
      /\ UNCHANGED <<setup, free_lists, heap, maps, live, pc>>

FlInsertAfter(then) ==
  LET m == call.ins  cur == call.cur  succ == next[cur]
  IN  /\ pc = "insert" /\ cur # Null
      /\ succ \notin 0..(m - 1)
      /\ is_free' = [is_free EXCEPT ![m] = TRUE]
      /\ next' = [next EXCEPT ![m] = succ, ![cur] = m]
      /\ prev' = [a \in Addr |-> IF a = m THEN cur ELSE IF a = succ THEN m ELSE prev[a]]
      /\ pc' = then
      /\ UNCHANGED <<free_lists, size>>

(* An insertion ends a call of buddy_free_and_merge, or takes buddy_alloc  *)
(* back to its splitting loop.                                             *)
FlInsert ==
  /\ \/ call.m = Null /\ (FlInsertFirst("idle") \/ FlInsertAfter("idle")) /\ call' = NoCall
     \/ call.m # Null /\ (FlInsertFirst("split") \/ FlInsertAfter("split"))
        /\ call' = [call EXCEPT !.ins = Null, !.cur = Null]
  /\ UNCHANGED <<setup, maps, live>>

-----------------------------------------------------------------------------
(* What the program sees of a call that returns *)

(* live after the program gets q, asked for w bytes, and gives up old. The *)
(* first `copied` bytes of q hold what was behind old; the program fills   *)
(* its block unless some of the bytes it is owed are missing.              *)
Given(q, w, old, copied) ==
  LET owed == IF old = Null THEN 0 ELSE Min({live[old].want, w})
      had  == IF old = Null THEN 0 ELSE Min({live[old].data, copied})
  IN  [p \in (DOMAIN live \ {old}) \cup {q} |->
         IF p # q THEN live[p]
         ELSE [want |-> w, data |-> IF had >= owed THEN w ELSE had]]

(* The usable bytes behind a pointer. *)
Room(p) == IF p \in MmapIds THEN mmaps[p] ELSE MinBlock * size[p] - MetaSize

(* nullptr: the program keeps what it had. *)
ReturnNull == pc' = "idle" /\ call' = NoCall /\ UNCHANGED live

(* munmap of length bytes at mapping i: refused for huge pages unless it   *)
(* is whole pages, and pages beyond the length stay.                       *)
Munmap(k, i, length) ==
  IF k[i].huge /\ length % HugePage # 0 THEN k
  ELSE LET left == k[i].bytes - RoundUp(length, Page)
       IN  [j \in DOMAIN k \ (IF left > 0 THEN {} ELSE {i}) |->
              IF j = i THEN [k[i] EXCEPT !.bytes = left] ELSE k[j]]

(* A variant that forgets the metadata in the length. *)
MmapFreeShort(mm, k, i) ==
  /\ mmaps' = [j \in DOMAIN mm \ {i} |-> mm[j]]
  /\ kernel' = IF i \in DOMAIN mm THEN Munmap(k, i, mm[i]) ELSE k

(* mmap_free of i, if it is a mapping, after which the rest of mm is left. *)
MmapFree(mm, k, i) ==
  /\ mmaps' = [j \in DOMAIN mm \ {i} |-> mm[j]]
  /\ kernel' = IF i \in DOMAIN mm THEN Munmap(k, i, MetaSize + mm[i]) ELSE k

(* A variant that forgets the old block. *)
ReturnLeaksOld(q, mm, k) ==
  /\ live' = Given(q, call.want, call.old, IF call.old = Null THEN 0 ELSE Room(call.old))
  /\ pc' = "idle" /\ call' = NoCall
  /\ MmapFree(mm, k, Null)

(* A variant that releases the old block without moving its contents. *)
ReturnUncopied(q, mm, k) ==
  /\ live' = Given(q, call.want, call.old, 0)
  /\ IF call.old \in Addr
     THEN pc' = "merge" /\ call' = [NoCall EXCEPT !.m = call.old, !.ord = GetOrder(call.old)]
     ELSE pc' = "idle" /\ call' = NoCall
  /\ MmapFree(mm, k, call.old)

(* smalloc has q. For srealloc the contents move over and the old block is *)
(* released: at once when it is a mapping, by merging when it is a buddy.  *)
(* mm and k are mmaps and kernel by then.                                  *)
Return(q, mm, k) ==
  LET old == call.old
  IN  /\ live' = Given(q, call.want, old, IF old = Null THEN 0 ELSE Room(old))
      /\ IF old \in Addr
         THEN /\ pc' = "merge"
              /\ call' = [NoCall EXCEPT !.m = old, !.ord = GetOrder(old)]
         ELSE pc' = "idle" /\ call' = NoCall
      /\ MmapFree(mm, k, old)

-----------------------------------------------------------------------------
(* smalloc and scalloc *)

Begin(total, want, huge, old) ==
  /\ pc = "idle"
  /\ total <= MaxAlloc
  /\ pc' = IF initialized THEN "alloc" ELSE "init"
  /\ call' = [NoCall EXCEPT !.want = want, !.total = total, !.old = old,
                            !.huge = hugepages /\ huge, !.target = SizeToOrder(total)]
  /\ UNCHANGED <<setup, free_lists, heap, maps, live>>

Smalloc(s) == s > 0 /\ Begin(s, s, s >= HugeSmalloc, Null)

(* The product wraps; the program believes in the true one. malloc_3.cpp  *)
(* calls smalloc, which refuses nothing at all, malloc_4.cpp does not.     *)
Scalloc(n, s) ==
  LET total == (n * s) % SizeT
  IN  /\ n # 0 /\ s # 0
      /\ total > 0 \/ hugepages
      /\ Begin(total, n * s, s > HugeScalloc, Null)

(* InitialBlocks free blocks of MAX_ORDER, in address order. *)
BuddyInit ==
  LET first(i) == i * BlockSize(MaxOrder)
      Firsts == {first(i) : i \in 0..InitialBlocks-1}
  IN  /\ pc = "init"
      /\ initialized' = TRUE
      /\ pc' = "alloc"
      /\ \/ /\ free_lists' = [free_lists EXCEPT ![MaxOrder] = 0]
            /\ size' = [a \in Addr |-> IF a \in Firsts THEN BlockSize(MaxOrder) ELSE 0]
            /\ is_free' = [a \in Addr |-> a \in Firsts]
            /\ next' = [a \in Addr |-> IF a \in Firsts /\ a + BlockSize(MaxOrder) \in Addr
                                       THEN a + BlockSize(MaxOrder) ELSE Null]
            /\ prev' = [a \in Addr |-> IF a \in Firsts \ {0}
                                       THEN a - BlockSize(MaxOrder) ELSE Null]
         \/ UNCHANGED <<free_lists, heap>>          \* an sbrk failed
      /\ UNCHANGED <<hugepages, maps, live, call>>

(* When the kernel has no huge pages left, or none at all, the mapping is  *)
(* made of ordinary ones, as many as would fill the huge ones.             *)
MmapAlloc ==
  LET length == RoundUp(MetaSize + call.total, IF call.huge THEN HugePage ELSE Page)
  IN  /\ pc = "alloc" /\ call.total >= Threshold
      /\ \/ \E i \in MmapIds \ DOMAIN kernel, huge \in {FALSE, call.huge} :
              Return(i, [j \in DOMAIN mmaps \cup {i} |->
                           IF j = i THEN length - MetaSize ELSE mmaps[j]],
                        [j \in DOMAIN kernel \cup {i} |->
                           IF j = i THEN [bytes |-> length, huge |-> huge] ELSE kernel[j]])
         \/ ReturnNull /\ UNCHANGED maps              \* mmap failed
      /\ UNCHANGED <<setup, free_lists, heap>>

(* The orders buddy_alloc finds a block at. *)
Candidates == {o \in call.target..MaxOrder : free_lists[o] # Null}

BuddyFind ==
  /\ pc = "alloc" /\ call.total < Threshold
  /\ IF Candidates = {}
     THEN ReturnNull
     ELSE /\ pc' = "split"
          /\ call' = [call EXCEPT !.ord = Min(Candidates), !.m = free_lists[Min(Candidates)]]
          /\ UNCHANGED live
  /\ UNCHANGED <<setup, free_lists, heap, maps>>

(* A variant that places the upper half a whole block further. *)
SplitBlockFar ==
  LET m == call.m  o == call.ord  upper == m + BlockSize(o)
  IN  /\ pc = "split" /\ o > call.target
      /\ FlRemove(o, m)
      /\ size' = [size EXCEPT ![m] = BlockSize(o - 1), ![upper] = BlockSize(o - 1)]
      /\ is_free' = [is_free EXCEPT ![m] = FALSE, ![upper] = TRUE]
      /\ pc' = "insert"
      /\ call' = [call EXCEPT !.ord = o - 1, !.ins = upper]
      /\ UNCHANGED <<setup, maps, live>>

SplitBlock ==
  LET m == call.m  o == call.ord  upper == m + BlockSize(o - 1)
  IN  /\ pc = "split" /\ o > call.target
      /\ free_lists' = [free_lists EXCEPT ![o] = IF prev[m] = Null THEN next[m] ELSE @]
      /\ next' = [Unlinked(m, next, prev) EXCEPT ![upper] = Null]
      /\ prev' = [Unlinked(m, prev, next) EXCEPT ![upper] = Null]
      /\ size' = [size EXCEPT ![m] = BlockSize(o - 1), ![upper] = BlockSize(o - 1)]
      /\ is_free' = [is_free EXCEPT ![m] = FALSE, ![upper] = TRUE]
      /\ pc' = "insert"
      /\ call' = [call EXCEPT !.ord = o - 1, !.ins = upper]
      /\ UNCHANGED <<setup, maps, live>>

BuddyTake ==
  /\ pc = "split" /\ call.ord = call.target
  /\ FlRemove(call.ord, call.m)
  /\ is_free' = [is_free EXCEPT ![call.m] = FALSE]
  /\ Return(call.m, mmaps, kernel)
  /\ UNCHANGED <<setup, size>>

-----------------------------------------------------------------------------
(* sfree *)

Sfree(p) ==
  /\ pc = "idle" /\ p \in DOMAIN live
  /\ live' = [q \in DOMAIN live \ {p} |-> live[q]]
  /\ IF p \in MmapIds
     THEN MmapFree(mmaps, kernel, p) /\ UNCHANGED <<pc, call>>
     ELSE /\ pc' = "merge"
          /\ call' = [NoCall EXCEPT !.m = p, !.ord = GetOrder(p)]
          /\ UNCHANGED maps
  /\ UNCHANGED <<setup, free_lists, heap>>

(* buddy_free_and_merge: one turn of the loop. *)
MergeBuddy ==
  LET b == GetBuddy(call.m, call.ord)  lower == Min({call.m, b})
  IN  /\ pc = "merge" /\ call.ord < MaxOrder
      /\ BuddyIsFree(call.m, call.ord)
      /\ FlRemove(call.ord, b)
      /\ size' = [size EXCEPT ![lower] = BlockSize(call.ord + 1)]
      /\ call' = [call EXCEPT !.m = lower, !.ord = call.ord + 1]
      /\ UNCHANGED <<setup, is_free, maps, live, pc>>

(* A variant that stops after any turn. *)
MergeDoneEarly ==
  /\ pc = "merge"
  /\ is_free' = [is_free EXCEPT ![call.m] = TRUE]
  /\ pc' = "insert"
  /\ call' = [call EXCEPT !.ins = call.m, !.m = Null]
  /\ UNCHANGED <<setup, free_lists, size, next, prev, maps, live>>

MergeDone ==
  /\ pc = "merge"
  /\ call.ord < MaxOrder => ~BuddyIsFree(call.m, call.ord)
  /\ is_free' = [is_free EXCEPT ![call.m] = TRUE]
  /\ pc' = "insert"
  /\ call' = [call EXCEPT !.ins = call.m, !.m = Null]
  /\ UNCHANGED <<setup, free_lists, size, next, prev, maps, live>>

-----------------------------------------------------------------------------
(* srealloc; with a null pointer it is smalloc *)

(* The block the lower of each pair of buddies leads to at order o. *)
BaseAt(p, o) == p - (p % BlockSize(o))

(* The order at which merging p upwards first gives room for s bytes, if   *)
(* every buddy on the way is free.                                         *)
GrowOrders(p, s) ==
  {o \in GetOrder(p)+1..MaxOrder :
     /\ Usable(o) >= s
     /\ \A k \in GetOrder(p)+1..o-1 : Usable(k) < s
     /\ \A k \in GetOrder(p)..o-1 : BuddyIsFree(BaseAt(p, k), k)}

SreallocInPlace(p, s) ==
  /\ pc = "idle" /\ p \in DOMAIN live
  /\ s > 0 /\ s <= MaxAlloc
  /\ Room(p) >= s
  /\ live' = Given(p, s, p, live[p].data)
  /\ UNCHANGED <<setup, free_lists, heap, maps, pc, call>>

SreallocGrow(p, s) ==
  /\ pc = "idle" /\ p \in DOMAIN live \cap Addr
  /\ s > 0 /\ s <= MaxAlloc
  /\ Room(p) < s
  /\ \E o \in GrowOrders(p, s) :
       call' = [NoCall EXCEPT !.want = s, !.total = Room(p), !.old = p,
                             !.target = o, !.ord = GetOrder(p), !.m = p]
  /\ is_free' = [is_free EXCEPT ![p] = ~hugepages]    \* only malloc_3.cpp marks it
  /\ pc' = "grow"
  /\ UNCHANGED <<setup, free_lists, size, next, prev, maps, live>>

GrowBuddy ==
  LET b == GetBuddy(call.m, call.ord)  lower == Min({call.m, b})
  IN  /\ pc = "grow" /\ call.ord < call.target
      /\ FlRemove(call.ord, b)
      /\ size' = [size EXCEPT ![lower] = BlockSize(call.ord + 1)]
      /\ call' = [call EXCEPT !.m = lower, !.ord = call.ord + 1]
      /\ UNCHANGED <<setup, is_free, maps, live, pc>>

(* The bytes of the program that are behind the merged block: all of them  *)
(* if it starts where the old one did, else what memmove brings along,     *)
(* which goes by the room there was before merging (kept in total).        *)
GrowCopied ==
  IF call.m = call.old THEN live[call.old].data ELSE Min({call.total, call.want})

GrowDone ==
  /\ pc = "grow" /\ call.ord = call.target
  /\ is_free' = [is_free EXCEPT ![call.m] = FALSE]
  /\ live' = Given(call.m, call.want, call.old, GrowCopied)
  /\ pc' = "idle" /\ call' = NoCall
  /\ UNCHANGED <<setup, free_lists, size, next, prev, maps>>

SreallocMove(p, s) ==
  /\ p \in DOMAIN live /\ Room(p) < s
  /\ p \in Addr => GrowOrders(p, s) = {}
  /\ s > 0 /\ Begin(s, s, s >= HugeSmalloc, p)

-----------------------------------------------------------------------------
AllocStep == BuddyInit \/ MmapAlloc \/ BuddyFind \/ SplitBlock \/ BuddyTake
FreeStep == MergeBuddy \/ MergeDone \/ FlInsertWalk \/ FlInsert
GrowStep == GrowBuddy \/ GrowDone

Next ==
  \/ \E s \in Sizes : Smalloc(s)
  \/ \E n \in Nums, s \in Sizes : Scalloc(n, s)
  \/ \E p \in DOMAIN live : Sfree(p)
  \/ \E p \in DOMAIN live, s \in Sizes :
       SreallocInPlace(p, s) \/ SreallocGrow(p, s) \/ SreallocMove(p, s)
  \/ AllocStep \/ FreeStep \/ GrowStep

Spec == Init /\ [][Next]_vars
-----------------------------------------------------------------------------
(* The statistics functions *)

(* A walk along the heap from `first`, step[a] leading on from block a:    *)
(* where it ends and the blocks it meets. Every walk goes upwards, so that *)
(* one look at each address will do.                                       *)
Walk(first, step) ==
  LET upTo[n \in 0..HeapSize] ==
        IF n = 0 THEN [at |-> first, met |-> {}]
        ELSE LET w == upTo[n - 1]
             IN  IF w.at = n - 1 THEN [at |-> step[n - 1], met |-> w.met \cup {n - 1}] ELSE w
  IN  upTo[HeapSize]

(* count_all_buddy's walk from heap_base. *)
CountAllBuddy == Walk(0, [a \in Addr |-> a + size[a]])

Blocks == CountAllBuddy.met

(* The blocks _num_free_blocks meets in one free list. *)
Listed(o) == Walk(free_lists[o], next).met
-----------------------------------------------------------------------------
Pointers == Addr \cup MmapIds
Links == Addr \cup {Null}

(* Type invariant. *)
TypeOK ==
  /\ hugepages \in BOOLEAN /\ initialized \in BOOLEAN
  /\ free_lists \in [Orders -> Links]
  /\ size \in [Addr -> 0..BlockSize(MaxOrder)] /\ is_free \in [Addr -> BOOLEAN]
  /\ next \in [Addr -> Links] /\ prev \in [Addr -> Links]
  /\ DOMAIN mmaps \subseteq MmapIds /\ \A i \in DOMAIN mmaps : mmaps[i] \in Nat
  /\ DOMAIN live \subseteq Pointers
  /\ \A p \in DOMAIN live : live[p].want \in Nat /\ live[p].data \in 0..live[p].want
  /\ pc \in {"idle", "init", "alloc", "split", "insert", "merge", "grow"}
  /\ call.old \in Pointers \cup {Null} /\ call.target \in Orders /\ call.ord \in Orders
  /\ {call.m, call.ins, call.cur} \subseteq Links

HeapReady == size[0] # 0

(* Splitting and merging always leave blocks of power-of-two sizes, each   *)
(* aligned to its size, that tile the heap from end to end: the walk of    *)
(* count_all_buddy meets every block and stops exactly at the end, and a   *)
(* buddy's metadata is never read from the middle of somebody's data.      *)
BlocksTileHeap ==
  LET walk == CountAllBuddy
  IN  HeapReady =>
        /\ walk.at = HeapSize
        /\ \A a \in walk.met : \E o \in Orders : size[a] = BlockSize(o) /\ a % BlockSize(o) = 0
        /\ DOMAIN live \cap Addr \subseteq walk.met

(* Every link of a free list is a link between two free blocks of the same *)
(* order in ascending addresses, with its counterpart in the other         *)
(* direction: following a list never reaches a block in use, whatever      *)
(* fl_remove was called with before.                                       *)
ListsSound ==
  LET FreeBlocks == {a \in Blocks : is_free[a]}
  IN  /\ \A o \in Orders :
           LET a == free_lists[o]
           IN  a # Null => a \in FreeBlocks /\ size[a] = BlockSize(o) /\ prev[a] = Null
      /\ \A a \in Addr : next[a] # Null =>
           /\ a < next[a] /\ prev[next[a]] = a
           /\ {a, next[a]} \subseteq FreeBlocks
           /\ size[a] = size[next[a]]
      /\ \A a \in Addr : prev[a] # Null => next[prev[a]] = a

(* Freeing merges all the way: between calls no two buddies of the same    *)
(* size are both free.                                                     *)
Coalesced ==
  pc = "idle" =>
    \A a \in Blocks, o \in 0..MaxOrder-1 :
      is_free[a] /\ size[a] = BlockSize(o) => ~BuddyIsFree(a, o)

(* When the program has given everything back, the heap is what buddy_init *)
(* made it: all blocks of the largest order, all on their list, none lost  *)
(* for good.                                                               *)
EverythingComesBack ==
  pc = "idle" /\ HeapReady /\ DOMAIN live \cap Addr = {} =>
    Listed(MaxOrder) = {i * BlockSize(MaxOrder) : i \in 0..InitialBlocks-1}

(* Every page the kernel mapped for the allocator belongs to a block on    *)
(* mmap_list and goes when the block is freed, also when the mapping asked *)
(* for huge pages and got ordinary ones: the length that munmap recomputes *)
(* from the metadata is the length of the mapping.                         *)
MappedExactly ==
  /\ DOMAIN kernel = DOMAIN mmaps
  /\ \A i \in DOMAIN mmaps : kernel[i].bytes = MetaSize + mmaps[i]

(* A block smalloc, scalloc or srealloc returned has room for the bytes    *)
(* that were asked for.                                                    *)
RequestFits == \A p \in DOMAIN live : live[p].want <= Room(p)

(* The allocator writes no metadata into memory the program holds, nor     *)
(* into the metadata of a block it holds that no call is about.            *)
HandsOff ==
  [][\A p \in DOMAIN live \cap Addr :
       \A a \in p + (IF p \in {call.m, call.old, call'.old} THEN 1 ELSE 0) .. p + size[p] - 1 :
         /\ size'[a] = size[a] /\ is_free'[a] = is_free[a]
         /\ next'[a] = next[a] /\ prev'[a] = prev[a]]_vars

(* The bytes behind each pointer the program holds. *)
Regions ==
  [p \in DOMAIN live |->
     IF p \in MmapIds
     THEN {<<p, b>> : b \in 0..live[p].want-1}
     ELSE {<<Null, p * MinBlock + MetaSize + b>> : b \in 0..live[p].want-1}]

Memory ==
  INSTANCE Allocator WITH
    Ptrs <- Pointers,
    Bytes <- ({Null} \X (0..HeapSize * MinBlock - 1)) \cup (MmapIds \X (0..MaxAlloc)),
    region <- Regions,
    intact <- {p \in DOMAIN live : live[p].data = live[p].want}

(* To the program the buddy heap and the mappings are one allocator that   *)
(* never hands out a byte twice and keeps what was stored across srealloc. *)
ImplementsAllocator == Memory!Spec

(* What the comment on free_lists says: between calls free_lists[i] holds  *)
(* all free blocks of order i.                                             *)
FreeListsHoldAllFree ==
  pc = "idle" =>
    \A a \in Blocks, o \in Orders : is_free[a] /\ size[a] = BlockSize(o) => a \in Listed(o)
=============================================================================
