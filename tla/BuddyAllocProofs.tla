-------------------------- MODULE BuddyAllocProofs --------------------------
(***************************************************************************)
(* Proofs about the buddy allocators, for every number of orders, every    *)
(* size of the heap and every pattern of requests.                         *)
(***************************************************************************)
EXTENDS BuddyAlloc, NaturalsInduction, WellFoundedInduction, TLAPS

Big == BlockSize(MaxOrder)

(* Where buddy_init puts its blocks. *)
Bases == {i * Big : i \in 0..InitialBlocks-1}

(* x is the first element of C from n on, e if there is none. *)
IsFrom(C, n, x, e) ==
  \/ x \in C /\ n <= x /\ \A b \in C : n <= b => x <= b
  \/ x = e /\ \A b \in C : b < n
-----------------------------------------------------------------------------
(* The inductive invariant. fl_remove takes a block that is in no list for *)
(* the first of its list, so an upper half leaves its list as soon as the  *)
(* lower half is split again or handed out: lists below MAX_ORDER are      *)
(* empty between the steps, and every block that is handed out starts      *)
(* where buddy_init put one.                                               *)

(* The blocks of the heap the program holds. *)
Held == DOMAIN live \cap Addr

(* The base the running call has taken off its list, or will put on it. *)
Working ==
  IF \/ pc = "merge"
     \/ pc = "split" /\ call.ord < MaxOrder
     \/ pc = "insert" /\ call.m # Null
  THEN {call.m}
  ELSE IF pc = "insert" THEN {call.ins} ELSE {}

(* The list of MAX_ORDER. *)
OnList ==
  {a \in Bases : is_free[a]}
    \ (IF pc = "insert" THEN {call.ins} ELSE IF pc = "grow" THEN {call.m} ELSE {})

Calls == [want : Nat, total : Int, huge : BOOLEAN, old : Pointers \cup {Null},
          target : Orders, ord : Orders, m : Links, ins : Links, cur : Links]

Types ==
  /\ hugepages \in BOOLEAN /\ initialized \in BOOLEAN
  /\ free_lists \in [Orders -> Links]
  /\ size \in [Addr -> 0..Big] /\ is_free \in [Addr -> BOOLEAN]
  /\ next \in [Addr -> Links] /\ prev \in [Addr -> Links]
  /\ DOMAIN live \subseteq Pointers
  /\ pc \in {"idle", "init", "alloc", "split", "insert", "merge", "grow"}
  /\ call \in Calls
  /\ pc = "idle" => call = NoCall
  /\ pc \in {"init", "alloc"} => call.total \in Nat
  /\ call.old \in DOMAIN live \cup {Null}
  /\ pc = "init" => ~initialized
  /\ pc # "insert" => call.cur = Null

EmptyHeap ==
  /\ free_lists = [o \in Orders |-> Null]
  /\ size = [a \in Addr |-> 0] /\ is_free = [a \in Addr |-> FALSE]
  /\ next = [a \in Addr |-> Null] /\ prev = [a \in Addr |-> Null]
  /\ Held = {}
  /\ pc \in {"idle", "init", "alloc"}

(* A base is as large as some order says, and above it are free halves of  *)
(* every order from there on.                                              *)
LayoutOf(sz, fr) ==
  \A a \in Bases :
    /\ \E o \in Orders : sz[a] = BlockSize(o)
    /\ \A j \in 0..MaxOrder-1 :
         sz[a] <= BlockSize(j) => sz[a + BlockSize(j)] = BlockSize(j) /\ fr[a + BlockSize(j)]

Layout == LayoutOf(size, is_free)

(* A list with the elements of C: in ascending order, linked both ways,    *)
(* and no links anywhere else.                                             *)
ChainOf(C, first, nx, pv) ==
  /\ IsFrom(C, 0, first, Null)
  /\ \A a \in C :
       /\ IsFrom(C, a + 1, nx[a], Null)
       /\ nx[a] # Null => pv[nx[a]] = a
       /\ pv[a] # Null => pv[a] \in C /\ nx[pv[a]] = a
  /\ \A a \in Addr \ C : nx[a] = Null /\ pv[a] = Null

Chain ==
  /\ ChainOf(OnList, free_lists[MaxOrder], next, prev)
  /\ \A a \in OnList : size[a] = Big

LowerLists ==
  \A o \in 0..MaxOrder-1 :
    free_lists[o] = IF pc = "split" /\ o = call.ord THEN call.m + BlockSize(o) ELSE Null

Owners ==
  /\ Bases = OnList \cup Held \cup Working
  /\ OnList \cap Held = {} /\ OnList \cap Working = {} /\ Held \cap Working = {}

(* What the registers of the running call say. *)
Splitting ==
  pc = "split" =>
    /\ call.m \in Bases /\ call.target <= call.ord /\ size[call.m] = BlockSize(call.ord)
    /\ call.ord = MaxOrder => call.m = free_lists[MaxOrder]

Inserting ==
  pc = "insert" =>
    \/ /\ call.m \in Bases /\ call.ord < MaxOrder /\ call.target <= call.ord
       /\ size[call.m] = BlockSize(call.ord)
       /\ call.ins = call.m + BlockSize(call.ord) /\ call.cur = Null
    \/ /\ call.m = Null /\ call.ord = MaxOrder
       /\ call.ins \in Bases /\ is_free[call.ins] /\ size[call.ins] = Big
       /\ call.cur # Null => call.cur \in OnList /\ call.cur < call.ins

Merging ==
  pc = "merge" => call.m \in Bases /\ size[call.m] = BlockSize(call.ord)

Growing ==
  pc = "grow" =>
    /\ call.m \in Held /\ call.m = call.old
    /\ size[call.m] = BlockSize(call.ord) /\ call.ord <= call.target

FullHeap ==
  /\ initialized
  /\ pc # "init"
  /\ Layout /\ Chain /\ LowerLists /\ Owners
  /\ Splitting /\ Inserting /\ Merging /\ Growing

HeapInv == Types /\ (EmptyHeap \/ FullHeap)
-----------------------------------------------------------------------------
(* Sizes of blocks *)

(* A nonempty set of naturals has a least element. *)
LEMMA LeastNatural ==
  ASSUME NEW T \in SUBSET Nat, T # {}
  PROVE  \E x \in T : \A y \in T : x <= y
<1> DEFINE R == OpToRel(<, Nat)
<1>1. IsWellFoundedOn(R, Nat)
  BY NatLessThanWellFounded
<1>2. PICK x \in T : \A y \in T : ~ (<<y, x>> \in R)
  <2> HIDE DEF R
  <2> QED BY <1>1, WFMin
<1>3. \A y \in T : ~ (y < x)
  BY <1>2 DEF OpToRel
<1> QED BY <1>3

(* Min of the community modules picks it. *)
LEMMA MinNatural ==
  ASSUME NEW T \in SUBSET Nat, T # {}
  PROVE  Min(T) \in T /\ \A y \in T : Min(T) <= y
BY LeastNatural DEF Min

IsDoubled(g, n) == g = [i \in 0..n |-> IF i = 0 THEN 1 ELSE 2 * g[i - 1]]

(* Every bound has a table of the powers of two up to it. *)
LEMMA DoubledUpTo ==
  ASSUME NEW m \in Nat
  PROVE  \E g : IsDoubled(g, m)
<1> DEFINE B == {n \in Nat : ~ \E g : IsDoubled(g, n)}
<1>1. SUFFICES ASSUME B # {} PROVE FALSE
  OBVIOUS
<1>2. PICK n \in B : \A j \in B : n <= j
  <2> HIDE DEF B
  <2>1. B \in SUBSET Nat
    BY DEF B
  <2> QED BY <1>1, <2>1, LeastNatural
<1>3. n \in Nat /\ ~ \E g : IsDoubled(g, n)
  BY <1>2
<1>4. n # 0
  <2> DEFINE g == [i \in 0..0 |-> 1]
  <2>1. IsDoubled(g, 0)
    BY DEF IsDoubled
  <2> QED BY <1>3, <2>1
<1>5. n - 1 \in Nat /\ n - 1 \notin B
  BY <1>2, <1>3, <1>4
<1>6. PICK g : IsDoubled(g, n - 1)
  BY <1>5
<1> DEFINE last == 2 * g[n - 1]
<1> HIDE DEF last
<1> DEFINE h == [i \in 0..n |-> IF i < n THEN g[i] ELSE last]
<1>7. \A i \in 0..n-1 : g[i] = IF i = 0 THEN 1 ELSE 2 * g[i - 1]
  BY <1>6 DEF IsDoubled
<1>8. ASSUME NEW i \in 0..n
      PROVE  h[i] = IF i = 0 THEN 1 ELSE 2 * h[i - 1]
  <2>1. CASE i < n
    <3>1. i \in 0..n-1 /\ (i # 0 => i - 1 \in 0..n /\ i - 1 < n)
      BY <1>3, <2>1
    <3>2. h[i] = g[i] /\ (i # 0 => h[i - 1] = g[i - 1])
      BY <2>1, <3>1
    <3> QED BY <1>7, <3>1, <3>2
  <2>2. CASE i = n
    <3>1. n - 1 \in 0..n /\ n - 1 < n /\ ~(n < n)
      BY <1>3, <1>5
    <3>2. h[n] = last /\ h[n - 1] = g[n - 1]
      BY <2>2, <3>1
    <3> QED BY <1>4, <2>2, <3>2 DEF last
  <2> QED BY <1>3, <2>1, <2>2
<1>9. IsDoubled(h, n)
  <2>1. DOMAIN h = 0..n /\ h = [i \in 0..n |-> h[i]]
    OBVIOUS
  <2> HIDE DEF h
  <2> QED BY <1>8, <2>1 DEF IsDoubled
<1> QED BY <1>3, <1>9

(* Two such tables agree where both are defined. *)
LEMMA DoubledUnique ==
  ASSUME NEW m \in Nat, NEW n \in Nat, NEW g, NEW h, IsDoubled(g, m), IsDoubled(h, n),
         NEW k \in Nat, k <= m, k <= n
  PROVE  g[k] = h[k]
<1> DEFINE B == {i \in Nat : i <= m /\ i <= n /\ g[i] # h[i]}
<1>1. SUFFICES ASSUME B # {} PROVE FALSE
  OBVIOUS
<1>2. PICK i \in B : \A j \in B : i <= j
  <2> HIDE DEF B
  <2>1. B \in SUBSET Nat
    BY DEF B
  <2> QED BY <1>1, <2>1, LeastNatural
<1>3. i \in 0..m /\ i \in 0..n
  BY <1>2
<1>4. g[i] = (IF i = 0 THEN 1 ELSE 2 * g[i - 1]) /\ h[i] = (IF i = 0 THEN 1 ELSE 2 * h[i - 1])
  BY <1>3 DEF IsDoubled
<1>5. i # 0
  BY <1>2, <1>4
<1>6. i - 1 \in Nat /\ i - 1 \notin B /\ i - 1 <= m /\ i - 1 <= n
  BY <1>2, <1>3, <1>5
<1>7. g[i - 1] = h[i - 1]
  BY <1>6
<1> QED BY <1>2, <1>4, <1>5, <1>7

(* The block size doubles from one order to the next. *)
LEMMA BlockSizeIs ==
  /\ BlockSize(0) = 1
  /\ \A o \in Nat : BlockSize(o + 1) = 2 * BlockSize(o)
<1> DEFINE it(n) == CHOOSE g : IsDoubled(g, n)
           f == [o \in Nat |-> it(o)[o]]
<1>1. \A n \in Nat : IsDoubled(it(n), n)
  BY DoubledUpTo
<1> HIDE DEF it
<1>2. ASSUME NEW o \in Nat, o # 0 PROVE f[o] = 2 * f[o - 1]
  <2>1. it(o)[o] = 2 * it(o)[o - 1]
    BY <1>1, <1>2 DEF IsDoubled
  <2>2. it(o)[o - 1] = it(o - 1)[o - 1]
    <3>1. o - 1 \in Nat /\ o - 1 <= o /\ o - 1 <= o - 1
      BY <1>2
    <3> QED BY <1>1, <3>1, DoubledUnique
  <2>3. o - 1 \in Nat
    BY <1>2
  <2> QED BY <2>1, <2>2, <2>3
<1>3. f[0] = 1
  BY <1>1 DEF IsDoubled
<1>4. f = [o \in Nat |-> IF o = 0 THEN 1 ELSE 2 * f[o - 1]]
  <2>1. f = [o \in Nat |-> f[o]]
    OBVIOUS
  <2> HIDE DEF f
  <2> QED BY <1>2, <1>3, <2>1
<1>5. Doubled = [o \in Nat |-> IF o = 0 THEN 1 ELSE 2 * Doubled[o - 1]]
  <2> HIDE DEF f
  <2> QED BY <1>4 DEF Doubled
<1>6. \A o \in Nat : Doubled[o] = IF o = 0 THEN 1 ELSE 2 * Doubled[o - 1]
  BY <1>5
<1>7. ASSUME NEW o \in Nat PROVE BlockSize(o + 1) = 2 * BlockSize(o)
  <2>1. o + 1 \in Nat /\ o + 1 # 0 /\ (o + 1) - 1 = o
    OBVIOUS
  <2> QED BY <1>6, <2>1 DEF BlockSize
<1>8. BlockSize(0) = 1
  BY <1>6 DEF BlockSize
<1> QED BY <1>7, <1>8

(* Every block size is a positive number, and divides the larger ones an   *)
(* even number of times.                                                   *)
LEMMA BlockSizeNat ==
  ASSUME NEW o \in Nat
  PROVE  BlockSize(o) \in Nat /\ BlockSize(o) > 0
<1> DEFINE B == {n \in Nat : ~ (BlockSize(n) \in Nat /\ BlockSize(n) > 0)}
<1>1. SUFFICES ASSUME B # {} PROVE FALSE
  OBVIOUS
<1>2. PICK n \in B : \A j \in B : n <= j
  <2> HIDE DEF B
  <2>1. B \in SUBSET Nat
    BY DEF B
  <2> QED BY <1>1, <2>1, LeastNatural
<1>3. n # 0
  BY <1>2, BlockSizeIs
<1>4. n - 1 \in Nat /\ n - 1 \notin B /\ (n - 1) + 1 = n
  BY <1>2, <1>3
<1>5. BlockSize(n) = 2 * BlockSize(n - 1)
  BY <1>4, BlockSizeIs
<1> QED BY <1>2, <1>4, <1>5

(* A larger block is an even number of smaller ones. *)
LEMMA BlockSizeDivides ==
  ASSUME NEW o \in Nat, NEW p \in Nat, o < p
  PROVE  \E k \in Nat : k > 0 /\ BlockSize(p) = 2 * k * BlockSize(o)
<1> DEFINE Good(n) == \E k \in Nat : k > 0 /\ BlockSize(n) = 2 * k * BlockSize(o)
           B == {n \in Nat : o < n /\ ~ Good(n)}
<1>1. SUFFICES ASSUME B # {} PROVE FALSE
  OBVIOUS
<1>2. PICK n \in B : \A j \in B : n <= j
  <2> HIDE DEF B
  <2>1. B \in SUBSET Nat
    BY DEF B
  <2> QED BY <1>1, <2>1, LeastNatural
<1>3. n \in Nat /\ o < n /\ ~ Good(n)
  BY <1>2
<1>4. n - 1 \in Nat /\ n - 1 \notin B /\ (n - 1) + 1 = n
  BY <1>2, <1>3
<1>5. BlockSize(n) = 2 * BlockSize(n - 1)
  BY <1>4, BlockSizeIs
<1>6. BlockSize(o) \in Nat
  BY BlockSizeNat
<1>7. CASE n - 1 = o
  <2>1. 1 \in Nat /\ 1 > 0 /\ BlockSize(n) = 2 * 1 * BlockSize(o)
    BY <1>5, <1>6, <1>7
  <2> QED BY <1>3, <2>1
<1>8. CASE n - 1 > o
  <2>1. Good(n - 1)
    BY <1>4, <1>8
  <2>2. PICK k \in Nat : k > 0 /\ BlockSize(n - 1) = 2 * k * BlockSize(o)
    BY <2>1
  <2>3. 2 * k \in Nat /\ 2 * k > 0
    BY <2>2
  <2>4. BlockSize(n) = 2 * (2 * k) * BlockSize(o)
    BY <1>5, <1>6, <2>2
  <2> QED BY <1>3, <2>3, <2>4
<1> QED BY <1>3, <1>7, <1>8

(* Block sizes are ordered as the orders are. *)
LEMMA BlockSizeGrows ==
  ASSUME NEW o \in Nat, NEW p \in Nat
  PROVE  /\ o < p => 2 * BlockSize(o) <= BlockSize(p)
         /\ BlockSize(o) < BlockSize(p) => o < p
         /\ BlockSize(o) <= BlockSize(p) => o <= p
         /\ BlockSize(o) = BlockSize(p) => o = p
<1>1. /\ BlockSize(o) \in Nat /\ BlockSize(o) > 0
      /\ BlockSize(p) \in Nat /\ BlockSize(p) > 0
  BY BlockSizeNat
<1>2. ASSUME NEW a \in Nat, NEW b \in Nat, a < b PROVE 2 * BlockSize(a) <= BlockSize(b)
  <2>1. PICK k \in Nat : k > 0 /\ BlockSize(b) = 2 * k * BlockSize(a)
    BY <1>2, BlockSizeDivides
  <2>2. BlockSize(a) \in Nat
    BY BlockSizeNat
  <2>3. 2 * k * BlockSize(a) = 2 * BlockSize(a) + 2 * (k - 1) * BlockSize(a)
    BY <2>2
  <2>4. 2 * (k - 1) * BlockSize(a) >= 0
    BY <2>1, <2>2
  <2> QED BY <2>1, <2>2, <2>3, <2>4
<1>3. o < p => 2 * BlockSize(o) <= BlockSize(p)
  BY <1>2
<1>4. p < o => 2 * BlockSize(p) <= BlockSize(o)
  BY <1>2
<1> QED BY <1>1, <1>3, <1>4
-----------------------------------------------------------------------------
(* Where blocks are *)

(* The sizes buddy_init works with. *)
LEMMA BigNat == Big \in Nat /\ Big > 0 /\ MaxOrder \in Nat /\ InitialBlocks \in Nat \ {0}
                /\ HeapSize \in Nat /\ HeapSize > 0
<1>1. Big \in Nat /\ Big > 0 /\ MaxOrder \in Nat /\ InitialBlocks \in Nat /\ InitialBlocks > 0
  BY BuddyAssumption, BlockSizeNat DEF Big
<1>2. HeapSize = InitialBlocks * Big
  BY DEF HeapSize, Big
<1> QED BY <1>1, <1>2

(* The bases are a block of MAX_ORDER apart, from one end of the heap to   *)
(* the other.                                                              *)
LEMMA BaseFacts ==
  /\ 0 \in Bases
  /\ \A a \in Bases :
       /\ a \in Addr /\ a \in Nat /\ a + Big <= HeapSize
       /\ a + Big = HeapSize \/ a + Big \in Bases
       /\ a # 0 => a - Big \in Bases
       /\ \A b \in Bases : a < b => a + Big <= b
<1> DEFINE N == InitialBlocks
<1>1. /\ Big \in Nat /\ Big > 0 /\ N \in Nat /\ N > 0 /\ HeapSize = N * Big
  BY BigNat DEF HeapSize, Big
<1> HIDE DEF N
<1>2. 0 \in Bases
  <2>1. 0 \in 0..N-1 /\ 0 * Big = 0
    BY <1>1
  <2> QED BY <2>1 DEF Bases, N
<1>3. ASSUME NEW a \in Bases
      PROVE  /\ a \in Addr /\ a \in Nat /\ a + Big <= HeapSize
             /\ a + Big = HeapSize \/ a + Big \in Bases
             /\ a # 0 => a - Big \in Bases
             /\ \A b \in Bases : a < b => a + Big <= b
  <2>1. PICK i \in 0..N-1 : a = i * Big
    BY DEF Bases, N
  <2>2. i \in Nat /\ i + 1 <= N /\ a \in Nat
    BY <1>1, <2>1
  <2>3. a + Big = (i + 1) * Big
    BY <1>1, <2>1, <2>2
  <2>4. (i + 1) * Big <= N * Big
    <3>1. N * Big = (i + 1) * Big + (N - (i + 1)) * Big
      BY <1>1, <2>2
    <3>2. (N - (i + 1)) * Big >= 0
      BY <1>1, <2>2
    <3>3. (i + 1) * Big \in Int /\ (N - (i + 1)) * Big \in Int
      BY <1>1, <2>2
    <3> QED BY <3>1, <3>2, <3>3
  <2>5. a + Big <= HeapSize /\ a \in Addr
    BY <1>1, <2>2, <2>3, <2>4, BigNat DEF Addr
  <2>6. a + Big = HeapSize \/ a + Big \in Bases
    <3>1. CASE i + 1 = N
      BY <1>1, <2>3, <3>1
    <3>2. CASE i + 1 # N
      <4>1. i + 1 \in 0..N-1
        BY <1>1, <2>2, <3>2
      <4> QED BY <2>3, <4>1 DEF Bases, N
    <3> QED BY <3>1, <3>2
  <2>7. a # 0 => a - Big \in Bases
    <3>1. SUFFICES ASSUME a # 0 PROVE a - Big \in Bases
      OBVIOUS
    <3>2. i # 0
      BY <1>1, <2>1, <3>1
    <3>3. i - 1 \in 0..N-1 /\ a - Big = (i - 1) * Big
      BY <1>1, <2>1, <2>2, <3>2
    <3> QED BY <3>3 DEF Bases, N
  <2>8. ASSUME NEW b \in Bases, a < b PROVE a + Big <= b
    <3>1. PICK j \in 0..N-1 : b = j * Big
      BY DEF Bases, N
    <3>2. j \in Nat
      BY <1>1, <3>1
    <3>3. i < j
      <4>1. SUFFICES ASSUME j <= i PROVE FALSE
        BY <2>2, <3>2
      <4>2. i * Big = j * Big + (i - j) * Big
        BY <1>1, <2>2, <3>2
      <4>3. (i - j) * Big >= 0 /\ j * Big \in Int /\ (i - j) * Big \in Int
        BY <1>1, <2>2, <3>2, <4>1
      <4> QED BY <2>1, <2>8, <3>1, <4>2, <4>3
    <3>4. j * Big = (i + 1) * Big + (j - (i + 1)) * Big
      BY <1>1, <2>2, <3>2
    <3>5. (j - (i + 1)) * Big >= 0
      BY <1>1, <2>2, <3>2, <3>3
    <3>6. (i + 1) * Big \in Int /\ (j - (i + 1)) * Big \in Int
      BY <1>1, <2>2, <3>2
    <3> QED BY <2>3, <3>1, <3>4, <3>5, <3>6
  <2> QED BY <2>2, <2>5, <2>6, <2>7, <2>8
<1> QED BY <1>2, <1>3

(* The remainder and the quotient of a multiple. *)
LEMMA Multiple ==
  ASSUME NEW x \in Nat, NEW y \in Nat, y > 0
  PROVE  (x * y) % y = 0 /\ (x * y) \div y = x
OBVIOUS

(* A base is aligned to every block size, and its buddy is above it. *)
LEMMA BaseAligned ==
  ASSUME NEW a \in Bases, NEW o \in Orders
  PROVE  /\ BlockSize(o) \in Nat /\ 0 < BlockSize(o) /\ BlockSize(o) <= Big
         /\ a % BlockSize(o) = 0 /\ BaseAt(a, o) = a
         /\ o < MaxOrder =>
              /\ 2 * BlockSize(o) <= Big
              /\ GetBuddy(a, o) = a + BlockSize(o)
              /\ GetBuddy(a + BlockSize(o), o) = a
              /\ (a + BlockSize(o)) % BlockSize(o) = 0
              /\ a + BlockSize(o) \in Addr /\ a + BlockSize(o) \notin Bases
<1> DEFINE s == BlockSize(o)
<1>1. o \in Nat /\ o <= MaxOrder /\ MaxOrder \in Nat
  BY BigNat DEF Orders
<1>2. s \in Nat /\ s > 0
  BY <1>1, BlockSizeNat
<1>3. PICK i \in Nat : a = i * Big
  BY BigNat DEF Bases
<1>4. a \in Nat
  BY BaseFacts
<1>5. CASE o = MaxOrder
  <2>1. s = Big
    BY <1>5 DEF Big
  <2>2. a % s = 0
    BY <1>3, <2>1, BigNat, Multiple
  <2> QED BY <1>2, <1>4, <1>5, <2>1, <2>2, BigNat DEF BaseAt
<1>6. CASE o < MaxOrder
  <2>1. PICK k \in Nat : k > 0 /\ Big = 2 * k * s
    BY <1>1, <1>6, BlockSizeDivides DEF Big
  <2>2. 2 * s <= Big
    BY <1>1, <1>6, BlockSizeGrows DEF Big
  <2> HIDE DEF s
  <2>3. a = (2 * (i * k)) * s
    BY <1>2, <1>3, <2>1
  <2> DEFINE q == i * k
  <2>4. q \in Nat
    BY <2>1
  <2> HIDE DEF q
  <2>5. a = (2 * q) * s
    BY <2>3 DEF q
  <2>6. a % s = 0 /\ a \div s = 2 * q
    <3>1. 2 * q \in Nat
      BY <2>4
    <3> QED BY <1>2, <2>5, <3>1, Multiple
  <2>7. a + s = (2 * q + 1) * s
    BY <1>2, <2>4, <2>5
  <2>8. (a + s) % s = 0 /\ (a + s) \div s = 2 * q + 1
    <3>1. 2 * q + 1 \in Nat
      BY <2>4
    <3> QED BY <1>2, <2>7, <3>1, Multiple
  <2>9. (2 * q) % 2 = 0 /\ (2 * q + 1) % 2 = 1
    BY <2>4
  <2>10. GetBuddy(a, o) = a + s /\ GetBuddy(a + s, o) = a
    <3>1. (a \div s) % 2 = 0 /\ ((a + s) \div s) % 2 = 1 /\ (a + s) - s = a
      BY <1>2, <1>4, <2>6, <2>8, <2>9
    <3>2. GetBuddy(a, o) = IF (a \div s) % 2 = 0 THEN a + s ELSE a - s
      BY DEF GetBuddy, s
    <3>3. GetBuddy(a + s, o) = IF ((a + s) \div s) % 2 = 0 THEN (a + s) + s ELSE (a + s) - s
      BY DEF GetBuddy, s
    <3>4. GetBuddy(a, o) = a + s
      BY <3>1, <3>2
    <3>5. ((a + s) \div s) % 2 # 0
      BY <3>1
    <3>6. GetBuddy(a + s, o) = a
      BY <3>1, <3>3, <3>5
    <3> QED BY <3>4, <3>6
  <2>11. a + s \in Addr
    BY <1>2, <1>4, <2>2, BaseFacts, BigNat DEF Addr
  <2>12. a + s \notin Bases
    <3>1. a < a + s /\ a + s < a + Big
      BY <1>2, <1>4, <2>2, BigNat
    <3> QED BY <1>2, <1>4, <3>1, BaseFacts, BigNat
  <2> QED BY <1>2, <1>4, <2>2, <2>6, <2>8, <2>10, <2>11, <2>12, BigNat DEF s, BaseAt
<1> QED BY <1>1, <1>5, <1>6

(* An upper half belongs to one base and one order. *)
LEMMA UpperUnique ==
  ASSUME NEW a \in Bases, NEW b \in Bases, NEW j \in 0..MaxOrder-1, NEW k \in 0..MaxOrder-1,
         a + BlockSize(j) = b + BlockSize(k)
  PROVE  a = b /\ j = k
<1>1. j \in Orders /\ k \in Orders /\ j < MaxOrder /\ k < MaxOrder /\ j \in Nat /\ k \in Nat
  BY BigNat DEF Orders
<1>2. /\ BlockSize(j) \in Nat /\ 0 < BlockSize(j) /\ BlockSize(j) < Big
      /\ BlockSize(k) \in Nat /\ 0 < BlockSize(k) /\ BlockSize(k) < Big
  <2>1. BlockSize(j) \in Nat /\ 0 < BlockSize(j) /\ 2 * BlockSize(j) <= Big
    BY <1>1, BaseAligned
  <2>2. BlockSize(k) \in Nat /\ 0 < BlockSize(k) /\ 2 * BlockSize(k) <= Big
    BY <1>1, BaseAligned
  <2> QED BY <2>1, <2>2, BigNat
<1>3. /\ a \in Nat /\ b \in Nat
      /\ a < b => a + Big <= b
      /\ b < a => b + Big <= a
  BY BaseFacts
<1>4. a = b
  BY <1>2, <1>3, BigNat
<1>5. BlockSize(j) = BlockSize(k)
  BY <1>2, <1>3, <1>4
<1> QED BY <1>1, <1>4, <1>5, BlockSizeGrows

(* The order of a block is the one whose size it has. *)
LEMMA GetOrderIs ==
  ASSUME NEW m, NEW o \in Orders, size[m] = BlockSize(o)
  PROVE  GetOrder(m) = o
<1> DEFINE S == {k \in Orders : BlockSize(k) >= size[m]} \cup {MaxOrder}
<1>1. S \in SUBSET Nat /\ o \in S
  <2>1. BlockSize(o) \in Nat
    BY BlockSizeNat, BigNat DEF Orders
  <2> QED BY <2>1, BigNat DEF Orders
<1>2. \A k \in S : o <= k
  <2>1. ASSUME NEW k \in Orders, BlockSize(k) >= size[m] PROVE o <= k
    <3>1. BlockSize(o) <= BlockSize(k) /\ o \in Nat /\ k \in Nat
      <4>1. BlockSize(o) \in Nat /\ BlockSize(k) \in Nat /\ o \in Nat /\ k \in Nat
        BY BlockSizeNat, BigNat DEF Orders
      <4> QED BY <2>1, <4>1
    <3> QED BY <3>1, BlockSizeGrows
  <2> QED BY <2>1, BigNat DEF Orders
<1>3. Min(S) \in S /\ \A k \in S : Min(S) <= k
  <2> HIDE DEF S
  <2> QED BY <1>1, MinNatural
<1>4. Min(S) = o
  <2> DEFINE x == Min(S)
  <2> HIDE DEF S, x
  <2>1. x \in Nat /\ o \in Nat /\ o <= x /\ x <= o
    BY <1>1, <1>2, <1>3 DEF x
  <2> QED BY <2>1 DEF x
<1> QED BY <1>4 DEF GetOrder

(* size_to_order returns one of the orders. *)
LEMMA SizeToOrderIn ==
  ASSUME NEW bytes \in Nat
  PROVE  SizeToOrder(bytes) \in Orders
<1> DEFINE S == {o \in Orders : MinBlock * BlockSize(o) >= bytes + MetaSize} \cup {MaxOrder}
<1>1. S \in SUBSET Nat /\ S # {} /\ S \subseteq Orders
  BY BigNat DEF Orders
<1>2. Min(S) \in S
  <2> HIDE DEF S
  <2> QED BY <1>1, MinNatural
<1> QED BY <1>1, <1>2 DEF SizeToOrder

-----------------------------------------------------------------------------
(* Walks *)

(* One look at address i. *)
Look(w, i, step) == IF w.at = i THEN [at |-> step[i], met |-> w.met \cup {i}] ELSE w

IsWalk(g, first, step, n) ==
  g = [i \in 0..n |-> IF i = 0 THEN [at |-> first, met |-> {}] ELSE Look(g[i - 1], i - 1, step)]

(* A walk can be taken up to any bound. *)
LEMMA WalkExists ==
  ASSUME NEW first, NEW step, NEW m \in Nat
  PROVE  \E g : IsWalk(g, first, step, m)
<1> DEFINE start == [at |-> first, met |-> {}]
           B == {n \in Nat : ~ \E g : IsWalk(g, first, step, n)}
<1>1. SUFFICES ASSUME B # {} PROVE FALSE
  OBVIOUS
<1>2. PICK n \in B : \A j \in B : n <= j
  <2> HIDE DEF B
  <2>1. B \in SUBSET Nat
    BY DEF B
  <2> QED BY <1>1, <2>1, LeastNatural
<1>3. n \in Nat /\ ~ \E g : IsWalk(g, first, step, n)
  BY <1>2
<1>4. n # 0
  <2> DEFINE g == [i \in 0..0 |-> start]
  <2> HIDE DEF start
  <2>1. \A i \in 0..0 : i = 0
    OBVIOUS
  <2>2. g = [i \in 0..0 |-> IF i = 0 THEN start ELSE Look(g[i - 1], i - 1, step)]
    BY <2>1
  <2>3. IsWalk(g, first, step, 0)
    <3> HIDE DEF g
    <3> QED BY <2>2 DEF IsWalk, start
  <2> QED BY <1>3, <2>3
<1>5. n - 1 \in Nat /\ n - 1 \notin B
  BY <1>2, <1>3, <1>4
<1>6. PICK g : IsWalk(g, first, step, n - 1)
  BY <1>5
<1> DEFINE last == Look(g[n - 1], n - 1, step)
<1> HIDE DEF last, start
<1> DEFINE h == [i \in 0..n |-> IF i < n THEN g[i] ELSE last]
<1>7. \A i \in 0..n-1 : g[i] = IF i = 0 THEN start ELSE Look(g[i - 1], i - 1, step)
  BY <1>6 DEF IsWalk, start
<1>8. ASSUME NEW i \in 0..n
      PROVE  h[i] = IF i = 0 THEN start ELSE Look(h[i - 1], i - 1, step)
  <2>1. CASE i < n
    <3>1. i \in 0..n-1 /\ (i # 0 => i - 1 \in 0..n /\ i - 1 < n)
      BY <1>3, <2>1
    <3>2. h[i] = g[i] /\ (i # 0 => h[i - 1] = g[i - 1])
      BY <2>1, <3>1
    <3> QED BY <1>7, <3>1, <3>2
  <2>2. CASE i = n
    <3>1. n - 1 \in 0..n /\ n - 1 < n /\ ~(n < n)
      BY <1>3, <1>5
    <3>2. h[n] = last /\ h[n - 1] = g[n - 1]
      BY <2>2, <3>1
    <3> QED BY <1>4, <2>2, <3>2 DEF last
  <2> QED BY <1>3, <2>1, <2>2
<1>9. IsWalk(h, first, step, n)
  <2>1. h = [i \in 0..n |-> h[i]]
    OBVIOUS
  <2> HIDE DEF h
  <2>2. h = [i \in 0..n |-> IF i = 0 THEN start ELSE Look(h[i - 1], i - 1, step)]
    BY <1>8, <2>1
  <2> QED BY <2>2 DEF IsWalk, start
<1> QED BY <1>3, <1>9

(* Walk is the walk that looks at every address of the heap once. *)
LEMMA WalkIs ==
  ASSUME NEW first, NEW step
  PROVE  \E g : /\ Walk(first, step) = g[HeapSize] /\ g[0] = [at |-> first, met |-> {}]
                /\ \A i \in 0..HeapSize-1 : g[i + 1] = Look(g[i], i, step)
<1> DEFINE g == CHOOSE h : IsWalk(h, first, step, HeapSize)
<1>1. Walk(first, step) = g[HeapSize]
  BY DEF Walk, IsWalk, Look
<1>2. IsWalk(g, first, step, HeapSize)
  BY WalkExists, BigNat
<1> HIDE DEF g
<1>3. \A i \in 0..HeapSize :
        g[i] = IF i = 0 THEN [at |-> first, met |-> {}] ELSE Look(g[i - 1], i - 1, step)
  BY <1>2 DEF IsWalk
<1>4. g[0] = [at |-> first, met |-> {}]
  BY <1>3, BigNat
<1>5. ASSUME NEW i \in 0..HeapSize-1 PROVE g[i + 1] = Look(g[i], i, step)
  <2>1. i + 1 \in 0..HeapSize /\ i + 1 # 0 /\ (i + 1) - 1 = i
    BY BigNat
  <2> QED BY <1>3, <2>1
<1> QED BY <1>1, <1>4, <1>5

(* A walk that always leads to the next element of C meets all of C. *)
LEMMA WalkMeets ==
  ASSUME NEW C \in SUBSET Addr, NEW first, NEW step, NEW e, e \notin Addr,
         IsFrom(C, 0, first, e), \A a \in C : IsFrom(C, a + 1, step[a], e)
  PROVE  Walk(first, step).at = e /\ Walk(first, step).met = C
<1>1. PICK g : /\ Walk(first, step) = g[HeapSize] /\ g[0] = [at |-> first, met |-> {}]
               /\ \A i \in 0..HeapSize-1 : g[i + 1] = Look(g[i], i, step)
  BY WalkIs
<1>2. \A a \in C : a \in Nat /\ a < HeapSize
  BY BigNat DEF Addr
<1> DEFINE at(n) == g[n].at
           met(n) == g[n].met
           Good(n) == IsFrom(C, n, at(n), e) /\ \A a : a \in met(n) <=> a \in C /\ a < n
           B == {n \in Nat : n <= HeapSize /\ ~ Good(n)}
<1>3. SUFFICES ASSUME B # {} PROVE FALSE
  <2>1. HeapSize \notin B
    BY <1>3
  <2>2. Good(HeapSize)
    BY <2>1, BigNat
  <2> HIDE DEF at, met
  <2>3. at(HeapSize) = e
    BY <1>2, <2>2, BigNat DEF IsFrom
  <2>4. met(HeapSize) = C
    BY <1>2, <2>2
  <2> QED BY <1>1, <2>3, <2>4 DEF at, met
<1>4. PICK n \in B : \A j \in B : n <= j
  <2> HIDE DEF B
  <2>1. B \in SUBSET Nat
    BY DEF B
  <2> QED BY <1>3, <2>1, LeastNatural
<1>5. n \in Nat /\ n <= HeapSize /\ ~ Good(n)
  BY <1>4
<1>6. n # 0
  <2>1. Good(0)
    BY <1>1, <1>2
  <2> QED BY <1>5, <2>1
<1> DEFINE k == n - 1
<1>7. k \in 0..HeapSize-1 /\ k \in Nat /\ k <= HeapSize /\ k \notin B /\ n = k + 1
  BY <1>4, <1>5, <1>6, BigNat
<1>8. Good(k)
  BY <1>7
<1>9. g[n] = Look(g[k], k, step)
  BY <1>1, <1>7
<1>10. /\ at(k) = k => at(n) = step[k] /\ met(n) = met(k) \cup {k}
       /\ at(k) # k => at(n) = at(k) /\ met(n) = met(k)
  BY <1>9 DEF Look
<1> HIDE DEF k, at, met
<1>11. CASE at(k) = k
  <2>1. k \in C
    <3>1. k \in Addr
      BY <1>7 DEF Addr
    <3> QED BY <1>8, <1>11, <3>1 DEF IsFrom
  <2>2. at(n) = step[k] /\ met(n) = met(k) \cup {k}
    BY <1>11, <1>10
  <2>3. IsFrom(C, n, at(n), e)
    BY <1>7, <2>1, <2>2
  <2>4. ASSUME NEW a PROVE a \in met(n) <=> a \in C /\ a < n
    <3>1. a \in met(k) <=> a \in C /\ a < k
      BY <1>8
    <3>2. a \in C => (a < n <=> a < k \/ a = k)
      BY <1>2, <1>7
    <3> QED BY <1>7, <2>1, <2>2, <3>1, <3>2
  <2> QED BY <1>5, <2>3, <2>4
<1>12. CASE at(k) # k
  <2>1. at(n) = at(k) /\ met(n) = met(k)
    BY <1>12, <1>10
  <2>2. k \notin C
    BY <1>2, <1>7, <1>8, <1>12 DEF IsFrom
  <2>3. IsFrom(C, n, at(n), e)
    <3>1. CASE at(k) \in C /\ k <= at(k) /\ \A b \in C : k <= b => at(k) <= b
      <4>1. n <= at(k)
        BY <1>2, <1>7, <1>12, <3>1
      <4>2. \A b \in C : n <= b => at(k) <= b
        BY <1>2, <1>7, <3>1
      <4> QED BY <2>1, <3>1, <4>1, <4>2 DEF IsFrom
    <3>2. CASE at(k) = e /\ \A b \in C : b < k
      BY <1>2, <1>7, <2>1, <3>2 DEF IsFrom
    <3> QED BY <1>8, <3>1, <3>2 DEF IsFrom
  <2>4. \A a : a \in met(n) <=> a \in C /\ a < n
    BY <1>2, <1>7, <1>8, <2>1, <2>2
  <2> QED BY <1>5, <2>3, <2>4
<1> QED BY <1>11, <1>12

-----------------------------------------------------------------------------
(* Lists *)

(* The null pointer is no address, and no mapping is in the heap. *)
LEMMA NullNowhere ==
  /\ Null \notin Int /\ Null \notin Addr /\ Null \notin MmapIds
  /\ Addr \subseteq Nat /\ MmapIds \cap Addr = {}
<1>1. Addr \subseteq Nat /\ Addr \subseteq Int
  BY BigNat DEF Addr
<1>2. Null \notin Int /\ MmapIds \cap Int = {} /\ Null \notin MmapIds
  BY BuddyAssumption
<1>3. MmapIds \cap Addr = {} /\ Null \notin Addr
  BY <1>1, <1>2
<1> QED BY <1>1, <1>2, <1>3

(* fl_remove writes addresses or null into the links. *)
LEMMA UnlinkedTypes ==
  ASSUME NEW m \in Addr, NEW nx \in [Addr -> Links], NEW pv \in [Addr -> Links]
  PROVE  Unlinked(m, nx, pv) \in [Addr -> Links]
BY DEF Unlinked, Links

(* fl_remove of a block without links leaves all links alone. *)
LEMMA UnlinkedNothing ==
  ASSUME NEW m \in Addr, NEW nx \in [Addr -> Links], NEW pv,
         nx[m] = Null, pv[m] = Null
  PROVE  Unlinked(m, nx, pv) = nx
<1>1. \A a \in Addr : a # Null
  BY NullNowhere
<1> QED BY <1>1 DEF Unlinked

(* fl_remove of the first block of a list. *)
LEMMA ChainRemoveFirst ==
  ASSUME NEW C \in SUBSET Addr, NEW m \in C, NEW nx \in [Addr -> Links], NEW pv \in [Addr -> Links],
         ChainOf(C, m, nx, pv)
  PROVE  /\ pv[m] = Null
         /\ ChainOf(C \ {m}, nx[m], Unlinked(m, nx, pv), Unlinked(m, pv, nx))
<1> DEFINE D == C \ {m}
           n2 == Unlinked(m, nx, pv)
           p2 == Unlinked(m, pv, nx)
<1>1. \A a \in C : a \in Nat /\ a # Null /\ a \in Addr
  BY NullNowhere
<1>2. /\ IsFrom(C, 0, m, Null)
      /\ \A a \in C :
           /\ IsFrom(C, a + 1, nx[a], Null)
           /\ nx[a] # Null => pv[nx[a]] = a
           /\ pv[a] # Null => pv[a] \in C /\ nx[pv[a]] = a
      /\ \A a \in Addr \ C : nx[a] = Null /\ pv[a] = Null
  BY DEF ChainOf
<1>3. \A b \in C : m <= b
  BY <1>1, <1>2 DEF IsFrom
<1>4. pv[m] = Null
  <2>1. SUFFICES ASSUME pv[m] # Null PROVE FALSE
    OBVIOUS
  <2>2. PICK b \in C : b = pv[m] /\ nx[b] = m
    BY <1>2, <2>1
  <2>3. IsFrom(C, b + 1, m, Null)
    BY <1>2, <2>2
  <2>4. b + 1 <= m
    BY <1>1, <2>3 DEF IsFrom
  <2> QED BY <1>1, <1>3, <2>4
<1>5. \A a \in Addr : n2[a] = IF a = m THEN Null ELSE nx[a]
  BY <1>1, <1>4, NullNowhere DEF Unlinked
<1>6. \A a \in Addr : p2[a] = IF a = m THEN Null ELSE IF a = nx[m] THEN Null ELSE pv[a]
  BY <1>4 DEF Unlinked
<1> HIDE DEF n2, p2
<1>7. IsFrom(D, 0, nx[m], Null)
  BY <1>1, <1>2, <1>3 DEF IsFrom
<1>8. ASSUME NEW a \in D
      PROVE  /\ IsFrom(D, a + 1, n2[a], Null)
             /\ n2[a] # Null => p2[n2[a]] = a
             /\ p2[a] # Null => p2[a] \in D /\ n2[p2[a]] = a
  <2>1. a \in Addr /\ n2[a] = nx[a] /\ m < a
    BY <1>1, <1>3, <1>5
  <2>2. IsFrom(D, a + 1, n2[a], Null)
    <3>1. IsFrom(C, a + 1, nx[a], Null)
      BY <1>2
    <3> QED BY <1>1, <2>1, <3>1 DEF IsFrom
  <2>3. ASSUME n2[a] # Null PROVE p2[n2[a]] = a
    <3>1. nx[a] \in D /\ pv[nx[a]] = a /\ nx[a] \in Addr
      BY <1>1, <1>2, <2>1, <2>2, <2>3 DEF IsFrom
    <3>2. nx[a] # nx[m]
      <4>1. SUFFICES ASSUME nx[a] = nx[m] PROVE FALSE
        OBVIOUS
      <4>2. pv[nx[m]] = m
        BY <1>2, <2>1, <2>3, <4>1
      <4> QED BY <1>1, <2>1, <3>1, <4>1, <4>2
    <3> QED BY <1>6, <2>1, <3>1, <3>2
  <2>4. ASSUME p2[a] # Null PROVE p2[a] \in D /\ n2[p2[a]] = a
    <3>1. p2[a] = pv[a] /\ a # nx[m]
      BY <1>6, <2>1, <2>4
    <3>2. pv[a] \in C /\ nx[pv[a]] = a
      BY <1>2, <2>4, <3>1
    <3>3. pv[a] # m
      BY <3>1, <3>2
    <3> QED BY <1>1, <1>5, <3>1, <3>2, <3>3
  <2> QED BY <2>2, <2>3, <2>4
<1>9. ASSUME NEW a \in Addr \ D PROVE n2[a] = Null /\ p2[a] = Null
  BY <1>2, <1>5, <1>6
<1> QED BY <1>4, <1>7, <1>8, <1>9 DEF ChainOf, n2, p2

(* The links after fl_insert: m before all others, or after cur. *)
NextFirst(m, first, nx) == [nx EXCEPT ![m] = first]
PrevFirst(m, first, pv) == [a \in Addr |-> IF a = m THEN Null ELSE IF a = first THEN m ELSE pv[a]]
NextAfter(m, cur, nx) == [nx EXCEPT ![m] = nx[cur], ![cur] = m]
PrevAfter(m, cur, nx, pv) ==
  [a \in Addr |-> IF a = m THEN cur ELSE IF a = nx[cur] THEN m ELSE pv[a]]

(* fl_insert before the first block of a list. *)
LEMMA ChainInsertFirst ==
  ASSUME NEW C \in SUBSET Addr, NEW m \in Addr, m \notin C, NEW first \in Links, first \notin 0..m,
         NEW nx \in [Addr -> Links], NEW pv \in [Addr -> Links], ChainOf(C, first, nx, pv)
  PROVE  ChainOf(C \cup {m}, m, NextFirst(m, first, nx), PrevFirst(m, first, pv))
<1> DEFINE D == C \cup {m}
           n2 == NextFirst(m, first, nx)
           p2 == PrevFirst(m, first, pv)
<1>1. \A a \in Addr : a \in Nat /\ a # Null
  BY NullNowhere
<1>2. /\ IsFrom(C, 0, first, Null)
      /\ \A a \in C :
           /\ IsFrom(C, a + 1, nx[a], Null)
           /\ nx[a] # Null => pv[nx[a]] = a
           /\ pv[a] # Null => pv[a] \in C /\ nx[pv[a]] = a
      /\ \A a \in Addr \ C : nx[a] = Null /\ pv[a] = Null
  BY DEF ChainOf
<1>3. ASSUME NEW b \in C PROVE m < b
  <2>1. CASE first = Null
    BY <1>1, <1>2, <1>3, <2>1 DEF IsFrom
  <2>2. CASE first # Null
    <3>1. first \in C /\ first <= b /\ first \in Nat
      BY <1>1, <1>2, <1>3, <2>2 DEF IsFrom
    <3> QED BY <1>1, <1>3, <3>1
  <2> QED BY <2>1, <2>2
<1>4. /\ \A a \in Addr : n2[a] = IF a = m THEN first ELSE nx[a]
      /\ \A a \in Addr : p2[a] = IF a = m THEN Null ELSE IF a = first THEN m ELSE pv[a]
  BY DEF NextFirst, PrevFirst
<1> HIDE DEF n2, p2
<1>5. IsFrom(D, 0, m, Null)
  BY <1>1, <1>3 DEF IsFrom
<1>6. /\ IsFrom(D, m + 1, n2[m], Null)
      /\ n2[m] # Null => p2[n2[m]] = m
      /\ p2[m] = Null
  <2>1. IsFrom(D, m + 1, first, Null)
    <3>1. CASE first = Null /\ \A b \in C : b < 0
      BY <1>1, <3>1 DEF IsFrom
    <3>2. CASE first \in C /\ \A b \in C : 0 <= b => first <= b
      <4>1. m < first
        BY <1>3, <3>2
      <4>2. first \in D /\ m + 1 <= first /\ \A b \in D : m + 1 <= b => first <= b
        BY <1>1, <3>2, <4>1
      <4> QED BY <4>2 DEF IsFrom
    <3> QED BY <1>2, <3>1, <3>2 DEF IsFrom
  <2>2. first # Null => first \in Addr /\ first # m
    BY <1>1 DEF Links
  <2> QED BY <1>4, <2>1, <2>2
<1>7. ASSUME NEW a \in C
      PROVE  /\ IsFrom(D, a + 1, n2[a], Null)
             /\ n2[a] # Null => p2[n2[a]] = a
             /\ p2[a] # Null => p2[a] \in D /\ n2[p2[a]] = a
  <2>1. a \in Addr /\ a # m /\ m < a /\ n2[a] = nx[a]
    BY <1>3, <1>4
  <2>2. IsFrom(C, a + 1, nx[a], Null)
    BY <1>2
  <2>3. IsFrom(D, a + 1, n2[a], Null)
    BY <1>1, <2>1, <2>2 DEF IsFrom
  <2>4. ASSUME n2[a] # Null PROVE p2[n2[a]] = a
    <3>1. nx[a] \in C /\ a < nx[a] /\ pv[nx[a]] = a /\ nx[a] \in Addr
      BY <1>1, <1>2, <2>1, <2>2, <2>4 DEF IsFrom
    <3>2. nx[a] # first
      BY <1>1, <1>2, <2>1, <3>1 DEF IsFrom
    <3> QED BY <1>4, <2>1, <3>1, <3>2
  <2>5. ASSUME p2[a] # Null PROVE p2[a] \in D /\ n2[p2[a]] = a
    <3>1. CASE a = first
      BY <1>4, <2>1, <3>1
    <3>2. CASE a # first
      <4>1. p2[a] = pv[a] /\ pv[a] \in C /\ nx[pv[a]] = a
        BY <1>2, <1>4, <2>1, <2>5, <3>2
      <4> QED BY <1>4, <4>1
    <3> QED BY <3>1, <3>2
  <2> QED BY <2>3, <2>4, <2>5
<1>8. ASSUME NEW a \in Addr \ D PROVE n2[a] = Null /\ p2[a] = Null
  <2>1. a # first
    BY <1>1, <1>2 DEF IsFrom
  <2> QED BY <1>2, <1>4, <2>1
<1>9. \A a \in D : /\ IsFrom(D, a + 1, n2[a], Null)
                   /\ n2[a] # Null => p2[n2[a]] = a
                   /\ p2[a] # Null => p2[a] \in D /\ n2[p2[a]] = a
  BY <1>6, <1>7
<1> QED BY <1>5, <1>8, <1>9 DEF ChainOf, n2, p2

(* fl_insert after a block of the list. *)
LEMMA ChainInsertAfter ==
  ASSUME NEW C \in SUBSET Addr, NEW m \in Addr, m \notin C, NEW first, NEW cur \in C, cur < m,
         NEW nx \in [Addr -> Links], NEW pv \in [Addr -> Links], ChainOf(C, first, nx, pv),
         nx[cur] \notin 0..(m - 1)
  PROVE  ChainOf(C \cup {m}, first, NextAfter(m, cur, nx), PrevAfter(m, cur, nx, pv))
<1> DEFINE D == C \cup {m}
           succ == nx[cur]
           n2 == NextAfter(m, cur, nx)
           p2 == PrevAfter(m, cur, nx, pv)
<1>1. \A a \in Addr : a \in Nat /\ a # Null
  BY NullNowhere
<1>2. /\ IsFrom(C, 0, first, Null)
      /\ \A a \in C :
           /\ IsFrom(C, a + 1, nx[a], Null)
           /\ nx[a] # Null => pv[nx[a]] = a
           /\ pv[a] # Null => pv[a] \in C /\ nx[pv[a]] = a
      /\ \A a \in Addr \ C : nx[a] = Null /\ pv[a] = Null
  BY DEF ChainOf
<1>3. cur \in Addr /\ cur # m /\ succ \in Links
  OBVIOUS
<1>4. /\ \A a \in Addr : n2[a] = IF a = cur THEN m ELSE IF a = m THEN succ ELSE nx[a]
      /\ \A a \in Addr : p2[a] = IF a = m THEN cur ELSE IF a = succ THEN m ELSE pv[a]
  BY <1>3 DEF NextAfter, PrevAfter
<1>5. IsFrom(C, cur + 1, succ, Null)
  BY <1>2
<1> HIDE DEF n2, p2, succ
<1>6. ASSUME NEW b \in C PROVE b <= cur \/ (m < b /\ succ \in C /\ succ <= b)
  <2>1. CASE succ = Null /\ \A c \in C : c < cur + 1
    BY <1>1, <1>3, <1>6, <2>1
  <2>2. CASE succ \in C /\ cur + 1 <= succ /\ \A c \in C : cur + 1 <= c => succ <= c
    <3>1. m < succ
      BY <1>1, <2>2 DEF succ
    <3> QED BY <1>1, <1>3, <1>6, <2>2, <3>1
  <2> QED BY <1>5, <2>1, <2>2 DEF IsFrom
<1>7. succ # Null => succ \in C /\ m < succ /\ pv[succ] = cur
  <2>1. SUFFICES ASSUME succ # Null PROVE succ \in C /\ m < succ /\ pv[succ] = cur
    OBVIOUS
  <2>2. succ \in C /\ cur + 1 <= succ
    BY <1>5, <2>1 DEF IsFrom
  <2>3. pv[succ] = cur
    BY <1>2, <2>1 DEF succ
  <2> QED BY <1>1, <1>3, <1>6, <2>2, <2>3
<1>8. IsFrom(D, 0, first, Null)
  <2>1. first \in C /\ 0 <= first /\ \A b \in C : 0 <= b => first <= b
    BY <1>1, <1>2 DEF IsFrom
  <2>2. first <= m
    BY <1>1, <1>3, <2>1
  <2>3. first \in D /\ 0 <= first /\ \A b \in D : 0 <= b => first <= b
    BY <2>1, <2>2
  <2> QED BY <2>3 DEF IsFrom
<1>9. ASSUME NEW a \in D PROVE IsFrom(D, a + 1, n2[a], Null)
  <2>1. CASE a = cur
    <3>1. n2[a] = m /\ a + 1 <= m /\ \A b \in D : a + 1 <= b => m <= b
      BY <1>1, <1>3, <1>4, <1>6, <2>1
    <3> QED BY <3>1 DEF IsFrom
  <2>2. CASE a = m
    <3>1. n2[a] = succ
      BY <1>3, <1>4, <2>2
    <3>2. CASE succ = Null
      <4>1. \A b \in D : b < a + 1
        BY <1>1, <1>3, <1>6, <2>2, <3>2
      <4> QED BY <3>1, <3>2, <4>1 DEF IsFrom
    <3>3. CASE succ # Null
      <4>1. succ \in D /\ a + 1 <= succ /\ \A b \in D : a + 1 <= b => succ <= b
        BY <1>1, <1>3, <1>6, <1>7, <2>2, <3>3
      <4> QED BY <3>1, <4>1 DEF IsFrom
    <3> QED BY <3>2, <3>3
  <2>3. CASE a # cur /\ a # m
    <3>1. a \in C /\ a \in Addr /\ n2[a] = nx[a] /\ IsFrom(C, a + 1, nx[a], Null)
      BY <1>2, <1>4, <2>3
    <3>2. CASE a < cur
      <4>1. nx[a] \in C /\ a + 1 <= nx[a] /\ nx[a] <= cur /\ \A b \in C : a + 1 <= b => nx[a] <= b
        BY <1>1, <1>3, <3>1, <3>2 DEF IsFrom
      <4>2. \A b \in D : a + 1 <= b => nx[a] <= b
        BY <1>1, <1>3, <4>1
      <4> QED BY <3>1, <4>1, <4>2 DEF IsFrom
    <3>3. CASE a > cur
      <4>1. m < a
        BY <1>1, <1>3, <1>6, <3>1, <3>3
      <4> QED BY <1>1, <3>1, <4>1 DEF IsFrom
    <3> QED BY <1>1, <1>3, <2>3, <3>1, <3>2, <3>3
  <2> QED BY <2>1, <2>2, <2>3
<1>10. ASSUME NEW a \in D, n2[a] # Null PROVE p2[n2[a]] = a
  <2>1. CASE a = cur
    BY <1>3, <1>4, <2>1
  <2>2. CASE a = m
    BY <1>1, <1>3, <1>4, <1>7, <1>10, <2>2
  <2>3. CASE a # cur /\ a # m
    <3>1. a \in C /\ a \in Addr /\ n2[a] = nx[a] /\ IsFrom(C, a + 1, nx[a], Null) /\ pv[nx[a]] = a
      BY <1>2, <1>4, <1>10, <2>3
    <3>2. nx[a] \in C
      BY <1>10, <3>1 DEF IsFrom
    <3>3. nx[a] # m /\ nx[a] # succ /\ nx[a] \in Addr
      BY <1>1, <1>7, <2>3, <3>1, <3>2
    <3> QED BY <1>4, <3>1, <3>3
  <2> QED BY <2>1, <2>2, <2>3
<1>11. ASSUME NEW a \in D, p2[a] # Null PROVE p2[a] \in D /\ n2[p2[a]] = a
  <2>1. CASE a = m
    BY <1>3, <1>4, <2>1
  <2>2. CASE a # m /\ a = succ
    BY <1>3, <1>4, <2>2
  <2>3. CASE a # m /\ a # succ
    <3>1. a \in C /\ p2[a] = pv[a] /\ pv[a] \in C /\ nx[pv[a]] = a
      BY <1>2, <1>4, <1>11, <2>3
    <3>2. pv[a] # cur
      BY <2>3, <3>1 DEF succ
    <3> QED BY <1>4, <3>1, <3>2
  <2> QED BY <2>1, <2>2, <2>3
<1>12. ASSUME NEW a \in Addr \ D PROVE n2[a] = Null /\ p2[a] = Null
  <2>1. a # succ /\ a # cur /\ a # m
    BY <1>1, <1>7
  <2> QED BY <1>2, <1>4, <2>1
<1> QED BY <1>8, <1>9, <1>10, <1>11, <1>12 DEF ChainOf, n2, p2, succ

-----------------------------------------------------------------------------
(* The steps preserve the invariant *)

(* Steps that leave the heap alone and run no call on it. *)
LEMMA QuietStep ==
  ASSUME FullHeap, UNCHANGED <<free_lists, heap>>, Held' = Held, initialized' = initialized,
         pc \in {"idle", "alloc"}, pc' \in {"idle", "alloc"}
  PROVE  FullHeap'
<1>1. OnList' = OnList /\ Working' = {} /\ Working = {}
  BY DEF OnList, Working, heap
<1>2. Layout' /\ Chain'
  BY <1>1 DEF FullHeap, Layout, LayoutOf, Chain, heap
<1>3. LowerLists' /\ Owners'
  BY <1>1 DEF FullHeap, LowerLists, Owners
<1> QED BY <1>2, <1>3 DEF FullHeap, Splitting, Inserting, Merging, Growing

(* A step before buddy_init that leaves the heap alone. *)
LEMMA QuietEmpty ==
  ASSUME EmptyHeap, UNCHANGED <<free_lists, heap>>, Held' = {}, pc' \in {"idle", "init", "alloc"}
  PROVE  EmptyHeap'
BY DEF EmptyHeap, heap

(* Steps that start to free a block of the heap. *)
LEMMA ReleaseStep ==
  ASSUME FullHeap, UNCHANGED <<free_lists, heap>>, NEW p \in Held, Held' = Held \ {p},
         initialized' = initialized, pc \in {"idle", "alloc"}, pc' = "merge",
         call'.m = p, call'.ord = GetOrder(p)
  PROVE  FullHeap'
<1>1. OnList' = OnList /\ Working' = {p} /\ Working = {}
  BY DEF OnList, Working, heap
<1>2. Layout' /\ Chain'
  BY <1>1 DEF FullHeap, Layout, LayoutOf, Chain, heap
<1>3. LowerLists' /\ Owners'
  BY <1>1 DEF FullHeap, LowerLists, Owners
<1>4. Merging'
  <2>1. p \in Bases
    BY DEF FullHeap, Owners
  <2>2. PICK o \in Orders : size[p] = BlockSize(o)
    BY <2>1 DEF FullHeap, Layout, LayoutOf
  <2>3. GetOrder(p) = o
    BY <2>2, GetOrderIs
  <2> QED BY <2>1, <2>2, <2>3 DEF Merging, heap
<1> QED BY <1>2, <1>3, <1>4 DEF FullHeap, Splitting, Inserting, Growing

(* The registers between calls have the types of registers. *)
LEMMA NoCallTyped == NoCall \in Calls
BY BigNat DEF NoCall, Calls, Orders, Links, Pointers

(* smalloc, scalloc and srealloc up to their calls of buddy_init *)
LEMMA BeginStep ==
  ASSUME HeapInv, NEW total \in Nat, NEW want \in Nat, NEW huge \in BOOLEAN,
         NEW old \in DOMAIN live \cup {Null}, Begin(total, want, huge, old)
  PROVE  HeapInv'
<1>1. Types
  BY DEF HeapInv
<1>2. Types'
  <2>1. SizeToOrder(total) \in Orders
    BY SizeToOrderIn
  <2>2. call' \in Calls /\ call'.total = total /\ call'.old = old /\ call'.cur = Null
    <3> DEFINE h == hugepages /\ huge
    <3>1. h \in BOOLEAN
      OBVIOUS
    <3>2. call' = [NoCall EXCEPT !.want = want, !.total = total, !.old = old,
                                 !.huge = h, !.target = SizeToOrder(total)]
      BY DEF Begin
    <3> HIDE DEF h
    <3>3. old \in Pointers \cup {Null} /\ total \in Int
      BY <1>1 DEF Types
    <3> QED BY <2>1, <3>1, <3>2, <3>3, NoCallTyped DEF Calls, NoCall
  <2> QED BY <1>1, <2>2 DEF Types, Begin, setup, heap
<1>3. Held' = Held
  BY DEF Begin, Held
<1>4. CASE EmptyHeap
  <2>1. EmptyHeap'
    BY <1>3, <1>4, QuietEmpty DEF Begin, EmptyHeap
  <2> QED BY <1>2, <2>1 DEF HeapInv
<1>5. CASE FullHeap
  <2>1. FullHeap'
    BY <1>3, <1>5, QuietStep DEF Begin, FullHeap, setup
  <2> QED BY <1>2, <2>1 DEF HeapInv
<1> QED BY <1>4, <1>5 DEF HeapInv

(* A call that returns nullptr preserves the invariant. *)
LEMMA ReturnNullStep ==
  ASSUME HeapInv, ReturnNull, UNCHANGED <<setup, free_lists, heap>>, pc = "alloc"
  PROVE  HeapInv'
<1>1. Types
  BY DEF HeapInv
<1>2. Types'
  BY <1>1, NoCallTyped DEF Types, ReturnNull, setup, heap, NoCall
<1>3. Held' = Held
  BY DEF ReturnNull, Held
<1>4. CASE EmptyHeap
  <2>1. EmptyHeap'
    BY <1>3, <1>4, QuietEmpty DEF ReturnNull, EmptyHeap
  <2> QED BY <1>2, <2>1 DEF HeapInv
<1>5. CASE FullHeap
  <2>1. FullHeap'
    BY <1>3, <1>5, QuietStep DEF ReturnNull, setup
  <2> QED BY <1>2, <2>1 DEF HeapInv
<1> QED BY <1>4, <1>5 DEF HeapInv

(* A block the program holds starts at a base and has a size. *)
LEMMA HeldAreBases ==
  ASSUME HeapInv, NEW p \in Held
  PROVE  FullHeap /\ p \in Bases /\ GetOrder(p) \in Orders /\ size[p] = BlockSize(GetOrder(p))
<1>1. FullHeap
  BY DEF HeapInv, EmptyHeap
<1>2. p \in Bases
  BY <1>1 DEF FullHeap, Owners
<1>3. PICK o \in Orders : size[p] = BlockSize(o)
  BY <1>1, <1>2 DEF FullHeap, Layout, LayoutOf
<1>4. GetOrder(p) = o
  BY <1>3, GetOrderIs
<1> QED BY <1>1, <1>2, <1>3, <1>4

(* The registers sfree hands to buddy_free_and_merge. *)
LEMMA MergeCallTyped ==
  ASSUME NEW p \in Addr, NEW o \in Orders
  PROVE  LET c == [NoCall EXCEPT !.m = p, !.ord = o]
         IN  c \in Calls /\ c.m = p /\ c.ord = o /\ c.old = Null /\ c.cur = Null
BY NoCallTyped DEF Calls, Links, NoCall

(* smalloc returns a mapping. *)
LEMMA ReturnMappingStep ==
  ASSUME HeapInv, pc = "alloc", NEW i \in MmapIds, NEW mm, NEW k, Return(i, mm, k),
         UNCHANGED <<setup, free_lists, heap>>
  PROVE  HeapInv'
<1> DEFINE old == call.old
<1>1. Types /\ old \in DOMAIN live \cup {Null}
  BY DEF HeapInv, Types
<1>2. DOMAIN live' = (DOMAIN live \ {old}) \cup {i}
  BY DEF Return, Given
<1>3. DOMAIN live' \subseteq Pointers
  BY <1>1, <1>2 DEF Types, Pointers
<1>4. Held' = Held \ {old}
  BY <1>2, NullNowhere DEF Held
<1>5. CASE old \in Addr
  <2>1. old \in Held
    BY <1>1, <1>5, NullNowhere DEF Held
  <2>2. FullHeap /\ GetOrder(old) \in Orders
    BY <2>1, HeldAreBases
  <2>3. pc' = "merge" /\ call' = [NoCall EXCEPT !.m = old, !.ord = GetOrder(old)]
    BY <1>5 DEF Return
  <2>4. call' \in Calls /\ call'.m = old /\ call'.ord = GetOrder(old) /\ call'.old = Null
        /\ call'.cur = Null
    BY <1>5, <2>2, <2>3, MergeCallTyped
  <2>5. Types'
    BY <1>1, <1>3, <2>3, <2>4 DEF Types, setup, heap
  <2>6. FullHeap'
    <3> HIDE DEF old
    <3> QED BY <1>4, <2>1, <2>2, <2>3, <2>4, ReleaseStep DEF setup
  <2> QED BY <2>5, <2>6 DEF HeapInv
<1>6. CASE old \notin Addr
  <2>1. Held' = Held
    BY <1>4, <1>6 DEF Held
  <2>2. pc' = "idle" /\ call' = NoCall
    BY <1>6 DEF Return
  <2>3. Types'
    BY <1>1, <1>3, <2>2, NoCallTyped DEF Types, setup, heap, NoCall
  <2>4. CASE EmptyHeap
    <3>1. EmptyHeap'
      BY <2>1, <2>2, <2>4, QuietEmpty DEF EmptyHeap
    <3> QED BY <2>3, <3>1 DEF HeapInv
  <2>5. CASE FullHeap
    <3>1. FullHeap'
      BY <2>1, <2>2, <2>5, QuietStep DEF setup
    <3> QED BY <2>3, <3>1 DEF HeapInv
  <2> QED BY <2>4, <2>5 DEF HeapInv
<1> QED BY <1>5, <1>6

(* mmap_alloc_internal leaves the heap as it is. *)
LEMMA MmapAllocStep ==
  ASSUME HeapInv, MmapAlloc
  PROVE  HeapInv'
<1>1. pc = "alloc" /\ UNCHANGED <<setup, free_lists, heap>>
  BY DEF MmapAlloc
<1>2. CASE ReturnNull
  BY <1>1, <1>2, ReturnNullStep
<1>3. CASE \E mm, k : \E i \in MmapIds : Return(i, mm, k)
  BY <1>1, <1>3, ReturnMappingStep
<1> QED BY <1>2, <1>3 DEF MmapAlloc

(* sfree hands the block over to buddy_free_and_merge. *)
LEMMA SfreeStep ==
  ASSUME HeapInv, NEW p \in DOMAIN live, Sfree(p)
  PROVE  HeapInv'
<1>1. Types /\ p \in Pointers /\ pc = "idle"
  BY DEF HeapInv, Types, Sfree
<1>2. DOMAIN live' = DOMAIN live \ {p} /\ DOMAIN live' \subseteq Pointers
  BY <1>1 DEF Sfree, Types
<1>3. Held' = Held \ {p}
  BY <1>2 DEF Held
<1>4. call = NoCall
  BY <1>1 DEF Types
<1>5. CASE p \in MmapIds
  <2>1. Held' = Held /\ UNCHANGED <<pc, call>>
    BY <1>3, <1>5, NullNowhere DEF Held, Sfree
  <2>2. Types'
    BY <1>1, <1>2, <1>4, <2>1 DEF Types, Sfree, setup, heap, NoCall
  <2>3. CASE EmptyHeap
    <3>1. EmptyHeap'
      BY <1>1, <2>1, <2>3, QuietEmpty DEF EmptyHeap, Sfree
    <3> QED BY <2>2, <3>1 DEF HeapInv
  <2>4. CASE FullHeap
    <3>1. FullHeap'
      BY <1>1, <2>1, <2>4, QuietStep DEF Sfree, setup
    <3> QED BY <2>2, <3>1 DEF HeapInv
  <2> QED BY <2>3, <2>4 DEF HeapInv
<1>6. CASE p \notin MmapIds
  <2>1. p \in Held /\ p \in Addr
    BY <1>1, <1>6 DEF Held, Pointers
  <2>2. FullHeap /\ GetOrder(p) \in Orders
    BY <2>1, HeldAreBases
  <2>3. pc' = "merge" /\ call' = [NoCall EXCEPT !.m = p, !.ord = GetOrder(p)]
    BY <1>6 DEF Sfree
  <2>4. call' \in Calls /\ call'.m = p /\ call'.ord = GetOrder(p) /\ call'.old = Null
        /\ call'.cur = Null
    BY <2>1, <2>2, <2>3, MergeCallTyped
  <2>5. Types'
    BY <1>1, <1>2, <2>3, <2>4 DEF Types, Sfree, setup, heap
  <2>6. FullHeap'
    BY <1>1, <1>3, <2>1, <2>2, <2>3, <2>4, ReleaseStep DEF setup, Sfree
  <2> QED BY <2>5, <2>6 DEF HeapInv
<1> QED BY <1>5, <1>6

(* srealloc within the old block leaves the heap as it is. *)
LEMMA SreallocInPlaceStep ==
  ASSUME HeapInv, NEW p \in DOMAIN live, NEW s, SreallocInPlace(p, s)
  PROVE  HeapInv'
<1>1. Types /\ pc = "idle" /\ UNCHANGED <<setup, free_lists, heap, pc, call>>
  BY DEF HeapInv, SreallocInPlace
<1>2. DOMAIN live' = DOMAIN live
  BY DEF SreallocInPlace, Given
<1>3. Held' = Held
  BY <1>2 DEF Held
<1>4. Types'
  BY <1>1, <1>2 DEF Types, setup, heap
<1>5. CASE EmptyHeap
  <2>1. EmptyHeap'
    BY <1>1, <1>3, <1>5, QuietEmpty DEF EmptyHeap
  <2> QED BY <1>4, <2>1 DEF HeapInv
<1>6. CASE FullHeap
  <2>1. FullHeap'
    BY <1>1, <1>3, <1>6, QuietStep DEF setup
  <2> QED BY <1>4, <2>1 DEF HeapInv
<1> QED BY <1>5, <1>6 DEF HeapInv

(* buddy_init links its blocks into one list. *)
LEMMA InitChain ==
  ASSUME NEW nx, NEW pv,
         nx = [a \in Addr |-> IF a \in Bases /\ a + Big \in Addr THEN a + Big ELSE Null],
         pv = [a \in Addr |-> IF a \in Bases \ {0} THEN a - Big ELSE Null]
  PROVE  ChainOf(Bases, 0, nx, pv)
<1>1. \A a \in Bases : a \in Addr /\ a \in Nat /\ (a + Big = HeapSize \/ a + Big \in Bases)
  BY BaseFacts
<1>2. HeapSize \notin Addr /\ Big \in Nat /\ Big > 0 /\ HeapSize \in Nat
  BY BigNat DEF Addr
<1>3. IsFrom(Bases, 0, 0, Null)
  BY <1>1, BaseFacts DEF IsFrom
<1>4. ASSUME NEW a \in Bases
      PROVE  /\ IsFrom(Bases, a + 1, nx[a], Null)
             /\ nx[a] # Null => pv[nx[a]] = a
             /\ pv[a] # Null => pv[a] \in Bases /\ nx[pv[a]] = a
  <2>1. a \in Addr /\ a \in Nat
    BY <1>1
  <2>2. pv[a] # Null => pv[a] \in Bases /\ nx[pv[a]] = a
    <3>1. SUFFICES ASSUME pv[a] # Null PROVE pv[a] \in Bases /\ nx[pv[a]] = a
      OBVIOUS
    <3>2. a # 0 /\ pv[a] = a - Big
      BY <2>1, <3>1
    <3>3. a - Big \in Bases /\ a - Big \in Addr /\ (a - Big) + Big = a
      BY <1>1, <1>2, <2>1, <3>2, BaseFacts
    <3> QED BY <2>1, <3>2, <3>3
  <2>3. CASE a + Big \in Bases
    <3>1. nx[a] = a + Big /\ a + Big \in Addr
      BY <1>1, <2>1, <2>3
    <3>2. \A b \in Bases : a + 1 <= b => a + Big <= b
      BY <1>1, <1>2, BaseFacts
    <3>3. IsFrom(Bases, a + 1, nx[a], Null)
      BY <1>2, <2>1, <2>3, <3>1, <3>2 DEF IsFrom
    <3>4. pv[a + Big] = a
      <4>1. a + Big # 0 /\ (a + Big) - Big = a
        BY <1>2, <2>1
      <4> QED BY <2>3, <3>1, <4>1
    <3> QED BY <2>2, <3>1, <3>3, <3>4
  <2>4. CASE a + Big = HeapSize
    <3>1. nx[a] = Null
      BY <1>2, <2>1, <2>4
    <3>2. \A b \in Bases : b < a + 1
      <4>1. ASSUME NEW b \in Bases, a < b PROVE FALSE
        <5>1. a + Big <= b /\ b + Big <= HeapSize /\ b \in Nat
          BY <4>1, BaseFacts
        <5> QED BY <1>2, <2>1, <2>4, <5>1
      <4> QED BY <1>1, <2>1, <4>1
    <3>3. IsFrom(Bases, a + 1, nx[a], Null)
      BY <3>1, <3>2 DEF IsFrom
    <3> QED BY <2>2, <3>1, <3>3
  <2> QED BY <1>1, <2>3, <2>4
<1>5. \A a \in Addr \ Bases : nx[a] = Null /\ pv[a] = Null
  OBVIOUS
<1> QED BY <1>3, <1>4, <1>5 DEF ChainOf

(* buddy_init turns the empty heap into a list of bases. *)
LEMMA BuddyInitStep ==
  ASSUME HeapInv, BuddyInit
  PROVE  HeapInv'
<1>1. Types /\ EmptyHeap /\ pc = "init" /\ Held = {}
  BY DEF HeapInv, FullHeap, BuddyInit, EmptyHeap
<1>2. pc' = "alloc" /\ initialized' = TRUE /\ UNCHANGED <<hugepages, maps, live, call>> /\ Held' = {}
  BY <1>1 DEF BuddyInit, Held
<1>3. CASE UNCHANGED <<free_lists, heap>>
  <2>1. Types'
    BY <1>1, <1>2, <1>3 DEF Types, heap
  <2>2. EmptyHeap'
    BY <1>1, <1>2, <1>3, QuietEmpty
  <2> QED BY <2>1, <2>2 DEF HeapInv
<1>4. CASE
        /\ free_lists' = [free_lists EXCEPT ![MaxOrder] = 0]
        /\ size' = [a \in Addr |-> IF a \in Bases THEN Big ELSE 0]
        /\ is_free' = [a \in Addr |-> a \in Bases]
        /\ next' = [a \in Addr |-> IF a \in Bases /\ a + Big \in Addr THEN a + Big ELSE Null]
        /\ prev' = [a \in Addr |-> IF a \in Bases \ {0} THEN a - Big ELSE Null]
  <2>1. Big \in Nat /\ Big > 0 /\ MaxOrder \in Orders /\ 0 \in Addr
    BY BigNat DEF Orders, Addr
  <2>2. free_lists' \in [Orders -> Links] /\ free_lists'[MaxOrder] = 0
    BY <1>1, <1>4, <2>1 DEF Types, Links
  <2>3. size' \in [Addr -> 0..Big] /\ is_free' \in [Addr -> BOOLEAN]
    BY <1>4, <2>1
  <2>4. next' \in [Addr -> Links] /\ prev' \in [Addr -> Links]
    <3>1. \A a \in Bases \ {0} : a - Big \in Addr
      BY BaseFacts
    <3> QED BY <1>4, <3>1 DEF Links
  <2>5. Types'
    BY <1>1, <1>2, <2>2, <2>3, <2>4 DEF Types
  <2>6. OnList' = Bases /\ Working' = {}
    BY <1>2, <1>4, BaseFacts DEF OnList, Working
  <2>7. Layout'
    <3>1. ASSUME NEW a \in Bases, NEW j \in 0..MaxOrder-1 PROVE BlockSize(j) < Big
      <4>1. j \in Orders /\ j < MaxOrder
        BY BigNat DEF Orders
      <4>2. 2 * BlockSize(j) <= Big /\ BlockSize(j) \in Nat /\ BlockSize(j) > 0
        BY <4>1, BaseAligned
      <4> QED BY <2>1, <4>2
    <3>2. \A a \in Bases : size'[a] = Big
      BY <1>4, BaseFacts
    <3>3. \A j \in 0..MaxOrder-1 : BlockSize(j) \in Nat
      BY BlockSizeNat, BigNat
    <3> QED BY <2>1, <3>1, <3>2, <3>3 DEF Layout, LayoutOf, Big
  <2>8. Chain'
    <3>1. ChainOf(Bases, 0, next', prev')
      BY <1>4, InitChain
    <3>2. \A a \in Bases : size'[a] = Big
      BY <1>4, BaseFacts
    <3> QED BY <2>2, <2>6, <3>1, <3>2 DEF Chain
  <2>9. LowerLists'
    <3>1. \A o \in 0..MaxOrder-1 : o \in Orders /\ o # MaxOrder
      BY BigNat DEF Orders
    <3> QED BY <1>1, <1>2, <1>4, <3>1 DEF LowerLists, EmptyHeap
  <2>10. Owners'
    BY <1>2, <2>6 DEF Owners
  <2>11. FullHeap'
    BY <1>2, <2>7, <2>8, <2>9, <2>10 DEF FullHeap, Splitting, Inserting, Merging, Growing
  <2> QED BY <2>5, <2>11 DEF HeapInv
<1>5. {i * BlockSize(MaxOrder) : i \in 0..InitialBlocks-1} = Bases
  BY DEF Bases, Big
<1> QED BY <1>3, <1>4, <1>5 DEF BuddyInit, Big

(* buddy_alloc finds a base, the first of the list of MAX_ORDER. *)
LEMMA BuddyFindStep ==
  ASSUME HeapInv, BuddyFind
  PROVE  HeapInv'
<1>1. Types /\ pc = "alloc" /\ UNCHANGED <<setup, free_lists, heap>>
  BY DEF HeapInv, BuddyFind
<1>2. CASE Candidates = {}
  <2>1. ReturnNull
    BY <1>2 DEF BuddyFind
  <2> QED BY <1>1, <2>1, ReturnNullStep
<1>3. CASE Candidates # {}
  <2> DEFINE o == Min(Candidates)
  <2>1. /\ pc' = "split" /\ UNCHANGED live
        /\ call' = [call EXCEPT !.ord = o, !.m = free_lists[o]]
    BY <1>3 DEF BuddyFind
  <2>2. MaxOrder \in Nat /\ call.target \in Nat /\ call.target <= MaxOrder /\ MaxOrder \in Orders
    BY <1>1, BigNat DEF Types, Calls, Orders
  <2>3. FullHeap
    <3>1. SUFFICES ASSUME EmptyHeap PROVE FALSE
      BY DEF HeapInv
    <3>2. \A k \in call.target..MaxOrder : k \in Orders
      BY <2>2 DEF Orders
    <3> QED BY <1>3, <3>1, <3>2 DEF EmptyHeap, Candidates
  <2>4. \A k \in Candidates : k = MaxOrder
    <3>1. \A k \in call.target..MaxOrder : k = MaxOrder \/ k \in 0..MaxOrder-1
      BY <2>2
    <3> QED BY <1>1, <2>3, <3>1 DEF Candidates, FullHeap, LowerLists
  <2>5. o = MaxOrder /\ free_lists[o] # Null
    <3>1. MaxOrder \in Candidates /\ Candidates \in SUBSET Nat
      BY <1>3, <2>2, <2>4
    <3>2. o \in Candidates
      BY <3>1, MinNatural
    <3> HIDE DEF o
    <3> QED BY <2>4, <3>2 DEF Candidates
  <2> HIDE DEF o
  <2>6. free_lists[MaxOrder] \in OnList
    BY <2>3, <2>5 DEF FullHeap, Chain, ChainOf, IsFrom
  <2>7. /\ call' \in Calls /\ call'.ord = MaxOrder /\ call'.m = free_lists[MaxOrder]
        /\ call'.target = call.target /\ call'.old = call.old /\ call'.cur = call.cur
    BY <1>1, <2>1, <2>2, <2>5 DEF Types, Calls
  <2>8. Types'
    BY <1>1, <2>1, <2>7 DEF Types, setup, heap
  <2>9. OnList' = OnList /\ Working' = {} /\ Working = {} /\ Held' = Held
    BY <1>1, <2>1, <2>2, <2>7 DEF OnList, Working, heap, Held
  <2>10. Layout' /\ Chain'
    BY <1>1, <2>3, <2>9 DEF FullHeap, Layout, LayoutOf, Chain, heap
  <2>11. LowerLists' /\ Owners'
    <3>1. \A k \in 0..MaxOrder-1 : k # MaxOrder
      BY <2>2
    <3> QED BY <1>1, <2>1, <2>3, <2>7, <2>9, <3>1 DEF FullHeap, LowerLists, Owners
  <2>12. Splitting'
    BY <1>1, <2>2, <2>3, <2>6, <2>7 DEF FullHeap, Chain, Splitting, OnList, Big, heap
  <2>13. FullHeap'
    BY <1>1, <2>1, <2>3, <2>10, <2>11, <2>12
    DEF FullHeap, Inserting, Merging, Growing, setup
  <2> QED BY <2>8, <2>13 DEF HeapInv
<1> QED BY <1>2, <1>3

(* What fl_remove does to the block at hand, in the splitting loop: it     *)
(* takes the block off the list of MAX_ORDER, or empties a lower list that *)
(* holds nothing but the upper half of the last turn.                      *)
LEMMA TakeOff ==
  ASSUME HeapInv, pc = "split"
  PROVE  LET m == call.m  o == call.ord
             fl == [free_lists EXCEPT ![o] = IF prev[m] = Null THEN next[m] ELSE @]
         IN  /\ FullHeap /\ m \in Bases /\ m \in Addr /\ m \notin Held
             /\ fl \in [Orders -> Links]
             /\ \A k \in 0..MaxOrder-1 : fl[k] = Null
             /\ Unlinked(m, next, prev) \in [Addr -> Links]
             /\ Unlinked(m, prev, next) \in [Addr -> Links]
             /\ ChainOf(OnList \ {m}, fl[MaxOrder], Unlinked(m, next, prev), Unlinked(m, prev, next))
             /\ OnList = {a \in Bases : is_free[a]}
             /\ Bases = (OnList \ {m}) \cup Held \cup {m}
             /\ OnList \cap Held = {}
<1> DEFINE m == call.m
           o == call.ord
           fl == [free_lists EXCEPT ![o] = IF prev[m] = Null THEN next[m] ELSE @]
<1>1. Types /\ FullHeap /\ Splitting /\ m \in Bases
  BY DEF HeapInv, EmptyHeap, FullHeap, Splitting
<1>2. m \in Addr /\ o \in Orders
  BY <1>1, BaseFacts DEF Types, Calls
<1>3. /\ free_lists \in [Orders -> Links] /\ next \in [Addr -> Links] /\ prev \in [Addr -> Links]
      /\ MaxOrder \in Orders
  BY <1>1, BigNat DEF Types, Orders
<1>4. fl \in [Orders -> Links]
  BY <1>2, <1>3
<1>5. /\ Unlinked(m, next, prev) \in [Addr -> Links]
      /\ Unlinked(m, prev, next) \in [Addr -> Links]
  BY <1>2, <1>3, UnlinkedTypes
<1>6. OnList = {a \in Bases : is_free[a]}
  BY DEF OnList
<1>7. OnList \in SUBSET Addr
  BY <1>6, BaseFacts
<1>8. ChainOf(OnList, free_lists[MaxOrder], next, prev) /\ Owners
  BY <1>1 DEF FullHeap, Chain
<1>9. \A k \in 0..MaxOrder-1 : k # o => free_lists[k] = Null
  BY <1>1 DEF FullHeap, LowerLists
<1>10. o = MaxOrder \/ o \in 0..MaxOrder-1
  BY <1>2, BigNat DEF Orders
<1>11. \A k \in 0..MaxOrder-1 : k \in Orders /\ k # MaxOrder
  BY BigNat DEF Orders
<1>12. CASE o = MaxOrder
  <2>1. m = free_lists[MaxOrder] /\ m # Null
    BY <1>1, <1>2, <1>12, NullNowhere DEF Splitting
  <2>2. m \in OnList
    BY <1>8, <2>1 DEF ChainOf, IsFrom
  <2>3. /\ prev[m] = Null
        /\ ChainOf(OnList \ {m}, next[m], Unlinked(m, next, prev), Unlinked(m, prev, next))
    <3> HIDE DEF m
    <3> QED BY <1>3, <1>7, <1>8, <2>1, <2>2, ChainRemoveFirst
  <2>4. fl[MaxOrder] = next[m]
    BY <1>3, <1>12, <2>3
  <2>5. \A k \in 0..MaxOrder-1 : fl[k] = Null
    BY <1>3, <1>9, <1>11, <1>12
  <2>6. Working = {}
    BY <1>2, <1>12, BigNat DEF Working
  <2> QED BY <1>1, <1>2, <1>4, <1>5, <1>6, <1>8, <2>2, <2>3, <2>4, <2>5, <2>6 DEF Owners
<1>13. CASE o \in 0..MaxOrder-1
  <2>1. Working = {m} /\ o < MaxOrder
    BY <1>13, BigNat DEF Working
  <2>2. m \notin OnList /\ m \notin Held
    BY <1>8, <2>1 DEF Owners
  <2>3. next[m] = Null /\ prev[m] = Null
    BY <1>2, <1>8, <2>2 DEF ChainOf
  <2>4. Unlinked(m, next, prev) = next /\ Unlinked(m, prev, next) = prev
    BY <1>2, <1>3, <2>3, UnlinkedNothing
  <2>5. fl[MaxOrder] = free_lists[MaxOrder]
    BY <1>3, <1>11, <1>13
  <2>6. \A k \in 0..MaxOrder-1 : fl[k] = Null
    BY <1>3, <1>9, <1>11, <1>13, <2>3
  <2>7. OnList \ {m} = OnList
    BY <2>2
  <2> QED BY <1>1, <1>2, <1>4, <1>5, <1>6, <1>8, <2>1, <2>2, <2>4, <2>5, <2>6, <2>7 DEF Owners
<1> QED BY <1>10, <1>12, <1>13

SplitSize(m, o) ==
  [size EXCEPT ![m] = BlockSize(o - 1), ![m + BlockSize(o - 1)] = BlockSize(o - 1)]
SplitFree(m, o) == [is_free EXCEPT ![m] = FALSE, ![m + BlockSize(o - 1)] = TRUE]

(* A split makes the base one order smaller; above it is the new half. *)
LEMMA LayoutSplit ==
  ASSUME Types, Layout, NEW m \in Bases, NEW o \in 1..MaxOrder, size[m] = BlockSize(o),
         NEW sz, NEW fr, sz = SplitSize(m, o), fr = SplitFree(m, o)
  PROVE  \A a \in Bases :
           /\ \E k \in Orders : sz[a] = BlockSize(k)
           /\ a # m => sz[a] = size[a]
           /\ \A j \in 0..MaxOrder-1 :
                sz[a] <= BlockSize(j) => sz[a + BlockSize(j)] = BlockSize(j) /\ fr[a + BlockSize(j)]
<1> DEFINE u == m + BlockSize(o - 1)
<1>1. o - 1 \in Orders /\ o - 1 < MaxOrder /\ o \in Orders /\ o - 1 \in 0..MaxOrder-1
  BY BigNat DEF Orders
<1>2. m \in Addr /\ u \in Addr /\ u \notin Bases
  BY <1>1, BaseFacts, BaseAligned
<1>3. u # m
  BY <1>2
<1>4. /\ \A a \in Addr : sz[a] = IF a = u \/ a = m THEN BlockSize(o - 1) ELSE size[a]
      /\ \A a \in Addr : fr[a] = IF a = u THEN TRUE ELSE IF a = m THEN FALSE ELSE is_free[a]
  BY <1>2, <1>3 DEF Types, SplitSize, SplitFree
<1>5. ASSUME NEW a \in Bases, NEW j \in 0..MaxOrder-1
      PROVE  /\ a + BlockSize(j) \in Addr /\ a + BlockSize(j) # m
             /\ a + BlockSize(j) = u => a = m /\ j = o - 1
  <2>1. j \in Orders /\ j < MaxOrder
    BY BigNat DEF Orders
  <2>2. a + BlockSize(j) \in Addr /\ a + BlockSize(j) \notin Bases
    BY <2>1, BaseAligned
  <2> QED BY <1>1, <2>2, UpperUnique
<1> HIDE DEF u
<1>6. SUFFICES ASSUME NEW a \in Bases
               PROVE  /\ \E k \in Orders : sz[a] = BlockSize(k)
                      /\ a # m => sz[a] = size[a]
                      /\ \A j \in 0..MaxOrder-1 :
                           sz[a] <= BlockSize(j) =>
                             sz[a + BlockSize(j)] = BlockSize(j) /\ fr[a + BlockSize(j)]
  OBVIOUS
<1>7. a \in Addr /\ a # u
  BY <1>2, BaseFacts
<1>8. CASE a # m
  <2>1. sz[a] = size[a]
    BY <1>4, <1>7, <1>8
  <2>2. ASSUME NEW j \in 0..MaxOrder-1, sz[a] <= BlockSize(j)
        PROVE  sz[a + BlockSize(j)] = BlockSize(j) /\ fr[a + BlockSize(j)]
    <3>1. size[a + BlockSize(j)] = BlockSize(j) /\ is_free[a + BlockSize(j)]
      BY <2>1, <2>2 DEF Layout, LayoutOf
    <3> QED BY <1>4, <1>5, <1>8, <3>1
  <2> QED BY <2>1, <2>2 DEF Layout, LayoutOf
<1>9. CASE a = m
  <2>1. sz[a] = BlockSize(o - 1)
    BY <1>4, <1>7, <1>9
  <2>2. ASSUME NEW j \in 0..MaxOrder-1, sz[a] <= BlockSize(j)
        PROVE  sz[a + BlockSize(j)] = BlockSize(j) /\ fr[a + BlockSize(j)]
    <3>1. CASE j = o - 1
      <4>1. a + BlockSize(j) = u
        BY <1>9, <3>1 DEF u
      <4> QED BY <1>2, <1>4, <3>1, <4>1
    <3>2. CASE j # o - 1
      <4>1. o - 1 <= j
        BY <1>1, <2>1, <2>2, BlockSizeGrows DEF Orders
      <4>2. o <= j
        BY <3>2, <4>1
      <4>3. BlockSize(o) <= BlockSize(j)
        <5>1. o = j \/ 2 * BlockSize(o) <= BlockSize(j)
          BY <4>2, BlockSizeGrows
        <5>2. BlockSize(o) \in Nat /\ BlockSize(j) \in Nat
          BY BlockSizeNat
        <5> QED BY <5>1, <5>2
      <4>4. size[a + BlockSize(j)] = BlockSize(j) /\ is_free[a + BlockSize(j)]
        BY <1>9, <4>3 DEF Layout, LayoutOf
      <4> QED BY <1>4, <1>5, <3>2, <4>4
    <3> QED BY <3>1, <3>2
  <2> QED BY <1>1, <1>9, <2>1, <2>2
<1> QED BY <1>8, <1>9

(* split_block takes the block off its list and halves it. *)
LEMMA SplitBlockStep ==
  ASSUME HeapInv, SplitBlock
  PROVE  HeapInv'
<1> DEFINE m == call.m
           o == call.ord
           u == m + BlockSize(o - 1)
           fl == [free_lists EXCEPT ![o] = IF prev[m] = Null THEN next[m] ELSE @]
           n2 == Unlinked(m, next, prev)
           p2 == Unlinked(m, prev, next)
<1>1. /\ pc = "split" /\ o > call.target /\ pc' = "insert" /\ UNCHANGED <<setup, maps, live>>
      /\ free_lists' = fl
      /\ next' = [n2 EXCEPT ![u] = Null] /\ prev' = [p2 EXCEPT ![u] = Null]
      /\ size' = [size EXCEPT ![m] = BlockSize(o - 1), ![u] = BlockSize(o - 1)]
      /\ is_free' = [is_free EXCEPT ![m] = FALSE, ![u] = TRUE]
      /\ call' = [call EXCEPT !.ord = o - 1, !.ins = u]
  BY DEF SplitBlock
<1>2. /\ FullHeap /\ m \in Bases /\ m \in Addr /\ m \notin Held
      /\ fl \in [Orders -> Links] /\ \A k \in 0..MaxOrder-1 : fl[k] = Null
      /\ n2 \in [Addr -> Links] /\ p2 \in [Addr -> Links]
      /\ ChainOf(OnList \ {m}, fl[MaxOrder], n2, p2)
      /\ OnList = {a \in Bases : is_free[a]}
      /\ Bases = (OnList \ {m}) \cup Held \cup {m}
      /\ OnList \cap Held = {}
  BY <1>1, TakeOff
<1>3. Types /\ Layout /\ size[m] = BlockSize(o)
  BY <1>1, <1>2 DEF HeapInv, FullHeap, Splitting
<1>4. call \in Calls /\ o \in 1..MaxOrder /\ call.target \in Orders
  <2>1. call \in Calls /\ call.target \in Orders /\ o \in Orders
    BY <1>3 DEF Types, Calls
  <2> QED BY <1>1, <2>1, BigNat DEF Orders
<1>5. o - 1 \in Orders /\ o - 1 < MaxOrder /\ o - 1 \in 0..MaxOrder-1 /\ call.target <= o - 1
  BY <1>1, <1>4, BigNat DEF Orders
<1>6. u \in Addr /\ u \notin Bases /\ BlockSize(o - 1) \in 0..Big
  BY <1>2, <1>5, BaseAligned, BigNat
<1> HIDE DEF u, n2, p2, fl
<1>7. next' = n2 /\ prev' = p2
  <2>1. u \notin OnList
    BY <1>2, <1>6
  <2>2. n2[u] = Null /\ p2[u] = Null
    BY <1>2, <1>6, <2>1 DEF ChainOf
  <2> QED BY <1>1, <1>2, <2>2
<1>8. /\ call' \in Calls /\ call'.ord = o - 1 /\ call'.ins = u /\ call'.m = m
      /\ call'.target = call.target /\ call'.old = call.old /\ call'.cur = call.cur
  BY <1>1, <1>4, <1>5, <1>6 DEF Calls, Links
<1>9. size' \in [Addr -> 0..Big] /\ is_free' \in [Addr -> BOOLEAN]
  BY <1>1, <1>2, <1>3, <1>6 DEF Types
<1>10. Types'
  BY <1>1, <1>2, <1>3, <1>7, <1>8, <1>9 DEF Types, setup
<1>11. \A a \in Bases :
         /\ \E k \in Orders : size'[a] = BlockSize(k)
         /\ a # m => size'[a] = size[a]
         /\ \A j \in 0..MaxOrder-1 :
              size'[a] <= BlockSize(j) =>
                size'[a + BlockSize(j)] = BlockSize(j) /\ is_free'[a + BlockSize(j)]
  <2>1. size' = SplitSize(m, o) /\ is_free' = SplitFree(m, o)
    BY <1>1 DEF u, SplitSize, SplitFree
  <2> HIDE DEF m, o
  <2> QED BY <1>2, <1>3, <1>4, <2>1, LayoutSplit
<1>12. m # Null /\ u # m
  BY <1>2, <1>6, NullNowhere
<1>13. is_free'[m] = FALSE /\ size'[m] = BlockSize(o - 1)
  BY <1>1, <1>2, <1>3, <1>6, <1>12 DEF Types
<1>14. \A a \in Bases \ {m} : is_free'[a] = is_free[a]
  BY <1>1, <1>3, <1>6, BaseFacts DEF Types
<1>15. OnList' = OnList \ {m} /\ Working' = {m} /\ Held' = Held
  <2>1. OnList' = {a \in Bases : is_free'[a]} \ {u}
    BY <1>1, <1>8 DEF OnList
  <2>2. Working' = {m}
    BY <1>1, <1>8, <1>12 DEF Working
  <2>3. OnList' = OnList \ {m}
    BY <1>2, <1>6, <1>13, <1>14, <2>1
  <2> QED BY <1>1, <2>2, <2>3 DEF Held
<1>16. Layout'
  BY <1>11 DEF Layout, LayoutOf
<1>17. Chain'
  <2>1. \A a \in OnList \ {m} : size'[a] = Big
    BY <1>2, <1>11 DEF FullHeap, Chain
  <2> QED BY <1>1, <1>2, <1>7, <1>15, <2>1 DEF Chain
<1>18. LowerLists'
  BY <1>1, <1>2 DEF LowerLists
<1>19. Owners'
  BY <1>2, <1>15 DEF Owners
<1>20. Inserting'
  BY <1>1, <1>2, <1>3, <1>5, <1>8, <1>13 DEF Inserting, u, Types
<1>21. FullHeap'
  BY <1>1, <1>2, <1>16, <1>17, <1>18, <1>19, <1>20
  DEF FullHeap, Splitting, Merging, Growing, setup
<1> QED BY <1>10, <1>21 DEF HeapInv

(* buddy_alloc hands the block out. *)
LEMMA BuddyTakeStep ==
  ASSUME HeapInv, BuddyTake
  PROVE  HeapInv'
<1> DEFINE m == call.m
           o == call.ord
           old == call.old
           fl == [free_lists EXCEPT ![o] = IF prev[m] = Null THEN next[m] ELSE @]
           n2 == Unlinked(m, next, prev)
           p2 == Unlinked(m, prev, next)
<1>1. /\ pc = "split" /\ o = call.target /\ UNCHANGED <<setup, size>>
      /\ free_lists' = fl /\ next' = n2 /\ prev' = p2
      /\ is_free' = [is_free EXCEPT ![m] = FALSE]
      /\ Return(m, mmaps, kernel)
  BY DEF BuddyTake, FlRemove
<1>2. /\ FullHeap /\ m \in Bases /\ m \in Addr /\ m \notin Held
      /\ fl \in [Orders -> Links] /\ \A k \in 0..MaxOrder-1 : fl[k] = Null
      /\ n2 \in [Addr -> Links] /\ p2 \in [Addr -> Links]
      /\ ChainOf(OnList \ {m}, fl[MaxOrder], n2, p2)
      /\ OnList = {a \in Bases : is_free[a]}
      /\ Bases = (OnList \ {m}) \cup Held \cup {m}
      /\ OnList \cap Held = {}
  BY <1>1, TakeOff
<1>3. Types /\ Layout /\ old \in DOMAIN live \cup {Null}
  BY <1>2 DEF HeapInv, FullHeap, Types
<1> HIDE DEF n2, p2, fl
<1>4. DOMAIN live' = (DOMAIN live \ {old}) \cup {m}
  BY <1>1 DEF Return, Given
<1>5. DOMAIN live' \subseteq Pointers /\ Held' = (Held \ {old}) \cup {m}
  BY <1>2, <1>3, <1>4 DEF Types, Held, Pointers
<1>6. is_free' \in [Addr -> BOOLEAN] /\ is_free'[m] = FALSE /\ \A a \in Addr \ {m} : is_free'[a] = is_free[a]
  BY <1>1, <1>2, <1>3 DEF Types
<1>7. {a \in Bases : is_free'[a]} = OnList \ {m}
  BY <1>2, <1>6, BaseFacts
<1>8. Layout'
  <2>1. ASSUME NEW a \in Bases, NEW j \in 0..MaxOrder-1
        PROVE  is_free[a + BlockSize(j)] => is_free'[a + BlockSize(j)]
    <3>1. j \in Orders /\ j < MaxOrder
      BY BigNat DEF Orders
    <3>2. a + BlockSize(j) \in Addr /\ a + BlockSize(j) \notin Bases
      BY <3>1, BaseAligned
    <3> QED BY <1>2, <1>6, <3>2
  <2> QED BY <1>1, <1>3, <2>1 DEF Layout, LayoutOf
<1>9. ASSUME pc' \in {"idle", "merge"} PROVE Chain' /\ LowerLists' /\ OnList' = OnList \ {m}
  <2>1. OnList' = OnList \ {m}
    BY <1>7, <1>9 DEF OnList
  <2>2. \A a \in OnList \ {m} : size'[a] = Big
    BY <1>1, <1>2 DEF FullHeap, Chain
  <2>3. Chain'
    BY <1>1, <1>2, <2>1, <2>2 DEF Chain
  <2>4. LowerLists'
    BY <1>1, <1>2, <1>9 DEF LowerLists
  <2> QED BY <2>1, <2>3, <2>4
<1>10. CASE old \in Addr
  <2>1. old \in Held /\ old # m
    BY <1>2, <1>3, <1>10, NullNowhere DEF Held
  <2>2. GetOrder(old) \in Orders /\ old \in Bases /\ size[old] = BlockSize(GetOrder(old))
    BY <2>1, HeldAreBases
  <2>3. pc' = "merge" /\ call' = [NoCall EXCEPT !.m = old, !.ord = GetOrder(old)]
    BY <1>1, <1>10 DEF Return
  <2>4. call' \in Calls /\ call'.m = old /\ call'.ord = GetOrder(old) /\ call'.old = Null
        /\ call'.cur = Null
    BY <1>10, <2>2, <2>3, MergeCallTyped
  <2>5. Types'
    BY <1>1, <1>2, <1>3, <1>5, <1>6, <2>3, <2>4 DEF Types, setup
  <2>6. Working' = {old}
    BY <2>3, <2>4 DEF Working
  <2>7. Chain' /\ LowerLists' /\ OnList' = OnList \ {m}
    BY <1>9, <2>3
  <2>8. Owners'
    BY <1>2, <1>5, <2>1, <2>6, <2>7 DEF Owners
  <2>9. Merging'
    BY <1>1, <2>2, <2>4 DEF Merging
  <2>10. FullHeap'
    BY <1>1, <1>2, <1>8, <2>3, <2>7, <2>8, <2>9
    DEF FullHeap, Splitting, Inserting, Growing, setup
  <2> QED BY <2>5, <2>10 DEF HeapInv
<1>11. CASE old \notin Addr
  <2>1. pc' = "idle" /\ call' = NoCall
    BY <1>1, <1>11 DEF Return
  <2>2. Types'
    BY <1>1, <1>2, <1>3, <1>5, <1>6, <2>1, NoCallTyped DEF Types, setup, NoCall
  <2>3. Working' = {} /\ Held' = Held \cup {m}
    BY <1>5, <1>11, <2>1 DEF Working, Held
  <2>4. Chain' /\ LowerLists' /\ OnList' = OnList \ {m}
    BY <1>9, <2>1
  <2>5. Owners'
    BY <1>2, <2>3, <2>4 DEF Owners
  <2>6. FullHeap'
    BY <1>1, <1>2, <1>8, <2>1, <2>4, <2>5
    DEF FullHeap, Splitting, Inserting, Merging, Growing, setup
  <2> QED BY <2>2, <2>6 DEF HeapInv
<1> QED BY <1>10, <1>11

MergeSize(m, o) == [size EXCEPT ![m] = BlockSize(o + 1)]

(* A merge makes the base one order larger. *)
LEMMA LayoutMerge ==
  ASSUME Types, Layout, NEW m \in Bases, NEW o \in 0..MaxOrder-1, size[m] = BlockSize(o),
         NEW sz, sz = MergeSize(m, o)
  PROVE  /\ sz \in [Addr -> 0..Big]
         /\ sz[m] = BlockSize(o + 1) /\ \A a \in Bases : a # m => sz[a] = size[a]
         /\ LayoutOf(sz, is_free)
<1>1. o + 1 \in Orders /\ o \in Orders /\ o < MaxOrder
  BY BigNat DEF Orders
<1>2. m \in Addr /\ BlockSize(o + 1) \in 0..Big
  BY <1>1, BaseFacts, BaseAligned, BigNat
<1>3. \A a \in Addr : sz[a] = IF a = m THEN BlockSize(o + 1) ELSE size[a]
  BY <1>2 DEF Types, MergeSize
<1>4. sz \in [Addr -> 0..Big]
  BY <1>2 DEF Types, MergeSize
<1>5. ASSUME NEW a \in Bases, NEW j \in 0..MaxOrder-1, sz[a] <= BlockSize(j)
      PROVE  sz[a + BlockSize(j)] = BlockSize(j) /\ is_free[a + BlockSize(j)]
  <2>1. j \in Orders /\ j < MaxOrder /\ a \in Addr
    BY BaseFacts, BigNat DEF Orders
  <2>2. a + BlockSize(j) \in Addr /\ a + BlockSize(j) \notin Bases
    BY <2>1, BaseAligned
  <2>3. size[a] <= BlockSize(j)
    <3>1. CASE a = m
      <4>1. BlockSize(o) \in Nat /\ BlockSize(j) \in Nat /\ BlockSize(o + 1) = 2 * BlockSize(o)
        BY BlockSizeNat, BlockSizeIs
      <4> QED BY <1>2, <1>3, <1>5, <3>1, <4>1
    <3>2. CASE a # m
      BY <1>3, <1>5, <2>1, <3>2
    <3> QED BY <3>1, <3>2
  <2>4. size[a + BlockSize(j)] = BlockSize(j) /\ is_free[a + BlockSize(j)]
    BY <2>3 DEF Layout, LayoutOf
  <2> QED BY <1>3, <2>2, <2>4
<1>6. \A a \in Bases : a # m => sz[a] = size[a]
  BY <1>3, BaseFacts
<1>7. sz[m] = BlockSize(o + 1)
  BY <1>2, <1>3
<1>8. \A a \in Bases : \E k \in Orders : sz[a] = BlockSize(k)
  BY <1>1, <1>6, <1>7 DEF Layout, LayoutOf
<1>9. LayoutOf(sz, is_free)
  BY <1>5, <1>8 DEF LayoutOf
<1> QED BY <1>4, <1>6, <1>7, <1>9

(* One turn of a merging loop: the upper half is in no list, so fl_remove  *)
(* changes nothing, and the base is one order larger.                      *)
LEMMA MergeTurn ==
  ASSUME HeapInv, pc \in {"merge", "grow"}, call.ord < MaxOrder,
         LET b == GetBuddy(call.m, call.ord)  lower == Min({call.m, b})
         IN  /\ FlRemove(call.ord, b)
             /\ size' = [size EXCEPT ![lower] = BlockSize(call.ord + 1)]
             /\ call' = [call EXCEPT !.m = lower, !.ord = call.ord + 1]
             /\ UNCHANGED <<setup, is_free, maps, live, pc>>
  PROVE  /\ pc = "merge" \/ call.ord < call.target => HeapInv'
         /\ free_lists' = free_lists /\ next' = next /\ prev' = prev
         /\ size' = MergeSize(call.m, call.ord)
<1> DEFINE m == call.m
           o == call.ord
<1>1. Types /\ FullHeap /\ Layout /\ m \in Bases /\ size[m] = BlockSize(o)
  BY DEF HeapInv, EmptyHeap, FullHeap, Merging, Growing, Owners
<1>2. o \in 0..MaxOrder-1 /\ o \in Orders /\ o < MaxOrder /\ o + 1 \in Orders /\ call \in Calls
  BY <1>1, BigNat DEF Types, Calls, Orders
<1>3. m \in Nat /\ m \in Addr
  BY <1>1, BaseFacts
<1>4. /\ GetBuddy(m, o) = m + BlockSize(o) /\ m + BlockSize(o) \in Addr /\ m + BlockSize(o) \notin Bases
      /\ BlockSize(o) \in Nat
  BY <1>1, <1>2, BaseAligned
<1>5. Min({m, GetBuddy(m, o)}) = m
  <2>1. {m, m + BlockSize(o)} \in SUBSET Nat /\ {m, m + BlockSize(o)} # {}
    BY <1>3, <1>4
  <2> DEFINE x == Min({m, m + BlockSize(o)})
  <2>2. x \in {m, m + BlockSize(o)} /\ x <= m
    BY <2>1, MinNatural
  <2> HIDE DEF x
  <2>3. x = m
    BY <1>3, <1>4, <2>2
  <2> QED BY <1>4, <2>3 DEF x
<1> DEFINE b == m + BlockSize(o)
<1>6. /\ FlRemove(o, b)
      /\ size' = MergeSize(m, o)
      /\ call' = [call EXCEPT !.m = m, !.ord = o + 1]
      /\ UNCHANGED <<setup, is_free, maps, live, pc>>
  BY <1>4, <1>5 DEF MergeSize
<1>7. next[b] = Null /\ prev[b] = Null
  <2>1. b \notin OnList
    BY <1>4 DEF OnList
  <2> QED BY <1>1, <1>4, <2>1 DEF FullHeap, Chain, ChainOf
<1>8. next' = next /\ prev' = prev
  <2>1. next \in [Addr -> Links] /\ prev \in [Addr -> Links]
    BY <1>1 DEF Types
  <2>2. Unlinked(b, next, prev) = next /\ Unlinked(b, prev, next) = prev
    BY <1>4, <1>7, <2>1, UnlinkedNothing
  <2> QED BY <1>6, <2>2 DEF FlRemove
<1>9. free_lists' = free_lists
  <2>1. free_lists[o] = Null /\ free_lists \in [Orders -> Links]
    BY <1>1, <1>2 DEF FullHeap, LowerLists, Types
  <2>2. free_lists' = [free_lists EXCEPT ![o] = Null]
    BY <1>6, <1>7 DEF FlRemove
  <2> QED BY <1>2, <2>1, <2>2
<1>10. /\ call' \in Calls /\ call'.m = m /\ call'.ord = o + 1 /\ call'.old = call.old
       /\ call'.target = call.target /\ call'.ins = call.ins /\ call'.cur = call.cur
  BY <1>2, <1>3, <1>6 DEF Calls, Links
<1>11. /\ size' \in [Addr -> 0..Big]
       /\ size'[m] = BlockSize(o + 1) /\ \A a \in Bases : a # m => size'[a] = size[a]
       /\ LayoutOf(size', is_free)
  <2> HIDE DEF m, o
  <2> QED BY <1>1, <1>2, <1>6, LayoutMerge
<1>12. Types'
  BY <1>1, <1>6, <1>8, <1>9, <1>10, <1>11 DEF Types, setup
<1>13. OnList' = OnList /\ Working' = Working /\ Held' = Held /\ m \notin OnList
  <2>1. OnList' = OnList /\ Working' = Working /\ Held' = Held
    BY <1>6, <1>10 DEF OnList, Working, Held
  <2>2. m \notin OnList
    BY <1>1 DEF OnList, Working, FullHeap, Owners
  <2> QED BY <2>1, <2>2
<1>14. Layout'
  <2>1. is_free' = is_free
    BY <1>6
  <2> QED BY <1>11, <2>1 DEF Layout
<1>15. Chain'
  <2>1. \A a \in OnList : size'[a] = Big
    BY <1>1, <1>11, <1>13 DEF FullHeap, Chain, OnList
  <2> QED BY <1>1, <1>8, <1>9, <1>13, <2>1 DEF FullHeap, Chain
<1>16. LowerLists' /\ Owners'
  BY <1>1, <1>6, <1>9, <1>13 DEF FullHeap, LowerLists, Owners
<1>17. ASSUME pc = "merge" \/ o < call.target PROVE Merging' /\ Growing'
  <2>1. Merging'
    BY <1>1, <1>6, <1>10, <1>11 DEF Merging
  <2>2. pc = "grow" => o < call.target /\ call.target \in Orders
    BY <1>2, <1>17 DEF Calls
  <2>3. Growing'
    BY <1>1, <1>2, <1>6, <1>10, <1>11, <1>13, <2>2, BigNat DEF Growing, FullHeap, Orders
  <2> QED BY <2>1, <2>3
<1>18. ASSUME pc = "merge" \/ o < call.target PROVE HeapInv'
  <2>1. FullHeap'
    BY <1>1, <1>6, <1>14, <1>15, <1>16, <1>17, <1>18 DEF FullHeap, Splitting, Inserting, setup
  <2> QED BY <1>12, <2>1 DEF HeapInv
<1> QED BY <1>6, <1>8, <1>9, <1>18

(* buddy_free_and_merge absorbs the buddy above. *)
LEMMA MergeBuddyStep ==
  ASSUME HeapInv, MergeBuddy
  PROVE  HeapInv'
BY MergeTurn DEF MergeBuddy

(* srealloc absorbs the buddy above. *)
LEMMA GrowBuddyStep ==
  ASSUME HeapInv, GrowBuddy
  PROVE  HeapInv'
<1>1. call.ord < MaxOrder
  <2>1. call.ord \in Orders /\ call.target \in Orders /\ call.ord < call.target
    BY DEF HeapInv, Types, Calls, GrowBuddy
  <2> QED BY <2>1, BigNat DEF Orders
<1> QED BY <1>1, MergeTurn DEF GrowBuddy

(* Merging goes all the way: above the block the halves are free. *)
LEMMA MergeDoneStep ==
  ASSUME HeapInv, MergeDone
  PROVE  HeapInv'
<1> DEFINE m == call.m
           o == call.ord
<1>1. /\ pc = "merge" /\ (o < MaxOrder => ~BuddyIsFree(m, o))
      /\ is_free' = [is_free EXCEPT ![m] = TRUE] /\ pc' = "insert"
      /\ call' = [call EXCEPT !.ins = m, !.m = Null]
      /\ UNCHANGED <<setup, free_lists, size, next, prev, maps, live>>
  BY DEF MergeDone
<1>2. Types /\ FullHeap /\ Layout /\ m \in Bases /\ size[m] = BlockSize(o) /\ m \in Addr
  BY <1>1, BaseFacts DEF HeapInv, EmptyHeap, FullHeap, Merging
<1>3. o \in Orders /\ call \in Calls
  BY <1>2 DEF Types, Calls
<1>4. o = MaxOrder
  <2>1. SUFFICES ASSUME o # MaxOrder PROVE FALSE
    OBVIOUS
  <2>2. o < MaxOrder /\ o \in 0..MaxOrder-1
    BY <1>3, <2>1, BigNat DEF Orders
  <2>3. GetBuddy(m, o) = m + BlockSize(o) /\ m + BlockSize(o) \in Addr /\ BlockSize(o) \in Nat
    BY <1>2, <1>3, <2>2, BaseAligned
  <2>4. size[m + BlockSize(o)] = BlockSize(o) /\ is_free[m + BlockSize(o)]
    BY <1>2, <2>2, <2>3 DEF Layout, LayoutOf
  <2> QED BY <1>1, <2>2, <2>3, <2>4 DEF BuddyIsFree
<1>5. /\ call' \in Calls /\ call'.ins = m /\ call'.m = Null /\ call'.ord = o
      /\ call'.old = call.old /\ call'.cur = call.cur /\ call.cur = Null
  BY <1>1, <1>2, <1>3 DEF Calls, Links, Types
<1>6. /\ is_free' \in [Addr -> BOOLEAN] /\ is_free'[m] /\ \A a \in Addr : a # m => is_free'[a] = is_free[a]
      /\ \A a \in Addr : is_free[a] => is_free'[a]
  BY <1>1, <1>2 DEF Types
<1>7. Types'
  BY <1>1, <1>2, <1>5, <1>6 DEF Types, setup
<1>8. Working = {m} /\ Working' = {m} /\ Held' = Held
  BY <1>1, <1>5 DEF Working, Held
<1>9. m \notin OnList
  BY <1>2, <1>8 DEF FullHeap, Owners
<1>10. OnList' = OnList
  <2>1. OnList = {a \in Bases : is_free[a]} /\ OnList' = {a \in Bases : is_free'[a]} \ {m}
    BY <1>1, <1>5 DEF OnList
  <2> QED BY <1>6, <1>9, <2>1, BaseFacts
<1>11. Layout'
  <2>1. \A a \in Bases, j \in 0..MaxOrder-1 : a + BlockSize(j) \in Addr
    BY BaseAligned, BigNat DEF Orders
  <2> QED BY <1>1, <1>2, <1>6, <2>1 DEF Layout, LayoutOf
<1>12. Chain' /\ LowerLists' /\ Owners'
  BY <1>1, <1>2, <1>8, <1>10 DEF FullHeap, Chain, LowerLists, Owners
<1>13. Inserting'
  BY <1>1, <1>2, <1>4, <1>5, <1>6 DEF Inserting, Big
<1>14. FullHeap'
  BY <1>1, <1>2, <1>11, <1>12, <1>13 DEF FullHeap, Splitting, Merging, Growing, setup
<1> QED BY <1>7, <1>14 DEF HeapInv

(* fl_insert *)

(* What is known when fl_insert runs: the half of a split, or a merged base. *)
LEMMA InsertFacts ==
  ASSUME HeapInv, pc = "insert"
  PROVE  /\ Types /\ FullHeap /\ Layout /\ Owners /\ OnList \in SUBSET Addr
         /\ ChainOf(OnList, free_lists[MaxOrder], next, prev)
         /\ call.ins \in Addr /\ call.ins \notin OnList
         /\ \A o \in 0..MaxOrder-1 : free_lists[o] = Null
         /\ \/ /\ call.m # Null /\ call.m \in Bases /\ call.ord < MaxOrder /\ call.ord \in 0..MaxOrder-1
               /\ call.target <= call.ord
               /\ size[call.m] = BlockSize(call.ord)
               /\ call.ins = call.m + BlockSize(call.ord) /\ call.cur = Null
               /\ call.ins \notin Bases /\ Working = {call.m} /\ is_free[call.ins]
            \/ /\ call.m = Null /\ call.ord = MaxOrder
               /\ call.ins \in Bases /\ is_free[call.ins] /\ size[call.ins] = Big
               /\ call.cur # Null => call.cur \in OnList /\ call.cur < call.ins
               /\ Working = {call.ins}
<1>1. Types /\ FullHeap
  BY DEF HeapInv, EmptyHeap
<1>2. /\ Layout /\ Owners /\ ChainOf(OnList, free_lists[MaxOrder], next, prev)
      /\ \A o \in 0..MaxOrder-1 : free_lists[o] = Null
  BY <1>1 DEF FullHeap, Chain, LowerLists
<1>3. OnList \in SUBSET Addr /\ call.ins \notin OnList
  BY BaseFacts DEF OnList
<1>4. CASE /\ call.m \in Bases /\ call.ord < MaxOrder /\ call.target <= call.ord
           /\ size[call.m] = BlockSize(call.ord)
           /\ call.ins = call.m + BlockSize(call.ord) /\ call.cur = Null
  <2>1. call.m # Null /\ Working = {call.m}
    BY <1>4, BaseFacts, NullNowhere DEF Working
  <2>2. call.ord \in Orders
    BY <1>1 DEF Types, Calls
  <2>3. call.ord \in 0..MaxOrder-1
    BY <1>4, <2>2, BigNat DEF Orders
  <2>4. call.ins \in Addr /\ call.ins \notin Bases /\ BlockSize(call.ord) \in Nat
    BY <1>4, <2>2, BaseAligned
  <2>5. is_free[call.ins]
    BY <1>2, <1>4, <2>3, <2>4 DEF Layout, LayoutOf
  <2> QED BY <1>1, <1>2, <1>3, <1>4, <2>1, <2>3, <2>4, <2>5
<1>5. CASE /\ call.m = Null /\ call.ord = MaxOrder
           /\ call.ins \in Bases /\ is_free[call.ins] /\ size[call.ins] = Big
           /\ call.cur # Null => call.cur \in OnList /\ call.cur < call.ins
  <2>1. Working = {call.ins} /\ call.ins \in Addr
    BY <1>5, BaseFacts DEF Working
  <2> QED BY <1>1, <1>2, <1>3, <1>5, <2>1
<1> QED BY <1>1, <1>4, <1>5 DEF FullHeap, Inserting

(* fl_insert's walk stays on the list, below the new block. *)
LEMMA FlInsertWalkStep ==
  ASSUME HeapInv, FlInsertWalk
  PROVE  HeapInv'
<1> DEFINE cur == IF call.cur = Null THEN free_lists[call.ord] ELSE next[call.cur]
<1>1. /\ pc = "insert" /\ cur \in 0..(call.ins - 1) /\ call' = [call EXCEPT !.cur = cur]
      /\ UNCHANGED <<setup, free_lists, heap, maps, live, pc>>
  BY DEF FlInsertWalk
<1>2. Types /\ FullHeap /\ call.ins \in Addr /\ ChainOf(OnList, free_lists[MaxOrder], next, prev)
  BY <1>1, InsertFacts
<1>3. cur \in Int /\ cur # Null /\ cur < call.ins
  BY <1>1, <1>2, NullNowhere
<1>4. CASE call.m # Null
  <2>1. call.cur = Null /\ call.ord \in 0..MaxOrder-1 /\ free_lists[call.ord] = Null
    BY <1>1, <1>4, InsertFacts
  <2> QED BY <1>3, <2>1
<1>5. CASE call.m = Null
  <2>1. /\ call.ord = MaxOrder /\ call.ins \in Bases /\ is_free[call.ins] /\ size[call.ins] = Big
        /\ call.cur # Null => call.cur \in OnList /\ call.cur < call.ins
    BY <1>1, <1>5, InsertFacts
  <2>2. cur \in OnList
    <3>1. CASE call.cur = Null
      BY <1>2, <1>3, <2>1, <3>1 DEF ChainOf, IsFrom
    <3>2. CASE call.cur # Null
      <4>1. IsFrom(OnList, call.cur + 1, next[call.cur], Null)
        BY <1>2, <2>1, <3>2 DEF ChainOf
      <4> QED BY <1>3, <3>2, <4>1 DEF IsFrom
    <3> QED BY <3>1, <3>2
  <2>3. cur \in Links /\ call \in Calls
    BY <1>2, <2>2, BaseFacts DEF OnList, Links, Types
  <2> HIDE DEF cur
  <2>4. /\ call' \in Calls /\ call'.cur = cur /\ call'.m = call.m /\ call'.ins = call.ins
        /\ call'.ord = call.ord /\ call'.old = call.old
    BY <1>1, <2>3 DEF Calls
  <2>5. Types'
    BY <1>1, <1>2, <2>4 DEF Types, setup, heap
  <2>6. OnList' = OnList /\ Working' = Working /\ Held' = Held
    BY <1>1, <2>4 DEF OnList, Working, Held, heap
  <2>7. Layout' /\ Chain'
    BY <1>1, <1>2, <2>6 DEF FullHeap, Layout, Chain, heap
  <2>8. LowerLists' /\ Owners'
    BY <1>1, <1>2, <2>6 DEF FullHeap, LowerLists, Owners
  <2>9. Inserting'
    BY <1>1, <1>3, <1>5, <2>1, <2>2, <2>4, <2>6 DEF Inserting, heap
  <2>10. FullHeap'
    BY <1>1, <1>2, <2>7, <2>8, <2>9 DEF FullHeap, Splitting, Merging, Growing, setup
  <2> QED BY <2>5, <2>10 DEF HeapInv
<1> QED BY <1>4, <1>5

(* The base that was freed comes back to the list of MAX_ORDER. *)
LEMMA InsertDone ==
  ASSUME HeapInv, pc = "insert", call.m = Null, pc' = "idle", call' = NoCall,
         UNCHANGED <<setup, maps, live, size>>, is_free' = [is_free EXCEPT ![call.ins] = TRUE],
         free_lists' \in [Orders -> Links], next' \in [Addr -> Links], prev' \in [Addr -> Links],
         \A o \in 0..MaxOrder-1 : free_lists'[o] = free_lists[o],
         ChainOf(OnList \cup {call.ins}, free_lists'[MaxOrder], next', prev')
  PROVE  HeapInv'
<1> DEFINE m == call.ins
<1>1. /\ Types /\ FullHeap /\ Layout /\ Owners /\ m \in Addr /\ m \notin OnList
      /\ m \in Bases /\ is_free[m] /\ size[m] = Big /\ Working = {m}
      /\ \A o \in 0..MaxOrder-1 : free_lists[o] = Null
  BY InsertFacts
<1>2. is_free' = is_free
  BY <1>1 DEF Types
<1>3. Types'
  BY <1>1, <1>2, NoCallTyped DEF Types, NoCall, setup
<1>4. OnList' = OnList \cup {m} /\ Working' = {} /\ Held' = Held
  <2>1. OnList = {a \in Bases : is_free[a]} \ {m} /\ OnList' = {a \in Bases : is_free'[a]}
    BY DEF OnList
  <2> QED BY <1>1, <1>2, <2>1 DEF Working, Held
<1>5. Layout'
  BY <1>1, <1>2 DEF Layout
<1>6. Chain'
  BY <1>1, <1>4 DEF Chain, FullHeap
<1>7. LowerLists' /\ Owners'
  BY <1>1, <1>4 DEF LowerLists, Owners
<1>8. FullHeap'
  BY <1>1, <1>5, <1>6, <1>7 DEF FullHeap, Splitting, Inserting, Merging, Growing, setup
<1> QED BY <1>3, <1>8 DEF HeapInv

(* An upper half becomes the one block of its list. *)
LEMMA InsertHalf ==
  ASSUME HeapInv, call.m # Null, FlInsertFirst("split"), UNCHANGED <<setup, maps, live>>,
         call' = [call EXCEPT !.ins = Null, !.cur = Null]
  PROVE  HeapInv'
<1> DEFINE m == call.m
           o == call.ord
           u == call.ins
<1>1. pc = "insert"
  BY DEF FlInsertFirst
<1>2. /\ Types /\ FullHeap /\ Layout /\ Owners /\ OnList \in SUBSET Addr
      /\ u \in Addr /\ u \notin OnList /\ u \notin Bases /\ is_free[u]
      /\ \A k \in 0..MaxOrder-1 : free_lists[k] = Null
      /\ m \in Bases /\ o < MaxOrder /\ o \in 0..MaxOrder-1 /\ call.target <= o
      /\ size[m] = BlockSize(o) /\ u = m + BlockSize(o) /\ Working = {m}
      /\ ChainOf(OnList, free_lists[MaxOrder], next, prev)
  BY <1>1, InsertFacts
<1>3. o \in Orders /\ free_lists[o] = Null /\ call \in Calls
  BY <1>2, BigNat DEF Orders, Types
<1>4. /\ is_free' = [is_free EXCEPT ![u] = TRUE] /\ next' = [next EXCEPT ![u] = Null]
      /\ prev' = [a \in Addr |-> IF a = u THEN Null ELSE IF a = Null THEN u ELSE prev[a]]
      /\ free_lists' = [free_lists EXCEPT ![o] = u] /\ pc' = "split" /\ UNCHANGED size
  BY <1>3 DEF FlInsertFirst
<1>5. next[u] = Null /\ prev[u] = Null
  BY <1>2 DEF ChainOf
<1>6. is_free' = is_free /\ next' = next
  BY <1>2, <1>4, <1>5 DEF Types
<1>7. prev' = prev
  <2>1. \A a \in Addr : a # Null
    BY NullNowhere
  <2>2. prev \in [Addr -> Links]
    BY <1>2 DEF Types
  <2>3. \A a \in Addr : prev'[a] = prev[a]
    BY <1>4, <1>5, <2>1
  <2> QED BY <1>4, <2>2, <2>3
<1>8. /\ call' \in Calls /\ call'.m = m /\ call'.ord = o /\ call'.target = call.target
      /\ call'.old = call.old /\ call'.cur = Null
  BY <1>3 DEF Calls, Links
<1>9. free_lists' \in [Orders -> Links]
  BY <1>2, <1>3, <1>4 DEF Types, Links
<1>10. Types'
  BY <1>2, <1>4, <1>6, <1>7, <1>8, <1>9 DEF Types, setup
<1>11. OnList' = OnList /\ Working' = {m} /\ Held' = Held
  <2>1. OnList = {a \in Bases : is_free[a]} \ {u} /\ OnList' = {a \in Bases : is_free'[a]}
    BY <1>1, <1>4 DEF OnList
  <2>2. OnList' = OnList
    BY <1>2, <1>6, <2>1
  <2> QED BY <1>2, <1>4, <1>8, <2>2 DEF Working, Held
<1>12. Layout'
  BY <1>2, <1>4, <1>6 DEF Layout
<1>13. Chain'
  <2>1. free_lists'[MaxOrder] = free_lists[MaxOrder]
    BY <1>2, <1>3, <1>4, BigNat DEF Types, Orders
  <2> QED BY <1>2, <1>4, <1>6, <1>7, <1>11, <2>1 DEF Chain, FullHeap
<1>14. LowerLists'
  <2>1. \A k \in 0..MaxOrder-1 : k \in Orders
    BY BigNat DEF Orders
  <2>2. \A k \in 0..MaxOrder-1 : free_lists'[k] = IF k = o THEN u ELSE Null
    BY <1>2, <1>4, <2>1 DEF Types
  <2> QED BY <1>2, <1>4, <1>8, <2>2 DEF LowerLists
<1>15. Owners'
  BY <1>2, <1>11 DEF Owners
<1>16. Splitting'
  BY <1>2, <1>4, <1>8, BigNat DEF Splitting
<1>17. FullHeap'
  BY <1>2, <1>4, <1>12, <1>13, <1>14, <1>15, <1>16
  DEF FullHeap, Inserting, Merging, Growing, setup
<1> QED BY <1>10, <1>17 DEF HeapInv

(* fl_insert links the block in where the walk ended. *)
LEMMA FlInsertStep ==
  ASSUME HeapInv, FlInsert
  PROVE  HeapInv'
<1> DEFINE m == call.ins
           cur == call.cur
<1>1. pc = "insert" /\ UNCHANGED <<setup, maps, live>>
  BY DEF FlInsert, FlInsertFirst, FlInsertAfter
<1>2. /\ Types /\ OnList \in SUBSET Addr /\ m \in Addr /\ m \notin OnList
      /\ ChainOf(OnList, free_lists[MaxOrder], next, prev)
  BY <1>1, InsertFacts
<1>3. /\ free_lists \in [Orders -> Links] /\ next \in [Addr -> Links] /\ prev \in [Addr -> Links]
      /\ MaxOrder \in Orders /\ \A o \in 0..MaxOrder-1 : o \in Orders /\ o # MaxOrder
  BY <1>2, BigNat DEF Types, Orders
<1>4. CASE call.m = Null /\ FlInsertFirst("idle") /\ call' = NoCall
  <2> DEFINE first == free_lists[MaxOrder]
  <2>1. call.ord = MaxOrder
    BY <1>1, <1>4, InsertFacts
  <2>2. /\ first \notin 0..m /\ is_free' = [is_free EXCEPT ![m] = TRUE]
        /\ next' = [next EXCEPT ![m] = first]
        /\ prev' = [a \in Addr |-> IF a = m THEN Null ELSE IF a = first THEN m ELSE prev[a]]
        /\ free_lists' = [free_lists EXCEPT ![MaxOrder] = m]
        /\ pc' = "idle" /\ UNCHANGED size
    BY <1>4, <2>1 DEF FlInsertFirst
  <2>3. first \in Links
    BY <1>3
  <2> HIDE DEF first, m
  <2>4. ChainOf(OnList \cup {m}, m, NextFirst(m, first, next), PrevFirst(m, first, prev))
    BY <1>2, <1>3, <2>2, <2>3, ChainInsertFirst DEF first
  <2>5. ChainOf(OnList \cup {m}, m, next', prev')
    BY <2>2, <2>4 DEF NextFirst, PrevFirst
  <2>6. next' \in [Addr -> Links] /\ prev' \in [Addr -> Links] /\ free_lists' \in [Orders -> Links]
    BY <1>2, <1>3, <2>2, <2>3 DEF Links
  <2>7. free_lists'[MaxOrder] = m /\ \A o \in 0..MaxOrder-1 : free_lists'[o] = free_lists[o]
    BY <1>3, <2>2
  <2> USE DEF m
  <2>8. UNCHANGED <<setup, maps, live, size>>
    BY <1>1, <2>2
  <2> QED BY <1>1, <1>4, <2>2, <2>5, <2>6, <2>7, <2>8, InsertDone
<1>5. CASE call.m = Null /\ FlInsertAfter("idle") /\ call' = NoCall
  <2>1. cur \in OnList /\ cur < m
    BY <1>1, <1>5, InsertFacts DEF FlInsertAfter
  <2>2. /\ next[cur] \notin 0..(m - 1) /\ is_free' = [is_free EXCEPT ![m] = TRUE]
        /\ next' = [next EXCEPT ![m] = next[cur], ![cur] = m]
        /\ prev' = [a \in Addr |-> IF a = m THEN cur ELSE IF a = next[cur] THEN m ELSE prev[a]]
        /\ pc' = "idle" /\ UNCHANGED <<free_lists, size>>
    BY <1>5 DEF FlInsertAfter
  <2> HIDE DEF m, cur
  <2>3. ChainOf(OnList \cup {m}, free_lists[MaxOrder],
                NextAfter(m, cur, next), PrevAfter(m, cur, next, prev))
    BY <1>2, <1>3, <2>1, <2>2, ChainInsertAfter
  <2>4. ChainOf(OnList \cup {m}, free_lists'[MaxOrder], next', prev')
    BY <2>2, <2>3 DEF NextAfter, PrevAfter
  <2>5. next' \in [Addr -> Links] /\ prev' \in [Addr -> Links] /\ free_lists' \in [Orders -> Links]
    BY <1>2, <1>3, <2>1, <2>2 DEF Links
  <2> USE DEF m
  <2>6. UNCHANGED <<setup, maps, live, size>>
    BY <1>1, <2>2
  <2> QED BY <1>1, <1>5, <2>2, <2>4, <2>5, <2>6, InsertDone
<1>6. CASE call.m # Null /\ FlInsertFirst("split") /\ call' = [call EXCEPT !.ins = Null, !.cur = Null]
  BY <1>1, <1>6, InsertHalf
<1>7. CASE call.m # Null /\ FlInsertAfter("split")
  BY <1>1, <1>7, InsertFacts DEF FlInsertAfter
<1> QED BY <1>4, <1>5, <1>6, <1>7 DEF FlInsert

(* srealloc *)

(* srealloc starts to grow a block the program holds. *)
LEMMA SreallocGrowStep ==
  ASSUME HeapInv, NEW p \in DOMAIN live, NEW s \in Nat, SreallocGrow(p, s)
  PROVE  HeapInv'
<1> DEFINE h == ~hugepages
<1>1. /\ pc = "idle" /\ p \in Held /\ pc' = "grow" /\ is_free' = [is_free EXCEPT ![p] = h]
      /\ UNCHANGED <<setup, free_lists, size, next, prev, maps, live>>
  BY DEF SreallocGrow, Held
<1>2. Types /\ FullHeap /\ p \in Bases /\ GetOrder(p) \in Orders /\ size[p] = BlockSize(GetOrder(p))
  BY <1>1, HeldAreBases DEF HeapInv
<1>3. PICK o \in GrowOrders(p, s) :
        call' = [NoCall EXCEPT !.want = s, !.total = Room(p), !.old = p,
                               !.target = o, !.ord = GetOrder(p), !.m = p]
  BY DEF SreallocGrow
<1>4. o \in Orders /\ GetOrder(p) <= o
  BY <1>2, BigNat DEF GrowOrders, Orders
<1>5. p \in Addr /\ p \in Pointers /\ p \notin MmapIds
  BY <1>1, NullNowhere DEF Held, Pointers
<1>6. Room(p) \in Int
  <2>1. size[p] \in Nat /\ MinBlock \in Nat /\ MetaSize \in Nat
    BY <1>2, <1>5, BuddyAssumption, BigNat DEF Types
  <2> QED BY <1>5, <2>1 DEF Room
<1>7. /\ call' \in Calls /\ call'.old = p /\ call'.target = o /\ call'.ord = GetOrder(p)
      /\ call'.m = p /\ call'.cur = Null
  BY <1>2, <1>3, <1>4, <1>5, <1>6, NoCallTyped DEF Calls, Links, NoCall
<1>8. h \in BOOLEAN
  OBVIOUS
<1> HIDE DEF h
<1>9. is_free' \in [Addr -> BOOLEAN] /\ \A a \in Addr : a # p => is_free'[a] = is_free[a]
  BY <1>1, <1>2, <1>5, <1>8 DEF Types
<1>10. Types'
  BY <1>1, <1>2, <1>7, <1>9 DEF Types, setup
<1>11. Held' = Held /\ Working' = {} /\ Working = {} /\ p \notin OnList
  BY <1>1, <1>2 DEF Held, Working, FullHeap, Owners
<1>12. OnList' = OnList
  <2>1. OnList = {a \in Bases : is_free[a]} /\ OnList' = {a \in Bases : is_free'[a]} \ {p}
    BY <1>1, <1>7 DEF OnList
  <2> QED BY <1>9, <1>11, <2>1, BaseFacts
<1>13. Layout'
  <2>1. ASSUME NEW a \in Bases, NEW j \in 0..MaxOrder-1
        PROVE  is_free[a + BlockSize(j)] => is_free'[a + BlockSize(j)]
    <3>1. j \in Orders /\ j < MaxOrder
      BY BigNat DEF Orders
    <3>2. a + BlockSize(j) \in Addr /\ a + BlockSize(j) \notin Bases
      BY <3>1, BaseAligned
    <3> QED BY <1>2, <1>9, <3>2
  <2>2. size' = size
    BY <1>1
  <2> QED BY <1>2, <2>1, <2>2 DEF FullHeap, Layout, LayoutOf
<1>14. Chain' /\ LowerLists' /\ Owners'
  BY <1>1, <1>2, <1>11, <1>12 DEF FullHeap, Chain, LowerLists, Owners
<1>15. Growing'
  BY <1>1, <1>2, <1>4, <1>7, <1>11 DEF Growing
<1>16. FullHeap'
  BY <1>1, <1>2, <1>13, <1>14, <1>15 DEF FullHeap, Splitting, Inserting, Merging, setup
<1> QED BY <1>10, <1>16 DEF HeapInv

(* srealloc has merged far enough and returns the same block. *)
LEMMA GrowDoneStep ==
  ASSUME HeapInv, GrowDone
  PROVE  HeapInv'
<1> DEFINE m == call.m
<1>1. /\ pc = "grow" /\ is_free' = [is_free EXCEPT ![m] = FALSE] /\ pc' = "idle" /\ call' = NoCall
      /\ live' = Given(m, call.want, call.old, GrowCopied)
      /\ UNCHANGED <<setup, free_lists, size, next, prev, maps>>
  BY DEF GrowDone
<1>2. Types /\ FullHeap /\ m \in Held /\ m = call.old
  BY <1>1 DEF HeapInv, EmptyHeap, FullHeap, Growing
<1>3. m \in Bases /\ m \in Addr /\ m \in DOMAIN live
  BY <1>2, BaseFacts DEF FullHeap, Owners, Held
<1>4. DOMAIN live' = DOMAIN live
  BY <1>1, <1>2, <1>3 DEF Given
<1>5. is_free' \in [Addr -> BOOLEAN] /\ is_free'[m] = FALSE /\ \A a \in Addr : a # m => is_free'[a] = is_free[a]
  BY <1>1, <1>2, <1>3 DEF Types
<1>6. Types'
  BY <1>1, <1>2, <1>4, <1>5, NoCallTyped DEF Types, setup, NoCall
<1>7. Held' = Held /\ Working' = {} /\ Working = {} /\ m \notin OnList
  BY <1>1, <1>2, <1>4 DEF Held, Working, OnList
<1>8. OnList' = OnList
  <2>1. OnList = {a \in Bases : is_free[a]} \ {m} /\ OnList' = {a \in Bases : is_free'[a]}
    BY <1>1 DEF OnList
  <2> QED BY <1>3, <1>5, <2>1, BaseFacts
<1>9. Layout'
  <2>1. ASSUME NEW a \in Bases, NEW j \in 0..MaxOrder-1
        PROVE  is_free[a + BlockSize(j)] => is_free'[a + BlockSize(j)]
    <3>1. j \in Orders /\ j < MaxOrder
      BY BigNat DEF Orders
    <3>2. a + BlockSize(j) \in Addr /\ a + BlockSize(j) \notin Bases
      BY <3>1, BaseAligned
    <3> QED BY <1>3, <1>5, <3>2
  <2>2. size' = size
    BY <1>1
  <2> QED BY <1>2, <2>1, <2>2 DEF FullHeap, Layout, LayoutOf
<1>10. Chain' /\ LowerLists' /\ Owners'
  BY <1>1, <1>2, <1>7, <1>8 DEF FullHeap, Chain, LowerLists, Owners
<1>11. FullHeap'
  BY <1>1, <1>2, <1>9, <1>10 DEF FullHeap, Splitting, Inserting, Merging, Growing, setup
<1> QED BY <1>6, <1>11 DEF HeapInv

(* The initial states satisfy the invariant. *)
LEMMA HeapInit == Init => HeapInv
<1>1. SUFFICES ASSUME Init PROVE HeapInv
  OBVIOUS
<1>2. Held = {} /\ DOMAIN live = {}
  BY <1>1 DEF Init, Held
<1>3. Types
  <2>1. /\ free_lists \in [Orders -> Links] /\ is_free \in [Addr -> BOOLEAN]
        /\ next \in [Addr -> Links] /\ prev \in [Addr -> Links]
    BY <1>1 DEF Init, Links
  <2>2. size \in [Addr -> 0..Big]
    BY <1>1, BigNat DEF Init
  <2>3. call = NoCall /\ call \in Calls /\ call.old = Null /\ call.cur = Null
    BY <1>1, NoCallTyped DEF Init, NoCall
  <2> QED BY <1>1, <1>2, <2>1, <2>2, <2>3 DEF Init, Types
<1>4. EmptyHeap
  BY <1>1, <1>2 DEF Init, EmptyHeap
<1> QED BY <1>3, <1>4 DEF HeapInv

(* A stuttering step preserves the invariant. *)
LEMMA HeapStutter ==
  ASSUME HeapInv, UNCHANGED vars
  PROVE  HeapInv'
<1>1. Types'
  BY DEF HeapInv, Types, vars
<1>2. Held' = Held /\ OnList' = OnList /\ Working' = Working
  BY DEF Held, OnList, Working, vars
<1>3. CASE EmptyHeap
  BY <1>1, <1>2, <1>3 DEF HeapInv, EmptyHeap, vars
<1>4. CASE FullHeap
  <2>1. Layout' /\ Chain'
    BY <1>2, <1>4 DEF FullHeap, Layout, Chain, vars
  <2>2. LowerLists' /\ Owners' /\ Splitting' /\ Inserting' /\ Merging' /\ Growing'
    BY <1>2, <1>4 DEF FullHeap, LowerLists, Owners, Splitting, Inserting, Merging, Growing, vars
  <2>3. FullHeap'
    BY <1>4, <2>1, <2>2 DEF FullHeap, vars
  <2> QED BY <1>1, <2>3 DEF HeapInv
<1> QED BY <1>3, <1>4 DEF HeapInv

(* Every step preserves the invariant. *)
LEMMA HeapStep == HeapInv /\ [Next]_vars => HeapInv'
<1>1. SUFFICES ASSUME HeapInv, [Next]_vars PROVE HeapInv'
  OBVIOUS
<1>2. Sizes \subseteq Nat /\ Nums \subseteq Nat /\ SizeT \in Nat \ {0}
      /\ HugeSmalloc \in Nat /\ HugeScalloc \in Nat
  BY BuddyAssumption
<1>3. ASSUME NEW s \in Sizes, Smalloc(s) PROVE HeapInv'
  <2>1. s \in Nat /\ (s >= HugeSmalloc) \in BOOLEAN
    BY <1>2
  <2> QED BY <1>1, <1>3, <2>1, BeginStep DEF Smalloc
<1>4. ASSUME NEW n \in Nums, NEW s \in Sizes, Scalloc(n, s) PROVE HeapInv'
  <2>1. n \in Nat /\ s \in Nat /\ (s > HugeScalloc) \in BOOLEAN
    BY <1>2
  <2>2. n * s \in Nat /\ (n * s) % SizeT \in Nat
    <3>1. n * s \in Nat
      BY <2>1
    <3> QED BY <1>2, <3>1
  <2> QED BY <1>1, <1>4, <2>1, <2>2, BeginStep DEF Scalloc
<1>5. ASSUME NEW p \in DOMAIN live, Sfree(p) PROVE HeapInv'
  BY <1>1, <1>5, SfreeStep
<1>6. ASSUME NEW p \in DOMAIN live, NEW s \in Sizes,
             SreallocInPlace(p, s) \/ SreallocGrow(p, s) \/ SreallocMove(p, s)
      PROVE  HeapInv'
  <2>1. s \in Nat /\ (s >= HugeSmalloc) \in BOOLEAN
    BY <1>2
  <2>2. CASE SreallocInPlace(p, s)
    BY <1>1, <2>2, SreallocInPlaceStep
  <2>3. CASE SreallocGrow(p, s)
    BY <1>1, <2>1, <2>3, SreallocGrowStep
  <2>4. CASE SreallocMove(p, s)
    BY <1>1, <2>1, <2>4, BeginStep DEF SreallocMove
  <2> QED BY <1>6, <2>2, <2>3, <2>4
<1>7. CASE AllocStep
  BY <1>1, <1>7, BuddyInitStep, MmapAllocStep, BuddyFindStep, SplitBlockStep, BuddyTakeStep
  DEF AllocStep
<1>8. CASE FreeStep
  BY <1>1, <1>8, MergeBuddyStep, MergeDoneStep, FlInsertWalkStep, FlInsertStep DEF FreeStep
<1>9. CASE GrowStep
  BY <1>1, <1>9, GrowBuddyStep, GrowDoneStep DEF GrowStep
<1>10. CASE UNCHANGED vars
  BY <1>1, <1>10, HeapStutter
<1> QED BY <1>1, <1>3, <1>4, <1>5, <1>6, <1>7, <1>8, <1>9, <1>10 DEF Next

(* The invariant holds in every reachable state. *)
LEMMA HeapInvariant == Spec => []HeapInv
BY HeapInit, HeapStep, PTL DEF Spec

-----------------------------------------------------------------------------
(* The blocks of the heap *)

Halves == {x \in Addr : \E a \in Bases, j \in 0..MaxOrder-1 :
                          size[a] <= BlockSize(j) /\ x = a + BlockSize(j)}

(* x is the next block after u, where both are of the same base a. *)
LEMMA NextBlock ==
  ASSUME Types, NEW a \in Bases, NEW u \in Nat, NEW k \in Orders,
         a <= u, u < a + BlockSize(k), k < MaxOrder => size[a] <= BlockSize(k),
         \A j \in 0..MaxOrder-1 :
           size[a] <= BlockSize(j) /\ u < a + BlockSize(j) => BlockSize(k) <= BlockSize(j)
  PROVE  IsFrom(Bases \cup Halves, u + 1, a + BlockSize(k), HeapSize)
<1> DEFINE x == a + BlockSize(k)
<1>1. BlockSize(k) \in Nat /\ BlockSize(k) <= Big /\ k \in Nat /\ k <= MaxOrder
  BY BaseAligned, BigNat DEF Orders
<1>2. a \in Nat /\ Big \in Nat /\ HeapSize \in Nat /\ x \in Nat
  <2>1. a \in Nat
    BY BaseFacts
  <2> QED BY <1>1, <2>1, BigNat
<1>3. ASSUME NEW b \in Bases \cup Halves, u < b PROVE x <= b
  <2>1. CASE b \in Bases
    <3>1. b \in Nat /\ a < b
      BY <1>2, <1>3, <2>1, BaseFacts
    <3>2. a + Big <= b
      BY <2>1, <3>1, BaseFacts
    <3> QED BY <1>1, <1>2, <3>1, <3>2
  <2>2. CASE b \in Halves
    <3>1. PICK c \in Bases, j \in 0..MaxOrder-1 : size[c] <= BlockSize(j) /\ b = c + BlockSize(j)
      BY <2>2 DEF Halves
    <3>2. BlockSize(j) \in Nat /\ 2 * BlockSize(j) <= Big
      <4>1. j \in Orders /\ j < MaxOrder
        BY BigNat DEF Orders
      <4> QED BY <4>1, BaseAligned
    <3>3. /\ c \in Nat
          /\ a < c => a + Big <= c
          /\ c < a => c + Big <= a
      BY BaseFacts
    <3>4. CASE c = a
      <4>1. BlockSize(k) <= BlockSize(j)
        BY <1>3, <3>1, <3>4
      <4> QED BY <1>1, <1>2, <3>1, <3>2, <3>4, <4>1
    <3>5. CASE a < c
      BY <1>1, <1>2, <3>1, <3>2, <3>3, <3>5
    <3>6. CASE c < a
      <4>1. b < a
        BY <1>1, <1>2, <3>1, <3>2, <3>3, <3>6, BigNat
      <4> QED BY <1>2, <1>3, <4>1, <3>1, <3>2, <3>3
    <3> QED BY <1>2, <3>3, <3>4, <3>5, <3>6
  <2> QED BY <1>3, <2>1, <2>2
<1>4. x \in Bases \cup Halves \/ x = HeapSize
  <2>1. CASE k = MaxOrder
    BY <2>1, BaseFacts DEF Big
  <2>2. CASE k < MaxOrder
    <3>1. k \in 0..MaxOrder-1
      BY <1>1, <2>2, BigNat
    <3>2. x \in Addr
      BY <2>2, BaseAligned
    <3> QED BY <2>2, <3>1, <3>2 DEF Halves
  <2> QED BY <1>1, <2>1, <2>2, BigNat
<1>5. \A b \in Bases \cup Halves : b \in Nat /\ b < HeapSize
  BY BaseFacts, BigNat DEF Addr, Halves
<1> HIDE DEF x
<1>6. u + 1 <= x
  BY <1>2 DEF x
<1>7. \A b \in Bases \cup Halves : u + 1 <= b => x <= b
  BY <1>3, <1>5
<1>8. CASE x \in Bases \cup Halves
  BY <1>6, <1>7, <1>8 DEF IsFrom, x
<1>9. CASE x = HeapSize
  <2>1. \A b \in Bases \cup Halves : b < u + 1
    BY <1>2, <1>5, <1>7, <1>9
  <2> QED BY <1>9, <2>1 DEF IsFrom, x
<1> QED BY <1>4, <1>8, <1>9

(* count_all_buddy meets the bases and the halves above them. *)
LEMMA BlocksAre ==
  ASSUME Types, Layout
  PROVE  CountAllBuddy.at = HeapSize /\ CountAllBuddy.met = Bases \cup Halves
<1> DEFINE C == Bases \cup Halves
           step == [a \in Addr |-> a + size[a]]
<1>1. C \in SUBSET Addr /\ HeapSize \notin Addr /\ \A b \in C : b \in Nat
  <2>1. Bases \subseteq Addr /\ Halves \subseteq Addr /\ Addr \subseteq Nat
    BY BaseFacts, NullNowhere DEF Halves
  <2> QED BY <2>1, BigNat DEF Addr
<1>2. IsFrom(C, 0, 0, HeapSize)
  BY <1>1, BaseFacts DEF IsFrom
<1>3. ASSUME NEW a \in Bases PROVE IsFrom(C, a + 1, step[a], HeapSize)
  <2>1. PICK k \in Orders : size[a] = BlockSize(k)
    BY DEF Layout, LayoutOf
  <2>2. a \in Nat /\ a \in Addr /\ BlockSize(k) \in Nat /\ 0 < BlockSize(k)
    BY BaseFacts, BaseAligned
  <2>3. step[a] = a + BlockSize(k)
    BY <2>1, <2>2
  <2>4. a <= a /\ a < a + BlockSize(k) /\ size[a] <= BlockSize(k)
    BY <2>1, <2>2
  <2>5. \A j \in 0..MaxOrder-1 : size[a] <= BlockSize(j) => BlockSize(k) <= BlockSize(j)
    BY <2>1
  <2> QED BY <2>2, <2>3, <2>4, <2>5, NextBlock
<1>4. ASSUME NEW u \in Halves PROVE IsFrom(C, u + 1, step[u], HeapSize)
  <2>1. PICK a \in Bases, j \in 0..MaxOrder-1 : size[a] <= BlockSize(j) /\ u = a + BlockSize(j)
    BY DEF Halves
  <2>2. u \in Addr /\ size[u] = BlockSize(j)
    BY <2>1 DEF Halves, Layout, LayoutOf
  <2>3. j \in Nat /\ j + 1 \in Nat /\ j + 1 \in Orders /\ MaxOrder \in Nat
    BY BigNat DEF Orders
  <2>4. a \in Nat /\ BlockSize(j) \in Nat /\ BlockSize(j) > 0 /\ BlockSize(j + 1) = 2 * BlockSize(j)
    BY <2>3, BaseFacts, BlockSizeNat, BlockSizeIs
  <2>5. size[a] \in Nat /\ u \in Nat
    <3>1. a \in Addr
      BY BaseFacts
    <3> QED BY <2>1, <2>4, <3>1, BigNat DEF Types
  <2>6. step[u] = a + BlockSize(j + 1)
    BY <2>1, <2>2, <2>4
  <2>7. a <= u /\ u < a + BlockSize(j + 1) /\ size[a] <= BlockSize(j + 1)
    BY <2>1, <2>4, <2>5
  <2>8. ASSUME NEW k \in 0..MaxOrder-1, u < a + BlockSize(k) PROVE BlockSize(j + 1) <= BlockSize(k)
    <3>1. k \in Nat /\ BlockSize(k) \in Nat
      BY <2>3, BlockSizeNat
    <3>2. BlockSize(j) < BlockSize(k)
      BY <2>1, <2>4, <2>8, <3>1
    <3>3. j < k
      BY <2>3, <3>1, <3>2, BlockSizeGrows
    <3>4. 2 * BlockSize(j) <= BlockSize(k)
      BY <2>3, <3>1, <3>3, BlockSizeGrows
    <3> QED BY <2>4, <3>4
  <2> QED BY <2>3, <2>5, <2>6, <2>7, <2>8, NextBlock
<1>5. \A a \in C : IsFrom(C, a + 1, step[a], HeapSize)
  BY <1>3, <1>4
<1> HIDE DEF C, step
<1>6. Walk(0, step).at = HeapSize /\ Walk(0, step).met = C
  BY <1>1, <1>2, <1>5, WalkMeets
<1> QED BY <1>6 DEF CountAllBuddy, C, step

(* Once there is a heap, it is the one the invariant describes. *)
LEMMA ReadyIsFull ==
  ASSUME HeapInv
  PROVE  HeapReady => FullHeap
<1>1. 0 \in Addr
  BY BigNat DEF Addr
<1> QED BY <1>1 DEF HeapInv, EmptyHeap, HeapReady

(* The layout of the bases makes blocks tile the heap. *)
LEMMA TilesInv == HeapInv => BlocksTileHeap
<1>1. SUFFICES ASSUME HeapInv, HeapReady
               PROVE  LET walk == CountAllBuddy
                      IN  /\ walk.at = HeapSize
                          /\ \A a \in walk.met :
                               \E o \in Orders : size[a] = BlockSize(o) /\ a % BlockSize(o) = 0
                          /\ DOMAIN live \cap Addr \subseteq walk.met
  BY DEF BlocksTileHeap
<1>2. FullHeap /\ Types
  BY <1>1, ReadyIsFull DEF HeapInv
<1>3. CountAllBuddy.at = HeapSize /\ CountAllBuddy.met = Bases \cup Halves
  BY <1>2, BlocksAre DEF FullHeap
<1>4. ASSUME NEW a \in Bases PROVE \E o \in Orders : size[a] = BlockSize(o) /\ a % BlockSize(o) = 0
  BY <1>2, BaseAligned DEF FullHeap, Layout, LayoutOf
<1>5. ASSUME NEW u \in Halves PROVE \E o \in Orders : size[u] = BlockSize(o) /\ u % BlockSize(o) = 0
  <2>1. PICK a \in Bases, j \in 0..MaxOrder-1 : size[a] <= BlockSize(j) /\ u = a + BlockSize(j)
    BY DEF Halves
  <2>2. size[u] = BlockSize(j)
    BY <1>2, <2>1 DEF FullHeap, Layout, LayoutOf
  <2>3. j \in Orders /\ j < MaxOrder
    BY BigNat DEF Orders
  <2> QED BY <2>1, <2>2, <2>3, BaseAligned
<1>6. DOMAIN live \cap Addr \subseteq Bases
  BY <1>2 DEF FullHeap, Owners, Held
<1> QED BY <1>3, <1>4, <1>5, <1>6

(* The chain of the invariant is what the lists lead along. *)
LEMMA ListsInv == HeapInv => ListsSound
<1>1. SUFFICES ASSUME HeapInv PROVE ListsSound
  OBVIOUS
<1>2. CASE EmptyHeap
  BY <1>2 DEF EmptyHeap, ListsSound
<1>3. CASE FullHeap
  <2> DEFINE FreeBlocks == {a \in Blocks : is_free[a]}
  <2>1. Types /\ Layout /\ ChainOf(OnList, free_lists[MaxOrder], next, prev)
    BY <1>1, <1>3 DEF HeapInv, FullHeap, Chain
  <2>2. Blocks = Bases \cup Halves
    BY <2>1, BlocksAre DEF Blocks
  <2>3. \A a \in OnList : a \in FreeBlocks /\ size[a] = Big /\ a \in Addr /\ a \in Nat /\ a # Null
    BY <1>3, <2>2, BaseFacts, NullNowhere DEF OnList, FullHeap, Chain
  <2> HIDE DEF FreeBlocks
  <2>4. ASSUME NEW o \in Orders, free_lists[o] # Null
        PROVE  /\ free_lists[o] \in FreeBlocks /\ size[free_lists[o]] = BlockSize(o)
               /\ prev[free_lists[o]] = Null
    <3> DEFINE a == free_lists[o]
    <3>1. CASE o = MaxOrder
      <4>1. a \in OnList
        BY <2>1, <2>4, <3>1 DEF ChainOf, IsFrom
      <4>2. OnList \in SUBSET Addr /\ next \in [Addr -> Links] /\ prev \in [Addr -> Links]
        BY <2>1, <2>3 DEF Types
      <4>3. prev[a] = Null
        <5>1. ChainOf(OnList, a, next, prev)
          BY <2>1, <3>1
        <5> HIDE DEF a
        <5> QED BY <4>1, <4>2, <5>1, ChainRemoveFirst
      <4> QED BY <2>3, <3>1, <4>1, <4>3 DEF Big
    <3>2. CASE o # MaxOrder
      <4>1. o \in 0..MaxOrder-1 /\ o < MaxOrder
        BY <3>2, BigNat DEF Orders
      <4>2. pc = "split" /\ o = call.ord /\ a = call.m + BlockSize(o)
        BY <1>3, <2>4, <4>1 DEF FullHeap, LowerLists
      <4>3. call.m \in Bases /\ size[call.m] = BlockSize(o)
        BY <1>3, <4>2 DEF FullHeap, Splitting
      <4>4. a \in Addr /\ a \notin Bases /\ BlockSize(o) \in Nat
        BY <4>1, <4>2, <4>3, BaseAligned
      <4>5. size[call.m] <= BlockSize(o)
        BY <4>3, <4>4
      <4>6. a \in Halves /\ size[a] = BlockSize(o) /\ is_free[a]
        BY <2>1, <4>1, <4>2, <4>3, <4>4, <4>5 DEF Halves, Layout, LayoutOf
      <4>7. a \notin OnList
        BY <4>4 DEF OnList
      <4>8. prev[a] = Null
        BY <2>1, <4>4, <4>7 DEF ChainOf
      <4> QED BY <2>2, <4>6, <4>8 DEF FreeBlocks
    <3> QED BY <3>1, <3>2
  <2>5. ASSUME NEW a \in Addr, next[a] # Null
        PROVE  /\ a < next[a] /\ prev[next[a]] = a
               /\ {a, next[a]} \subseteq FreeBlocks /\ size[a] = size[next[a]]
    <3>1. a \in OnList
      BY <2>1, <2>5 DEF ChainOf
    <3>2. IsFrom(OnList, a + 1, next[a], Null) /\ prev[next[a]] = a
      BY <2>1, <2>5, <3>1 DEF ChainOf
    <3>3. next[a] \in OnList /\ a + 1 <= next[a]
      BY <2>5, <3>2 DEF IsFrom
    <3> QED BY <2>3, <3>1, <3>2, <3>3
  <2>6. \A a \in Addr : prev[a] # Null => next[prev[a]] = a
    BY <2>1 DEF ChainOf
  <2> QED BY <2>4, <2>5, <2>6 DEF ListsSound, FreeBlocks
<1> QED BY <1>1, <1>2, <1>3 DEF HeapInv

(* A base merged below MAX_ORDER is not free. *)
LEMMA CoalescedInv == HeapInv => Coalesced
<1>1. SUFFICES ASSUME HeapInv, pc = "idle", NEW a \in Blocks, NEW o \in 0..MaxOrder-1,
                      is_free[a], size[a] = BlockSize(o), BuddyIsFree(a, o)
               PROVE  FALSE
  BY DEF Coalesced
<1>2. FullHeap /\ Types /\ Layout
  <2>1. GetBuddy(a, o) \in Addr /\ is_free[GetBuddy(a, o)]
    BY <1>1 DEF BuddyIsFree
  <2> QED BY <1>1, <2>1 DEF HeapInv, EmptyHeap, FullHeap
<1>3. a \in Bases \cup Halves
  BY <1>2, BlocksAre DEF Blocks
<1>4. o \in Orders /\ o < MaxOrder /\ o \in Nat /\ MaxOrder \in Nat
  BY BigNat DEF Orders
<1>5. OnList = {b \in Bases : is_free[b]} /\ \A b \in OnList : size[b] = Big
  BY <1>1, <1>2 DEF OnList, FullHeap, Chain
<1>6. CASE a \in Bases
  <2>1. BlockSize(o) = BlockSize(MaxOrder)
    BY <1>1, <1>5, <1>6 DEF Big
  <2> QED BY <1>4, <2>1, BlockSizeGrows
<1>7. CASE a \in Halves
  <2>1. PICK b \in Bases, j \in 0..MaxOrder-1 : size[b] <= BlockSize(j) /\ a = b + BlockSize(j)
    BY <1>7 DEF Halves
  <2>2. size[a] = BlockSize(j)
    BY <1>2, <2>1 DEF Layout, LayoutOf
  <2>3. j = o
    <3>1. j \in Nat /\ BlockSize(j) = BlockSize(o)
      BY <1>1, <1>4, <2>2
    <3> QED BY <1>4, <3>1, BlockSizeGrows
  <2>4. GetBuddy(a, o) = b /\ BlockSize(o) \in Nat /\ 2 * BlockSize(o) <= Big /\ 0 < BlockSize(o)
    BY <1>4, <2>1, <2>3, BaseAligned
  <2>5. is_free[b]
    BY <1>1, <2>4 DEF BuddyIsFree
  <2>6. size[b] = Big
    BY <1>5, <2>5
  <2> QED BY <2>1, <2>3, <2>4, <2>6, BigNat
<1> QED BY <1>3, <1>6, <1>7

(* With no base held or worked on, all of them are on the list. *)
LEMMA ComesBackInv == HeapInv => EverythingComesBack
<1>1. SUFFICES ASSUME HeapInv, pc = "idle", HeapReady, DOMAIN live \cap Addr = {}
               PROVE  Listed(MaxOrder) = {i * BlockSize(MaxOrder) : i \in 0..InitialBlocks-1}
  BY DEF EverythingComesBack
<1>2. FullHeap /\ ChainOf(OnList, free_lists[MaxOrder], next, prev)
  BY <1>1, ReadyIsFull DEF FullHeap, Chain
<1>3. OnList = Bases
  BY <1>1, <1>2 DEF FullHeap, Owners, Held, Working
<1>4. /\ Bases \in SUBSET Addr /\ Null \notin Addr
      /\ IsFrom(Bases, 0, free_lists[MaxOrder], Null)
      /\ \A a \in Bases : IsFrom(Bases, a + 1, next[a], Null)
  BY <1>2, <1>3, BaseFacts, NullNowhere DEF ChainOf
<1>5. Walk(free_lists[MaxOrder], next).met = Bases
  BY <1>4, WalkMeets
<1> QED BY <1>5 DEF Listed, Bases, Big

-----------------------------------------------------------------------------
(* What a step writes *)

Untouched(a) ==
  /\ size'[a] = size[a] /\ is_free'[a] = is_free[a]
  /\ next'[a] = next[a] /\ prev'[a] = prev[a]

(* The units of a block the program holds: none of them starts another     *)
(* base or carries a half of another base.                                 *)
LEMMA InsideHeld ==
  ASSUME HeapInv, NEW p \in Held, NEW a \in p..p + size[p] - 1
  PROVE  /\ FullHeap /\ p \in Bases /\ a \in Addr /\ a # Null
         /\ a \in Bases => a = p
         /\ \A b \in Bases, j \in 0..MaxOrder-1 : a = b + BlockSize(j) => b = p /\ BlockSize(j) < size[p]
         /\ a \notin OnList
<1>1. FullHeap /\ p \in Bases /\ p \in Addr
  BY HeldAreBases DEF Held
<1>2. PICK o \in Orders : size[p] = BlockSize(o)
  BY <1>1 DEF FullHeap, Layout, LayoutOf
<1>3. size[p] \in Nat /\ size[p] <= Big
  BY <1>1, <1>2, BaseAligned
<1>4. p \in Nat /\ p + Big <= HeapSize
  BY <1>1, BaseFacts
<1>5. a \in Nat /\ p <= a /\ a < p + Big /\ a < p + size[p]
  BY <1>3, <1>4, BigNat
<1>6. a \in Addr /\ a # Null
  BY <1>4, <1>5, BigNat, NullNowhere DEF Addr
<1>7. ASSUME NEW b \in Bases, b <= a PROVE b <= p
  <2>1. b \in Nat /\ (p < b => p + Big <= b)
    BY <1>1, BaseFacts
  <2> QED BY <1>4, <1>5, <1>7, <2>1, BigNat
<1>8. a \in Bases => a = p
  BY <1>4, <1>5, <1>7
<1>9. ASSUME NEW b \in Bases, NEW j \in 0..MaxOrder-1, a = b + BlockSize(j)
      PROVE  b = p /\ BlockSize(j) < size[p]
  <2>1. BlockSize(j) \in Nat /\ 2 * BlockSize(j) <= Big
    <3>1. j \in Orders /\ j < MaxOrder
      BY BigNat DEF Orders
    <3> QED BY <1>1, <3>1, BaseAligned
  <2>2. b \in Nat /\ (b < p => b + Big <= p)
    BY <1>1, BaseFacts
  <2>3. b <= a
    BY <1>9, <2>1, <2>2
  <2>4. b <= p
    BY <1>7, <2>3
  <2>5. b = p
    BY <1>4, <1>5, <1>9, <2>1, <2>2, <2>4, BigNat
  <2> QED BY <1>3, <1>4, <1>5, <1>9, <2>1, <2>5
<1>10. a \notin OnList
  BY <1>1, <1>8 DEF OnList, FullHeap, Owners
<1> QED BY <1>1, <1>6, <1>8, <1>9, <1>10

(* split_block and buddy_alloc leave blocks in use alone. *)
LEMMA SplitWrites ==
  ASSUME HeapInv, SplitBlock \/ BuddyTake, NEW p \in Held, NEW a \in p..p + size[p] - 1
  PROVE  Untouched(a)
<1> DEFINE m == call.m
           o == call.ord
           u == m + BlockSize(o - 1)
<1>1. pc = "split"
  BY DEF SplitBlock, BuddyTake
<1>2. FullHeap /\ m \in Bases /\ m \notin Held /\ OnList = {b \in Bases : is_free[b]}
  BY <1>1, TakeOff
<1>3. /\ p \in Bases /\ a \in Addr /\ a # Null /\ (a \in Bases => a = p)
      /\ \A b \in Bases, j \in 0..MaxOrder-1 : a = b + BlockSize(j) => b = p
      /\ a \notin OnList
  BY InsideHeld
<1>4. a # m
  BY <1>2, <1>3
<1>5. Types /\ ChainOf(OnList, free_lists[MaxOrder], next, prev)
  BY <1>2 DEF HeapInv, FullHeap, Chain
<1>6. a # next[m] /\ a # prev[m]
  <2>1. m \in Addr
    BY <1>2, BaseFacts
  <2>2. next[m] = Null \/ next[m] \in OnList
    BY <1>5, <2>1 DEF ChainOf, IsFrom
  <2>3. prev[m] = Null \/ prev[m] \in OnList
    BY <1>5, <2>1 DEF ChainOf
  <2> QED BY <1>3, <2>2, <2>3
<1>7. Unlinked(m, next, prev)[a] = next[a] /\ Unlinked(m, prev, next)[a] = prev[a]
  BY <1>3, <1>4, <1>6 DEF Unlinked
<1>8. CASE SplitBlock
  <2>1. o - 1 \in 0..MaxOrder-1
    <3>1. o \in Orders /\ call.target \in Orders /\ o > call.target
      BY <1>5, <1>8 DEF Types, Calls, SplitBlock
    <3> QED BY <3>1, BigNat DEF Orders
  <2>2. a # u
    BY <1>2, <1>3, <2>1
  <2>3. size'[a] = size[a] /\ is_free'[a] = is_free[a]
    BY <1>3, <1>4, <1>5, <1>8, <2>2 DEF SplitBlock, Types
  <2>4. next'[a] = Unlinked(m, next, prev)[a] /\ prev'[a] = Unlinked(m, prev, next)[a]
    BY <1>3, <1>8, <2>2 DEF SplitBlock, Unlinked
  <2> QED BY <1>7, <2>3, <2>4 DEF Untouched
<1>9. CASE BuddyTake
  <2>1. size'[a] = size[a] /\ is_free'[a] = is_free[a]
    BY <1>3, <1>4, <1>5, <1>9 DEF BuddyTake, Types
  <2>2. next'[a] = Unlinked(m, next, prev)[a] /\ prev'[a] = Unlinked(m, prev, next)[a]
    BY <1>9 DEF BuddyTake, FlRemove
  <2> QED BY <1>7, <2>1, <2>2 DEF Untouched
<1> QED BY <1>8, <1>9

(* fl_insert leaves blocks in use alone. *)
LEMMA InsertWrites ==
  ASSUME HeapInv, FlInsert, NEW p \in Held, NEW a \in p..p + size[p] - 1
  PROVE  Untouched(a)
<1> DEFINE m == call.ins
<1>1. pc = "insert"
  BY DEF FlInsert, FlInsertFirst, FlInsertAfter
<1>2. /\ p \in Bases /\ a \in Addr /\ a # Null /\ (a \in Bases => a = p)
      /\ \A b \in Bases, j \in 0..MaxOrder-1 : a = b + BlockSize(j) => b = p
      /\ a \notin OnList
  BY InsideHeld
<1>3. /\ Types /\ Owners /\ ChainOf(OnList, free_lists[MaxOrder], next, prev)
      /\ m \in Addr /\ \A o \in 0..MaxOrder-1 : free_lists[o] = Null
  BY <1>1, InsertFacts
<1>4. a # m
  <2>1. CASE call.m # Null
    <3>1. /\ call.m \in Bases /\ call.ord \in 0..MaxOrder-1
          /\ m = call.m + BlockSize(call.ord) /\ Working = {call.m}
      BY <1>1, <2>1, InsertFacts
    <3>2. call.m # p
      BY <1>3, <3>1 DEF Owners
    <3> QED BY <1>2, <3>1, <3>2
  <2>2. CASE call.m = Null
    <3>1. m \in Bases /\ Working = {m}
      BY <1>1, <2>2, InsertFacts
    <3> QED BY <1>2, <1>3, <3>1 DEF Owners
  <2> QED BY <2>1, <2>2
<1>5. a # free_lists[call.ord]
  <2>1. call.ord = MaxOrder \/ call.ord \in 0..MaxOrder-1
    BY <1>1, InsertFacts
  <2>2. free_lists[MaxOrder] = Null \/ free_lists[MaxOrder] \in OnList
    BY <1>3 DEF ChainOf, IsFrom
  <2> QED BY <1>2, <1>3, <2>1, <2>2
<1>6. CASE \E then \in {"idle", "split"} : FlInsertFirst(then)
  <2>1. /\ is_free' = [is_free EXCEPT ![m] = TRUE]
        /\ next' = [next EXCEPT ![m] = free_lists[call.ord]]
        /\ prev' = [b \in Addr |-> IF b = m THEN Null ELSE IF b = free_lists[call.ord] THEN m ELSE prev[b]]
        /\ size' = size
    BY <1>6 DEF FlInsertFirst
  <2> QED BY <1>2, <1>3, <1>4, <1>5, <2>1 DEF Untouched, Types
<1>7. CASE \E then \in {"idle", "split"} : FlInsertAfter(then)
  <2> DEFINE cur == call.cur
  <2>1. /\ is_free' = [is_free EXCEPT ![m] = TRUE]
        /\ next' = [next EXCEPT ![m] = next[cur], ![cur] = m]
        /\ prev' = [b \in Addr |-> IF b = m THEN cur ELSE IF b = next[cur] THEN m ELSE prev[b]]
        /\ size' = size /\ cur # Null
    BY <1>7 DEF FlInsertAfter
  <2>2. cur \in OnList
    BY <1>1, <2>1, InsertFacts
  <2>3. next[cur] = Null \/ next[cur] \in OnList
    BY <1>3, <2>2 DEF ChainOf, IsFrom
  <2>4. a # cur /\ a # next[cur]
    BY <1>2, <2>2, <2>3
  <2> HIDE DEF cur, m
  <2> QED BY <1>2, <1>3, <1>4, <2>1, <2>4 DEF Untouched, Types
<1> QED BY <1>6, <1>7 DEF FlInsert

(* Merging and growing write the metadata of the block they are about. *)
LEMMA MergeWrites ==
  ASSUME HeapInv, MergeBuddy \/ MergeDone \/ GrowBuddy \/ GrowDone,
         NEW a \in Addr, a # call.m
  PROVE  Untouched(a)
<1>1. Types
  BY DEF HeapInv
<1>2. CASE MergeBuddy \/ GrowBuddy
  <2>1. call.ord < MaxOrder
    <3>1. call.ord \in Orders /\ call.target \in Orders
      BY <1>1 DEF Types, Calls
    <3> QED BY <1>2, <3>1, BigNat DEF MergeBuddy, GrowBuddy, Orders
  <2>2. /\ next' = next /\ prev' = prev /\ size' = MergeSize(call.m, call.ord)
    BY <1>2, <2>1, MergeTurn DEF MergeBuddy, GrowBuddy
  <2>3. is_free' = is_free
    BY <1>2 DEF MergeBuddy, GrowBuddy
  <2> QED BY <1>1, <2>2, <2>3 DEF Untouched, MergeSize, Types
<1>3. CASE MergeDone \/ GrowDone
  <2>1. /\ UNCHANGED <<size, next, prev>>
        /\ \E v \in BOOLEAN : is_free' = [is_free EXCEPT ![call.m] = v]
    BY <1>3 DEF MergeDone, GrowDone
  <2> QED BY <1>1, <2>1 DEF Untouched, Types
<1> QED BY <1>2, <1>3

(* So does every step, but for the metadata of its own block. *)
LEMMA HandsOffStep ==
  ASSUME HeapInv, Next, NEW p \in DOMAIN live \cap Addr,
         NEW a \in p + (IF p \in {call.m, call.old, call'.old} THEN 1 ELSE 0) .. p + size[p] - 1
  PROVE  Untouched(a)
<1>1. p \in Held /\ p \in Nat
  BY NullNowhere DEF Held
<1>2. size[p] \in Nat
  <2>1. p \in Addr
    OBVIOUS
  <2> QED BY <2>1, BigNat DEF HeapInv, Types
<1>3. a \in p..p + size[p] - 1 /\ a \in Int
  BY <1>1, <1>2
<1>4. p \in {call.m, call.old, call'.old} => a # p
  BY <1>1, <1>2
<1>5. /\ FullHeap /\ p \in Bases /\ a \in Addr /\ a # Null
      /\ a \in Bases => a = p
  BY <1>1, <1>3, InsideHeld
<1>6. CASE UNCHANGED heap
  BY <1>6 DEF heap, Untouched
<1>7. CASE SplitBlock \/ BuddyTake
  BY <1>1, <1>3, <1>7, SplitWrites
<1>8. CASE FlInsert
  BY <1>1, <1>3, <1>8, InsertWrites
<1>9. CASE MergeBuddy \/ MergeDone \/ GrowBuddy \/ GrowDone
  <2>1. call.m \in Bases
    BY <1>5, <1>9 DEF FullHeap, Merging, Growing, Owners, MergeBuddy, MergeDone, GrowBuddy, GrowDone
  <2>2. a # call.m
    BY <1>4, <1>5, <2>1
  <2> QED BY <1>5, <1>9, <2>2, MergeWrites
<1>10. CASE \E q \in DOMAIN live, s \in Sizes : SreallocGrow(q, s)
  <2>1. PICK q \in DOMAIN live, s \in Sizes : SreallocGrow(q, s)
    BY <1>10
  <2>2. q \in Held
    BY <2>1 DEF SreallocGrow, Held
  <2>3. q \in Bases /\ q \in Addr
    BY <1>1, <2>2, HeldAreBases DEF Held
  <2>4. call'.old = q
    <3>1. \E o : call' = [NoCall EXCEPT !.want = s, !.total = Room(q), !.old = q,
                                        !.target = o, !.ord = GetOrder(q), !.m = q]
      BY <2>1 DEF SreallocGrow
    <3> QED BY <3>1 DEF NoCall
  <2>5. a # q
    BY <1>4, <1>5, <2>3, <2>4
  <2> DEFINE h == ~hugepages
  <2>6. is_free' = [is_free EXCEPT ![q] = h] /\ UNCHANGED <<size, next, prev>>
    BY <2>1 DEF SreallocGrow
  <2>7. is_free \in [Addr -> BOOLEAN]
    BY DEF HeapInv, Types
  <2> HIDE DEF h
  <2> QED BY <1>5, <2>5, <2>6, <2>7 DEF Untouched
<1>11. ~ BuddyInit
  BY <1>5 DEF FullHeap, BuddyInit
<1>12. \/ \E s \in Sizes : Smalloc(s)
       \/ \E n \in Nums, s \in Sizes : Scalloc(n, s)
       \/ \E q \in DOMAIN live : Sfree(q)
       \/ \E q \in DOMAIN live, s \in Sizes : SreallocInPlace(q, s) \/ SreallocMove(q, s)
       \/ MmapAlloc \/ BuddyFind \/ FlInsertWalk
       => UNCHANGED heap
  BY DEF Smalloc, Scalloc, Begin, Sfree, SreallocInPlace, SreallocMove, MmapAlloc, BuddyFind, FlInsertWalk
<1> QED BY <1>6, <1>7, <1>8, <1>9, <1>10, <1>11, <1>12 DEF Next, AllocStep, FreeStep, GrowStep

-----------------------------------------------------------------------------
(* Mappings. They are whole pages, and whole huge pages where the kernel   *)
(* gave those, so that munmap takes the length recomputed from the         *)
(* metadata.                                                               *)

Mapped(mm, k) ==
  /\ DOMAIN mm \subseteq MmapIds /\ DOMAIN k = DOMAIN mm
  /\ \A i \in DOMAIN mm :
       /\ mm[i] \in Nat /\ k[i].bytes = MetaSize + mm[i]
       /\ (MetaSize + mm[i]) % Page = 0
       /\ k[i].huge => (MetaSize + mm[i]) % HugePage = 0

MapInv == Mapped(mmaps, kernel)

(* What the pages' sizes are assumed to be. *)
LEMMA PageSizes ==
  /\ Page \in Nat /\ Page > 0 /\ HugePage \in Nat /\ HugePage > 0 /\ HugePage % Page = 0
  /\ MetaSize \in Nat
BY BuddyAssumption

(* Quotient and remainder. *)
LEMMA Division ==
  ASSUME NEW n \in Nat, NEW p \in Nat, p > 0
  PROVE  /\ n \div p \in Nat /\ n % p \in Nat /\ n % p < p
         /\ n = (n \div p) * p + (n % p)
<1>1. n % p \in Nat /\ n % p < p
  OBVIOUS
<1>2. n \div p \in Int
  OBVIOUS
<1>3. n = (n \div p) * p + (n % p)
  BY SMTT(30)
<1>4. n \div p >= 0
  <2> SUFFICES ASSUME n \div p < 0 PROVE FALSE
    BY <1>2
  <2> DEFINE q == n \div p
             r == n % p
  <2>1. q \in Int /\ q <= -1 /\ r \in Nat /\ r < p /\ n = q * p + r
    BY <1>1, <1>2, <1>3
  <2> HIDE DEF q, r
  <2>2. q * p <= -p
    BY <2>1
  <2> QED BY <2>1, <2>2
<1> QED BY <1>1, <1>2, <1>3, <1>4

(* Rounding up gives whole pages, and leaves whole pages as they are. *)
LEMMA RoundUpIs ==
  ASSUME NEW n \in Nat, NEW p \in Nat, p > 0
  PROVE  /\ RoundUp(n, p) \in Nat /\ n <= RoundUp(n, p) /\ RoundUp(n, p) % p = 0
         /\ n % p = 0 => RoundUp(n, p) = n
<1> DEFINE N == n + p - 1
           q == N \div p
           r == N % p
<1>1. N \in Nat
  OBVIOUS
<1>2. q \in Nat /\ r \in Nat /\ r < p /\ N = q * p + r
  <2> HIDE DEF N
  <2> QED BY <1>1, Division
<1>3. RoundUp(n, p) = q * p
  BY DEF RoundUp
<1>4. ASSUME n % p = 0 PROVE q = n \div p /\ n = (n \div p) * p
  <2> DEFINE k == n \div p
  <2>1. k \in Nat /\ n = k * p
    BY <1>4, Division
  <2> HIDE DEF k
  <2>2. N = k * p + (p - 1) /\ p - 1 \in Nat /\ p - 1 < p
    BY <2>1
  <2>3. (k * p + (p - 1)) \div p = k
    BY <2>1, <2>2
  <2> QED BY <2>1, <2>2, <2>3 DEF k
<1> HIDE DEF q, r
<1>5. q * p \in Nat /\ n <= q * p
  <2>1. q * p \in Nat
    BY <1>2
  <2>2. n + p - 1 = q * p + r
    BY <1>2
  <2> QED BY <1>2, <2>1, <2>2
<1>6. (q * p) % p = 0
  BY <1>2, Multiple
<1> QED BY <1>3, <1>4, <1>5, <1>6

(* Freeing a mapping gives all of its pages back. *)
LEMMA MmapFreeKeeps ==
  ASSUME NEW mm, NEW k, NEW i, Mapped(mm, k), MmapFree(mm, k, i)
  PROVE  MapInv'
<1>1. mmaps' = [j \in DOMAIN mm \ {i} |-> mm[j]]
  BY DEF MmapFree
<1>2. DOMAIN mmaps' = DOMAIN mm \ {i} /\ \A j \in DOMAIN mmaps' : mmaps'[j] = mm[j]
  BY <1>1
<1>3. DOMAIN kernel' = DOMAIN k \ {i} /\ \A j \in DOMAIN kernel' : kernel'[j] = k[j]
  <2>1. CASE i \notin DOMAIN mm
    <3>1. kernel' = k
      BY <2>1 DEF MmapFree
    <3> QED BY <2>1, <3>1 DEF Mapped
  <2>2. CASE i \in DOMAIN mm
    <3> DEFINE L == MetaSize + mm[i]
    <3>1. kernel' = Munmap(k, i, L)
      BY <2>2 DEF MmapFree
    <3>2. L \in Nat /\ k[i].bytes = L /\ L % Page = 0 /\ (k[i].huge => L % HugePage = 0)
      BY <2>2, PageSizes DEF Mapped
    <3> HIDE DEF L
    <3>3. RoundUp(L, Page) = L
      BY <3>2, PageSizes, RoundUpIs
    <3>4. k[i].bytes - RoundUp(L, Page) = 0
      BY <3>2, <3>3
    <3>5. Munmap(k, i, L) = [j \in DOMAIN k \ {i} |-> k[j]]
      <4>1. ~ (k[i].huge /\ L % HugePage # 0)
        BY <3>2
      <4>2. ~ (k[i].bytes - RoundUp(L, Page) > 0)
        BY <3>4
      <4> QED BY <4>1, <4>2 DEF Munmap
    <3> QED BY <3>1, <3>5
  <2> QED BY <2>1, <2>2
<1>4. DOMAIN kernel' = DOMAIN mmaps' /\ DOMAIN mmaps' \subseteq MmapIds
  BY <1>2, <1>3 DEF Mapped
<1>5. ASSUME NEW j \in DOMAIN mmaps'
      PROVE  /\ mmaps'[j] \in Nat /\ kernel'[j].bytes = MetaSize + mmaps'[j]
             /\ (MetaSize + mmaps'[j]) % Page = 0
             /\ kernel'[j].huge => (MetaSize + mmaps'[j]) % HugePage = 0
  <2>1. j \in DOMAIN mm /\ mmaps'[j] = mm[j] /\ kernel'[j] = k[j]
    BY <1>2, <1>3, <1>4
  <2> QED BY <2>1 DEF Mapped
<1> QED BY <1>4, <1>5 DEF MapInv, Mapped

(* mmap_alloc_internal maps whole pages, huge ones if the kernel has them. *)
LEMMA MmapAllocMaps ==
  ASSUME HeapInv, MapInv, MmapAlloc
  PROVE  MapInv'
<1> DEFINE pg == IF call.huge THEN HugePage ELSE Page
           length == RoundUp(MetaSize + call.total, pg)
<1>1. CASE UNCHANGED maps
  BY <1>1 DEF MapInv, maps
<1>2. ASSUME NEW i \in MmapIds \ DOMAIN kernel, NEW huge \in {FALSE, call.huge},
             Return(i, [j \in DOMAIN mmaps \cup {i} |-> IF j = i THEN length - MetaSize ELSE mmaps[j]],
                       [j \in DOMAIN kernel \cup {i} |->
                          IF j = i THEN [bytes |-> length, huge |-> huge] ELSE kernel[j]])
      PROVE  MapInv'
  <2> DEFINE mm == [j \in DOMAIN mmaps \cup {i} |-> IF j = i THEN length - MetaSize ELSE mmaps[j]]
             k == [j \in DOMAIN kernel \cup {i} |->
                     IF j = i THEN [bytes |-> length, huge |-> huge] ELSE kernel[j]]
  <2>1. MmapFree(mm, k, call.old)
    BY <1>2 DEF Return
  <2>2. call.total \in Nat /\ call.huge \in BOOLEAN
    BY DEF HeapInv, Types, Calls, MmapAlloc
  <2>3. MetaSize + call.total \in Nat /\ pg \in Nat /\ pg > 0
    BY <2>2, PageSizes
  <2>4. length \in Nat /\ MetaSize + call.total <= length /\ length % pg = 0
    <3> HIDE DEF pg
    <3> QED BY <2>3, RoundUpIs
  <2>5. length % Page = 0
    <3> HIDE DEF length
    <3>1. CASE ~ call.huge
      BY <2>4, <3>1
    <3>2. CASE call.huge
      <4> DEFINE q == length \div HugePage
                 h == HugePage \div Page
      <4>1. q \in Nat /\ length = q * HugePage
        BY <2>4, <3>2, PageSizes, Division
      <4>2. h \in Nat /\ HugePage = h * Page
        BY PageSizes, Division
      <4> HIDE DEF q, h
      <4>3. q * h \in Nat /\ length = (q * h) * Page
        BY <4>1, <4>2, PageSizes
      <4> QED BY <4>3, PageSizes, Multiple
    <3> QED BY <3>1, <3>2
  <2>6. huge => length % HugePage = 0
    <3> HIDE DEF length
    <3> QED BY <1>2, <2>4
  <2> HIDE DEF length
  <2>7. length - MetaSize \in Nat /\ MetaSize + (length - MetaSize) = length
    BY <2>2, <2>4, PageSizes
  <2>8. /\ DOMAIN mm = DOMAIN mmaps \cup {i} /\ DOMAIN k = DOMAIN kernel \cup {i}
        /\ mm[i] = length - MetaSize /\ k[i].bytes = length /\ k[i].huge = huge
        /\ \A j \in DOMAIN mmaps : j # i => mm[j] = mmaps[j]
        /\ \A j \in DOMAIN kernel : j # i => k[j] = kernel[j]
    OBVIOUS
  <2> HIDE DEF mm, k
  <2>9. Mapped(mm, k)
    <3>1. DOMAIN mm \subseteq MmapIds /\ DOMAIN k = DOMAIN mm
      BY <2>8 DEF MapInv, Mapped
    <3>2. ASSUME NEW j \in DOMAIN mm
          PROVE  /\ mm[j] \in Nat /\ k[j].bytes = MetaSize + mm[j]
                 /\ (MetaSize + mm[j]) % Page = 0
                 /\ k[j].huge => (MetaSize + mm[j]) % HugePage = 0
      <4>1. CASE j = i
        BY <2>5, <2>6, <2>7, <2>8, <4>1
      <4>2. CASE j # i
        <5>1. j \in DOMAIN mmaps /\ j \in DOMAIN kernel /\ mm[j] = mmaps[j] /\ k[j] = kernel[j]
          BY <2>8, <3>1, <4>2
        <5> QED BY <5>1 DEF MapInv, Mapped
      <4> QED BY <4>1, <4>2
    <3> QED BY <3>1, <3>2 DEF Mapped
  <2> QED BY <2>1, <2>9, MmapFreeKeeps
<1> QED BY <1>1, <1>2 DEF MmapAlloc

(* Every step keeps the mappings exact. *)
LEMMA MapStep ==
  ASSUME HeapInv, MapInv, [Next]_vars
  PROVE  MapInv'
<1>1. CASE UNCHANGED maps
  BY <1>1 DEF MapInv, maps
<1>2. CASE MmapAlloc
  BY <1>2, MmapAllocMaps
<1>3. CASE BuddyTake
  BY <1>3, MmapFreeKeeps DEF BuddyTake, Return, MapInv
<1>4. CASE \E p \in DOMAIN live : Sfree(p)
  <2>1. PICK p \in DOMAIN live : Sfree(p)
    BY <1>4
  <2>2. MmapFree(mmaps, kernel, p) \/ UNCHANGED maps
    BY <2>1 DEF Sfree
  <2> QED BY <1>1, <2>2, MmapFreeKeeps DEF MapInv
<1>5. \/ \E s \in Sizes : Smalloc(s)
      \/ \E n \in Nums, s \in Sizes : Scalloc(n, s)
      \/ \E p \in DOMAIN live, s \in Sizes :
           SreallocInPlace(p, s) \/ SreallocGrow(p, s) \/ SreallocMove(p, s)
      => UNCHANGED maps
  BY DEF Smalloc, Scalloc, Begin, SreallocInPlace, SreallocGrow, SreallocMove
<1>6. BuddyInit \/ BuddyFind \/ SplitBlock \/ FreeStep \/ GrowStep => UNCHANGED maps
  BY DEF BuddyInit, BuddyFind, SplitBlock, FreeStep, MergeBuddy, MergeDone, FlInsertWalk, FlInsert,
         GrowStep, GrowBuddy, GrowDone
<1>7. UNCHANGED vars => UNCHANGED maps
  BY DEF vars, maps
<1> QED BY <1>1, <1>2, <1>3, <1>4, <1>5, <1>6, <1>7 DEF Next, AllocStep
-----------------------------------------------------------------------------
(* What the program sees *)

(* size_to_order finds room for this many bytes, or they are mapped. *)
HasBlock(bytes) == bytes + MetaSize <= Threshold \/ Threshold <= bytes

(* The sizes for which the allocator keeps its promises: none is just      *)
(* below the threshold, and no product wraps.                              *)
SizesFit ==
  /\ \A s \in Sizes : HasBlock(s)
  /\ \A n \in Nums, s \in Sizes : n * s < SizeT /\ HasBlock(n * s)

(* Every block the program holds has room for what was asked for, and its  *)
(* contents are there.                                                     *)
Satisfied ==
  \A p \in DOMAIN live :
    /\ live[p].want \in Nat /\ live[p].want <= MaxAlloc /\ live[p].data = live[p].want
    /\ p \in MmapIds => live[p].want <= mmaps[p]
    /\ p \in Addr => live[p].want + MetaSize <= MinBlock * size[p]

TargetFits == call.want + MetaSize <= MinBlock * BlockSize(call.target)

(* The block a call is going to return will have the room. *)
CallFits ==
  /\ call.want <= MaxAlloc
  /\ pc \in {"init", "alloc"} => call.want = call.total /\ (call.total < Threshold => TargetFits)
  /\ pc \in {"split", "grow"} \/ (pc = "insert" /\ call.m # Null) => TargetFits

LiveInv ==
  /\ Satisfied
  /\ DOMAIN mmaps = DOMAIN live \cap MmapIds
  /\ CallFits

(* Min of a pair. *)
LEMMA MinPair ==
  ASSUME NEW a \in Nat, NEW b \in Nat
  PROVE  Min({a, b}) \in {a, b} /\ Min({a, b}) <= a /\ Min({a, b}) <= b
<1>1. {a, b} \in SUBSET Nat /\ {a, b} # {} /\ a \in {a, b} /\ b \in {a, b}
  OBVIOUS
<1> QED BY <1>1, MinNatural

(* g is what the program holds after it gave up old and got a full block   *)
(* of w bytes behind q.                                                    *)
Swapped(g, q, w, old) ==
  /\ DOMAIN g = (DOMAIN live \ {old}) \cup {q}
  /\ g[q].want = w /\ g[q].data = w
  /\ \A p \in DOMAIN live \ {old} : p # q => g[p] = live[p]

(* A call that copies all of the old block makes such a swap. *)
LEMMA GivenIs ==
  ASSUME Satisfied, NEW q, NEW w \in Nat, NEW old \in DOMAIN live \cup {Null},
         Null \notin DOMAIN live, NEW copied \in Nat,
         old # Null => live[old].want <= copied,
         NEW g, g = Given(q, w, old, copied)
  PROVE  Swapped(g, q, w, old)
<1> DEFINE owed == IF old = Null THEN 0 ELSE Min({live[old].want, w})
           had  == IF old = Null THEN 0 ELSE Min({live[old].data, copied})
<1>1. g = [p \in (DOMAIN live \ {old}) \cup {q} |->
                IF p # q THEN live[p]
                ELSE [want |-> w, data |-> IF had >= owed THEN w ELSE had]]
  BY DEF Given
<1>2. had >= owed
  <2>1. CASE old = Null
    BY <2>1
  <2>2. CASE old # Null
    <3>1. live[old].want \in Nat /\ live[old].data = live[old].want /\ live[old].want <= copied
      BY <2>2 DEF Satisfied
    <3> DEFINE x == live[old].want
               y == Min({x, w})
               z == Min({x, copied})
    <3>2. y \in {x, w} /\ y <= x
      BY <3>1, MinPair
    <3>3. z \in {x, copied}
      BY <3>1, MinPair
    <3>4. owed = y /\ had = z
      BY <2>2, <3>1
    <3> HIDE DEF x, y, z, owed, had
    <3>5. x \in Nat /\ x <= copied
      BY <3>1 DEF x
    <3> QED BY <3>2, <3>3, <3>4, <3>5
  <2> QED BY <2>1, <2>2
<1> HIDE DEF owed, had
<1> QED BY <1>1, <1>2 DEF Swapped

(* The least order that is large enough is large enough, if there is one. *)
LEMMA TargetHolds ==
  ASSUME NEW bytes \in Nat, bytes + MetaSize <= Threshold
  PROVE  bytes + MetaSize <= MinBlock * BlockSize(SizeToOrder(bytes))
<1> DEFINE S == {o \in Orders : MinBlock * BlockSize(o) >= bytes + MetaSize} \cup {MaxOrder}
<1>1. S \in SUBSET Nat /\ S # {}
  BY BigNat DEF Orders
<1>2. \A o \in S : MinBlock * BlockSize(o) >= bytes + MetaSize
  <2>1. MinBlock * BlockSize(MaxOrder) >= bytes + MetaSize
    <3>1. Threshold \in Int /\ bytes + MetaSize \in Int
      BY BuddyAssumption, BigNat DEF Threshold, Big
    <3> QED BY <3>1 DEF Threshold
  <2> QED BY <2>1
<1>3. SizeToOrder(bytes) = Min(S)
  BY DEF SizeToOrder
<1> HIDE DEF S
<1>4. Min(S) \in S
  BY <1>1, MinNatural
<1>5. MinBlock * BlockSize(Min(S)) >= bytes + MetaSize
  BY <1>2, <1>4
<1>6. Min(S) \in Nat
  BY <1>1, <1>4
<1>7. MinBlock * BlockSize(Min(S)) \in Int /\ bytes + MetaSize \in Int
  BY <1>6, BlockSizeNat, BuddyAssumption
<1> QED BY <1>3, <1>5, <1>7

(* No step makes a block smaller while the program holds it. *)
LEMMA SizesGrow ==
  ASSUME HeapInv, [Next]_vars, NEW p \in Held
  PROVE  size[p] \in Nat /\ size'[p] \in Nat /\ size[p] <= size'[p]
<1>1. FullHeap /\ p \in Bases /\ p \in Addr /\ size \in [Addr -> 0..Big] /\ size[p] > 0
      /\ Types
  <2>1. FullHeap /\ p \in Bases /\ GetOrder(p) \in Orders /\ size[p] = BlockSize(GetOrder(p))
    BY HeldAreBases
  <2>2. size[p] > 0
    BY <2>1, BaseAligned
  <2> QED BY <2>1, <2>2, BaseFacts DEF HeapInv, Types
<1>2. size[p] \in Nat
  BY <1>1, BigNat
<1>3. CASE UNCHANGED size
  BY <1>2, <1>3
<1>4. CASE SplitBlock
  <2>1. p \in p..p + size[p] - 1
    BY <1>1, <1>2, BaseFacts
  <2>2. Untouched(p)
    BY <1>4, <2>1, SplitWrites
  <2> QED BY <1>2, <2>2 DEF Untouched
<1>5. CASE MergeBuddy \/ GrowBuddy
  <2>1. call.ord < MaxOrder /\ call.ord \in Nat
    <3>1. call.ord \in Orders /\ call.target \in Orders
      BY <1>1 DEF Types, Calls
    <3>2. call.ord < MaxOrder \/ call.ord < call.target
      BY <1>5 DEF MergeBuddy, GrowBuddy
    <3> QED BY <3>1, <3>2, BigNat DEF Orders
  <2>2. size' = MergeSize(call.m, call.ord)
    <3>1. CASE MergeBuddy
      BY <2>1, <3>1, MergeTurn DEF MergeBuddy
    <3>2. CASE GrowBuddy
      BY <2>1, <3>2, MergeTurn DEF GrowBuddy
    <3> QED BY <1>5, <3>1, <3>2
  <2>3. CASE p # call.m
    <3>1. size'[p] = size[p]
      BY <1>1, <2>2, <2>3 DEF MergeSize
    <3> QED BY <1>2, <3>1
  <2>4. CASE p = call.m
    <3>1. size'[p] = BlockSize(call.ord + 1)
      BY <1>1, <2>2, <2>4 DEF MergeSize
    <3>2. size[p] = BlockSize(call.ord)
      BY <1>1, <1>5, <2>4 DEF FullHeap, Merging, Growing, MergeBuddy, GrowBuddy
    <3>3. BlockSize(call.ord) \in Nat /\ BlockSize(call.ord + 1) = 2 * BlockSize(call.ord)
      BY <2>1, BlockSizeNat, BlockSizeIs
    <3> QED BY <3>1, <3>2, <3>3
  <2> QED BY <2>3, <2>4
<1>6. ~ BuddyInit
  BY <1>1 DEF FullHeap, BuddyInit
<1>7. ASSUME \/ \E s \in Sizes : Smalloc(s)
             \/ \E n \in Nums, s \in Sizes : Scalloc(n, s)
             \/ \E x \in DOMAIN live : Sfree(x)
             \/ \E x \in DOMAIN live, s \in Sizes :
                  SreallocInPlace(x, s) \/ SreallocGrow(x, s) \/ SreallocMove(x, s)
      PROVE  UNCHANGED size
  BY <1>7 DEF Smalloc, Scalloc, Begin, Sfree, SreallocInPlace, SreallocGrow, SreallocMove, heap
<1>8. ASSUME MmapAlloc \/ BuddyFind \/ BuddyTake \/ MergeDone \/ FlInsertWalk \/ FlInsert \/ GrowDone
      PROVE  UNCHANGED size
  BY <1>8 DEF MmapAlloc, BuddyFind, BuddyTake, MergeDone, FlInsertWalk, FlInsert, FlInsertFirst,
              FlInsertAfter, GrowDone, heap
<1>9. UNCHANGED vars => UNCHANGED size
  BY DEF vars
<1> QED BY <1>3, <1>4, <1>5, <1>6, <1>7, <1>8, <1>9 DEF Next, AllocStep, FreeStep, GrowStep
(* So what fitted into the block still does. *)
LEMMA RoomGrows ==
  ASSUME HeapInv, [Next]_vars, NEW p \in Held, NEW w \in Nat, w + MetaSize <= MinBlock * size[p]
  PROVE  w + MetaSize <= MinBlock * size'[p]
<1>1. size[p] \in Nat /\ size'[p] \in Nat /\ size[p] <= size'[p]
  BY SizesGrow
<1> DEFINE x == size[p]
           y == size'[p]
<1>2. x \in Nat /\ y \in Nat /\ x <= y /\ MinBlock \in Nat /\ MetaSize \in Nat
      /\ w + MetaSize <= MinBlock * x
  BY <1>1, BuddyAssumption
<1> HIDE DEF x, y
<1>3. MinBlock * y = MinBlock * x + MinBlock * (y - x) /\ MinBlock * (y - x) >= 0
      /\ MinBlock * x \in Int /\ MinBlock * (y - x) \in Int /\ MinBlock * y \in Int
  BY <1>2
<1>4. w + MetaSize <= MinBlock * y
  BY <1>2, <1>3
<1> QED BY <1>4 DEF y

(* A step that returns nothing to the program leaves it satisfied. *)
LEMMA StaysSatisfied ==
  ASSUME HeapInv, [Next]_vars, LiveInv, live' = live, mmaps' = mmaps
  PROVE  Satisfied' /\ DOMAIN mmaps' = DOMAIN live' \cap MmapIds
<1>1. ASSUME NEW p \in DOMAIN live, p \in Addr
      PROVE  live[p].want + MetaSize <= MinBlock * size'[p]
  <2>1. p \in Held /\ live[p].want \in Nat /\ live[p].want + MetaSize <= MinBlock * size[p]
    BY <1>1 DEF LiveInv, Satisfied, Held
  <2> QED BY <2>1, RoomGrows
<1>2. Satisfied'
  BY <1>1 DEF LiveInv, Satisfied
<1> QED BY <1>2 DEF LiveInv

(* Nor does one that returns a block with the room asked for. *)
LEMMA GrantStep ==
  ASSUME HeapInv, [Next]_vars, LiveInv, NEW q \in Pointers, NEW w \in Nat, w <= MaxAlloc,
         NEW old \in DOMAIN live \cup {Null}, NEW copied \in Nat,
         old # Null => live[old].want <= copied,
         live' = Given(q, w, old, copied),
         DOMAIN mmaps' = ((DOMAIN mmaps \ {old}) \cup {q}) \cap MmapIds,
         \A p \in DOMAIN mmaps \ {old} : p # q => mmaps'[p] = mmaps[p],
         q \in MmapIds => w <= mmaps'[q],
         q \in Addr => w + MetaSize <= MinBlock * size'[q]
  PROVE  /\ Satisfied' /\ DOMAIN mmaps' = DOMAIN live' \cap MmapIds
         /\ Swapped(live', q, w, old)
<1>1. Satisfied /\ DOMAIN mmaps = DOMAIN live \cap MmapIds /\ DOMAIN live \subseteq Pointers
  BY DEF LiveInv, HeapInv, Types
<1>2. Null \notin DOMAIN live
  BY <1>1, NullNowhere DEF Pointers
<1>3. Swapped(live', q, w, old)
  <2> DEFINE g == live'
  <2>1. g = Given(q, w, old, copied)
    OBVIOUS
  <2> HIDE DEF g
  <2>2. Swapped(g, q, w, old)
    BY <1>1, <1>2, <2>1, GivenIs
  <2> QED BY <2>2 DEF g
<1>6. /\ DOMAIN live' = (DOMAIN live \ {old}) \cup {q}
      /\ live'[q].want = w /\ live'[q].data = w
      /\ \A p \in DOMAIN live \ {old} : p # q => live'[p] = live[p]
  BY <1>3 DEF Swapped
<1>4. DOMAIN mmaps' = DOMAIN live' \cap MmapIds
  BY <1>1, <1>6
<1>5. ASSUME NEW p \in DOMAIN live'
      PROVE  /\ live'[p].want \in Nat /\ live'[p].want <= MaxAlloc /\ live'[p].data = live'[p].want
             /\ p \in MmapIds => live'[p].want <= mmaps'[p]
             /\ p \in Addr => live'[p].want + MetaSize <= MinBlock * size'[p]
  <2>1. CASE p = q
    BY <1>6, <2>1
  <2>2. CASE p # q
    <3>1. p \in DOMAIN live \ {old} /\ live'[p] = live[p]
      BY <1>6, <2>2
    <3>2. p \in MmapIds => mmaps'[p] = mmaps[p]
      BY <1>1, <2>2, <3>1
    <3>3. ASSUME p \in Addr PROVE live[p].want + MetaSize <= MinBlock * size'[p]
      <4>1. p \in Held /\ live[p].want \in Nat /\ live[p].want + MetaSize <= MinBlock * size[p]
        BY <1>1, <3>1, <3>3 DEF Satisfied, Held
      <4> QED BY <4>1, RoomGrows
    <3> QED BY <1>1, <3>1, <3>2, <3>3 DEF Satisfied
  <2> QED BY <2>1, <2>2
<1> QED BY <1>3, <1>4, <1>5 DEF Satisfied

(* The room behind a pointer is enough, and a number. *)
LEMMA RoomEnough ==
  ASSUME HeapInv, MapInv, LiveInv, NEW p \in DOMAIN live
  PROVE  Room(p) \in Nat /\ live[p].want <= Room(p) /\ p # Null
<1>1. p \in Pointers /\ live[p].want \in Nat /\ p # Null
  BY NullNowhere DEF HeapInv, Types, LiveInv, Satisfied, Pointers
<1>2. CASE p \in MmapIds
  <2>1. Room(p) = mmaps[p] /\ live[p].want <= mmaps[p] /\ p \in DOMAIN mmaps
    BY <1>2 DEF Room, LiveInv, Satisfied
  <2> QED BY <1>1, <2>1 DEF MapInv, Mapped
<1>3. CASE p \notin MmapIds
  <2>1. p \in Addr /\ Room(p) = MinBlock * size[p] - MetaSize /\ p \in Held
    BY <1>1, <1>3 DEF Room, Pointers, Held
  <2>2. live[p].want + MetaSize <= MinBlock * size[p]
    BY <2>1 DEF LiveInv, Satisfied
  <2>3. size[p] \in Nat
    BY <2>1, BigNat DEF HeapInv, Types
  <2> DEFINE x == MinBlock * size[p]
  <2>4. x \in Nat /\ MetaSize \in Nat
    BY <2>3, BuddyAssumption
  <2> HIDE DEF x
  <2>5. live[p].want + MetaSize <= x /\ Room(p) = x - MetaSize
    BY <2>1, <2>2 DEF x
  <2> QED BY <1>1, <2>4, <2>5
<1> QED BY <1>2, <1>3

(* Smalloc, scalloc and srealloc set out for a block that is large enough. *)
LEMMA BeginFits ==
  ASSUME HeapInv, LiveInv, [Next]_vars, NEW total \in Nat, NEW huge, NEW old, HasBlock(total),
         Begin(total, total, huge, old)
  PROVE  LiveInv'
<1>1. /\ call' = [NoCall EXCEPT !.want = total, !.total = total, !.old = old,
                               !.huge = hugepages /\ huge, !.target = SizeToOrder(total)]
      /\ pc' \in {"init", "alloc"} /\ total <= MaxAlloc /\ UNCHANGED <<maps, live>>
  BY DEF Begin
<1>2. call'.want = total /\ call'.total = total /\ call'.target = SizeToOrder(total)
  BY <1>1 DEF NoCall
<1>3. total < Threshold => TargetFits'
  <2>1. ASSUME total < Threshold PROVE total + MetaSize <= Threshold
    <3>1. Threshold \in Int
      BY BuddyAssumption, BigNat DEF Threshold, Big
    <3> QED BY <2>1, <3>1 DEF HasBlock
  <2>2. ASSUME total < Threshold PROVE total + MetaSize <= MinBlock * BlockSize(SizeToOrder(total))
    BY <2>1, <2>2, TargetHolds
  <2> QED BY <1>2, <2>2 DEF TargetFits
<1>4. CallFits'
  BY <1>1, <1>2, <1>3 DEF CallFits
<1>5. Satisfied' /\ DOMAIN mmaps' = DOMAIN live' \cap MmapIds
  BY <1>1, StaysSatisfied DEF maps
<1> QED BY <1>4, <1>5 DEF LiveInv

(* Between calls, and while a block is being freed, nothing is owed. *)
LEMMA NothingOwed ==
  ASSUME pc' \in {"idle", "merge"}, call'.want <= MaxAlloc
  PROVE  CallFits'
BY DEF CallFits

(* nullptr. *)
LEMMA NullFits ==
  ASSUME HeapInv, LiveInv, [Next]_vars, ReturnNull, mmaps' = mmaps
  PROVE  LiveInv'
<1>1. pc' = "idle" /\ call'.want = 0 /\ live' = live
  BY DEF ReturnNull, NoCall
<1>2. CallFits'
  BY <1>1, NothingOwed, BuddyAssumption
<1>3. Satisfied' /\ DOMAIN mmaps' = DOMAIN live' \cap MmapIds
  BY <1>1, StaysSatisfied
<1> QED BY <1>2, <1>3 DEF LiveInv

(* smalloc returns q for a call of srealloc or of the program. *)
LEMMA ReturnFits ==
  ASSUME HeapInv, MapInv, LiveInv, [Next]_vars, NEW q \in Pointers, NEW mm, NEW k, Return(q, mm, k),
         q \notin DOMAIN live, 
         DOMAIN mm = (DOMAIN mmaps \cup {q}) \cap MmapIds,
         \A p \in DOMAIN mmaps : mm[p] = mmaps[p],
         q \in MmapIds => call.want <= mm[q],
         q \in Addr => call.want + MetaSize <= MinBlock * size'[q]
  PROVE  LiveInv' /\ Swapped(live', q, call.want, call.old)
<1> DEFINE old == call.old
           copied == IF old = Null THEN 0 ELSE Room(old)
<1>1. /\ live' = Given(q, call.want, old, copied)
      /\ mmaps' = [j \in DOMAIN mm \ {old} |-> mm[j]]
      /\ pc' \in {"idle", "merge"} /\ call'.want = 0
  <2>1. /\ live' = Given(q, call.want, old, copied)
        /\ mmaps' = [j \in DOMAIN mm \ {old} |-> mm[j]]
    BY DEF Return, MmapFree
  <2>2. CASE old \in Addr
    <3>1. pc' = "merge" /\ call' = [NoCall EXCEPT !.m = old, !.ord = GetOrder(old)]
      BY <2>2 DEF Return
    <3> QED BY <2>1, <3>1 DEF NoCall
  <2>3. CASE old \notin Addr
    <3>1. pc' = "idle" /\ call' = NoCall
      BY <2>3 DEF Return
    <3> QED BY <2>1, <3>1 DEF NoCall
  <2> QED BY <2>2, <2>3
<1>2. old \in DOMAIN live \cup {Null} /\ call.want \in Nat /\ call.want <= MaxAlloc
  BY DEF HeapInv, Types, Calls, LiveInv, CallFits
<1>3. copied \in Nat /\ (old # Null => live[old].want <= copied)
  BY <1>2, RoomEnough
<1>4. q # old
  <2>1. q # Null
    BY NullNowhere DEF Pointers
  <2> QED BY <1>2, <2>1
<1> HIDE DEF copied, old
<1>5. /\ DOMAIN mmaps' = ((DOMAIN mmaps \ {old}) \cup {q}) \cap MmapIds
      /\ \A p \in DOMAIN mmaps \ {old} : p # q => mmaps'[p] = mmaps[p]
      /\ q \in MmapIds => call.want <= mmaps'[q]
  <2>1. DOMAIN mmaps \subseteq MmapIds
    BY DEF LiveInv
  <2>2. DOMAIN mmaps' = DOMAIN mm \ {old} /\ \A p \in DOMAIN mm \ {old} : mmaps'[p] = mm[p]
    BY <1>1
  <2>3. DOMAIN mmaps' = ((DOMAIN mmaps \ {old}) \cup {q}) \cap MmapIds
    BY <1>4, <2>1, <2>2
  <2>4. ASSUME NEW p \in DOMAIN mmaps \ {old} PROVE mmaps'[p] = mmaps[p]
    BY <2>1, <2>2
  <2>5. ASSUME q \in MmapIds PROVE call.want <= mmaps'[q]
    <3>1. q \in DOMAIN mm \ {old}
      BY <1>4, <2>5
    <3>2. mmaps'[q] = mm[q] /\ call.want <= mm[q]
      BY <2>2, <2>5, <3>1
    <3> QED BY <3>2
  <2> QED BY <2>3, <2>4, <2>5
<1>6. /\ Satisfied' /\ DOMAIN mmaps' = DOMAIN live' \cap MmapIds
      /\ Swapped(live', q, call.want, old)
  BY <1>1, <1>2, <1>3, <1>5, GrantStep
<1>7. CallFits'
  BY <1>1, NothingOwed, BuddyAssumption
<1> QED BY <1>6, <1>7 DEF LiveInv, old
(* What the program sees of a step: nothing, a block that is gone, or one  *)
(* it got for the one it had or for none.                                  *)
Seen ==
  \/ live' = live
  \/ \E p \in DOMAIN live : live' = [x \in DOMAIN live \ {p} |-> live[x]]
  \/ \E w \in Nat, q \in Pointers, old \in DOMAIN live \cup {Null} :
       Swapped(live', q, w, old) /\ (q = old \/ q \notin DOMAIN live)

(* A step that returns nothing keeps the invariant if its registers do. *)
LEMMA UnseenStep ==
  ASSUME HeapInv, LiveInv, [Next]_vars, live' = live, mmaps' = mmaps, CallFits'
  PROVE  LiveInv' /\ Seen
BY StaysSatisfied DEF LiveInv, Seen

(* mmap_alloc_internal: the pages are enough for the request. *)
LEMMA MmapAllocFits ==
  ASSUME HeapInv, MapInv, LiveInv, [Next]_vars, MmapAlloc
  PROVE  LiveInv' /\ Seen
<1> DEFINE pg == IF call.huge THEN HugePage ELSE Page
           length == RoundUp(MetaSize + call.total, pg)
<1>1. CASE ReturnNull /\ UNCHANGED maps
  <2>1. LiveInv'
    BY <1>1, NullFits DEF maps
  <2> QED BY <1>1, <2>1 DEF ReturnNull, Seen
<1>2. ASSUME NEW i \in MmapIds \ DOMAIN kernel, NEW huge \in {FALSE, call.huge},
             Return(i, [j \in DOMAIN mmaps \cup {i} |-> IF j = i THEN length - MetaSize ELSE mmaps[j]],
                       [j \in DOMAIN kernel \cup {i} |->
                          IF j = i THEN [bytes |-> length, huge |-> huge] ELSE kernel[j]])
      PROVE  LiveInv' /\ Seen
  <2> DEFINE mm == [j \in DOMAIN mmaps \cup {i} |-> IF j = i THEN length - MetaSize ELSE mmaps[j]]
             k == [j \in DOMAIN kernel \cup {i} |->
                     IF j = i THEN [bytes |-> length, huge |-> huge] ELSE kernel[j]]
  <2>1. Return(i, mm, k)
    BY <1>2
  <2>2. call.total \in Nat /\ call.huge \in BOOLEAN /\ call.want = call.total /\ call.want \in Nat
        /\ call.old \in DOMAIN live \cup {Null}
    BY DEF HeapInv, Types, Calls, MmapAlloc, LiveInv, CallFits
  <2>3. MetaSize + call.total \in Nat /\ pg \in Nat /\ pg > 0
    BY <2>2, PageSizes
  <2>4. length \in Nat /\ MetaSize + call.total <= length
    <3> HIDE DEF pg
    <3> QED BY <2>3, RoundUpIs
  <2>5. i \in Pointers /\ i \notin DOMAIN live /\ i \notin DOMAIN mmaps /\ i \notin Addr
        /\ DOMAIN mmaps \subseteq MmapIds
    BY NullNowhere DEF MapInv, Mapped, LiveInv, Pointers
  <2> HIDE DEF length
  <2>6. call.want <= length - MetaSize
    BY <2>2, <2>4, PageSizes
  <2>7. /\ DOMAIN mm = (DOMAIN mmaps \cup {i}) \cap MmapIds
        /\ \A p \in DOMAIN mmaps : mm[p] = mmaps[p]
        /\ call.want <= mm[i]
    BY <1>2, <2>5, <2>6
  <2> HIDE DEF mm, k
  <2>8. LiveInv' /\ Swapped(live', i, call.want, call.old)
    BY <2>1, <2>5, <2>7, ReturnFits
  <2> QED BY <2>2, <2>5, <2>8 DEF Seen
<1> QED BY <1>1, <1>2 DEF MmapAlloc

(* buddy_alloc hands out a block of the order that was looked for. *)
LEMMA BuddyTakeFits ==
  ASSUME HeapInv, MapInv, LiveInv, [Next]_vars, BuddyTake
  PROVE  LiveInv' /\ Seen
<1> DEFINE m == call.m
<1>1. /\ pc = "split" /\ call.ord = call.target /\ Return(m, mmaps, kernel) /\ size' = size
  BY DEF BuddyTake
<1>2. FullHeap /\ m \in Bases /\ m \notin Held /\ size[m] = BlockSize(call.ord)
  <2>1. FullHeap /\ m \in Bases /\ m \notin Held
    BY <1>1, TakeOff
  <2> QED BY <1>1, <2>1 DEF FullHeap, Splitting
<1>3. m \in Addr /\ m \in Pointers /\ m \notin DOMAIN live /\ m \notin MmapIds
  BY <1>2, BaseFacts, NullNowhere DEF Held, Pointers
<1>4. call.want \in Nat /\ call.old \in DOMAIN live \cup {Null} /\ TargetFits
  BY <1>1 DEF HeapInv, Types, Calls, LiveInv, CallFits
<1>5. call.want + MetaSize <= MinBlock * size'[m]
  BY <1>1, <1>2, <1>4 DEF TargetFits
<1>6. DOMAIN mmaps = (DOMAIN mmaps \cup {m}) \cap MmapIds
  BY <1>3 DEF LiveInv
<1> HIDE DEF m
<1>7. LiveInv' /\ Swapped(live', m, call.want, call.old)
  BY <1>1, <1>3, <1>5, <1>6, ReturnFits
<1> QED BY <1>3, <1>4, <1>7 DEF Seen

(* sfree takes one block away from the program. *)
LEMMA SfreeFits ==
  ASSUME HeapInv, LiveInv, [Next]_vars, NEW p \in DOMAIN live, Sfree(p)
  PROVE  LiveInv' /\ Seen
<1>1. live' = [x \in DOMAIN live \ {p} |-> live[x]] /\ size' = size
  BY DEF Sfree, heap
<1>2. DOMAIN live' = DOMAIN live \ {p} /\ \A x \in DOMAIN live' : live'[x] = live[x]
  BY <1>1
<1>3. DOMAIN mmaps = DOMAIN live \cap MmapIds
  BY DEF LiveInv
<1>4. /\ DOMAIN mmaps' = DOMAIN live' \cap MmapIds /\ \A x \in DOMAIN mmaps' : mmaps'[x] = mmaps[x]
      /\ pc' \in {"idle", "merge"} /\ call'.want <= MaxAlloc
  <2>1. CASE p \in MmapIds
    <3>1. mmaps' = [j \in DOMAIN mmaps \ {p} |-> mmaps[j]] /\ pc' = "idle" /\ call' = call
      BY <2>1 DEF Sfree, MmapFree
    <3> QED BY <1>2, <1>3, <3>1 DEF LiveInv, CallFits
  <2>2. CASE p \notin MmapIds
    <3>1. mmaps' = mmaps /\ pc' = "merge" /\ call' = [NoCall EXCEPT !.m = p, !.ord = GetOrder(p)]
      BY <2>2 DEF Sfree, maps
    <3>2. call'.want = 0
      BY <3>1 DEF NoCall
    <3> QED BY <1>2, <1>3, <2>2, <3>1, <3>2, BuddyAssumption
  <2> QED BY <2>1, <2>2
<1>5. Satisfied'
  BY <1>1, <1>2, <1>3, <1>4 DEF LiveInv, Satisfied
<1>6. CallFits'
  BY <1>4, NothingOwed
<1> QED BY <1>1, <1>4, <1>5, <1>6 DEF LiveInv, Seen

(* srealloc within the old block. *)
LEMMA SreallocInPlaceFits ==
  ASSUME HeapInv, MapInv, LiveInv, [Next]_vars, NEW p \in DOMAIN live, NEW s \in Nat,
         SreallocInPlace(p, s)
  PROVE  LiveInv' /\ Seen
<1>1. /\ s <= MaxAlloc /\ Room(p) >= s /\ live' = Given(p, s, p, live[p].data)
      /\ size' = size /\ mmaps' = mmaps /\ pc' = pc /\ call' = call
  BY DEF SreallocInPlace, heap, maps
<1>2. p \in Pointers /\ live[p].data \in Nat /\ live[p].want <= live[p].data
  BY DEF HeapInv, Types, LiveInv, Satisfied
<1>3. DOMAIN mmaps' = ((DOMAIN mmaps \ {p}) \cup {p}) \cap MmapIds
  BY <1>1 DEF LiveInv
<1>4. p \in MmapIds => s <= mmaps'[p]
  <2>1. ASSUME p \in MmapIds PROVE Room(p) = mmaps[p] /\ mmaps[p] \in Nat
    <3>1. p \in DOMAIN mmaps
      BY <2>1 DEF LiveInv
    <3> QED BY <2>1, <3>1 DEF Room, MapInv, Mapped
  <2> QED BY <1>1, <2>1
<1>5. p \in Addr => s + MetaSize <= MinBlock * size'[p]
  <2>1. SUFFICES ASSUME p \in Addr PROVE s + MetaSize <= MinBlock * size[p]
    BY <1>1
  <2>2. Room(p) = MinBlock * size[p] - MetaSize /\ size[p] \in Nat
    BY <2>1, NullNowhere, BigNat DEF Room, HeapInv, Types
  <2> DEFINE x == MinBlock * size[p]
  <2>3. x \in Nat /\ MetaSize \in Nat /\ x - MetaSize >= s
    BY <1>1, <2>2, BuddyAssumption
  <2> HIDE DEF x
  <2>4. s + MetaSize <= x
    BY <2>3
  <2> QED BY <2>4 DEF x
<1>6. /\ Satisfied' /\ DOMAIN mmaps' = DOMAIN live' \cap MmapIds
      /\ Swapped(live', p, s, p)
  BY <1>1, <1>2, <1>3, <1>4, <1>5, GrantStep
<1>7. CallFits'
  BY <1>1 DEF LiveInv, CallFits, TargetFits
<1> QED BY <1>2, <1>6, <1>7 DEF LiveInv, Seen

(* srealloc has merged free buddies to the order that was looked for. *)
LEMMA GrowDoneFits ==
  ASSUME HeapInv, LiveInv, [Next]_vars, GrowDone
  PROVE  LiveInv' /\ Seen
<1> DEFINE p == call.m
<1>1. /\ pc = "grow" /\ call.ord = call.target /\ live' = Given(p, call.want, call.old, GrowCopied)
      /\ size' = size /\ mmaps' = mmaps /\ pc' = "idle" /\ call'.want = 0
  BY DEF GrowDone, maps, NoCall
<1>2. FullHeap /\ p \in Held /\ p = call.old /\ size[p] = BlockSize(call.ord)
  BY <1>1 DEF HeapInv, EmptyHeap, FullHeap, Growing
<1>3. p \in DOMAIN live /\ p \in Addr /\ p \in Pointers /\ p \notin MmapIds
  BY <1>2, NullNowhere DEF Held, Pointers
<1>4. /\ GrowCopied = live[p].data /\ live[p].data \in Nat /\ live[p].want <= live[p].data
      /\ call.want \in Nat /\ call.want <= MaxAlloc /\ TargetFits
  BY <1>1, <1>2, <1>3 DEF GrowCopied, HeapInv, Types, Calls, LiveInv, Satisfied, CallFits
<1>5. /\ DOMAIN mmaps' = ((DOMAIN mmaps \ {p}) \cup {p}) \cap MmapIds
      /\ call.want + MetaSize <= MinBlock * size'[p]
      /\ live' = Given(p, call.want, p, live[p].data)
  BY <1>1, <1>2, <1>3, <1>4 DEF TargetFits, LiveInv
<1> HIDE DEF p
<1>6. /\ Satisfied' /\ DOMAIN mmaps' = DOMAIN live' \cap MmapIds
      /\ Swapped(live', p, call.want, p)
  BY <1>1, <1>3, <1>4, <1>5, GrantStep
<1>7. CallFits'
  BY <1>1, NothingOwed, BuddyAssumption
<1> QED BY <1>3, <1>4, <1>6, <1>7 DEF LiveInv, Seen

(* srealloc merges only up to an order that is large enough. *)
LEMMA SreallocGrowFits ==
  ASSUME HeapInv, LiveInv, [Next]_vars, NEW p \in DOMAIN live, NEW s \in Nat, SreallocGrow(p, s)
  PROVE  LiveInv' /\ Seen
<1>1. s <= MaxAlloc /\ pc' = "grow" /\ live' = live /\ mmaps' = mmaps
  BY DEF SreallocGrow, maps
<1>2. PICK o \in GrowOrders(p, s) :
        call' = [NoCall EXCEPT !.want = s, !.total = Room(p), !.old = p,
                               !.target = o, !.ord = GetOrder(p), !.m = p]
  BY DEF SreallocGrow
<1>3. call'.want = s /\ call'.target = o
  BY <1>2 DEF NoCall
<1>4. MinBlock * BlockSize(o) - MetaSize >= s /\ o \in Nat
  <2>1. p \in Held
    BY DEF SreallocGrow, Held
  <2>2. GetOrder(p) \in Orders
    BY <2>1, HeldAreBases
  <2> QED BY <2>2, BigNat DEF GrowOrders, Usable, Orders
<1> DEFINE x == MinBlock * BlockSize(o)
<1>5. x \in Int /\ x - MetaSize >= s /\ MetaSize \in Nat
  BY <1>4, BlockSizeNat, BuddyAssumption
<1> HIDE DEF x
<1>6. s + MetaSize <= x
  BY <1>5
<1>7. TargetFits'
  BY <1>3, <1>6 DEF TargetFits, x
<1>8. CallFits'
  BY <1>1, <1>3, <1>7 DEF CallFits
<1> QED BY <1>1, <1>8, UnseenStep
(* The steps on the heap in the middle of a call. *)
LEMMA InnerFits ==
  ASSUME HeapInv, LiveInv, [Next]_vars,
         BuddyInit \/ SplitBlock \/ MergeBuddy \/ MergeDone \/ FlInsertWalk \/ FlInsert \/ GrowBuddy
  PROVE  LiveInv' /\ Seen
<1>1. live' = live /\ mmaps' = mmaps
  BY DEF BuddyInit, SplitBlock, MergeBuddy, MergeDone, FlInsertWalk, FlInsert, GrowBuddy, maps
<1>2. CallFits /\ call \in Calls
  BY DEF LiveInv, HeapInv, Types
<1>3. CASE BuddyInit
  <2>1. pc = "init" /\ pc' = "alloc" /\ call' = call
    BY <1>3 DEF BuddyInit
  <2>2. CallFits'
    BY <1>2, <2>1 DEF CallFits, TargetFits
  <2> QED BY <1>1, <2>2, UnseenStep
<1>4. CASE SplitBlock
  <2>1. pc = "split" /\ pc' = "insert" /\ call'.want = call.want /\ call'.target = call.target
    BY <1>2, <1>4 DEF SplitBlock, Calls
  <2>2. CallFits'
    BY <1>2, <2>1 DEF CallFits, TargetFits
  <2> QED BY <1>1, <2>2, UnseenStep
<1>5. CASE MergeBuddy \/ GrowBuddy
  <2>1. /\ pc' = pc /\ pc \in {"merge", "grow"}
        /\ call'.want = call.want /\ call'.target = call.target
    BY <1>2, <1>5 DEF MergeBuddy, GrowBuddy, Calls
  <2>2. CallFits'
    BY <1>2, <2>1 DEF CallFits, TargetFits
  <2> QED BY <1>1, <2>2, UnseenStep
<1>6. CASE MergeDone
  <2>1. pc' = "insert" /\ call'.want = call.want /\ call'.m = Null
    BY <1>2, <1>6 DEF MergeDone, Calls
  <2>2. CallFits'
    BY <1>2, <2>1 DEF CallFits
  <2> QED BY <1>1, <2>2, UnseenStep
<1>7. CASE FlInsertWalk
  <2>1. /\ pc' = pc /\ pc = "insert" /\ call'.want = call.want /\ call'.target = call.target
        /\ call'.m = call.m
    BY <1>2, <1>7 DEF FlInsertWalk, Calls
  <2>2. CallFits'
    BY <1>2, <2>1 DEF CallFits, TargetFits
  <2> QED BY <1>1, <2>2, UnseenStep
<1>8. CASE FlInsert
  <2>1. CASE call.m = Null
    <3>1. pc' = "idle" /\ call'.want = 0
      BY <1>8, <2>1 DEF FlInsert, FlInsertFirst, FlInsertAfter, NoCall
    <3>2. CallFits'
      BY <3>1, NothingOwed, BuddyAssumption
    <3> QED BY <1>1, <3>2, UnseenStep
  <2>2. CASE call.m # Null
    <3>1. pc = "insert" /\ pc' = "split" /\ call' = [call EXCEPT !.ins = Null, !.cur = Null]
      BY <1>8, <2>2 DEF FlInsert, FlInsertFirst, FlInsertAfter
    <3>2. call'.want = call.want /\ call'.target = call.target
      BY <1>2, <3>1 DEF Calls
    <3>3. CallFits'
      BY <1>2, <2>2, <3>1, <3>2 DEF CallFits, TargetFits
    <3> QED BY <1>1, <3>3, UnseenStep
  <2> QED BY <2>1, <2>2
<1> QED BY <1>3, <1>4, <1>5, <1>6, <1>7, <1>8

(* buddy_alloc finds a block, or returns nullptr. *)
LEMMA BuddyFindFits ==
  ASSUME HeapInv, LiveInv, [Next]_vars, BuddyFind
  PROVE  LiveInv' /\ Seen
<1>1. live' = live /\ mmaps' = mmaps /\ pc = "alloc" /\ call.total < Threshold
  BY DEF BuddyFind, ReturnNull, maps
<1>2. CASE Candidates = {}
  <2>1. LiveInv'
    BY <1>1, <1>2, NullFits DEF BuddyFind
  <2> QED BY <1>1, <2>1 DEF Seen
<1>3. CASE Candidates # {}
  <2>1. pc' = "split" /\ call' = [call EXCEPT !.ord = Min(Candidates), !.m = free_lists[Min(Candidates)]]
    BY <1>3 DEF BuddyFind
  <2>2. call'.want = call.want /\ call'.target = call.target
    <3>1. call \in Calls
      BY DEF HeapInv, Types
    <3> QED BY <2>1, <3>1 DEF Calls
  <2>3. CallFits'
    BY <1>1, <2>1, <2>2 DEF LiveInv, CallFits, TargetFits
  <2> QED BY <1>1, <2>3, UnseenStep
<1> QED BY <1>2, <1>3

(* Every step keeps the program satisfied, for sizes that fit. *)
LEMMA LiveStep ==
  ASSUME SizesFit, HeapInv, MapInv, LiveInv, [Next]_vars
  PROVE  LiveInv' /\ Seen
<1>1. Sizes \subseteq Nat /\ Nums \subseteq Nat /\ SizeT \in Nat
  BY BuddyAssumption
<1>2. ASSUME NEW total \in Nat, NEW huge, NEW old, HasBlock(total), Begin(total, total, huge, old)
      PROVE  LiveInv' /\ Seen
  <2>1. LiveInv'
    BY <1>2, BeginFits
  <2> QED BY <1>2, <2>1 DEF Begin, Seen
<1>3. ASSUME NEW s \in Sizes, Smalloc(s) PROVE LiveInv' /\ Seen
  <2>1. s \in Nat /\ HasBlock(s)
    BY <1>1 DEF SizesFit
  <2> QED BY <1>2, <1>3, <2>1 DEF Smalloc
<1>4. ASSUME NEW n \in Nums, NEW s \in Sizes, Scalloc(n, s) PROVE LiveInv' /\ Seen
  <2> DEFINE t == n * s
  <2>1. t \in Nat /\ t < SizeT /\ HasBlock(t)
    BY <1>1 DEF SizesFit
  <2>2. Begin(t % SizeT, t, s > HugeScalloc, Null)
    BY <1>4 DEF Scalloc
  <2> HIDE DEF t
  <2>3. t % SizeT = t
    BY <1>1, <2>1
  <2> QED BY <1>2, <2>1, <2>2, <2>3
<1>5. ASSUME NEW p \in DOMAIN live, NEW s \in Sizes,
             SreallocInPlace(p, s) \/ SreallocGrow(p, s) \/ SreallocMove(p, s)
      PROVE  LiveInv' /\ Seen
  <2>1. s \in Nat /\ HasBlock(s)
    BY <1>1 DEF SizesFit
  <2>2. CASE SreallocMove(p, s)
    BY <1>2, <2>1, <2>2 DEF SreallocMove
  <2> QED BY <1>5, <2>1, <2>2, SreallocInPlaceFits, SreallocGrowFits
<1>6. CASE UNCHANGED vars
  <2>1. live' = live /\ mmaps' = mmaps /\ pc' = pc /\ call' = call
    BY <1>6 DEF vars
  <2>2. CallFits'
    BY <2>1 DEF LiveInv, CallFits, TargetFits
  <2> QED BY <2>1, <2>2, UnseenStep
<1>7. CASE AllocStep
  BY <1>7, InnerFits, MmapAllocFits, BuddyFindFits, BuddyTakeFits DEF AllocStep
<1>8. CASE FreeStep \/ GrowStep
  BY <1>8, InnerFits, GrowDoneFits DEF FreeStep, GrowStep
<1> QED BY <1>3, <1>4, <1>5, <1>6, <1>7, <1>8, SfreeFits DEF Next

(* The program holds nothing at first. *)
LEMMA LiveInit == Init => LiveInv
<1>1. SUFFICES ASSUME Init PROVE LiveInv
  OBVIOUS
<1>2. DOMAIN live = {} /\ DOMAIN mmaps = {} /\ pc = "idle" /\ call.want = 0
  BY <1>1 DEF Init, NoCall
<1> QED BY <1>2, BuddyAssumption DEF LiveInv, Satisfied, CallFits

(* Whatever sizes are asked for, what the program believes in is typed,    *)
(* and the mappings it holds are those on mmap_list.                       *)
LiveTypes ==
  /\ \A p \in DOMAIN live : live[p].want \in Nat /\ live[p].data \in 0..live[p].want
  /\ DOMAIN mmaps = DOMAIN live \cap MmapIds

(* g is typed, and holds what live does but with q in the place of old. *)
SwappedTypes(g, q, old) ==
  /\ DOMAIN g = (DOMAIN live \ {old}) \cup {q}
  /\ \A p \in DOMAIN g : g[p].want \in Nat /\ g[p].data \in 0..g[p].want

(* A call that returns q, whatever it copied. *)
LEMMA GivenTyped ==
  ASSUME LiveTypes, NEW q, NEW w \in Nat, NEW old \in DOMAIN live \cup {Null}, NEW copied \in Nat,
         NEW g, g = Given(q, w, old, copied)
  PROVE  SwappedTypes(g, q, old)
<1> DEFINE owed == IF old = Null THEN 0 ELSE Min({live[old].want, w})
           had  == IF old = Null THEN 0 ELSE Min({live[old].data, copied})
           d == IF had >= owed THEN w ELSE had
<1>1. g = [p \in (DOMAIN live \ {old}) \cup {q} |-> IF p # q THEN live[p] ELSE [want |-> w, data |-> d]]
  BY DEF Given
<1>2. d \in 0..w
  <2>1. CASE old = Null
    BY <2>1
  <2>2. CASE old # Null
    <3> DEFINE x == live[old].want
               z == live[old].data
               y == Min({x, w})
               h == Min({z, copied})
    <3>1. x \in Nat /\ z \in Nat
      BY <2>2 DEF LiveTypes
    <3>2. y \in {x, w} /\ y <= w
      BY <3>1, MinPair
    <3>3. h \in {z, copied}
      BY <3>1, MinPair
    <3>4. owed = y /\ had = h
      BY <2>2
    <3> HIDE DEF x, y, z, h, owed, had
    <3> QED BY <3>1, <3>2, <3>3, <3>4
  <2> QED BY <2>1, <2>2
<1> HIDE DEF d
<1>3. ASSUME NEW p \in DOMAIN g PROVE g[p].want \in Nat /\ g[p].data \in 0..g[p].want
  <2>1. CASE p = q
    <3>1. g[p].want = w /\ g[p].data = d
      BY <1>1, <1>3, <2>1
    <3> QED BY <1>2, <3>1
  <2>2. CASE p # q
    <3>1. p \in DOMAIN live /\ g[p] = live[p]
      BY <1>1, <1>3, <2>2
    <3> QED BY <3>1 DEF LiveTypes
  <2> QED BY <2>1, <2>2
<1> QED BY <1>1, <1>3 DEF SwappedTypes

(* The room behind a pointer is a number of bytes. *)
LEMMA RoomTyped ==
  ASSUME HeapInv, MapInv, LiveTypes, NEW p \in DOMAIN live
  PROVE  Room(p) \in Nat
<1>1. p \in Pointers
  BY DEF HeapInv, Types
<1>2. CASE p \in MmapIds
  <2>1. p \in DOMAIN mmaps
    BY <1>2 DEF LiveTypes
  <2> QED BY <1>2, <2>1 DEF Room, MapInv, Mapped
<1>3. CASE p \notin MmapIds
  <2>1. p \in Held /\ Room(p) = MinBlock * size[p] - MetaSize
    BY <1>1, <1>3 DEF Room, Pointers, Held
  <2>2. p \in Bases /\ GetOrder(p) \in Orders /\ size[p] = BlockSize(GetOrder(p))
    BY <2>1, HeldAreBases
  <2>3. size[p] \in Nat /\ size[p] > 0
    BY <2>2, BaseAligned
  <2> DEFINE x == size[p]
  <2>4. x \in Nat /\ x > 0 /\ MinBlock \in Nat /\ MetaSize \in Nat /\ MetaSize < MinBlock
    BY <2>3, BuddyAssumption
  <2> HIDE DEF x
  <2>5. MinBlock * x = MinBlock + MinBlock * (x - 1) /\ MinBlock * (x - 1) \in Nat
    BY <2>4
  <2>6. MinBlock * x - MetaSize \in Nat
    BY <2>4, <2>5
  <2> QED BY <2>1, <2>6 DEF x
<1> QED BY <1>2, <1>3

(* smalloc returns q for a call of srealloc or of the program. *)
LEMMA ReturnTyped ==
  ASSUME HeapInv, MapInv, LiveTypes, NEW q \in Pointers, NEW mm, NEW k, Return(q, mm, k),
         q \notin DOMAIN live, DOMAIN mm = (DOMAIN mmaps \cup {q}) \cap MmapIds
  PROVE  LiveTypes'
<1> DEFINE old == call.old
           copied == IF old = Null THEN 0 ELSE Room(old)
           g == live'
<1>1. /\ g = Given(q, call.want, old, copied)
      /\ mmaps' = [j \in DOMAIN mm \ {old} |-> mm[j]]
  BY DEF Return, MmapFree
<1>2. old \in DOMAIN live \cup {Null} /\ call.want \in Nat
  BY DEF HeapInv, Types, Calls
<1>3. copied \in Nat
  BY <1>2, RoomTyped
<1>4. q # old
  <2>1. q # Null
    BY NullNowhere DEF Pointers
  <2> QED BY <1>2, <2>1
<1> HIDE DEF copied, old, g
<1>5. /\ DOMAIN g = (DOMAIN live \ {old}) \cup {q}
      /\ \A p \in DOMAIN g : g[p].want \in Nat /\ g[p].data \in 0..g[p].want
  <2>1. SwappedTypes(g, q, old)
    BY <1>1, <1>2, <1>3, GivenTyped
  <2> QED BY <2>1 DEF SwappedTypes
<1>6. DOMAIN mmaps' = DOMAIN mm \ {old}
  BY <1>1
<1>7. DOMAIN mmaps' = DOMAIN g \cap MmapIds
  BY <1>4, <1>5, <1>6 DEF LiveTypes
<1> QED BY <1>5, <1>7 DEF LiveTypes, g

(* srealloc returns the block it was given. *)
LEMMA SameTyped ==
  ASSUME HeapInv, LiveTypes, NEW p \in DOMAIN live, NEW w \in Nat,
         live' = Given(p, w, p, live[p].data), mmaps' = mmaps
  PROVE  LiveTypes'
<1> DEFINE g == live'
           c == live[p].data
<1>1. g = Given(p, w, p, c) /\ c \in Nat
  BY DEF LiveTypes
<1> HIDE DEF g, c
<1>2. /\ DOMAIN g = (DOMAIN live \ {p}) \cup {p}
      /\ \A x \in DOMAIN g : g[x].want \in Nat /\ g[x].data \in 0..g[x].want
  <2>1. SwappedTypes(g, p, p)
    BY <1>1, GivenTyped
  <2> QED BY <2>1 DEF SwappedTypes
<1>3. DOMAIN g = DOMAIN live
  BY <1>2
<1> QED BY <1>2, <1>3 DEF LiveTypes, g

(* Every step keeps the types. *)
LEMMA LiveTypesStep ==
  ASSUME HeapInv, MapInv, LiveTypes, [Next]_vars
  PROVE  LiveTypes'
<1>1. CASE live' = live /\ mmaps' = mmaps
  BY <1>1 DEF LiveTypes
<1>2. CASE MmapAlloc
  <2> DEFINE length == RoundUp(MetaSize + call.total, IF call.huge THEN HugePage ELSE Page)
  <2>1. CASE ReturnNull /\ UNCHANGED maps
    BY <1>1, <2>1 DEF ReturnNull, maps
  <2>2. ASSUME NEW i \in MmapIds \ DOMAIN kernel, NEW k,
               Return(i, [j \in DOMAIN mmaps \cup {i} |-> IF j = i THEN length - MetaSize ELSE mmaps[j]], k)
        PROVE  LiveTypes'
    <3> DEFINE mm == [j \in DOMAIN mmaps \cup {i} |-> IF j = i THEN length - MetaSize ELSE mmaps[j]]
    <3>1. i \in Pointers /\ i \notin DOMAIN live /\ DOMAIN mm = (DOMAIN mmaps \cup {i}) \cap MmapIds
      BY DEF MapInv, Mapped, LiveTypes, Pointers
    <3>2. Return(i, mm, k)
      BY <2>2
    <3> HIDE DEF mm
    <3> QED BY <3>1, <3>2, ReturnTyped
  <2> QED BY <1>2, <2>1, <2>2 DEF MmapAlloc
<1>3. CASE BuddyTake
  <2> DEFINE m == call.m
  <2>1. pc = "split" /\ Return(m, mmaps, kernel)
    BY <1>3 DEF BuddyTake
  <2>2. m \in Bases /\ m \notin Held
    BY <2>1, TakeOff
  <2>3. m \in Pointers /\ m \notin DOMAIN live /\ m \notin MmapIds
    BY <2>2, BaseFacts, NullNowhere DEF Held, Pointers
  <2>4. DOMAIN mmaps = (DOMAIN mmaps \cup {m}) \cap MmapIds
    BY <2>3 DEF LiveTypes
  <2> HIDE DEF m
  <2> QED BY <2>1, <2>3, <2>4, ReturnTyped
<1>4. ASSUME NEW p \in DOMAIN live, Sfree(p) PROVE LiveTypes'
  <2>1. live' = [x \in DOMAIN live \ {p} |-> live[x]]
    BY <1>4 DEF Sfree
  <2>2. DOMAIN live' = DOMAIN live \ {p} /\ \A x \in DOMAIN live' : live'[x] = live[x]
    BY <2>1
  <2>3. DOMAIN mmaps' = DOMAIN mmaps \ {p}
    <3>1. CASE p \in MmapIds
      BY <1>4, <3>1 DEF Sfree, MmapFree
    <3>2. CASE p \notin MmapIds
      <4>1. mmaps' = mmaps
        BY <1>4, <3>2 DEF Sfree, maps
      <4> QED BY <3>2, <4>1 DEF LiveTypes
    <3> QED BY <3>1, <3>2
  <2> QED BY <2>2, <2>3 DEF LiveTypes
<1>5. ASSUME NEW p \in DOMAIN live, NEW s \in Sizes, SreallocInPlace(p, s) PROVE LiveTypes'
  <2>1. s \in Nat
    BY BuddyAssumption
  <2>2. live' = Given(p, s, p, live[p].data) /\ mmaps' = mmaps
    BY <1>5 DEF SreallocInPlace, maps
  <2> QED BY <2>1, <2>2, SameTyped
<1>6. CASE GrowDone
  <2> DEFINE p == call.m
  <2>1. pc = "grow" /\ live' = Given(p, call.want, call.old, GrowCopied) /\ mmaps' = mmaps
    BY <1>6 DEF GrowDone, maps
  <2>2. p \in DOMAIN live /\ p = call.old /\ call.want \in Nat
    BY <2>1 DEF HeapInv, EmptyHeap, FullHeap, Growing, Held, Types, Calls
  <2>3. live' = Given(p, call.want, p, live[p].data)
    BY <2>1, <2>2 DEF GrowCopied
  <2> HIDE DEF p
  <2> QED BY <2>1, <2>2, <2>3, SameTyped
<1>7. ASSUME \/ \E s \in Sizes : Smalloc(s)
             \/ \E n \in Nums, s \in Sizes : Scalloc(n, s)
             \/ \E p \in DOMAIN live, s \in Sizes : SreallocGrow(p, s) \/ SreallocMove(p, s)
      PROVE  live' = live /\ mmaps' = mmaps
  BY <1>7 DEF Smalloc, Scalloc, Begin, SreallocGrow, SreallocMove, maps
<1>8. ASSUME BuddyInit \/ BuddyFind \/ SplitBlock \/ FreeStep \/ GrowBuddy
      PROVE  live' = live /\ mmaps' = mmaps
  BY <1>8 DEF BuddyInit, BuddyFind, ReturnNull, SplitBlock, FreeStep, MergeBuddy, MergeDone,
              FlInsertWalk, FlInsert, GrowBuddy, maps
<1>9. UNCHANGED vars => live' = live /\ mmaps' = mmaps
  BY DEF vars
<1> QED BY <1>1, <1>2, <1>3, <1>4, <1>5, <1>6, <1>7, <1>8, <1>9 DEF Next, AllocStep, GrowStep

(* The bytes behind a pointer are bytes of the address space, and no two   *)
(* pointers share one.                                                     *)
Apart ==
  /\ \A p \in DOMAIN live :
       /\ p \in Pointers
       /\ Regions[p] \subseteq ({Null} \X (0..HeapSize * MinBlock - 1)) \cup (MmapIds \X (0..MaxAlloc))
  /\ \A p, q \in DOMAIN live : p # q => Regions[p] \cap Regions[q] = {}

(* Blocks of the heap start at bases and end before the next one. *)
LEMMA RegionsApart == HeapInv /\ LiveInv => Apart
<1>1. SUFFICES ASSUME HeapInv, LiveInv PROVE Apart
  OBVIOUS
<1>2. /\ MinBlock \in Nat /\ MetaSize \in Nat /\ MaxAlloc \in Nat /\ HeapSize \in Nat /\ Big \in Nat
      /\ MinBlock > 0
  BY BuddyAssumption, BigNat
<1>3. ASSUME NEW p \in DOMAIN live
      PROVE  p \in Pointers /\ live[p].want \in Nat /\ live[p].want <= MaxAlloc
  BY <1>1 DEF HeapInv, Types, LiveInv, Satisfied
<1>4. ASSUME NEW p \in DOMAIN live, p \in MmapIds
      PROVE  /\ \A x \in Regions[p] : \E b \in Nat : b < live[p].want /\ x = <<p, b>>
             /\ Regions[p] \subseteq MmapIds \X (0..MaxAlloc)
  <2>1. Regions[p] = {<<p, b>> : b \in 0..live[p].want-1}
    BY <1>4 DEF Regions
  <2>2. \A b \in 0..live[p].want-1 : b \in Nat /\ b < live[p].want /\ b \in 0..MaxAlloc
    BY <1>2, <1>3
  <2> QED BY <1>4, <2>1, <2>2
<1>5. ASSUME NEW p \in DOMAIN live, p \notin MmapIds
      PROVE  /\ p \in Bases /\ p \in Nat /\ p + Big <= HeapSize
             /\ \A x \in Regions[p] : \E c \in Nat :
                  x = <<Null, c>> /\ p * MinBlock <= c /\ c < (p + Big) * MinBlock
  <2>1. p \in Addr /\ p \in Held
    BY <1>3, <1>5 DEF Pointers, Held
  <2>2. FullHeap /\ p \in Bases /\ GetOrder(p) \in Orders /\ size[p] = BlockSize(GetOrder(p))
    BY <1>1, <2>1, HeldAreBases
  <2>3. p \in Nat /\ p + Big <= HeapSize /\ size[p] \in Nat /\ size[p] <= Big
    BY <2>2, BaseFacts, BaseAligned
  <2>4. live[p].want + MetaSize <= MinBlock * size[p]
    BY <1>1, <2>1 DEF LiveInv, Satisfied
  <2>5. MinBlock * size[p] <= MinBlock * Big
    <3> DEFINE x == size[p]
    <3>1. x \in Nat /\ x <= Big
      BY <2>3
    <3> HIDE DEF x
    <3>2. MinBlock * Big = MinBlock * x + MinBlock * (Big - x) /\ MinBlock * (Big - x) >= 0
          /\ MinBlock * x \in Int /\ MinBlock * (Big - x) \in Int
      BY <1>2, <3>1
    <3>3. MinBlock * x <= MinBlock * Big
      BY <3>2
    <3> QED BY <3>3 DEF x
  <2>6. ASSUME NEW b \in 0..live[p].want-1
        PROVE  /\ p * MinBlock + MetaSize + b \in Nat /\ p * MinBlock <= p * MinBlock + MetaSize + b
               /\ p * MinBlock + MetaSize + b < (p + Big) * MinBlock
    <3> DEFINE u == p * MinBlock
               v == MinBlock * Big
               z == MinBlock * size[p]
    <3>1. u \in Nat /\ v \in Nat /\ z \in Nat /\ (p + Big) * MinBlock = u + v
      BY <1>2, <2>3
    <3>2. live[p].want + MetaSize <= z /\ z <= v /\ live[p].want \in Nat
      BY <1>3, <2>4, <2>5
    <3> HIDE DEF u, v, z
    <3>3. u + MetaSize + b \in Nat /\ u <= u + MetaSize + b /\ u + MetaSize + b < u + v
      BY <1>2, <3>1, <3>2
    <3> QED BY <3>1, <3>3 DEF u
  <2>7. Regions[p] = {<<Null, p * MinBlock + MetaSize + b>> : b \in 0..live[p].want-1}
    BY <1>5 DEF Regions
  <2> QED BY <2>2, <2>3, <2>6, <2>7
<1>6. ASSUME NEW p \in DOMAIN live
      PROVE  Regions[p] \subseteq ({Null} \X (0..HeapSize * MinBlock - 1)) \cup (MmapIds \X (0..MaxAlloc))
  <2>1. CASE p \in MmapIds
    BY <1>4, <2>1
  <2>2. CASE p \notin MmapIds
    <3>1. p \in Nat /\ p + Big <= HeapSize
      BY <1>5, <2>2
    <3>2. (p + Big) * MinBlock <= HeapSize * MinBlock /\ HeapSize * MinBlock \in Nat
          /\ (p + Big) * MinBlock \in Nat
      <4> DEFINE e == p + Big
                 d == HeapSize - e
      <4>1. e \in Nat /\ d \in Nat /\ HeapSize = e + d
        BY <1>2, <3>1
      <4> HIDE DEF e, d
      <4>2. HeapSize * MinBlock = e * MinBlock + d * MinBlock /\ e * MinBlock \in Nat
            /\ d * MinBlock \in Nat
        BY <1>2, <4>1
      <4>3. e * MinBlock <= HeapSize * MinBlock /\ HeapSize * MinBlock \in Nat /\ e * MinBlock \in Nat
        BY <4>2
      <4> QED BY <4>3 DEF e
    <3>3. ASSUME NEW x \in Regions[p] PROVE x \in {Null} \X (0..HeapSize * MinBlock - 1)
      <4>1. PICK c \in Nat : x = <<Null, c>> /\ c < (p + Big) * MinBlock
        BY <1>5, <2>2, <3>3
      <4>2. c \in 0..HeapSize * MinBlock - 1
        BY <3>2, <4>1
      <4> QED BY <4>1, <4>2
    <3> QED BY <3>3
  <2> QED BY <2>1, <2>2
<1>7. ASSUME NEW p \in DOMAIN live, NEW q \in DOMAIN live, p # q, NEW x \in Regions[p], x \in Regions[q]
      PROVE  FALSE
  <2>1. CASE p \in MmapIds /\ q \in MmapIds
    BY <1>4, <1>7, <2>1
  <2>2. CASE p \in MmapIds /\ q \notin MmapIds
    BY <1>4, <1>5, <1>7, <2>2, NullNowhere
  <2>3. CASE p \notin MmapIds /\ q \in MmapIds
    BY <1>4, <1>5, <1>7, <2>3, NullNowhere
  <2>4. CASE p \notin MmapIds /\ q \notin MmapIds
    <3>1. PICK c \in Nat : x = <<Null, c>> /\ p * MinBlock <= c /\ c < (p + Big) * MinBlock
      BY <1>5, <1>7, <2>4
    <3>2. q * MinBlock <= c /\ c < (q + Big) * MinBlock
      BY <1>5, <1>7, <2>4, <3>1
    <3>3. p \in Nat /\ q \in Nat /\ (p + Big <= q \/ q + Big <= p)
      BY <1>5, <1>7, <2>4, BaseFacts
    <3>4. ASSUME NEW a \in Nat, NEW b \in Nat, a + Big <= b
          PROVE  (a + Big) * MinBlock <= b * MinBlock
      <4> DEFINE e == a + Big
                 d == b - e
      <4>1. e \in Nat /\ d \in Nat /\ b = e + d
        BY <1>2, <3>4
      <4> HIDE DEF e, d
      <4>2. b * MinBlock = e * MinBlock + d * MinBlock /\ e * MinBlock \in Nat /\ d * MinBlock \in Nat
        BY <1>2, <4>1
      <4>3. e * MinBlock <= b * MinBlock
        BY <4>2
      <4> QED BY <4>3 DEF e
    <3>5. /\ p * MinBlock \in Nat /\ q * MinBlock \in Nat
          /\ (p + Big) * MinBlock \in Nat /\ (q + Big) * MinBlock \in Nat
      BY <1>2, <3>3
    <3>6. CASE p + Big <= q
      BY <3>1, <3>2, <3>3, <3>4, <3>5, <3>6
    <3>7. CASE q + Big <= p
      BY <3>1, <3>2, <3>3, <3>4, <3>5, <3>7
    <3> QED BY <3>3, <3>6, <3>7
  <2> QED BY <2>1, <2>2, <2>3, <2>4
<1> QED BY <1>3, <1>6, <1>7 DEF Apart
(* A step the program sees is a step of the abstract allocator. *)
LEMMA AllocatorStep ==
  ASSUME LiveInv, LiveInv', Apart', Seen, Null \notin DOMAIN live
  PROVE  Memory!Next \/ UNCHANGED Memory!avars
<1> DEFINE R == Regions
           I == {p \in DOMAIN live : live[p].data = live[p].want}
<1>1. DOMAIN R = DOMAIN live /\ DOMAIN R' = DOMAIN live'
  BY DEF Regions
<1>2. I = DOMAIN live /\ I' = DOMAIN live'
  BY DEF LiveInv, Satisfied
<1>3. R = [p \in DOMAIN live |-> R[p]] /\ R' = [p \in DOMAIN live' |-> R'[p]]
  BY DEF Regions
<1>4. ASSUME NEW p \in DOMAIN live, p \in DOMAIN live', live'[p] = live[p] PROVE R'[p] = R[p]
  BY <1>4 DEF Regions
<1>5. /\ \A p \in DOMAIN R' :
           /\ p \in Pointers
           /\ R'[p] \subseteq ({Null} \X (0..HeapSize * MinBlock - 1)) \cup (MmapIds \X (0..MaxAlloc))
      /\ Memory!Disjoint(R')
  BY <1>1 DEF Apart, Memory!Disjoint
<1>6. CASE live' = live
  BY <1>6 DEF Memory!avars, Regions
<1>7. ASSUME NEW p \in DOMAIN live, live' = [x \in DOMAIN live \ {p} |-> live[x]]
      PROVE  Memory!Next
  <2>1. DOMAIN live' = DOMAIN live \ {p} /\ \A x \in DOMAIN live' : live'[x] = live[x]
    BY <1>7
  <2>2. R' = [x \in DOMAIN R \ {p} |-> R[x]]
    BY <1>1, <1>3, <1>4, <2>1
  <2>3. Memory!Free(p) /\ p \in Memory!InUse
    BY <1>1, <1>2, <2>1, <2>2 DEF Memory!Free, Memory!InUse, Memory!Without
  <2> QED BY <1>5, <2>3 DEF Memory!Next
<1>8. ASSUME NEW w \in Nat, NEW q \in Pointers, NEW old \in DOMAIN live \cup {Null},
             Swapped(live', q, w, old), q = old \/ q \notin DOMAIN live
      PROVE  Memory!Next
  <2>1. /\ DOMAIN live' = (DOMAIN live \ {old}) \cup {q}
        /\ \A p \in DOMAIN live \ {old} : p # q => live'[p] = live[p]
    BY <1>8 DEF Swapped
  <2>2. \A p \in DOMAIN live \ {old} : p # q => R'[p] = R[p]
    BY <1>4, <2>1
  <2>3. q \in DOMAIN R'
    BY <1>1, <2>1
  <2>4. CASE old = Null
    <3>1. q # Null
      BY NullNowhere DEF Pointers
    <3>2. q \notin DOMAIN live /\ DOMAIN live' = DOMAIN live \cup {q}
      BY <1>8, <2>1, <2>4, <3>1
    <3>3. R' = [x \in DOMAIN R \cup {q} |-> IF x = q THEN R'[q] ELSE R[x]]
      BY <1>1, <1>3, <2>2, <2>4, <3>2
    <3>4. Memory!Alloc(q, R'[q])
      BY <1>1, <1>2, <3>2, <3>3 DEF Memory!Alloc, Memory!InUse, Memory!With
    <3> QED BY <1>5, <2>3, <3>4 DEF Memory!Next, Memory!Alloc
  <2>5. CASE old # Null
    <3>1. old \in DOMAIN live /\ (q = old \/ q \notin DOMAIN live)
      BY <1>8, <2>5
    <3>2. Memory!Without(R, {old}) = [x \in DOMAIN R \ {old} |-> R[x]]
      BY DEF Memory!Without
    <3>3. R' = [x \in (DOMAIN R \ {old}) \cup {q} |-> IF x = q THEN R'[q] ELSE R[x]]
      BY <1>1, <1>3, <2>1, <2>2
    <3>4. R' = Memory!With(Memory!Without(R, {old}), q, R'[q])
      BY <3>2, <3>3 DEF Memory!With
    <3>5. Memory!Realloc(old, q, R'[q]) /\ old \in Memory!InUse
      BY <1>1, <1>2, <2>1, <3>1, <3>4 DEF Memory!Realloc, Memory!InUse
    <3> QED BY <1>5, <2>3, <3>5 DEF Memory!Next
  <2> QED BY <2>4, <2>5
<1> QED BY <1>6, <1>7, <1>8 DEF Seen
-----------------------------------------------------------------------------
(* The theorems *)

(* There are no mappings at first. *)
LEMMA MapInit == Init => MapInv
BY DEF Init, MapInv, Mapped

(* Heap and mappings together. *)
LEMMA BuddyInvariant == Spec => [](HeapInv /\ MapInv)
<1>1. HeapInv /\ MapInv /\ [Next]_vars => (HeapInv /\ MapInv)'
  BY HeapStep, MapStep
<1> QED BY <1>1, HeapInit, MapInit, PTL DEF Spec

(* Whatever is split, merged, freed or resized, the blocks tile the heap:  *)
(* count_all_buddy's walk from heap_base meets blocks aligned to their     *)
(* sizes only, every block the program holds among them, and ends exactly  *)
(* at the end of the heap.                                                 *)
THEOREM HeapStaysTiled == Spec => []BlocksTileHeap
BY HeapInvariant, TilesInv, PTL

(* The links of the free lists join free blocks of one order, in ascending *)
(* order and both ways, although fl_remove is also called on blocks that   *)
(* are in no list.                                                         *)
THEOREM FreeListsStaySound == Spec => []ListsSound
BY HeapInvariant, ListsInv, PTL

(* Between calls no two buddies are free: buddy_free_and_merge leaves      *)
(* nothing to merge.                                                       *)
THEOREM AlwaysCoalesced == Spec => []Coalesced
BY HeapInvariant, CoalescedInv, PTL

(* When the program has freed all its blocks of the heap, the list of      *)
(* MAX_ORDER holds all that buddy_init put there.                          *)
THEOREM NothingIsLost == Spec => []EverythingComesBack
BY HeapInvariant, ComesBackInv, PTL

(* Every mapping of the kernel is a block of mmap_list of just that        *)
(* length: mmap_free's munmap releases all of it.                          *)
THEOREM MappingsStayExact == Spec => []MappedExactly
<1>1. MapInv => MappedExactly
  BY DEF MapInv, Mapped, MappedExactly
<1> QED BY <1>1, BuddyInvariant, PTL

(* No step writes metadata into a block the program holds: the allocator   *)
(* only changes the blocks its call is about, and free ones.               *)
THEOREM KeepsHandsOff == Spec => HandsOff
<1> DEFINE A == \A p \in DOMAIN live \cap Addr :
                  \A a \in p + (IF p \in {call.m, call.old, call'.old} THEN 1 ELSE 0) .. p + size[p] - 1 :
                    /\ size'[a] = size[a] /\ is_free'[a] = is_free[a]
                    /\ next'[a] = next[a] /\ prev'[a] = prev[a]
<1>1. HeapInv /\ [Next]_vars => [A]_vars
  BY HandsOffStep DEF Untouched
<1> QED BY <1>1, HeapInvariant, PTL DEF Spec, HandsOff

(* All of the invariant, for sizes that fit. *)
LEMMA ProgramInvariant ==
  ASSUME SizesFit
  PROVE  Spec => [](HeapInv /\ MapInv /\ LiveInv)
<1>1. HeapInv /\ MapInv /\ LiveInv /\ [Next]_vars => (HeapInv /\ MapInv /\ LiveInv)'
  BY HeapStep, MapStep, LiveStep
<1> QED BY <1>1, HeapInit, MapInit, LiveInit, PTL DEF Spec

(* Unless a size is within sizeof(MallocMetadata) of the threshold or a    *)
(* product wraps, a block that smalloc, scalloc or srealloc returns has    *)
(* room for what was asked for: size_to_order errs nowhere else.           *)
THEOREM FitsOutsideTheGap ==
  ASSUME SizesFit
  PROVE  Spec => []RequestFits
<1>1. HeapInv /\ MapInv /\ LiveInv => RequestFits
  BY RoomEnough DEF RequestFits
<1> QED BY <1>1, ProgramInvariant, PTL

(* For such sizes the buddy heap and the mappings are one allocator to the *)
(* program: no byte is handed out twice, every block is in its memory, and *)
(* srealloc keeps the contents, in place, merged or moved.                 *)
THEOREM BuddyImplementsAllocator ==
  ASSUME SizesFit
  PROVE  Spec => ImplementsAllocator
<1>1. Init => Memory!Init
  <2>1. ASSUME Init PROVE DOMAIN live = {}
    BY <2>1 DEF Init
  <2> QED BY <2>1 DEF Memory!Init, Regions
<1>2. ASSUME HeapInv, MapInv, LiveInv, (HeapInv /\ MapInv /\ LiveInv)', [Next]_vars
      PROVE  [Memory!Next]_(Memory!avars)
  <2>1. Seen
    BY <1>2, LiveStep
  <2>2. Apart'
    BY <1>2, RegionsApart, PTL
  <2>3. Null \notin DOMAIN live
    BY <1>2, NullNowhere DEF HeapInv, Types, Pointers
  <2> QED BY <1>2, <2>1, <2>2, <2>3, AllocatorStep
<1> QED BY <1>1, <1>2, ProgramInvariant, PTL DEF Spec, ImplementsAllocator, Memory!Spec

(* Type correctness, for all sizes: in particular the program never has    *)
(* more data behind a pointer than it asked for, and every link is null or *)
(* an address of the heap.                                                 *)
THEOREM TypeCorrect == Spec => []TypeOK
<1>1. Init => LiveTypes
  <2>1. ASSUME Init PROVE DOMAIN live = {} /\ DOMAIN mmaps = {}
    BY <2>1 DEF Init
  <2> QED BY <2>1 DEF LiveTypes
<1>2. HeapInv /\ MapInv /\ LiveTypes /\ [Next]_vars => LiveTypes'
  BY LiveTypesStep
<1>3. HeapInv /\ MapInv /\ LiveTypes => TypeOK
  <2>1. ASSUME HeapInv PROVE {call.m, call.ins, call.cur} \subseteq Links
    BY <2>1 DEF HeapInv, Types, Calls
  <2> QED BY <2>1 DEF HeapInv, Types, Calls, MapInv, Mapped, LiveTypes, TypeOK, Big
<1> QED BY <1>1, <1>2, <1>3, BuddyInvariant, PTL DEF Spec
=============================================================================
