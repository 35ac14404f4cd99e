------------------------- MODULE FreeListAllocProofs -------------------------
(***************************************************************************)
(* Proofs about the first-fit allocator, for every size of the metadata,   *)
(* every limit and every pattern of requests.                              *)
(***************************************************************************)
EXTENDS FreeListAlloc, SequenceTheorems, FiniteSetTheorems, TLAPS
-----------------------------------------------------------------------------
(* Sums over finite sets *)

(* Every nonempty set of subsets of a finite set has a minimal one: with   *)
(* it, induction over finite sets.                                         *)
LEMMA MinimalSet ==
  ASSUME NEW S, IsFiniteSet(S), NEW B \in SUBSET SUBSET S, B # {}
  PROVE  \E T \in B : IsFiniteSet(T) /\ \A U \in SUBSET T : U # T => U \notin B
<1> DEFINE R == StrictSubsetOrdering(S)
<1>1. IsWellFoundedOn(R, FiniteSubsetsOf(S))
  BY FS_StrictSubsetOrderingWellFounded
<1>2. B \subseteq FiniteSubsetsOf(S)
  BY FS_Subset DEF FiniteSubsetsOf
<1>3. PICK T \in B : \A U \in B : ~ (<<U, T>> \in R)
  <2> HIDE DEF R
  <2> QED BY <1>1, <1>2, WFMin
<1>4. \A U \in B : ~ (U \subseteq T /\ U # T)
  BY <1>3 DEF StrictSubsetOrdering
<1> QED BY <1>2, <1>4 DEF FiniteSubsetsOf

(* g computes the sum of f over every subset of S. *)
First(s) == CHOOSE x \in s : TRUE

IsIter(g, f, S) ==
  g = [s \in SUBSET S |-> IF s = {} THEN 0 ELSE f[First(s)] + g[s \ {First(s)}]]

LEMMA SumIs ==
  ASSUME NEW f, NEW S
  PROVE SumFunctionOnSet(f, S) = (CHOOSE g : IsIter(g, f, S))[S]
BY DEF SumFunctionOnSet, FoldFunctionOnSet, MapThenFoldSet, IsIter, First

LEMMA IterUnique ==
  ASSUME NEW f, NEW S, IsFiniteSet(S), NEW g, NEW h, IsIter(g, f, S), NEW s \in SUBSET S,
         IsIter(h, f, s)
  PROVE  h[s] = g[s]
<1> DEFINE B == {T \in SUBSET s : h[T] # g[T]}
<1>1. SUFFICES ASSUME B # {} PROVE FALSE
  OBVIOUS
<1>2. IsFiniteSet(s)
  BY FS_Subset
<1>3. PICK T \in B : \A U \in SUBSET T : U # T => U \notin B
  <2> HIDE DEF B
  <2>1. B \in SUBSET SUBSET s
    BY DEF B
  <2> QED BY <1>1, <1>2, <2>1, MinimalSet
<1>4. /\ g[T] = IF T = {} THEN 0 ELSE f[First(T)] + g[T \ {First(T)}]
      /\ h[T] = IF T = {} THEN 0 ELSE f[First(T)] + h[T \ {First(T)}]
  BY DEF IsIter
<1>5. T # {} /\ First(T) \in T
  BY <1>4 DEF First
<1>6. T \ {First(T)} \in SUBSET T /\ T \ {First(T)} # T
  BY <1>5
<1> QED BY <1>3, <1>4, <1>5, <1>6

LEMMA IterExists ==
  ASSUME NEW f, NEW S, IsFiniteSet(S)
  PROVE  \E g : IsIter(g, f, S)
<1> DEFINE B == {T \in SUBSET S : ~ \E g : IsIter(g, f, T)}
<1>1. SUFFICES ASSUME B # {} PROVE FALSE
  OBVIOUS
<1>2. PICK T \in B : IsFiniteSet(T) /\ \A U \in SUBSET T : U # T => U \notin B
  <2> HIDE DEF B
  <2>1. B \in SUBSET SUBSET S
    BY DEF B
  <2> QED BY <1>1, <2>1, MinimalSet
<1> DEFINE it(U) == CHOOSE g : IsIter(g, f, U)
           sum(U) == it(U)[U]
           k == [s \in SUBSET T |->
                   IF s = {} THEN 0 ELSE f[First(s)] + sum(s \ {First(s)})]
<1>3. \A U \in SUBSET T : U # T => IsIter(it(U), f, U)
  BY <1>2
<1> HIDE DEF it
<1>4. ASSUME NEW s \in SUBSET T, s # T PROVE k[s] = sum(s)
  <2>1. IsIter(it(s), f, s)
    BY <1>3, <1>4
  <2>2. sum(s) = IF s = {} THEN 0 ELSE f[First(s)] + it(s)[s \ {First(s)}]
    BY <2>1 DEF IsIter
  <2>3. CASE s = {}
    BY <2>2, <2>3
  <2>4. CASE s # {}
    <3>1. s \ {First(s)} \in SUBSET s /\ s \ {First(s)} # T /\ s \ {First(s)} \in SUBSET T
      BY <1>4, <2>4
    <3>2. IsIter(it(s \ {First(s)}), f, s \ {First(s)})
      BY <1>3, <3>1
    <3>3. IsFiniteSet(s)
      BY <1>2, FS_Subset
    <3>4. sum(s \ {First(s)}) = it(s)[s \ {First(s)}]
      BY <2>1, <3>1, <3>2, <3>3, IterUnique
    <3> QED BY <2>2, <2>4, <3>4
  <2> QED BY <2>3, <2>4
<1>5. \A s \in SUBSET T : s # {} => s \ {First(s)} \in SUBSET T /\ s \ {First(s)} # T
  BY DEF First
<1>6. \A s \in SUBSET T : s # {} => k[s \ {First(s)}] = sum(s \ {First(s)})
  BY <1>4, <1>5
<1>7. k = [s \in SUBSET T |-> IF s = {} THEN 0 ELSE f[First(s)] + k[s \ {First(s)}]]
  <2> HIDE DEF sum
  <2> QED BY <1>6
<1>8. IsIter(k, f, T)
  BY <1>7 DEF IsIter
<1> QED BY <1>2, <1>8

(* What the sum over a finite set is. *)
LEMMA SumUnfold ==
  ASSUME NEW f, NEW S, IsFiniteSet(S)
  PROVE  /\ SumFunctionOnSet(f, {}) = 0
         /\ S # {} => /\ First(S) \in S
                      /\ SumFunctionOnSet(f, S) = f[First(S)] + SumFunctionOnSet(f, S \ {First(S)})
<1> DEFINE it(U) == CHOOSE g : IsIter(g, f, U)
<1>1. \A U : IsFiniteSet(U) => IsIter(it(U), f, U) /\ SumFunctionOnSet(f, U) = it(U)[U]
  BY IterExists, SumIs
<1> HIDE DEF it
<1>2. IsFiniteSet({})
  BY FS_EmptySet
<1>3. it({})[{}] = 0
  BY <1>1, <1>2 DEF IsIter
<1>4. ASSUME S # {} PROVE /\ First(S) \in S
                          /\ SumFunctionOnSet(f, S) = f[First(S)] + SumFunctionOnSet(f, S \ {First(S)})
  <2>1. First(S) \in S
    BY <1>4 DEF First
  <2>2. IsFiniteSet(S \ {First(S)}) /\ S \ {First(S)} \in SUBSET S
    BY FS_RemoveElement
  <2>3. it(S)[S] = f[First(S)] + it(S)[S \ {First(S)}]
    BY <1>1, <1>4 DEF IsIter
  <2>4. it(S \ {First(S)})[S \ {First(S)}] = it(S)[S \ {First(S)}]
    BY <1>1, <2>2, IterUnique
  <2> QED BY <1>1, <2>1, <2>2, <2>3, <2>4
<1> QED BY <1>1, <1>2, <1>3, <1>4

(* Any element may be taken out first. *)
LEMMA SumRemove ==
  ASSUME NEW f, NEW S, IsFiniteSet(S), \A x \in S : f[x] \in Int
  PROVE  /\ SumFunctionOnSet(f, S) \in Int
         /\ \A a \in S : SumFunctionOnSet(f, S) = f[a] + SumFunctionOnSet(f, S \ {a})
<1> DEFINE Sum(U) == SumFunctionOnSet(f, U)
           Good(U) == Sum(U) \in Int /\ \A a \in U : Sum(U) = f[a] + Sum(U \ {a})
           B == {T \in SUBSET S : ~Good(T)}
<1>1. SUFFICES ASSUME B # {} PROVE FALSE
  OBVIOUS
<1>2. PICK T \in B : IsFiniteSet(T) /\ \A U \in SUBSET T : U # T => U \notin B
  <2> HIDE DEF B
  <2>1. B \in SUBSET SUBSET S
    BY DEF B
  <2> QED BY <1>1, <2>1, MinimalSet
<1>3. \A U \in SUBSET T : U # T => Good(U)
  BY <1>2
<1>4. T # {}
  <2>1. Sum({}) = 0
    BY FS_EmptySet, SumUnfold
  <2>2. Good({})
    BY <2>1
  <2> QED BY <1>2, <2>2
<1> DEFINE c == First(T)
<1>5. c \in T /\ Sum(T) = f[c] + Sum(T \ {c})
  BY <1>2, <1>4, SumUnfold
<1> HIDE DEF Sum, c
<1>6. Sum(T \ {c}) \in Int /\ Sum(T) \in Int /\ \A a \in T : f[a] \in Int
  BY <1>3, <1>5
<1>7. ASSUME NEW a \in T PROVE Sum(T) = f[a] + Sum(T \ {a})
  <2>1. CASE a = c
    BY <1>5, <2>1
  <2>2. CASE a # c
    <3>1. Good(T \ {c}) /\ Good(T \ {a})
      BY <1>3, <1>5
    <3>2. (T \ {c}) \ {a} = (T \ {a}) \ {c} /\ a \in T \ {c} /\ c \in T \ {a}
      BY <1>5, <2>2
    <3>3. Sum(T \ {c}) = f[a] + Sum((T \ {a}) \ {c}) /\ Sum(T \ {a}) = f[c] + Sum((T \ {a}) \ {c})
      BY <3>1, <3>2
    <3>4. Sum((T \ {a}) \ {c}) \in Int
      <4>1. (T \ {a}) \ {c} \in SUBSET T /\ (T \ {a}) \ {c} # T
        BY <1>5
      <4> QED BY <1>3, <4>1
    <3> QED BY <1>5, <1>6, <3>3, <3>4
  <2> QED BY <2>1, <2>2
<1> QED BY <1>2, <1>6, <1>7

(* The sum looks at the values in the set alone. *)
LEMMA SumAgree ==
  ASSUME NEW f, NEW g, NEW S, IsFiniteSet(S), \A x \in S : f[x] = g[x]
  PROVE  SumFunctionOnSet(f, S) = SumFunctionOnSet(g, S)
<1> DEFINE B == {T \in SUBSET S : SumFunctionOnSet(f, T) # SumFunctionOnSet(g, T)}
<1>1. SUFFICES ASSUME B # {} PROVE FALSE
  OBVIOUS
<1>2. PICK T \in B : IsFiniteSet(T) /\ \A U \in SUBSET T : U # T => U \notin B
  <2> HIDE DEF B
  <2>1. B \in SUBSET SUBSET S
    BY DEF B
  <2> QED BY <1>1, <2>1, MinimalSet
<1>3. T # {}
  BY <1>2, SumUnfold
<1>4. /\ First(T) \in T
      /\ SumFunctionOnSet(f, T) = f[First(T)] + SumFunctionOnSet(f, T \ {First(T)})
      /\ SumFunctionOnSet(g, T) = g[First(T)] + SumFunctionOnSet(g, T \ {First(T)})
  BY <1>2, <1>3, SumUnfold
<1>5. SumFunctionOnSet(f, T \ {First(T)}) = SumFunctionOnSet(g, T \ {First(T)})
  <2>1. T \ {First(T)} \in SUBSET T /\ T \ {First(T)} # T
    BY <1>4
  <2> QED BY <1>2, <2>1
<1> QED BY <1>2, <1>4, <1>5

(* The sum over a part and over the rest. *)
LEMMA SumSplit ==
  ASSUME NEW f, NEW S, IsFiniteSet(S), \A x \in S : f[x] \in Int, NEW P \in SUBSET S
  PROVE  SumFunctionOnSet(f, S) = SumFunctionOnSet(f, P) + SumFunctionOnSet(f, S \ P)
<1> DEFINE Sum(U) == SumFunctionOnSet(f, U)
           B == {T \in SUBSET P : Sum(S) # Sum(T) + Sum(S \ T)}
<1>1. SUFFICES ASSUME B # {} PROVE FALSE
  OBVIOUS
<1>0. IsFiniteSet(P) /\ \A U \in SUBSET S : IsFiniteSet(U) /\ Sum(U) \in Int
  BY FS_Subset, SumRemove
<1>2. PICK T \in B : \A U \in SUBSET T : U # T => U \notin B
  <2> HIDE DEF B
  <2>1. B \in SUBSET SUBSET P
    BY DEF B
  <2> QED BY <1>0, <1>1, <2>1, MinimalSet
<1>3. Sum({}) = 0 /\ S \ {} = S
  BY FS_EmptySet, SumUnfold
<1>4. T # {}
  <2>1. Sum(S) \in Int
    BY <1>0
  <2> HIDE DEF Sum
  <2>2. Sum(S) = Sum({}) + Sum(S \ {})
    BY <1>3, <2>1
  <2> QED BY <1>2, <2>2
<1>5. PICK a \in T : TRUE
  BY <1>4
<1>6. T \ {a} \in SUBSET T /\ T \ {a} # T /\ T \ {a} \in SUBSET P
  BY <1>2, <1>5
<1>7. Sum(S) = Sum(T \ {a}) + Sum(S \ (T \ {a}))
  BY <1>2, <1>6
<1>8. T \in SUBSET S /\ (S \ (T \ {a})) \ {a} = S \ T /\ a \in S \ (T \ {a}) /\ S \ (T \ {a}) \in SUBSET S
  BY <1>2, <1>5
<1>9. Sum(T) = f[a] + Sum(T \ {a})
  BY <1>0, <1>5, <1>8, SumRemove
<1>10. Sum(S \ (T \ {a})) = f[a] + Sum((S \ (T \ {a})) \ {a})
  <2>1. \A x \in S \ (T \ {a}) : f[x] \in Int
    OBVIOUS
  <2> QED BY <1>0, <1>8, <2>1, SumRemove
<1>11. Sum(T \ {a}) \in Int /\ Sum(S \ T) \in Int /\ f[a] \in Int
  BY <1>0, <1>5, <1>8
<1>12. Sum(S) = Sum(T) + Sum(S \ T)
  <2> HIDE DEF Sum
  <2>1. Sum(S \ (T \ {a})) = f[a] + Sum(S \ T)
    BY <1>8, <1>10
  <2> QED BY <1>7, <1>9, <1>11, <2>1
<1> QED BY <1>2, <1>12

(* A sum bounds another one whose terms are, one by one, at most its own. *)
LEMMA SumBound ==
  ASSUME NEW f, NEW S, IsFiniteSet(S), \A x \in S : f[x] \in Int,
         NEW b, \A x, y \in S : b[x] = b[y] => x = y,
         NEW g, \A x \in S : g[b[x]] \in Int /\ g[b[x]] <= f[x]
  PROVE  SumFunctionOnSet(g, {b[x] : x \in S}) <= SumFunctionOnSet(f, S)
<1> DEFINE Image(U) == {b[x] : x \in U}
           B == {T \in SUBSET S : ~(/\ IsFiniteSet(Image(T))
                                    /\ SumFunctionOnSet(g, Image(T)) <= SumFunctionOnSet(f, T))}
<1>1. SUFFICES ASSUME B # {} PROVE FALSE
  OBVIOUS
<1>2. PICK T \in B : IsFiniteSet(T) /\ \A U \in SUBSET T : U # T => U \notin B
  <2> HIDE DEF B
  <2>1. B \in SUBSET SUBSET S
    BY DEF B
  <2> QED BY <1>1, <2>1, MinimalSet
<1>3. T # {}
  <2>1. Image({}) = {} /\ IsFiniteSet({})
    BY FS_EmptySet
  <2>2. SumFunctionOnSet(g, {}) = 0 /\ SumFunctionOnSet(f, {}) = 0
    BY <2>1, SumUnfold
  <2>3. {} \notin B
    BY <2>1, <2>2
  <2> QED BY <1>2, <2>3
<1>4. PICK a \in T : TRUE
  BY <1>3
<1>5. T \ {a} \in SUBSET T /\ T \ {a} # T /\ T \ {a} \in SUBSET S /\ IsFiniteSet(T \ {a})
  BY <1>2, <1>4, FS_RemoveElement
<1>6. IsFiniteSet(Image(T \ {a})) /\ SumFunctionOnSet(g, Image(T \ {a})) <= SumFunctionOnSet(f, T \ {a})
  BY <1>2, <1>5
<1>7. Image(T) = Image(T \ {a}) \cup {b[a]} /\ Image(T) \ {b[a]} = Image(T \ {a})
  BY <1>2, <1>4
<1>8. IsFiniteSet(Image(T)) /\ b[a] \in Image(T) /\ \A y \in Image(T) : g[y] \in Int
  <2>1. IsFiniteSet(Image(T \ {a}) \cup {b[a]})
    BY <1>6, FS_AddElement
  <2>2. \A y \in Image(T) : g[y] \in Int
    BY <1>2
  <2>3. b[a] \in Image(T)
    BY <1>4
  <2> QED BY <1>7, <2>1, <2>2, <2>3
<1>9. SumFunctionOnSet(f, T) = f[a] + SumFunctionOnSet(f, T \ {a}) /\ SumFunctionOnSet(f, T \ {a}) \in Int
  BY <1>2, <1>4, <1>5, SumRemove
<1> HIDE DEF Image
<1>10. SumFunctionOnSet(g, Image(T)) = g[b[a]] + SumFunctionOnSet(g, Image(T \ {a}))
  <2> DEFINE I == Image(T)
  <2>1. IsFiniteSet(I) /\ b[a] \in I /\ \A y \in I : g[y] \in Int
    BY <1>8
  <2>2. I \ {b[a]} = Image(T \ {a})
    BY <1>7
  <2> HIDE DEF I
  <2>3. \A y \in I : SumFunctionOnSet(g, I) = g[y] + SumFunctionOnSet(g, I \ {y})
    BY <2>1, SumRemove
  <2>4. SumFunctionOnSet(g, I) = g[b[a]] + SumFunctionOnSet(g, I \ {b[a]})
    BY <2>1, <2>3
  <2> QED BY <2>2, <2>4 DEF I
<1>11. SumFunctionOnSet(g, Image(T \ {a})) \in Int
  <2>1. \A y \in Image(T \ {a}) : g[y] \in Int
    BY <1>7, <1>8
  <2> QED BY <1>6, <2>1, SumRemove
<1>12. f[a] \in Int /\ g[b[a]] \in Int /\ g[b[a]] <= f[a]
  BY <1>2, <1>4
<1>13. SumFunctionOnSet(g, Image(T)) <= SumFunctionOnSet(f, T)
  BY <1>6, <1>9, <1>10, <1>11, <1>12
<1> QED BY <1>2, <1>8, <1>13
-----------------------------------------------------------------------------
(* The inductive invariant *)

(* The end of a block. *)
End(b) == b.at + MetaSize + b.size

(* The list l is sound for a break b and the requests w of the program. As *)
(* long as no block is empty, no two have the same address.                *)
Sound(l, b, w) ==
  /\ l \in Seq(Block) /\ b \in Nat
  /\ DOMAIN w \subseteq Nat /\ \A p \in DOMAIN w : w[p] \in Nat
  /\ \A i \in DOMAIN l : l[i].size > 0
  /\ \A i, j \in DOMAIN l : i < j => End(l[i]) <= l[j].at
  /\ \A i \in DOMAIN l : End(l[i]) <= b
  /\ \A i \in DOMAIN l : l[i].is_free <=> l[i].at \notin DOMAIN w
  /\ \A p \in DOMAIN w : \E i \in DOMAIN l : l[i].at = p /\ w[p] <= l[i].size

(* The program's requests with w bytes behind q, and without q. *)
Plus(q, w) == [p \in Held \cup {q} |-> IF p = q THEN w ELSE want[p]]
Minus(f, q) == [p \in DOMAIN f \ {q} |-> f[p]]

IInv ==
  /\ Sound(list, brk, want)
  /\ want \in [Held -> Nat] /\ others \in Nat
  /\ intact = Held
-----------------------------------------------------------------------------
LEMMA ListFacts ==
  ASSUME NEW l \in Seq(Block)
  PROVE  /\ Len(l) \in Nat /\ DOMAIN l = 1..Len(l)
         /\ \A i \in DOMAIN l : /\ l[i] \in Block /\ l[i].at \in Nat /\ l[i].size \in Nat
                                /\ l[i].is_free \in BOOLEAN
<1>1. Len(l) \in Nat /\ DOMAIN l = 1..Len(l)
  BY LenProperties
<1>2. \A i \in DOMAIN l : l[i] \in Block
  BY <1>1, ElementOfSeq
<1> QED BY <1>1, <1>2 DEF Block

(* No two blocks have the same address. *)
LEMMA Addresses ==
  ASSUME NEW l, NEW b, NEW w, Sound(l, b, w),
         NEW i \in DOMAIN l, NEW j \in DOMAIN l, l[i].at = l[j].at
  PROVE  i = j
<1>1. /\ l \in Seq(Block) /\ l[i].size > 0 /\ l[j].size > 0
      /\ i < j => End(l[i]) <= l[j].at
      /\ j < i => End(l[j]) <= l[i].at
  BY DEF Sound
<1>2. i \in Int /\ j \in Int
  BY <1>1, ListFacts
<1> QED BY <1>1, <1>2, ListFacts, FreeListAssumption DEF End

(* An allocation: the program gets a block it does not hold, with room for *)
(* the request.                                                            *)
LEMMA SmallocSound ==
  ASSUME Sound(list, brk, want), NEW s \in Nat, s > 0, NEW r \in SmallocResults(s)
  PROVE  /\ r.p \in Nat /\ r.p \notin Held
         /\ Sound(r.list, r.brk, Plus(r.p, s))
<1>1. /\ list \in Seq(Block) /\ brk \in Nat
      /\ Held \subseteq Nat /\ \A p \in Held : want[p] \in Nat
      /\ \A i \in DOMAIN list : list[i].size > 0
      /\ \A i, j \in DOMAIN list : i < j => End(list[i]) <= list[j].at
      /\ \A i \in DOMAIN list : End(list[i]) <= brk
      /\ \A i \in DOMAIN list : list[i].is_free <=> list[i].at \notin Held
      /\ \A p \in Held : \E i \in DOMAIN list : list[i].at = p /\ want[p] <= list[i].size
  BY DEF Sound, Held
<1>2. /\ Len(list) \in Nat /\ DOMAIN list = 1..Len(list)
      /\ \A i \in DOMAIN list : /\ list[i] \in Block /\ list[i].at \in Nat /\ list[i].size \in Nat
                                /\ list[i].is_free \in BOOLEAN
  BY <1>1, ListFacts
<1>3. CASE Fits(s) # {}
  <2>1. PICK i \in DOMAIN list :
          /\ list[i].is_free /\ list[i].size >= s
          /\ r = [p |-> list[i].at, list |-> [list EXCEPT ![i].is_free = FALSE], brk |-> brk]
    BY <1>3 DEF SmallocResults, FindFree, Fits
  <2> DEFINE l == r.list
             w == Plus(r.p, s)
  <2>2. r.p = list[i].at /\ r.brk = brk /\ l = [list EXCEPT ![i] = [list[i] EXCEPT !.is_free = FALSE]]
    BY <1>2, <2>1
  <2>3. /\ l[i] \in Block /\ l[i].at = list[i].at /\ l[i].size = list[i].size /\ ~l[i].is_free
        /\ DOMAIN l = DOMAIN list
        /\ \A k \in DOMAIN list : k # i => l[k] = list[k]
    BY <1>2, <2>2 DEF Block
  <2>4. l \in Seq(Block)
    BY <1>1, <1>2, <2>2, <2>3, ExceptSeq
  <2>5. \A k \in DOMAIN list : l[k].at = list[k].at /\ l[k].size = list[k].size /\ End(l[k]) = End(list[k])
    BY <2>3 DEF End
  <2>6. r.p \in Nat /\ r.p \notin Held
    BY <1>1, <1>2, <2>1, <2>2
  <2>7. DOMAIN w = Held \cup {r.p} /\ w[r.p] = s /\ \A p \in Held : w[p] = want[p]
    BY <2>6 DEF Plus
  <2>8. \A k \in DOMAIN list : list[k].at = list[i].at => k = i
    BY Addresses
  <2> HIDE DEF l, w
  <2>9. \A k \in DOMAIN l : l[k].is_free <=> l[k].at \notin DOMAIN w
    BY <1>1, <2>2, <2>3, <2>5, <2>7, <2>8
  <2>10. \A p \in DOMAIN w : \E k \in DOMAIN l : l[k].at = p /\ w[p] <= l[k].size
    <3>1. w[r.p] <= l[i].size /\ l[i].at = r.p
      BY <1>2, <2>1, <2>2, <2>3, <2>7
    <3>2. \A p \in Held : \E k \in DOMAIN l : l[k].at = p /\ w[p] <= l[k].size
      BY <1>1, <2>3, <2>5, <2>7
    <3> QED BY <2>3, <2>7, <3>1, <3>2
  <2>11. Sound(l, brk, w)
    BY <1>1, <2>3, <2>4, <2>5, <2>6, <2>7, <2>9, <2>10 DEF Sound
  <2> QED BY <2>2, <2>6, <2>11 DEF l, w
<1>4. CASE Fits(s) = {}
  <2>1. r = [p |-> brk, list |-> Append(list, [at |-> brk, size |-> s, is_free |-> FALSE]),
             brk |-> brk + MetaSize + s]
    BY <1>4 DEF SmallocResults, AllocNewBlock
  <2> DEFINE l == r.list
             w == Plus(r.p, s)
             n == [at |-> brk, size |-> s, is_free |-> FALSE]
             m == Len(list) + 1
  <2>2. /\ r.p = brk /\ r.brk = brk + MetaSize + s /\ l = Append(list, n)
        /\ n \in Block /\ n.at = brk /\ n.size = s /\ n.is_free = FALSE
    BY <1>1, <2>1 DEF Block
  <2> HIDE DEF n
  <2>3. /\ l \in Seq(Block) /\ Len(l) = m /\ l[m] = n
        /\ \A k \in DOMAIN list : l[k] = list[k]
        /\ DOMAIN l = 1..m /\ m \in Nat /\ DOMAIN l = DOMAIN list \cup {m}
        /\ \A k \in DOMAIN list : k < m
    BY <1>1, <1>2, <2>2, AppendProperties
  <2>4. \A k \in DOMAIN list : list[k].at < brk
    BY <1>1, <1>2, FreeListAssumption DEF End
  <2>5. r.p \in Nat /\ r.p \notin Held
    BY <1>1, <1>2, <2>2, <2>4
  <2>6. DOMAIN w = Held \cup {r.p} /\ w[r.p] = s /\ \A p \in Held : w[p] = want[p]
    BY <2>5 DEF Plus
  <2> HIDE DEF l, w, m
  <2>7. End(l[m]) = brk + MetaSize + s /\ l[m].at = brk /\ brk <= r.brk /\ r.brk \in Nat
    BY <1>1, <2>2, <2>3, FreeListAssumption DEF End
  <2>8. \A i, j \in DOMAIN l : i < j => End(l[i]) <= l[j].at
    <3> SUFFICES ASSUME NEW i \in DOMAIN l, NEW j \in DOMAIN l, i < j
                 PROVE  End(l[i]) <= l[j].at
      OBVIOUS
    <3>1. i \in DOMAIN list
      BY <1>2, <2>3
    <3>2. CASE j = m
      BY <1>1, <2>3, <2>7, <3>1, <3>2
    <3>3. CASE j \in DOMAIN list
      BY <1>1, <2>3, <3>1, <3>3
    <3> QED BY <2>3, <3>2, <3>3
  <2>9. \A i \in DOMAIN l : End(l[i]) <= r.brk
    <3>1. \A i \in DOMAIN list : End(list[i]) \in Nat
      BY <1>2, FreeListAssumption DEF End
    <3>2. \A i \in DOMAIN list : End(list[i]) <= r.brk
      BY <1>1, <2>7, <3>1
    <3>3. End(l[m]) <= r.brk
      BY <1>1, <2>2, <2>7, FreeListAssumption
    <3> QED BY <2>3, <3>2, <3>3
  <2>10. \A k \in DOMAIN l : l[k].is_free <=> l[k].at \notin DOMAIN w
    <3>1. \A k \in DOMAIN list : l[k].at # r.p
      BY <1>1, <1>2, <2>2, <2>3, <2>4
    <3> QED BY <1>1, <2>2, <2>3, <2>6, <2>7, <3>1
  <2>11. \A p \in DOMAIN w : \E k \in DOMAIN l : l[k].at = p /\ w[p] <= l[k].size
    <3>1. w[r.p] <= l[m].size /\ l[m].at = r.p
      BY <2>2, <2>3, <2>6
    <3>2. \A p \in Held : \E k \in DOMAIN l : l[k].at = p /\ w[p] <= l[k].size
      BY <1>1, <2>3, <2>6
    <3> QED BY <2>3, <2>6, <3>1, <3>2
  <2>12. \A k \in DOMAIN l : l[k].size > 0
    BY <1>1, <2>2, <2>3
  <2>13. Sound(l, r.brk, w)
    BY <1>1, <2>3, <2>5, <2>6, <2>7, <2>8, <2>9, <2>10, <2>11, <2>12 DEF Sound
  <2> QED BY <2>5, <2>13 DEF l, w
<1> QED BY <1>3, <1>4

(* sfree of a block the program holds. *)
LEMMA FreedSound ==
  ASSUME NEW l, NEW b, NEW w, Sound(l, b, w), NEW p \in DOMAIN w
  PROVE  Sound(Freed(l, p), b, Minus(w, p))
<1> DEFINE f == Freed(l, p)
           v == Minus(w, p)
<1>1. /\ l \in Seq(Block) /\ b \in Nat
      /\ DOMAIN w \subseteq Nat /\ \A q \in DOMAIN w : w[q] \in Nat
      /\ \A i \in DOMAIN l : l[i].size > 0
      /\ \A i, j \in DOMAIN l : i < j => End(l[i]) <= l[j].at
      /\ \A i \in DOMAIN l : End(l[i]) <= b
      /\ \A i \in DOMAIN l : l[i].is_free <=> l[i].at \notin DOMAIN w
      /\ \A q \in DOMAIN w : \E i \in DOMAIN l : l[i].at = q /\ w[q] <= l[i].size
  BY DEF Sound
<1>2. Len(l) \in Nat /\ DOMAIN l = 1..Len(l) /\ \A i \in DOMAIN l : l[i] \in Block
  BY <1>1, ListFacts
<1>3. DOMAIN f = DOMAIN l /\ \A i \in DOMAIN l :
        f[i] = IF l[i].at = p THEN [l[i] EXCEPT !.is_free = TRUE] ELSE l[i]
  BY DEF Freed
<1>4. \A i \in DOMAIN l : /\ f[i] \in Block /\ f[i].at = l[i].at /\ f[i].size = l[i].size
                          /\ f[i].is_free <=> l[i].is_free \/ l[i].at = p
  BY <1>2, <1>3 DEF Block
<1>5. f \in Seq(Block)
  <2>1. f = [i \in 1..Len(l) |-> f[i]]
    BY <1>2 DEF Freed
  <2> HIDE DEF f
  <2> QED BY <1>2, <1>4, <2>1, IsASeq
<1>6. DOMAIN v = DOMAIN w \ {p} /\ \A q \in DOMAIN v : v[q] = w[q]
  BY DEF Minus
<1> HIDE DEF f, v
<1>7. \A i \in DOMAIN l : End(f[i]) = End(l[i])
  BY <1>4 DEF End
<1>8. \A i \in DOMAIN f : f[i].is_free <=> f[i].at \notin DOMAIN v
  BY <1>1, <1>3, <1>4, <1>6
<1>9. \A q \in DOMAIN v : \E i \in DOMAIN f : f[i].at = q /\ v[q] <= f[i].size
  BY <1>1, <1>3, <1>4, <1>6
<1>10. Sound(f, b, v)
  BY <1>1, <1>3, <1>4, <1>5, <1>6, <1>7, <1>8, <1>9 DEF Sound
<1> QED BY <1>10 DEF f, v
-----------------------------------------------------------------------------
(* The steps *)

(* The step changes the list to l, the break to b and the requests to w. *)
LEMMA StepTo ==
  ASSUME IInv, Sound(list', brk', want'), want' = [p \in DOMAIN want' |-> want'[p]],
         others' \in Nat, intact' = Held'
  PROVE  IInv'
<1>1. \A p \in DOMAIN want' : want'[p] \in Nat
  BY DEF Sound
<1>2. want' \in [DOMAIN want' -> Nat]
  BY <1>1
<1> QED BY <1>2 DEF IInv, Held

LEMMA GetStep ==
  ASSUME IInv, NEW s \in Nat, s > 0, NEW r \in SmallocResults(s),
         list' = r.list, brk' = r.brk, Get(r.p, s), UNCHANGED others
  PROVE  IInv' /\ r.p \notin Held /\ want' = Plus(r.p, s) /\ r.p \in Nat
<1>1. Sound(list, brk, want) /\ others \in Nat /\ intact = Held
  BY DEF IInv
<1>2. r.p \in Nat /\ r.p \notin Held /\ Sound(r.list, r.brk, Plus(r.p, s))
  BY <1>1, SmallocSound
<1>3. want' = Plus(r.p, s) /\ intact' = intact \cup {r.p}
  BY DEF Get, Plus
<1>4. DOMAIN want' = Held \cup {r.p} /\ want' = [p \in DOMAIN want' |-> want'[p]]
  BY <1>3 DEF Plus
<1>5. intact' = Held'
  BY <1>1, <1>3, <1>4 DEF Held
<1> QED BY <1>1, <1>2, <1>3, <1>4, <1>5, StepTo

(* The product that scalloc forms does not wrap. *)
LEMMA Product ==
  ASSUME NEW n \in Nums, NEW s \in Sizes
  PROVE  (n * s) % SizeT = n * s /\ n * s \in Nat
<1>1. n \in Nat /\ s \in Nat /\ SizeT \in Nat /\ n * s < SizeT
  BY FreeListAssumption, NoWrapAssumption
<1>2. n * s \in Nat
  BY <1>1
<1>3. \A a, b \in Nat : a < b => a % b = a
  OBVIOUS
<1> QED BY <1>1, <1>2, <1>3

LEMMA SmallocStep ==
  ASSUME IInv, NEW s \in Sizes, Smalloc(s)
  PROVE  /\ IInv'
         /\ \E q \in Nat \ Held : want' = Plus(q, s) /\ intact' = intact \cup {q}
<1>1. PICK r \in SmallocResults(s) : list' = r.list /\ brk' = r.brk /\ Get(r.p, s)
  BY DEF Smalloc
<1>2. s \in Nat /\ s > 0 /\ UNCHANGED others
  BY FreeListAssumption DEF Smalloc, Valid
<1> QED BY <1>1, <1>2, GetStep DEF Get

LEMMA ScallocStep ==
  ASSUME IInv, NEW n \in Nums, NEW s \in Sizes, Scalloc(n, s)
  PROVE  /\ IInv'
         /\ \E q \in Nat \ Held : want' = Plus(q, n * s) /\ intact' = intact \cup {q}
<1>1. (n * s) % SizeT = n * s /\ n * s \in Nat
  BY Product
<1>2. PICK r \in SmallocResults(n * s) : list' = r.list /\ brk' = r.brk /\ Get(r.p, n * s)
  BY <1>1 DEF Scalloc
<1>3. n * s > 0 /\ UNCHANGED others
  BY <1>1 DEF Scalloc, Valid
<1> QED BY <1>1, <1>2, <1>3, GetStep DEF Get

LEMMA SfreeStep ==
  ASSUME IInv, NEW p \in Held, Sfree(p)
  PROVE  IInv' /\ want' = Minus(want, p) /\ intact' = intact \ {p}
<1>1. /\ list' = Freed(list, p) /\ want' = Minus(want, p) /\ intact' = intact \ {p}
      /\ UNCHANGED <<brk, others>>
  BY DEF Sfree, Minus, Held
<1>2. Sound(list', brk', want')
  BY <1>1, FreedSound DEF IInv, Held
<1>3. DOMAIN want' = Held \ {p} /\ want' = [q \in DOMAIN want' |-> want'[q]]
  BY <1>1 DEF Minus, Held
<1>4. intact' = Held' /\ others' \in Nat
  BY <1>1, <1>3 DEF IInv, Held
<1> QED BY <1>1, <1>2, <1>3, <1>4, StepTo

LEMMA InPlaceStep ==
  ASSUME IInv, NEW i \in DOMAIN list, NEW s \in Sizes, SreallocInPlace(i, s)
  PROVE  /\ IInv' /\ list[i].at \in Held /\ want' = [want EXCEPT ![list[i].at] = s]
         /\ intact' = intact
<1> DEFINE p == list[i].at
<1>1. /\ p \in Held /\ s \in Nat /\ s > 0 /\ list[i].size >= s
      /\ want' = [want EXCEPT ![p] = s] /\ UNCHANGED <<list, brk, others, intact>>
  BY FreeListAssumption DEF SreallocInPlace, Valid
<1>2. /\ list \in Seq(Block) /\ brk \in Nat
      /\ Held \subseteq Nat /\ \A q \in Held : want[q] \in Nat
      /\ \A k \in DOMAIN list : list[k].size > 0
      /\ \A k, j \in DOMAIN list : k < j => End(list[k]) <= list[j].at
      /\ \A k \in DOMAIN list : End(list[k]) <= brk
      /\ \A k \in DOMAIN list : list[k].is_free <=> list[k].at \notin Held
      /\ \A q \in Held : \E k \in DOMAIN list : list[k].at = q /\ want[q] <= list[k].size
      /\ want \in [Held -> Nat] /\ others \in Nat /\ intact = Held
  BY DEF IInv, Sound, Held
<1>3. /\ DOMAIN want' = Held /\ want'[p] = s /\ \A q \in Held : q # p => want'[q] = want[q]
      /\ want' = [q \in DOMAIN want' |-> want'[q]]
  BY <1>1, <1>2
<1>4. s <= list[i].size
  BY <1>1, <1>2, ListFacts
<1>5. \A q \in DOMAIN want' : \E k \in DOMAIN list : list[k].at = q /\ want'[q] <= list[k].size
  BY <1>2, <1>3, <1>4
<1>6. Sound(list', brk', want')
  BY <1>1, <1>2, <1>3, <1>5 DEF Sound
<1>7. intact' = Held' /\ others' \in Nat
  BY <1>1, <1>2, <1>3 DEF Held
<1> QED BY <1>1, <1>3, <1>6, <1>7, StepTo

LEMMA MoveStep ==
  ASSUME IInv, NEW i \in DOMAIN list, NEW s \in Sizes, SreallocMove(i, s)
  PROVE  /\ IInv' /\ list[i].at \in Held
         /\ \E q \in Nat \ Held :
              /\ want' = [x \in (Held \ {list[i].at}) \cup {q} |-> IF x = q THEN s ELSE want[x]]
              /\ intact' = (intact \ {list[i].at}) \cup {q}
<1> DEFINE p == list[i].at
<1>1. PICK r \in SmallocResults(s) :
        /\ list' = Freed(r.list, p) /\ brk' = r.brk
        /\ want' = [q \in (Held \ {p}) \cup {r.p} |-> IF q = r.p THEN s ELSE want[q]]
        /\ intact' = (intact \ {p}) \cup (IF p \in intact /\ want[p] <= list[i].size THEN {r.p} ELSE {})
  BY DEF SreallocMove
<1>2. p \in Held /\ s \in Nat /\ s > 0 /\ UNCHANGED others
  BY FreeListAssumption DEF SreallocMove, Valid
<1>3. Sound(list, brk, want) /\ others \in Nat /\ intact = Held
  BY DEF IInv
<1>4. r.p \in Nat /\ r.p \notin Held /\ Sound(r.list, r.brk, Plus(r.p, s))
  BY <1>2, <1>3, SmallocSound
<1>5. want[p] <= list[i].size
  <2>1. PICK k \in DOMAIN list : list[k].at = p /\ want[p] <= list[k].size
    BY <1>2, <1>3 DEF Sound, Held
  <2>2. k = i
    BY <1>3, <2>1, Addresses
  <2> QED BY <2>1, <2>2
<1>6. intact' = (intact \ {p}) \cup {r.p}
  BY <1>1, <1>2, <1>3, <1>5
<1> HIDE DEF p
<1>7. /\ want' = Minus(Plus(r.p, s), p) /\ p \in DOMAIN Plus(r.p, s)
      /\ DOMAIN want' = (Held \ {p}) \cup {r.p}
      /\ want' = [q \in DOMAIN want' |-> want'[q]]
  <2>1. DOMAIN Plus(r.p, s) = Held \cup {r.p}
    BY DEF Plus
  <2>2. (Held \cup {r.p}) \ {p} = (Held \ {p}) \cup {r.p}
    BY <1>2, <1>4
  <2>3. Minus(Plus(r.p, s), p) = [q \in (Held \ {p}) \cup {r.p} |-> Plus(r.p, s)[q]]
    BY <2>1, <2>2 DEF Minus
  <2>4. \A q \in (Held \ {p}) \cup {r.p} : Plus(r.p, s)[q] = IF q = r.p THEN s ELSE want[q]
    BY DEF Plus
  <2> QED BY <1>1, <1>2, <2>1, <2>3, <2>4
<1>8. Sound(list', brk', want')
  BY <1>1, <1>4, <1>7, FreedSound
<1>9. intact' = Held'
  BY <1>3, <1>6, <1>7 DEF Held
<1>10. IInv'
  BY <1>2, <1>3, <1>7, <1>8, <1>9, StepTo
<1> QED BY <1>1, <1>2, <1>4, <1>6, <1>10 DEF p

LEMMA OtherSbrkStep == ASSUME IInv, NEW n \in Steps, OtherSbrk(n) PROVE IInv'
<1>1. n \in Nat /\ brk' = brk + n /\ others' = others + n /\ UNCHANGED <<list, want, intact>>
  BY FreeListAssumption DEF OtherSbrk
<1>2. Sound(list, brk, want) /\ others \in Nat /\ want \in [Held -> Nat] /\ intact = Held
  BY DEF IInv
<1>3. list \in Seq(Block) /\ brk \in Nat /\ \A i \in DOMAIN list : End(list[i]) <= brk
  BY <1>2 DEF Sound
<1>4. \A i \in DOMAIN list : End(list[i]) \in Nat
  BY <1>3, ListFacts, FreeListAssumption DEF End
<1>5. brk + n \in Nat /\ \A i \in DOMAIN list : End(list[i]) <= brk + n
  BY <1>1, <1>3, <1>4
<1>6. Sound(list, brk + n, want)
  BY <1>2, <1>5 DEF Sound
<1> QED BY <1>1, <1>2, <1>6 DEF IInv, Held

LEMMA Step == ASSUME IInv, [Next]_vars PROVE IInv'
<1>1. CASE UNCHANGED vars
  BY <1>1 DEF vars, IInv, Held
<1>2. ASSUME NEW s \in Sizes, SbrkFails(s) PROVE IInv'
  BY <1>1, <1>2 DEF SbrkFails
<1>3. ASSUME NEW i \in DOMAIN list, SfreeAgain(i) PROVE IInv'
  BY <1>1, <1>3 DEF SfreeAgain
<1> QED BY <1>1, <1>2, <1>3, SmallocStep, ScallocStep, SfreeStep, InPlaceStep, MoveStep,
           OtherSbrkStep DEF Next

LEMMA InitIInv == ASSUME Init PROVE IInv
<1>1. <<>> \in Seq(Block) /\ DOMAIN <<>> = {}
  BY EmptySeq
<1>2. want = [p \in {} |-> 0] /\ DOMAIN want = {}
  BY DEF Init
<1> QED BY <1>1, <1>2 DEF Init, IInv, Sound, Held

(* The inductive invariant holds throughout. *)
THEOREM InductiveInvariant == Spec => []IInv
BY InitIInv, Step, PTL DEF Spec

(* Every variable keeps its type. *)
THEOREM TypeCorrect == Spec => []TypeOK
<1>1. IInv => TypeOK
  BY DEF IInv, Sound, TypeOK, Held
<1> QED BY <1>1, InductiveInvariant, PTL

(* The list is sorted, its blocks are apart and below the break, and they  *)
(* are the free ones and those the program holds, with room for what it    *)
(* asked for.                                                              *)
THEOREM ListStaysSound == Spec => []ListSound
<1>1. IInv => ListSound
  BY DEF IInv, Sound, ListSound, Held, End, EndOf
<1> QED BY <1>1, InductiveInvariant, PTL
-----------------------------------------------------------------------------
(* The refinement *)

Region == [p \in Held |-> BytesBehind(p)]

(* No byte belongs to two pointers. *)
Apart ==
  /\ \A p \in Held : p \in Nat /\ Region[p] \subseteq Nat
  /\ \A p, q \in Held : p # q => Region[p] \cap Region[q] = {}

LEMMA RegionsApart == IInv => Apart
<1> SUFFICES ASSUME IInv PROVE Apart
  OBVIOUS
<1>0. /\ Sound(list, brk, want) /\ Held = DOMAIN want /\ list \in Seq(Block) /\ Held \subseteq Nat
      /\ \A p \in Held : want[p] \in Nat
  BY DEF IInv, Sound, Held
<1>1. \A p \in Held : Region[p] = (p + MetaSize)..(p + MetaSize + want[p] - 1)
  BY DEF Region, BytesBehind
<1>2. \A p \in Held : p \in Nat /\ Region[p] \subseteq Nat
  BY <1>0, <1>1, FreeListAssumption
<1>3. ASSUME NEW p \in Held, NEW q \in Held, p # q PROVE Region[p] \cap Region[q] = {}
  <2>1. PICK i \in DOMAIN list : list[i].at = p /\ want[p] <= list[i].size
    BY <1>0 DEF Sound
  <2>2. PICK j \in DOMAIN list : list[j].at = q /\ want[q] <= list[j].size
    BY <1>0 DEF Sound
  <2>3. i \in Nat /\ j \in Nat /\ i # j /\ list[i].size \in Nat /\ list[j].size \in Nat
    BY <1>0, <1>3, <2>1, <2>2, ListFacts
  <2>4. (i < j => End(list[i]) <= q) /\ (j < i => End(list[j]) <= p)
    BY <1>0, <2>1, <2>2 DEF Sound
  <2>5. End(list[i]) = p + MetaSize + list[i].size /\ End(list[j]) = q + MetaSize + list[j].size
    BY <2>1, <2>2 DEF End
  <2>6. p \in Nat /\ q \in Nat /\ want[p] \in Nat /\ want[q] \in Nat
    BY <1>0
  <2>7. p + MetaSize + want[p] <= q \/ q + MetaSize + want[q] <= p
    BY <2>1, <2>2, <2>3, <2>4, <2>5, <2>6, FreeListAssumption
  <2>8. ASSUME NEW x \in Region[p], x \in Region[q] PROVE FALSE
    <3>1. /\ x \in (p + MetaSize)..(p + MetaSize + want[p] - 1)
          /\ x \in (q + MetaSize)..(q + MetaSize + want[q] - 1)
      BY <1>1, <2>8
    <3> QED BY <2>6, <2>7, <3>1, FreeListAssumption
  <2> QED BY <2>8
<1> QED BY <1>2, <1>3 DEF Apart

(* A step to sound regions that allocates, frees or moves is a step of the *)
(* abstract allocator.                                                     *)
LEMMA AllocatorStep ==
  ASSUME IInv, IInv',
         \/ \E q \in Held' \ Held :
              /\ Held' = Held \cup {q} /\ intact' = intact \cup {q}
              /\ \A p \in Held : want'[p] = want[p]
         \/ \E p \in Held :
              /\ Held' = Held \ {p} /\ intact' = intact \ {p}
              /\ \A q \in Held' : want'[q] = want[q]
         \/ \E p \in Held, q \in Held' :
              /\ q = p \/ q \notin Held
              /\ Held' = (Held \ {p}) \cup {q} /\ intact' = (intact \ {p}) \cup {q}
              /\ \A x \in Held \ {p} : want'[x] = want[x]
  PROVE  Memory!Next
<1>1. [p \in Held |-> BytesBehind(p)] = Region
  BY DEF Region
<1>2. ([p \in Held |-> BytesBehind(p)])' = Region'
  BY DEF Region
<1>3. /\ \A p \in Held' : p \in Nat /\ Region'[p] \subseteq Nat
      /\ \A p, q \in Held' : p # q => Region'[p] \cap Region'[q] = {}
  <2>1. Apart'
    BY RegionsApart, PTL
  <2> QED BY <2>1 DEF Apart
<1>4. /\ Region = [p \in Held |-> Region[p]] /\ Region' = [p \in Held' |-> Region'[p]]
      /\ DOMAIN Region = Held /\ DOMAIN Region' = Held' /\ intact = Held
  BY DEF Region, IInv
<1>5. ASSUME NEW p \in Held, p \in Held', want'[p] = want[p] PROVE Region'[p] = Region[p]
  BY <1>5 DEF Region, BytesBehind
<1>6. /\ \A p \in DOMAIN Region' : p \in Nat /\ Region'[p] \subseteq Nat
      /\ Memory!Disjoint(Region')
  BY <1>3, <1>4 DEF Memory!Disjoint
<1>7. ASSUME NEW q \in Held' \ Held, Held' = Held \cup {q}, intact' = intact \cup {q},
             \A p \in Held : want'[p] = want[p]
      PROVE  Memory!Next
  <2>1. Region' = Memory!With(Region, q, Region'[q])
    BY <1>4, <1>5, <1>7 DEF Memory!With
  <2>2. Memory!Alloc(q, Region'[q])
    BY <1>1, <1>2, <1>4, <1>7, <2>1 DEF Memory!Alloc, Memory!InUse
  <2> QED BY <1>2, <1>4, <1>6, <1>7, <2>2 DEF Memory!Next
<1>8. ASSUME NEW p \in Held, Held' = Held \ {p}, intact' = intact \ {p},
             \A q \in Held' : want'[q] = want[q]
      PROVE  Memory!Next
  <2>1. Region' = Memory!Without(Region, {p})
    BY <1>4, <1>5, <1>8 DEF Memory!Without
  <2>2. Memory!Free(p) /\ p \in Memory!InUse
    BY <1>1, <1>2, <1>4, <1>8, <2>1 DEF Memory!Free, Memory!InUse
  <2> QED BY <1>2, <1>4, <1>6, <2>2 DEF Memory!Next
<1>9. ASSUME NEW p \in Held, NEW q \in Held', q = p \/ q \notin Held,
             Held' = (Held \ {p}) \cup {q}, intact' = (intact \ {p}) \cup {q},
             \A x \in Held \ {p} : want'[x] = want[x]
      PROVE  Memory!Next
  <2>1. Memory!Without(Region, {p}) = [x \in Held \ {p} |-> Region[x]]
    BY <1>4 DEF Memory!Without
  <2>2. Region' = Memory!With(Memory!Without(Region, {p}), q, Region'[q])
    BY <1>4, <1>5, <1>9, <2>1 DEF Memory!With
  <2>3. Memory!Realloc(p, q, Region'[q]) /\ p \in Memory!InUse
    BY <1>1, <1>2, <1>4, <1>9, <2>2 DEF Memory!Realloc, Memory!InUse
  <2> QED BY <1>2, <1>4, <1>6, <1>9, <2>3 DEF Memory!Next
<1> QED BY <1>7, <1>8, <1>9

(* The first-fit allocator implements what a program may expect of an      *)
(* allocator: no byte is handed out twice, and srealloc keeps what was     *)
(* stored.                                                                 *)
THEOREM FirstFitImplementsAllocator == Spec => ImplementsAllocator
<1>1. Init => Memory!Init
  <2>1. ASSUME Init PROVE DOMAIN want = {} /\ intact = {}
    BY <2>1 DEF Init
  <2> QED BY <2>1 DEF Init, Memory!Init, Held
<1>2. ASSUME IInv, IInv', [Next]_vars PROVE [Memory!Next]_(Memory!avars)
  <2>0. want \in [Held -> Nat] /\ intact = Held
    BY <1>2 DEF IInv
  <2>1. ASSUME NEW q \in Nat \ Held, NEW s, want' = Plus(q, s), intact' = intact \cup {q}
        PROVE  Memory!Next
    <3>1. Held' = Held \cup {q} /\ q \in Held' \ Held /\ \A p \in Held : want'[p] = want[p]
      BY <2>1 DEF Plus, Held
    <3> QED BY <1>2, <2>1, <3>1, AllocatorStep
  <2>2. ASSUME NEW p \in Held, Sfree(p) PROVE Memory!Next
    <3>1. want' = Minus(want, p) /\ intact' = intact \ {p}
      BY <1>2, <2>2, SfreeStep
    <3>2. Held' = Held \ {p} /\ \A q \in Held' : want'[q] = want[q]
      BY <3>1 DEF Minus, Held
    <3> QED BY <1>2, <3>1, <3>2, AllocatorStep
  <2>3. ASSUME NEW i \in DOMAIN list, NEW s \in Sizes, SreallocInPlace(i, s)
        PROVE  Memory!Next
    <3> DEFINE p == list[i].at
    <3>1. p \in Held /\ want' = [want EXCEPT ![p] = s] /\ intact' = intact
      BY <1>2, <2>3, InPlaceStep
    <3> HIDE DEF p
    <3>2. Held' = Held /\ \A x \in Held \ {p} : want'[x] = want[x]
      BY <2>0, <3>1 DEF Held
    <3>3. Held' = (Held \ {p}) \cup {p} /\ intact' = (intact \ {p}) \cup {p} /\ p \in Held'
      BY <2>0, <3>1, <3>2
    <3> QED BY <1>2, <3>1, <3>2, <3>3, AllocatorStep
  <2>4. ASSUME NEW i \in DOMAIN list, NEW s \in Sizes, SreallocMove(i, s)
        PROVE  Memory!Next
    <3> DEFINE p == list[i].at
    <3>1. p \in Held
      BY <1>2, <2>4, MoveStep
    <3>2. PICK q \in Nat \ Held :
            /\ want' = [x \in (Held \ {p}) \cup {q} |-> IF x = q THEN s ELSE want[x]]
            /\ intact' = (intact \ {p}) \cup {q}
      BY <1>2, <2>4, MoveStep
    <3> HIDE DEF p
    <3>3. Held' = (Held \ {p}) \cup {q} /\ \A x \in Held \ {p} : want'[x] = want[x]
      BY <3>2 DEF Held
    <3> QED BY <1>2, <3>1, <3>2, <3>3, AllocatorStep
  <2>5. ASSUME UNCHANGED <<want, intact>> PROVE UNCHANGED Memory!avars
    BY <2>5 DEF Memory!avars, BytesBehind, Held
  <2>6. ASSUME NEW s \in Sizes, Smalloc(s) PROVE Memory!Next
    BY <1>2, <2>1, <2>6, SmallocStep
  <2>7. ASSUME NEW n \in Nums, NEW s \in Sizes, Scalloc(n, s) PROVE Memory!Next
    BY <1>2, <2>1, <2>7, ScallocStep
  <2>8. CASE UNCHANGED vars
    BY <2>5, <2>8 DEF vars
  <2>9. ASSUME NEW s \in Sizes, SbrkFails(s) PROVE UNCHANGED vars
    BY <2>9 DEF SbrkFails
  <2>10. ASSUME NEW i \in DOMAIN list, SfreeAgain(i) PROVE UNCHANGED vars
    BY <2>10 DEF SfreeAgain
  <2>11. ASSUME NEW n \in Steps, OtherSbrk(n) PROVE UNCHANGED <<want, intact>>
    BY <2>11 DEF OtherSbrk
  <2> QED BY <1>2, <2>2, <2>3, <2>4, <2>5, <2>6, <2>7, <2>8, <2>9, <2>10, <2>11 DEF Next
<1> QED BY <1>1, <1>2, InductiveInvariant, PTL DEF Spec, ImplementsAllocator, Memory!Spec
-----------------------------------------------------------------------------
(* The statistics *)

SizesOf(l) == [i \in DOMAIN l |-> l[i].size]

(* The bytes of the blocks of l and of their metadata. *)
Total(l) == SumFunctionOnSet(SizesOf(l), DOMAIN l) + Len(l) * MetaSize

Account == Total(list) + others = brk

LEMMA SizeFacts ==
  ASSUME NEW l \in Seq(Block)
  PROVE  /\ Len(l) \in Nat /\ DOMAIN l = 1..Len(l) /\ IsFiniteSet(DOMAIN l)
         /\ Cardinality(DOMAIN l) = Len(l)
         /\ \A i \in DOMAIN l : SizesOf(l)[i] = l[i].size /\ l[i].size \in Nat
         /\ \A P \in SUBSET DOMAIN l : IsFiniteSet(P) /\ SumFunctionOnSet(SizesOf(l), P) \in Int
         /\ Total(l) \in Int
<1>1. Len(l) \in Nat /\ DOMAIN l = 1..Len(l) /\ \A i \in DOMAIN l : l[i].size \in Nat
  BY ListFacts
<1>2. IsFiniteSet(DOMAIN l) /\ Cardinality(DOMAIN l) = Len(l)
  <2>1. /\ IsFiniteSet(1..Len(l))
        /\ Cardinality(1..Len(l)) = IF 1 > Len(l) THEN 0 ELSE Len(l) - 1 + 1
    BY <1>1, FS_Interval
  <2> QED BY <1>1, <2>1
<1>3. \A i \in DOMAIN l : SizesOf(l)[i] = l[i].size
  BY DEF SizesOf
<1>4. ASSUME NEW P \in SUBSET DOMAIN l
      PROVE  IsFiniteSet(P) /\ SumFunctionOnSet(SizesOf(l), P) \in Int
  <2>1. IsFiniteSet(P)
    BY <1>2, FS_Subset
  <2>2. \A i \in P : SizesOf(l)[i] \in Int
    BY <1>1, <1>3
  <2> QED BY <2>1, <2>2, SumRemove
<1>5. Len(l) * MetaSize \in Int
  BY <1>1, FreeListAssumption
<1>6. Total(l) \in Int
  BY <1>4, <1>5 DEF Total
<1> QED BY <1>1, <1>2, <1>3, <1>4, <1>6

(* Marking blocks as free or as used does not change the total. *)
LEMMA SameSizes ==
  ASSUME NEW k \in Seq(Block), NEW l \in Seq(Block), DOMAIN k = DOMAIN l,
         \A i \in DOMAIN l : k[i].size = l[i].size
  PROVE  Total(k) = Total(l)
<1>1. SizesOf(k) = SizesOf(l)
  BY DEF SizesOf
<1>2. Len(k) = Len(l)
  BY ListFacts
<1> QED BY <1>1, <1>2 DEF Total

LEMMA FreedTotal ==
  ASSUME NEW l \in Seq(Block), NEW p
  PROVE  Total(Freed(l, p)) = Total(l)
<1> DEFINE f == Freed(l, p)
<1>1. Len(l) \in Nat /\ DOMAIN l = 1..Len(l) /\ \A i \in DOMAIN l : l[i] \in Block
  BY ListFacts
<1>2. /\ DOMAIN f = DOMAIN l
      /\ \A i \in DOMAIN l : f[i] = IF l[i].at = p THEN [l[i] EXCEPT !.is_free = TRUE] ELSE l[i]
  BY DEF Freed
<1>3. \A i \in DOMAIN l : f[i] \in Block /\ f[i].size = l[i].size
  BY <1>1, <1>2 DEF Block
<1>4. f \in Seq(Block)
  <2>1. f = [i \in 1..Len(l) |-> f[i]]
    BY <1>1 DEF Freed
  <2> HIDE DEF f
  <2> QED BY <1>1, <1>3, <2>1, IsASeq
<1> HIDE DEF f
<1>5. Total(f) = Total(l)
  BY <1>2, <1>3, <1>4, SameSizes
<1> QED BY <1>5 DEF f

(* What smalloc takes from sbrk is what it adds to the list. *)
LEMMA SmallocTotal ==
  ASSUME list \in Seq(Block), brk \in Nat, NEW s \in Nat, NEW r \in SmallocResults(s)
  PROVE  /\ r.list \in Seq(Block) /\ r.brk \in Nat
         /\ Total(r.list) - Total(list) = r.brk - brk
<1>1. /\ Len(list) \in Nat /\ DOMAIN list = 1..Len(list)
      /\ \A i \in DOMAIN list : list[i] \in Block
  BY ListFacts
<1>2. Total(list) \in Int
  BY SizeFacts
<1>3. CASE Fits(s) # {}
  <2>1. PICK i \in DOMAIN list :
          r = [p |-> list[i].at, list |-> [list EXCEPT ![i].is_free = FALSE], brk |-> brk]
    BY <1>3 DEF SmallocResults, FindFree, Fits
  <2> DEFINE l == r.list
  <2>2. r.brk = brk /\ l = [list EXCEPT ![i] = [list[i] EXCEPT !.is_free = FALSE]]
    BY <1>1, <2>1
  <2>3. /\ l[i] \in Block /\ l[i].size = list[i].size /\ DOMAIN l = DOMAIN list
        /\ \A k \in DOMAIN list : k # i => l[k] = list[k]
    BY <1>1, <2>2 DEF Block
  <2>4. l \in Seq(Block)
    BY <1>1, <2>2, <2>3, ExceptSeq
  <2> HIDE DEF l
  <2>5. Total(l) = Total(list)
    BY <2>3, <2>4, SameSizes
  <2>6. Total(l) - Total(list) = r.brk - brk
    BY <1>2, <2>2, <2>5
  <2> QED BY <2>2, <2>4, <2>6 DEF l
<1>4. CASE Fits(s) = {}
  <2> DEFINE n == [at |-> brk, size |-> s, is_free |-> FALSE]
             m == Len(list) + 1
             l == r.list
  <2>1. l = Append(list, n) /\ r.brk = brk + MetaSize + s /\ n \in Block /\ n.size = s
    <3>1. r = [p |-> brk, list |-> Append(list, n), brk |-> brk + MetaSize + s]
      BY <1>4 DEF SmallocResults, AllocNewBlock
    <3>2. n \in Block /\ n.size = s
      BY DEF Block
    <3> HIDE DEF n
    <3> QED BY <3>1, <3>2
  <2> HIDE DEF n, l
  <2>2. /\ l \in Seq(Block) /\ Len(l) = m /\ l[m] = n
        /\ \A k \in DOMAIN list : l[k] = list[k]
        /\ DOMAIN l = 1..m /\ m \in Nat /\ DOMAIN l \ {m} = DOMAIN list /\ m \in DOMAIN l
    BY <1>1, <2>1, AppendProperties
  <2>3. SumFunctionOnSet(SizesOf(l), DOMAIN l) = s + SumFunctionOnSet(SizesOf(l), DOMAIN list)
    <3>1. IsFiniteSet(DOMAIN l) /\ \A i \in DOMAIN l : SizesOf(l)[i] \in Int
      BY <2>2, SizeFacts
    <3>2. SizesOf(l)[m] = s
      BY <2>1, <2>2 DEF SizesOf
    <3> HIDE DEF m
    <3>3. \A a \in DOMAIN l : SumFunctionOnSet(SizesOf(l), DOMAIN l)
                                = SizesOf(l)[a] + SumFunctionOnSet(SizesOf(l), DOMAIN l \ {a})
      BY <3>1, SumRemove
    <3> QED BY <2>2, <3>2, <3>3
  <2>4. SumFunctionOnSet(SizesOf(l), DOMAIN list) = SumFunctionOnSet(SizesOf(list), DOMAIN list)
    <3>1. IsFiniteSet(DOMAIN list) /\ \A i \in DOMAIN list : SizesOf(l)[i] = SizesOf(list)[i]
      BY <2>2, SizeFacts DEF SizesOf
    <3> QED BY <3>1, SumAgree
  <2>5. (Len(list) + 1) * MetaSize = Len(list) * MetaSize + MetaSize /\ Len(list) * MetaSize \in Int
    BY <1>1, FreeListAssumption
  <2>6. SumFunctionOnSet(SizesOf(list), DOMAIN list) \in Int
    BY SizeFacts
  <2>7. Total(l) = Total(list) + MetaSize + s
    BY <2>2, <2>3, <2>4, <2>5, <2>6, FreeListAssumption DEF Total
  <2>8. r.brk \in Nat /\ Total(l) - Total(list) = r.brk - brk
    BY <1>2, <2>1, <2>7, FreeListAssumption
  <2> QED BY <2>2, <2>8 DEF l
<1> QED BY <1>3, <1>4

LEMMA AccountStep == ASSUME IInv, Account, [Next]_vars PROVE Account'
<1>0. list \in Seq(Block) /\ brk \in Nat /\ others \in Nat /\ Total(list) \in Int
  BY SizeFacts DEF IInv, Sound
<1>1. ASSUME NEW s \in Nat, NEW r \in SmallocResults(s), NEW p,
             list' = r.list \/ list' = Freed(r.list, p), brk' = r.brk, UNCHANGED others
      PROVE  Account'
  <2>1. r.list \in Seq(Block) /\ r.brk \in Nat /\ Total(r.list) - Total(list) = r.brk - brk
    BY <1>0, SmallocTotal
  <2>2. Total(list') = Total(r.list) /\ Total(r.list) \in Int
    BY <1>1, <2>1, FreedTotal, SizeFacts
  <2>3. Total(list') + others = brk'
    BY <1>0, <1>1, <2>1, <2>2 DEF Account
  <2> QED BY <1>1, <2>3 DEF Account, Total, SizesOf
<1>2. ASSUME NEW s \in Sizes, Smalloc(s) PROVE Account'
  <2>1. s \in Nat
    BY FreeListAssumption
  <2> QED BY <1>1, <1>2, <2>1 DEF Smalloc
<1>3. ASSUME NEW n \in Nums, NEW s \in Sizes, Scalloc(n, s) PROVE Account'
  <2>1. (n * s) % SizeT = n * s /\ n * s \in Nat
    BY Product
  <2>2. PICK r \in SmallocResults(n * s) : list' = r.list /\ brk' = r.brk
    BY <1>3, <2>1 DEF Scalloc
  <2>3. UNCHANGED others
    BY <1>3 DEF Scalloc
  <2> QED BY <1>1, <2>1, <2>2, <2>3
<1>4. ASSUME NEW p \in Held, Sfree(p) PROVE Account'
  <2>1. list' = Freed(list, p) /\ UNCHANGED <<brk, others>>
    BY <1>4 DEF Sfree
  <2>2. Total(list') = Total(list)
    BY <1>0, <2>1, FreedTotal
  <2> QED BY <2>1, <2>2 DEF Account, Total, SizesOf
<1>5. ASSUME NEW i \in DOMAIN list, NEW s \in Sizes, SreallocMove(i, s) PROVE Account'
  <2>1. s \in Nat
    BY FreeListAssumption
  <2>2. PICK r \in SmallocResults(s) : list' = Freed(r.list, list[i].at) /\ brk' = r.brk
    BY <1>5 DEF SreallocMove
  <2>3. UNCHANGED others
    BY <1>5 DEF SreallocMove
  <2> QED BY <1>1, <2>1, <2>2, <2>3
<1>6. ASSUME NEW n \in Steps, OtherSbrk(n) PROVE Account'
  <2>1. n \in Nat /\ list' = list /\ brk' = brk + n /\ others' = others + n
    BY <1>6, FreeListAssumption DEF OtherSbrk
  <2>2. Total(list) + (others + n) = brk + n
    BY <1>0, <2>1 DEF Account
  <2> QED BY <2>1, <2>2 DEF Account, Total, SizesOf
<1>7. ASSUME UNCHANGED <<list, brk, others>> PROVE Account'
  BY <1>7 DEF Account, Total, SizesOf
<1>8. ASSUME NEW i \in DOMAIN list, NEW s \in Sizes, SreallocInPlace(i, s) PROVE Account'
  BY <1>7, <1>8 DEF SreallocInPlace
<1>9. ASSUME NEW s \in Sizes, SbrkFails(s) PROVE Account'
  BY <1>7, <1>9 DEF SbrkFails, vars
<1>10. ASSUME NEW i \in DOMAIN list, SfreeAgain(i) PROVE Account'
  BY <1>7, <1>10 DEF SfreeAgain, vars
<1>11. CASE UNCHANGED vars
  BY <1>7, <1>11 DEF vars
<1> QED BY <1>2, <1>3, <1>4, <1>5, <1>6, <1>8, <1>9, <1>10, <1>11 DEF Next

(* The used blocks are those held, one for each. *)
LEMMA StatsFromAccount == IInv /\ Account => StatsExact
<1> SUFFICES ASSUME IInv, Account PROVE StatsExact
  OBVIOUS
<1> DEFINE D == DOMAIN list
           U == D \ FreeBlocks
           f == SizesOf(list)
           b == [i \in U |-> list[i].at]
<1>0. /\ Sound(list, brk, want) /\ list \in Seq(Block) /\ brk \in Nat /\ others \in Nat
      /\ Held = DOMAIN want /\ \A p \in Held : want[p] \in Nat
  BY DEF IInv, Sound, Held
<1>1. /\ Len(list) \in Nat /\ IsFiniteSet(D) /\ Cardinality(D) = Len(list)
      /\ \A i \in D : f[i] = list[i].size /\ list[i].size \in Nat
      /\ \A P \in SUBSET D : IsFiniteSet(P) /\ SumFunctionOnSet(f, P) \in Int
  BY <1>0, SizeFacts
<1>2. FreeBlocks \in SUBSET D /\ U \in SUBSET D /\ D \ FreeBlocks = U /\ D \cap FreeBlocks = FreeBlocks
  BY DEF FreeBlocks
<1>3. \A i \in U : list[i].at \in Held
  BY <1>0 DEF Sound, FreeBlocks
<1>4. \A x, y \in U : b[x] = b[y] => x = y
  BY <1>0, Addresses
<1>5. Held = {b[i] : i \in U}
  <2>1. ASSUME NEW p \in Held PROVE \E i \in U : b[i] = p
    <3>1. PICK i \in D : list[i].at = p
      BY <1>0 DEF Sound
    <3>2. ~list[i].is_free
      BY <1>0, <3>1 DEF Sound
    <3>3. i \in U
      BY <3>2 DEF FreeBlocks
    <3> QED BY <3>1, <3>3
  <2> QED BY <1>3, <2>1
<1>6. BytesOf(D) = SumFunctionOnSet(f, D) /\ BytesOf(FreeBlocks) = SumFunctionOnSet(f, FreeBlocks)
  BY DEF BytesOf, SizesOf
<1>7. NumAllocatedBytes + NumMetaDataBytes + others = brk
  BY <1>6 DEF NumAllocatedBytes, NumMetaDataBytes, NumAllocatedBlocks, Account, Total
<1>8. NumAllocatedBlocks - NumFreeBlocks = Cardinality(Held) /\ IsFiniteSet(Held)
  <2>1. b \in Bijection(U, Held)
    <3>1. b \in [U -> Held]
      BY <1>3
    <3> HIDE DEF b, U
    <3>2. \A p \in Held : \E i \in U : b[i] = p
      BY <1>5
    <3>3. b \in Injection(U, Held)
      BY <1>4, <3>1 DEF Injection, IsInjective
    <3>4. b \in Surjection(U, Held)
      BY <3>1, <3>2 DEF Surjection
    <3> QED BY <3>3, <3>4 DEF Bijection
  <2>2. IsFiniteSet(U)
    BY <1>1, <1>2
  <2>3. Cardinality(Held) = Cardinality(U) /\ IsFiniteSet(Held)
    <3> HIDE DEF b, U
    <3>1. ExistsBijection(U, Held)
      BY <2>1 DEF ExistsBijection
    <3> QED BY <2>2, <3>1, FS_Bijection
  <2>4. Cardinality(U) = Cardinality(D) - Cardinality(FreeBlocks)
    <3>1. Cardinality(D \ FreeBlocks) = Cardinality(D) - Cardinality(D \cap FreeBlocks)
      BY <1>1, FS_Difference
    <3> QED BY <1>2, <3>1
  <2> QED BY <1>1, <2>3, <2>4 DEF NumAllocatedBlocks, NumFreeBlocks
<1>9. NumAllocatedBytes - NumFreeBytes >= SumFunctionOnSet(want, Held)
  <2>1. \A i \in U : want[b[i]] \in Int /\ want[b[i]] <= f[i]
    <3> TAKE i \in U
    <3>1. b[i] = list[i].at /\ b[i] \in Held
      BY <1>3
    <3>2. PICK k \in D : list[k].at = b[i] /\ want[b[i]] <= list[k].size
      BY <1>0, <3>1 DEF Sound
    <3>3. k = i
      BY <1>0, <3>1, <3>2, Addresses
    <3> QED BY <1>0, <1>1, <3>1, <3>2, <3>3
  <2>2. IsFiniteSet(U) /\ \A i \in U : f[i] \in Int
    BY <1>1, <1>2
  <2>3. SumFunctionOnSet(f, D) = SumFunctionOnSet(f, FreeBlocks) + SumFunctionOnSet(f, U)
    <3>1. \A i \in D : f[i] \in Int
      BY <1>1
    <3> QED BY <1>1, <1>2, <3>1, SumSplit
  <2>4. /\ SumFunctionOnSet(f, D) \in Int /\ SumFunctionOnSet(f, FreeBlocks) \in Int
        /\ SumFunctionOnSet(f, U) \in Int
    BY <1>1, <1>2
  <2> HIDE DEF f, b, U
  <2>5. SumFunctionOnSet(want, {b[i] : i \in U}) <= SumFunctionOnSet(f, U)
    BY <1>4, <2>1, <2>2, SumBound
  <2>6. SumFunctionOnSet(want, Held) \in Int
    <3>1. \A p \in Held : want[p] \in Int
      BY <1>0
    <3> QED BY <1>8, <3>1, SumRemove
  <2>7. SumFunctionOnSet(f, D) - SumFunctionOnSet(f, FreeBlocks) >= SumFunctionOnSet(want, Held)
    BY <1>5, <2>3, <2>4, <2>5, <2>6
  <2> QED BY <1>6, <2>7 DEF NumAllocatedBytes, NumFreeBytes
<1> QED BY <1>7, <1>8, <1>9 DEF StatsExact

(* The statistics functions account for every byte taken from sbrk, and    *)
(* what they count as used is what the program holds.                      *)
THEOREM StatisticsExact == Spec => []StatsExact
<1>1. Init => Account
  <2> SUFFICES ASSUME Init PROVE Account
    OBVIOUS
  <2>1. list = <<>> /\ brk = 0 /\ others = 0 /\ Len(<<>>) = 0 /\ DOMAIN <<>> = {}
    BY DEF Init
  <2>2. SumFunctionOnSet(SizesOf(list), {}) = 0
    BY FS_EmptySet, SumUnfold
  <2>3. 0 * MetaSize = 0
    BY FreeListAssumption
  <2> QED BY <2>1, <2>2, <2>3 DEF Account, Total
<1>2. IInv /\ Account /\ [Next]_vars => Account'
  BY AccountStep
<1> QED BY <1>1, <1>2, StatsFromAccount, InductiveInvariant, PTL DEF Spec
=============================================================================
