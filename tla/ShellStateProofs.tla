------------------------- MODULE ShellStateProofs -------------------------
(***************************************************************************)
(* Proofs about what the shell remembers, for any lines typed, any         *)
(* environment and any directories.                                        *)
(***************************************************************************)
EXTENDS ShellState, NaturalsInduction, WellFoundedInduction, TLAPS

(* A nonempty set of naturals has a least element. *)
LEMMA LeastNatural ==
  ASSUME NEW T \in SUBSET Nat, T # {}
  PROVE  \E x \in T : \A y \in T : x <= y
<1> DEFINE R == OpToRel(<, Nat)
<1>1. IsWellFoundedOn(R, Nat)
  BY NatLessThanWellFounded
<1>2. PICK x \in T : \A y \in T : ~ (<<y, x>> \in R)
  <2> HIDE DEF R
  <2> QED BY <1>1, WFMin
<1>3. \A y \in T : ~ (y < x)
  BY <1>2 DEF OpToRel
<1> QED BY <1>3
-----------------------------------------------------------------------------
(* Without *)

(* The prefixes of s up to n without the elements of S. *)
IsKeep(g, s, S, n) ==
  g = [i \in 0..n |-> IF i = 0 THEN <<>>
                      ELSE IF s[i] \in S THEN g[i - 1] ELSE Append(g[i - 1], s[i])]

LEMMA KeepExists ==
  ASSUME NEW s, NEW S, NEW m \in Nat
  PROVE  \E g : IsKeep(g, s, S, m)
<1> DEFINE B == {n \in Nat : ~ \E g : IsKeep(g, s, S, n)}
<1>1. SUFFICES ASSUME B # {} PROVE FALSE
  OBVIOUS
<1>2. PICK n \in B : \A j \in B : n <= j
  <2> HIDE DEF B
  <2>1. B \in SUBSET Nat
    BY DEF B
  <2> QED BY <1>1, <2>1, LeastNatural
<1>3. n \in Nat /\ ~ \E g : IsKeep(g, s, S, n)
  BY <1>2
<1>4. n # 0
  <2> DEFINE g == [i \in 0..0 |-> <<>>]
  <2>1. IsKeep(g, s, S, 0)
    BY DEF IsKeep
  <2> QED BY <1>3, <2>1
<1>5. n - 1 \in Nat /\ n - 1 \notin B
  BY <1>2, <1>3, <1>4
<1>6. PICK g : IsKeep(g, s, S, n - 1)
  BY <1>5
<1> DEFINE last == IF s[n] \in S THEN g[n - 1] ELSE Append(g[n - 1], s[n])
<1> HIDE DEF last
<1> DEFINE h == [i \in 0..n |-> IF i < n THEN g[i] ELSE last]
<1>7. \A i \in 0..n-1 : g[i] = IF i = 0 THEN <<>> ELSE IF s[i] \in S THEN g[i - 1] ELSE Append(g[i - 1], s[i])
  BY <1>6 DEF IsKeep
<1>8. ASSUME NEW i \in 0..n
      PROVE  h[i] = IF i = 0 THEN <<>> ELSE IF s[i] \in S THEN h[i - 1] ELSE Append(h[i - 1], s[i])
  <2>1. CASE i < n
    <3>1. i \in 0..n-1 /\ (i # 0 => i - 1 \in 0..n /\ i - 1 < n)
      BY <1>3, <2>1
    <3>2. h[i] = g[i] /\ (i # 0 => h[i - 1] = g[i - 1])
      BY <2>1, <3>1
    <3> QED BY <1>7, <3>1, <3>2
  <2>2. CASE i = n
    <3>1. n - 1 \in 0..n /\ n - 1 < n /\ ~(n < n)
      BY <1>3, <1>5
    <3>2. h[n] = last /\ h[n - 1] = g[n - 1]
      BY <2>2, <3>1
    <3> QED BY <1>4, <2>2, <3>2 DEF last
  <2> QED BY <1>3, <2>1, <2>2
<1>9. IsKeep(h, s, S, n)
  <2>1. DOMAIN h = 0..n /\ h = [i \in 0..n |-> h[i]]
    OBVIOUS
  <2> HIDE DEF h
  <2> QED BY <1>8, <2>1 DEF IsKeep
<1> QED BY <1>3, <1>9

(* Without is the last of the kept prefixes. *)
LEMMA WithoutIs ==
  ASSUME NEW s, NEW S, Len(s) \in Nat
  PROVE  \E g : /\ Without(s, S) = g[Len(s)] /\ g[0] = <<>>
                /\ \A i \in 1..Len(s) : g[i] = IF s[i] \in S THEN g[i - 1] ELSE Append(g[i - 1], s[i])
<1> DEFINE g == CHOOSE h : IsKeep(h, s, S, Len(s))
<1>1. Without(s, S) = g[Len(s)]
  BY DEF Without, IsKeep
<1>2. IsKeep(g, s, S, Len(s))
  BY KeepExists
<1> HIDE DEF g
<1>3. \A i \in 0..Len(s) : g[i] = IF i = 0 THEN <<>> ELSE IF s[i] \in S THEN g[i - 1] ELSE Append(g[i - 1], s[i])
  BY <1>2 DEF IsKeep
<1>4. g[0] = <<>> /\ \A i \in 1..Len(s) : g[i] = IF s[i] \in S THEN g[i - 1] ELSE Append(g[i - 1], s[i])
  BY <1>3
<1> QED BY <1>1, <1>4

(* Without keeps the other elements, all of them, and repeats none. *)
LEMMA WithoutKeeps ==
  ASSUME NEW X, NEW s \in Seq(X), NEW S
  PROVE  /\ Without(s, S) \in Seq(X)
         /\ Range(Without(s, S)) = Range(s) \ S
         /\ IsInjective(s) => IsInjective(Without(s, S))
<1>0. Len(s) \in Nat /\ DOMAIN s = 1..Len(s) /\ \A i \in 1..Len(s) : s[i] \in X
  OBVIOUS
<1>1. PICK g : /\ Without(s, S) = g[Len(s)] /\ g[0] = <<>>
               /\ \A i \in 1..Len(s) : g[i] = IF s[i] \in S THEN g[i - 1] ELSE Append(g[i - 1], s[i])
  BY <1>0, WithoutIs
<1> DEFINE Good(q, i) == /\ q \in Seq(X)
                         /\ Range(q) = {s[k] : k \in 1..i} \ S
                         /\ IsInjective(s) => IsInjective(q)
           B == {i \in 0..Len(s) : ~Good(g[i], i)}
<1>2. B = {}
  <2> SUFFICES ASSUME B # {} PROVE FALSE
    OBVIOUS
  <2> HIDE DEF Good
  <2>1. PICK i \in B : \A j \in B : i <= j
    <3> HIDE DEF B
    <3>1. B \in SUBSET Nat
      BY <1>0 DEF B
    <3> QED BY <3>1, LeastNatural
  <2>2. i \in 0..Len(s) /\ ~Good(g[i], i)
    BY <2>1
  <2>3. i # 0
    <3>1. g[0] \in Seq(X) /\ Range(g[0]) = {s[k] : k \in 1..0} \ S /\ IsInjective(g[0])
      BY <1>1 DEF Range, IsInjective
    <3> QED BY <2>2, <3>1 DEF Good
  <2> DEFINE q == g[i - 1]
  <2>4. i \in 1..Len(s) /\ i - 1 \in 0..Len(s) /\ i - 1 \notin B /\ ~(i <= i - 1)
    BY <1>0, <2>1, <2>2, <2>3
  <2>5. Good(q, i - 1)
    BY <2>4
  <2>6. g[i] = IF s[i] \in S THEN q ELSE Append(q, s[i])
    BY <1>1, <2>4
  <2> HIDE DEF q, B
  <2>7. 1..i = (1..(i - 1)) \cup {i}
    BY <2>4
  <2>8. {s[k] : k \in 1..i} = {s[k] : k \in 1..(i - 1)} \cup {s[i]}
    BY <2>7
  <2>9. q \in Seq(X) /\ Range(q) = {s[k] : k \in 1..(i - 1)} \ S /\ (IsInjective(s) => IsInjective(q))
    BY <2>5 DEF Good
  <2>10. CASE s[i] \in S
    BY <2>2, <2>6, <2>8, <2>9, <2>10 DEF Good
  <2>11. CASE s[i] \notin S
    <3> DEFINE a == Append(q, s[i])
    <3>1. /\ a \in Seq(X) /\ Len(a) = Len(q) + 1 /\ DOMAIN a = 1..Len(q) + 1 /\ DOMAIN q = 1..Len(q)
          /\ a[Len(q) + 1] = s[i] /\ \A k \in 1..Len(q) : a[k] = q[k]
          /\ Len(q) \in Nat
      BY <1>0, <2>4, <2>9
    <3> HIDE DEF a
    <3>2. Range(a) = Range(q) \cup {s[i]}
      <4>1. \A k \in 1..Len(q) + 1 : k \in 1..Len(q) \/ k = Len(q) + 1
        BY <3>1
      <4>2. Range(a) \subseteq Range(q) \cup {s[i]}
        BY <3>1, <4>1 DEF Range
      <4>3. \A k \in 1..Len(q) : k \in 1..Len(q) + 1
        BY <3>1
      <4>4. Len(q) + 1 \in 1..Len(q) + 1
        BY <3>1
      <4>5. Range(q) \cup {s[i]} \subseteq Range(a)
        BY <3>1, <4>3, <4>4 DEF Range
      <4> QED BY <4>2, <4>5
    <3>3. Range(a) = {s[k] : k \in 1..i} \ S
      BY <2>8, <2>9, <2>11, <3>2
    <3>4. ASSUME IsInjective(s) PROVE IsInjective(a)
      <4>1. s[i] \notin {s[k] : k \in 1..(i - 1)}
        <5>1. \A k \in 1..(i - 1) : k \in 1..Len(s) /\ k # i
          BY <1>0, <2>4
        <5> QED BY <1>0, <2>4, <3>4, <5>1 DEF IsInjective
      <4>2. s[i] \notin Range(q)
        BY <2>9, <4>1
      <4>3. \A k \in 1..Len(q) : q[k] # s[i]
        BY <3>1, <4>2 DEF Range
      <4>4. \A k, j \in 1..Len(q) : q[k] = q[j] => k = j
        BY <2>9, <3>1, <3>4 DEF IsInjective
      <4>5. \A k \in 1..Len(q) + 1 : k \in 1..Len(q) \/ k = Len(q) + 1
        BY <3>1
      <4>6. ASSUME NEW k \in 1..Len(q) + 1, NEW j \in 1..Len(q) + 1, a[k] = a[j] PROVE k = j
        BY <3>1, <4>3, <4>4, <4>5, <4>6
      <4> QED BY <3>1, <4>6 DEF IsInjective
    <3>5. Good(a, i)
      BY <3>1, <3>3, <3>4 DEF Good
    <3> QED BY <2>2, <2>6, <2>11, <3>5 DEF a
  <2> QED BY <2>10, <2>11
<1>3. Good(g[Len(s)], Len(s))
  <2>1. Len(s) \in 0..Len(s)
    BY <1>0
  <2> HIDE DEF Good
  <2> QED BY <1>2, <2>1
<1>4. {s[k] : k \in 1..Len(s)} = Range(s)
  BY <1>0 DEF Range
<1> QED BY <1>1, <1>3, <1>4

(* Nothing taken out. *)
LEMMA WithoutNothing ==
  ASSUME NEW X, NEW s \in Seq(X)
  PROVE  Without(s, {}) = s
<1>0. Len(s) \in Nat /\ DOMAIN s = 1..Len(s) /\ \A i \in 1..Len(s) : s[i] \in X
  OBVIOUS
<1>1. PICK g : /\ Without(s, {}) = g[Len(s)] /\ g[0] = <<>>
               /\ \A i \in 1..Len(s) : g[i] = Append(g[i - 1], s[i])
  <2> DEFINE V == {}
  <2> HIDE DEF V
  <2>1. PICK g : /\ Without(s, V) = g[Len(s)] /\ g[0] = <<>>
                 /\ \A i \in 1..Len(s) : g[i] = IF s[i] \in V THEN g[i - 1] ELSE Append(g[i - 1], s[i])
    BY <1>0, WithoutIs
  <2> QED BY <2>1 DEF V
<1> DEFINE Good(q, i) == q \in Seq(X) /\ Len(q) = i /\ \A k \in 1..i : q[k] = s[k]
           B == {i \in 0..Len(s) : ~Good(g[i], i)}
<1>2. B = {}
  <2> SUFFICES ASSUME B # {} PROVE FALSE
    OBVIOUS
  <2> HIDE DEF Good
  <2>1. PICK i \in B : \A j \in B : i <= j
    <3> HIDE DEF B
    <3>1. B \in SUBSET Nat
      BY <1>0 DEF B
    <3> QED BY <3>1, LeastNatural
  <2>2. i \in 0..Len(s) /\ ~Good(g[i], i)
    BY <2>1
  <2>3. i # 0
    <3>1. Good(g[0], 0)
      BY <1>1 DEF Good
    <3> QED BY <2>2, <3>1
  <2>4. i \in 1..Len(s) /\ i - 1 \in 0..Len(s) /\ i - 1 \notin B /\ ~(i <= i - 1)
    BY <1>0, <2>1, <2>2, <2>3
  <2> DEFINE q == g[i - 1]
  <2>5. Good(q, i - 1)
    BY <2>4
  <2>6. g[i] = Append(q, s[i]) /\ s[i] \in X
    BY <1>0, <1>1, <2>4
  <2> HIDE DEF q
  <2>7. Good(g[i], i)
    BY <2>4, <2>5, <2>6 DEF Good
  <2> QED BY <2>2, <2>7
<1>3. Good(g[Len(s)], Len(s))
  <2>1. Len(s) \in 0..Len(s)
    BY <1>0
  <2> HIDE DEF Good
  <2> QED BY <1>2, <2>1
<1> QED BY <1>0, <1>1, <1>3

(* q with the element at j taken out, the rest moved up. *)
Cut(q, j) == [i \in 1..Len(q) - 1 |-> IF i < j THEN q[i] ELSE q[i + 1]]

LEMMA AppendFacts ==
  ASSUME NEW X, NEW c \in Seq(X), NEW x \in X
  PROVE  LET b == Append(c, x)
         IN  /\ b \in Seq(X) /\ Len(b) = Len(c) + 1 /\ b[Len(c) + 1] = x
             /\ \A i \in 1..Len(c) : b[i] = c[i]
             /\ b = [i \in 1..Len(b) |-> b[i]]
<1> DEFINE b == Append(c, x)
<1>1. b \in Seq(X)
  OBVIOUS
<1>2. Len(b) = Len(c) + 1 /\ Len(c) \in Nat /\ b[Len(c) + 1] = x
  OBVIOUS
<1>3. \A i \in 1..Len(c) : b[i] = c[i]
  OBVIOUS
<1> HIDE DEF b
<1>4. b = [i \in 1..Len(b) |-> b[i]]
  BY <1>1
<1> QED BY <1>1, <1>2, <1>3, <1>4 DEF b

LEMMA CutAppend ==
  ASSUME NEW X, NEW q \in Seq(X), NEW x \in X
  PROVE  /\ Cut(Append(q, x), Len(q) + 1) = q
         /\ \A j \in 1..Len(q) : Cut(Append(q, x), j) = Append(Cut(q, j), x)
<1> DEFINE a == Append(q, x)
           n == Len(q)
<1>1. /\ n \in Nat /\ a \in Seq(X) /\ Len(a) = n + 1 /\ a[n + 1] = x
      /\ \A k \in 1..n : a[k] = q[k]
      /\ q = [k \in 1..n |-> q[k]] /\ \A k \in 1..n : q[k] \in X
  OBVIOUS
<1> HIDE DEF a, n
<1>2. Cut(a, n + 1) = q
  <2>1. Cut(a, n + 1) = [i \in 1..n |-> IF i < n + 1 THEN a[i] ELSE a[i + 1]]
    <3>1. Len(a) - 1 = n
      BY <1>1
    <3> QED BY <3>1 DEF Cut
  <2>2. \A i \in 1..n : (IF i < n + 1 THEN a[i] ELSE a[i + 1]) = q[i]
    BY <1>1
  <2> QED BY <1>1, <2>1, <2>2
<1>3. ASSUME NEW j \in 1..n PROVE Cut(a, j) = Append(Cut(q, j), x)
  <2> DEFINE c == Cut(q, j)
             b == Append(c, x)
  <2>1. c \in Seq(X) /\ Len(c) = n - 1 /\ \A i \in 1..(n - 1) : c[i] = IF i < j THEN q[i] ELSE q[i + 1]
    <3>1. c = [i \in 1..(n - 1) |-> IF i < j THEN q[i] ELSE q[i + 1]]
      BY DEF Cut, n
    <3>2. n - 1 \in Nat
      BY <1>1
    <3>3. \A i \in 1..(n - 1) : (IF i < j THEN q[i] ELSE q[i + 1]) \in X
      BY <1>1
    <3> QED BY <3>1, <3>2, <3>3
  <2> HIDE DEF c
  <2>2. /\ b \in Seq(X) /\ Len(b) = n /\ b[n] = x /\ \A i \in 1..(n - 1) : b[i] = c[i]
        /\ b = [i \in 1..n |-> b[i]]
    <3>1. /\ b \in Seq(X) /\ Len(b) = Len(c) + 1 /\ b[Len(c) + 1] = x
          /\ \A i \in 1..Len(c) : b[i] = c[i]
          /\ b = [i \in 1..Len(b) |-> b[i]]
      BY <2>1, AppendFacts
    <3>2. Len(c) = n - 1 /\ Len(c) + 1 = n
      BY <1>1, <2>1
    <3> HIDE DEF b
    <3> QED BY <3>1, <3>2
  <2> HIDE DEF b
  <2> DEFINE at(i) == IF i < j THEN a[i] ELSE a[i + 1]
  <2>3. Cut(a, j) = [i \in 1..n |-> at(i)]
    <3>1. Len(a) - 1 = n
      BY <1>1
    <3> QED BY <3>1 DEF Cut
  <2>4. ASSUME NEW i \in 1..n PROVE at(i) = b[i]
    <3>1. CASE i = n
      <4>1. ~(i < j)
        BY <1>1, <3>1
      <4> QED BY <1>1, <2>2, <3>1, <4>1
    <3>2. CASE i # n
      <4>1. i \in 1..(n - 1) /\ i + 1 \in 1..n
        BY <1>1, <3>2
      <4>2. b[i] = IF i < j THEN q[i] ELSE q[i + 1]
        BY <2>1, <2>2, <4>1
      <4> QED BY <1>1, <4>1, <4>2
    <3> QED BY <3>1, <3>2
  <2> HIDE DEF at
  <2>5. [i \in 1..n |-> at(i)] = [i \in 1..n |-> b[i]]
    BY <2>4
  <2>6. Cut(a, j) = b
    BY <2>2, <2>3, <2>5
  <2> QED BY <2>6 DEF b, c
<1> QED BY <1>2, <1>3 DEF a, n

(* One more element taken out of a sequence without repetitions. *)
LEMMA WithoutMore ==
  ASSUME NEW X, NEW s \in Seq(X), IsInjective(s), NEW U, NEW v,
         v \in Range(Without(s, U))
  PROVE  /\ WithoutVar(Without(s, U), v) = Without(s, U \cup {v})
<1>0. /\ Len(s) \in Nat /\ DOMAIN s = 1..Len(s) /\ \A i \in 1..Len(s) : s[i] \in X
      /\ \A i, j \in 1..Len(s) : s[i] = s[j] => i = j
  BY DEF IsInjective
<1>1. PICK g : /\ Without(s, U) = g[Len(s)] /\ g[0] = <<>>
               /\ \A i \in 1..Len(s) : g[i] = IF s[i] \in U THEN g[i - 1] ELSE Append(g[i - 1], s[i])
  BY <1>0, WithoutIs
<1>2. PICK h : /\ Without(s, U \cup {v}) = h[Len(s)] /\ h[0] = <<>>
               /\ \A i \in 1..Len(s) : h[i] = IF s[i] \in U \cup {v} THEN h[i - 1] ELSE Append(h[i - 1], s[i])
  <2> DEFINE V == U \cup {v}
  <2> HIDE DEF V
  <2>1. PICK h : /\ Without(s, V) = h[Len(s)] /\ h[0] = <<>>
                 /\ \A i \in 1..Len(s) : h[i] = IF s[i] \in V THEN h[i - 1] ELSE Append(h[i - 1], s[i])
    BY <1>0, WithoutIs
  <2> QED BY <2>1 DEF V
<1>3. v \in Range(s) /\ v \notin U
  BY WithoutKeeps
<1> DEFINE Good(p, q, i) ==
             /\ p \in Seq(X)
             /\ (\A k \in 1..i : s[k] # v) => q = p
             /\ (\E k \in 1..i : s[k] = v) => \E j \in 1..Len(p) : p[j] = v /\ q = Cut(p, j)
           B == {i \in 0..Len(s) : ~Good(g[i], h[i], i)}
<1>4. B = {}
  <2> SUFFICES ASSUME B # {} PROVE FALSE
    OBVIOUS
  <2> HIDE DEF Good
  <2>1. PICK i \in B : \A j \in B : i <= j
    <3> HIDE DEF B
    <3>1. B \in SUBSET Nat
      BY <1>0 DEF B
    <3> QED BY <3>1, LeastNatural
  <2>2. i \in 0..Len(s) /\ ~Good(g[i], h[i], i)
    BY <2>1
  <2>3. i # 0
    <3>1. Good(g[0], h[0], 0)
      BY <1>1, <1>2 DEF Good
    <3> QED BY <2>2, <3>1
  <2>4. i \in 1..Len(s) /\ i - 1 \in 0..Len(s) /\ i - 1 \notin B /\ ~(i <= i - 1)
    BY <1>0, <2>1, <2>2, <2>3
  <2> DEFINE p == g[i - 1]
             q == h[i - 1]
             x == s[i]
  <2>5. Good(p, q, i - 1)
    BY <2>4
  <2>6. /\ g[i] = IF x \in U THEN p ELSE Append(p, x)
        /\ h[i] = IF x \in U \cup {v} THEN q ELSE Append(q, x)
        /\ x \in X
    BY <1>0, <1>1, <1>2, <2>4
  <2>7. 1..i = (1..(i - 1)) \cup {i}
    BY <2>4
  <2>8. /\ (\A k \in 1..i : s[k] # v) <=> (\A k \in 1..(i - 1) : s[k] # v) /\ x # v
        /\ (\E k \in 1..i : s[k] = v) <=> (\E k \in 1..(i - 1) : s[k] = v) \/ x = v
    BY <2>7
  <2>9. x = v => \A k \in 1..(i - 1) : s[k] # v
    <3>1. \A k \in 1..(i - 1) : k \in 1..Len(s) /\ k # i
      BY <1>0, <2>4
    <3> QED BY <1>0, <2>4, <3>1
  <2> HIDE DEF p, q, x, B
  <2>10. p \in Seq(X)
    BY <2>5 DEF Good
  <2>11. CASE x \in U
    <3>1. x # v /\ g[i] = p /\ h[i] = q
      BY <1>3, <2>6, <2>11
    <3> QED BY <2>2, <2>5, <2>8, <3>1 DEF Good
  <2>12. CASE x = v
    <3>1. g[i] = Append(p, v) /\ h[i] = q /\ q = p
      BY <1>3, <2>5, <2>6, <2>9, <2>12 DEF Good
    <3>2. Len(p) + 1 \in 1..Len(Append(p, v)) /\ Append(p, v)[Len(p) + 1] = v /\ Append(p, v) \in Seq(X)
      BY <2>6, <2>10, <2>12
    <3>3. Cut(Append(p, v), Len(p) + 1) = p
      BY <2>6, <2>10, <2>12, CutAppend
    <3>4. Good(Append(p, v), p, i)
      BY <2>8, <2>12, <3>2, <3>3 DEF Good
    <3> QED BY <2>2, <3>1, <3>4
  <2>13. CASE x \notin U /\ x # v
    <3>1. g[i] = Append(p, x) /\ h[i] = Append(q, x)
      BY <2>6, <2>13
    <3>2. Append(p, x) \in Seq(X) /\ Len(Append(p, x)) = Len(p) + 1 /\ Len(p) \in Nat
          /\ \A j \in 1..Len(p) : Append(p, x)[j] = p[j] /\ j \in 1..(Len(p) + 1)
      BY <2>6, <2>10
    <3>3. (\A k \in 1..i : s[k] # v) => Append(q, x) = Append(p, x)
      BY <2>5, <2>8 DEF Good
    <3>4. ASSUME \E k \in 1..i : s[k] = v
          PROVE  \E j \in 1..Len(Append(p, x)) : Append(p, x)[j] = v /\ Append(q, x) = Cut(Append(p, x), j)
      <4>1. PICK j \in 1..Len(p) : p[j] = v /\ q = Cut(p, j)
        BY <2>5, <2>8, <2>13, <3>4 DEF Good
      <4>2. Cut(Append(p, x), j) = Append(Cut(p, j), x)
        BY <2>6, <2>10, CutAppend
      <4>3. j \in 1..Len(Append(p, x)) /\ Append(p, x)[j] = v
        BY <3>2, <4>1
      <4>4. Append(q, x) = Cut(Append(p, x), j)
        BY <4>1, <4>2
      <4> QED BY <4>3, <4>4
    <3>5. Good(Append(p, x), Append(q, x), i)
      BY <3>2, <3>3, <3>4 DEF Good
    <3> QED BY <2>2, <3>1, <3>5
  <2> QED BY <2>11, <2>12, <2>13
<1> DEFINE e == Without(s, U)
<1>5. Good(e, Without(s, U \cup {v}), Len(s))
  <2>1. Len(s) \in 0..Len(s)
    BY <1>0
  <2> HIDE DEF Good
  <2> QED BY <1>1, <1>2, <1>4, <2>1
<1>6. PICK j \in 1..Len(e) : e[j] = v /\ Without(s, U \cup {v}) = Cut(e, j)
  <2>1. \E k \in 1..Len(s) : s[k] = v
    BY <1>0, <1>3 DEF Range
  <2> QED BY <1>5, <2>1
<1>7. e \in Seq(X) /\ \A a, b \in 1..Len(e) : e[a] = e[b] => a = b
  <2>1. e \in Seq(X) /\ IsInjective(e)
    BY WithoutKeeps
  <2> HIDE DEF e
  <2> QED BY <2>1 DEF IsInjective
<1> HIDE DEF e, Good
<1>8. SelectInSeq(e, LAMBDA x : x = v) = j
  <2> DEFINE I == {i \in 1..Len(e) : e[i] = v}
  <2>1. SelectInSeq(e, LAMBDA x : x = v) = IF I # {} THEN Min(I) ELSE 0
    BY DEF SelectInSeq
  <2>2. I = {j}
    BY <1>6, <1>7
  <2>3. Min({j}) = j
    <3>1. j \in Int /\ j <= j
      BY <1>6
    <3> QED BY <3>1 DEF Min
  <2> QED BY <2>1, <2>2, <2>3
<1>9. v \in ToSet(e)
  BY <1>6, <1>7 DEF ToSet
<1>10. WithoutVar(e, v) = Cut(e, j)
  BY <1>8, <1>9 DEF WithoutVar, Cut
<1> QED BY <1>6, <1>10 DEF e
-----------------------------------------------------------------------------
(* Aliases *)

(* AliasesExact with what makes it inductive. *)
AliasInv == alias_order \in Seq(DOMAIN aliases) /\ AliasesExact

LEMMA CommandFound ==
  ASSUME NEW l
  PROVE  CreateCommand(l) # "chdir"
BY DEF CreateCommand, Remembering

LEMMA AddAliasStep ==
  ASSUME AliasInv, NEW d, d.name \notin Reserved \cup DOMAIN aliases, AddAlias(d)
  PROVE  alias_order' \in Seq(DOMAIN aliases') /\ AliasesExact'
<1> DEFINE D == DOMAIN aliases
           n == d.name
           q == alias_order
<1>1. q \in Seq(D) /\ IsInjective(q) /\ Range(q) = D /\ n \notin D /\ n \notin Reserved
  BY DEF AliasInv, AliasesExact
<1>2. DOMAIN aliases' = D \cup {n}
  BY DEF AddAlias
<1>3. q' = Append(q, n)
  BY DEF AddAlias
<1> HIDE DEF n, q, D
<1>4. q \in Seq(D \cup {n})
  BY <1>1
<1>5. /\ q' \in Seq(D \cup {n}) /\ DOMAIN q' = 1..Len(q) + 1 /\ q'[Len(q) + 1] = n
      /\ \A i \in 1..Len(q) : q'[i] = q[i]
      /\ Len(q) \in Nat /\ DOMAIN q = 1..Len(q)
  BY <1>3, <1>4
<1>6. \A i \in 1..Len(q) + 1 : i \in 1..Len(q) \/ i = Len(q) + 1
  BY <1>5
<1>7. \A i \in 1..Len(q) : q[i] # n /\ i \in 1..Len(q) + 1
  <2>1. \A i \in 1..Len(q) : q[i] \in D
    BY <1>1
  <2> QED BY <1>1, <1>5, <2>1
<1>8. IsInjective(q')
  <2>1. \A i, j \in 1..Len(q) : q[i] = q[j] => i = j
    BY <1>1, <1>5 DEF IsInjective
  <2>2. ASSUME NEW i \in 1..Len(q) + 1, NEW j \in 1..Len(q) + 1, q'[i] = q'[j] PROVE i = j
    BY <1>5, <1>6, <1>7, <2>1, <2>2
  <2> QED BY <1>5, <2>2 DEF IsInjective
<1>9. Range(q') = D \cup {n}
  <2>1. Range(q') \subseteq D \cup {n}
    BY <1>5 DEF Range
  <2>2. Len(q) + 1 \in 1..Len(q) + 1
    BY <1>5
  <2>3. n \in Range(q')
    BY <1>5, <2>2 DEF Range
  <2>4. D \subseteq Range(q')
    BY <1>1, <1>5, <1>7 DEF Range
  <2> QED BY <2>1, <2>3, <2>4
<1>10. (D \cup {n}) \cap Reserved = {}
  BY <1>1 DEF AliasInv, AliasesExact, D
<1>11. q' = alias_order'
  BY DEF q
<1> QED BY <1>2, <1>5, <1>8, <1>9, <1>10, <1>11 DEF AliasesExact

LEMMA RemoveAliasStep ==
  ASSUME AliasInv, NEW n, RemoveAlias(n)
  PROVE  alias_order' \in Seq(DOMAIN aliases') /\ AliasesExact'
<1> DEFINE D == DOMAIN aliases
<1>1. alias_order \in Seq(D) /\ IsInjective(alias_order) /\ Range(alias_order) = D
  BY DEF AliasInv, AliasesExact
<1>2. DOMAIN aliases' = D \ {n}
  BY DEF RemoveAlias
<1>3. alias_order' = Without(alias_order, {n})
  BY DEF RemoveAlias
<1>4. alias_order' \in Seq(D) /\ IsInjective(alias_order') /\ Range(alias_order') = D \ {n}
  BY <1>1, <1>3, WithoutKeeps
<1>5. alias_order' \in Seq(D \ {n})
  <2>1. \A i \in 1..Len(alias_order') : alias_order'[i] \in D \ {n}
    BY <1>4 DEF Range
  <2> QED BY <1>4, <2>1
<1>6. (D \ {n}) \cap Reserved = {}
  BY DEF AliasInv, AliasesExact
<1> QED BY <1>2, <1>4, <1>5, <1>6 DEF AliasesExact

LEMMA AliasStep == AliasInv /\ [Next]_vars => AliasInv'
<1> SUFFICES ASSUME AliasInv, [Next]_vars PROVE AliasInv'
  OBVIOUS
<1>1. CASE UNCHANGED names
  BY <1>1 DEF AliasInv, AliasesExact, names
<1>2. CASE ReadLine \/ RunOther \/ Chprompt \/ UnsetenvCommand
  BY <1>1, <1>2 DEF ReadLine, RunOther, Chprompt, UnsetenvCommand
<1>3. CASE CdRefused \/ CdGetcwd \/ Chdir \/ ChdirFails \/ Others
  BY <1>1, <1>3 DEF CdRefused, CdGetcwd, Chdir, ChdirFails, Others
<1>4. CASE AliasCommand
  <2>1. ASSUME NEW d \in cmd.def, d.name \notin Reserved \cup DOMAIN aliases, AddAlias(d)
        PROVE  AliasInv'
    BY <2>1, AddAliasStep DEF AliasInv
  <2> QED BY <1>1, <1>4, <2>1 DEF AliasCommand
<1>5. CASE UnaliasCommand
  <2>1. CASE RemoveAlias(todo[1])
    BY <2>1, RemoveAliasStep DEF AliasInv
  <2> QED BY <1>1, <1>5, <2>1 DEF UnaliasCommand
<1>6. CASE UNCHANGED vars
  BY <1>1, <1>6 DEF vars
<1> QED BY <1>2, <1>3, <1>4, <1>5, <1>6 DEF Next

(* Whatever is defined and removed, the list of the alias command is       *)
(* exactly the aliases there are, each of them once, and none of them      *)
(* hides a built-in command.                                               *)
THEOREM AliasesStayExact == Spec => []AliasesExact
<1>1. Init => AliasInv
  <2> SUFFICES ASSUME Init PROVE AliasInv
    OBVIOUS
  <2>1. aliases = <<>> /\ alias_order = <<>> /\ DOMAIN aliases = {}
    <3>1. <<>> \in Seq({}) /\ Len(<<>>) = 0
      OBVIOUS
    <3>2. DOMAIN <<>> = 1..0 /\ 1..0 = {}
      BY <3>1
    <3> QED BY <3>2 DEF Init
  <2>2. IsInjective(alias_order) /\ Range(alias_order) = {}
    BY <2>1 DEF IsInjective, Range
  <2> QED BY <2>1, <2>2 DEF AliasInv, AliasesExact
<1>2. AliasInv => AliasesExact
  BY DEF AliasInv
<1> QED BY <1>1, <1>2, AliasStep, PTL DEF Spec
-----------------------------------------------------------------------------
(* Environment *)

LEMMA EnvStep == EnvironExact /\ [Next]_vars => EnvironExact'
<1> SUFFICES ASSUME EnvironExact, [Next]_vars PROVE EnvironExact'
  OBVIOUS
<1>1. CASE UNCHANGED env
  BY <1>1 DEF env, EnvironExact
<1>2. CASE UnsetenvCommand
  <2>1. SUFFICES ASSUME EnvVarExists(todo[1]), environ' = WithoutVar(environ, todo[1]),
                        unset' = unset \cup {todo[1]}
                 PROVE  EnvironExact'
    BY <1>1, <1>2 DEF UnsetenvCommand
  <2> DEFINE v == todo[1]
  <2>2. Environ0 \in Seq(STRING) /\ IsInjective(Environ0) /\ environ = Without(Environ0, unset)
    BY ShellStateAssumption DEF EnvironExact
  <2>3. v \in Range(Environ0)
    <3>1. \A i \in 1..EnvVisible : i \in DOMAIN Environ0
      <4>1. EnvVisible \in 0..Len(Environ0)
        BY ShellStateAssumption
      <4>2. DOMAIN Environ0 = 1..Len(Environ0) /\ Len(Environ0) \in Nat
        BY <2>2
      <4> QED BY <4>1, <4>2
    <3> QED BY <2>1, <3>1 DEF EnvVarExists, Range
  <2>4. Range(environ) = Range(Environ0) \ unset /\ ToSet(environ) = Range(environ)
    BY <2>2, WithoutKeeps DEF ToSet, Range
  <2> HIDE DEF v
  <2>5. CASE v \in unset
    <3>1. WithoutVar(environ, v) = environ /\ unset \cup {v} = unset
      BY <2>4, <2>5 DEF WithoutVar
    <3> QED BY <2>1, <2>2, <3>1 DEF EnvironExact, v
  <2>6. CASE v \notin unset
    <3>1. v \in Range(Without(Environ0, unset))
      BY <2>2, <2>3, <2>4, <2>6
    <3>2. WithoutVar(environ, v) = Without(Environ0, unset \cup {v})
      BY <2>2, <3>1, WithoutMore
    <3> QED BY <2>1, <3>2 DEF EnvironExact, v
  <2> QED BY <2>5, <2>6
<1>3. CASE ReadLine \/ RunOther \/ Chprompt \/ AliasCommand \/ UnaliasCommand
  BY <1>1, <1>3 DEF ReadLine, RunOther, Chprompt, AliasCommand, UnaliasCommand
<1>4. CASE CdRefused \/ CdGetcwd \/ Chdir \/ ChdirFails \/ Others
  BY <1>1, <1>4 DEF CdRefused, CdGetcwd, Chdir, ChdirFails, Others
<1>5. CASE UNCHANGED vars
  BY <1>1, <1>5 DEF vars
<1> QED BY <1>2, <1>3, <1>4, <1>5 DEF Next

(* unsetenv takes exactly the variables it says out of the environment and *)
(* keeps the others in order, for any environment and any part of it the   *)
(* lookup can see.                                                         *)
THEOREM EnvironStaysExact == Spec => []EnvironExact
<1>1. Init => EnvironExact
  BY ShellStateAssumption, WithoutNothing DEF Init, EnvironExact
<1> QED BY <1>1, EnvStep, PTL DEF Spec
-----------------------------------------------------------------------------
(* The directory *)

(* cd - would lead back. *)
Back == IF last_pwd = "" THEN prev = NoDir ELSE dir[last_pwd] = prev

(* Between getcwd and chdir the directory is the one getcwd found unless   *)
(* others changed directories since, and last_pwd has been overwritten     *)
(* only by a cd -, whose failure is remembered.                            *)
CdInv ==
  /\ dir \in [Paths -> Inodes \cup {NoDir}] /\ cwd \in Inodes
  /\ last_pwd \in Paths \cup {""} /\ (last_pwd # "" => prev # NoDir)
  /\ "getcwd" \in touched => "last_pwd" \in touched
  /\ pc # "chdir" /\ touched = {} => Back
  /\ pc = "cd" => todo = Args(cmd)
  /\ pc = "chdir" => /\ buf \in Paths /\ ("getcwd" \notin touched => dir[buf] = cwd)
                     /\ touched = {} => Args(cmd)[1] = "-" \/ Back

LEMMA CdStep == CdInv /\ [Next]_vars => CdInv'
<1> SUFFICES ASSUME CdInv, [Next]_vars PROVE CdInv'
  OBVIOUS
<1>0. "" \notin Paths /\ NoDir \notin Inodes
  BY ShellStateAssumption
<1>1. ASSUME UNCHANGED <<place, dir, touched>>, pc # "chdir", pc' # "chdir",
             pc' = "cd" => todo' = Args(cmd)'
      PROVE  CdInv'
  BY <1>1 DEF CdInv, Back, place
<1>2. CASE ReadLine
  BY <1>1, <1>2, CommandFound DEF ReadLine
<1>3. CASE RunOther \/ Chprompt \/ AliasCommand \/ CdRefused
  BY <1>1, <1>3 DEF RunOther, Chprompt, AliasCommand, CdRefused, Return
<1>4. CASE UnaliasCommand \/ UnsetenvCommand
  BY <1>1, <1>4 DEF UnaliasCommand, UnsetenvCommand, Return
<1>5. CASE CdGetcwd
  <2>1. /\ pc = "cd" /\ pc' = "chdir" /\ touched' = touched \ {"getcwd"} /\ UNCHANGED <<cwd, prev, dir>>
        /\ buf' \in Paths /\ dir[buf'] = cwd
    BY <1>5 DEF CdGetcwd, Getcwd
  <2>2. /\ touched' = {} => touched = {}
        /\ "getcwd" \notin touched'
    <3>1. "last_pwd" \in touched => "last_pwd" \in touched'
      BY <2>1
    <3>2. touched' = {} => "getcwd" \notin touched
      BY <3>1 DEF CdInv
    <3>3. "getcwd" \notin touched => touched' = touched
      BY <2>1
    <3> QED BY <2>1, <3>2, <3>3
  <2>3. touched = {} => Back
    BY <2>1 DEF CdInv
  <2>4. CASE UNCHANGED <<todo, last_pwd>>
    BY <2>1, <2>2, <2>3, <2>4 DEF CdInv, Back
  <2>5. CASE todo[1] = "-" /\ last_pwd # "" /\ last_pwd' = buf'
    <3>1. prev # NoDir /\ Args(cmd)[1] = "-"
      BY <2>1, <2>5 DEF CdInv
    <3>2. cmd' = cmd
      BY <1>5 DEF CdGetcwd
    <3>3. (Args(cmd)[1])' = "-"
      BY <3>1, <3>2 DEF Args
    <3> QED BY <2>1, <2>2, <2>5, <3>1, <3>3 DEF CdInv
  <2> QED BY <1>5, <2>4, <2>5 DEF CdGetcwd
<1>6. CASE Chdir
  <2>1. /\ pc = "chdir" /\ pc' = "prompt" /\ cwd' = dir[todo[1]] /\ last_pwd' = buf /\ prev' = cwd
        /\ touched' = (IF "getcwd" \in touched THEN touched ELSE {}) /\ dir' = dir
        /\ todo[1] \in Paths /\ dir[todo[1]] # NoDir
    BY <1>6 DEF Chdir, Return, Exists
  <2>2. buf \in Paths /\ ("getcwd" \notin touched => dir[buf] = cwd) /\ buf # ""
    BY <1>0, <2>1 DEF CdInv
  <2>3. touched' = {} => "getcwd" \notin touched
    BY <2>1
  <2>4. touched' = {} => Back'
    BY <2>1, <2>2, <2>3 DEF Back
  <2>5. cwd' \in Inodes /\ prev' # NoDir /\ ("getcwd" \in touched' => "last_pwd" \in touched')
    BY <1>0, <2>1 DEF CdInv
  <2> QED BY <2>1, <2>2, <2>4, <2>5 DEF CdInv
<1>7. CASE ChdirFails
  <2>1. /\ pc = "chdir" /\ pc' = "prompt"
        /\ touched' = IF Args(cmd)[1] = "-" THEN touched \cup {"failed"} ELSE touched
        /\ UNCHANGED <<last_pwd, cwd, prev, dir>>
    BY <1>7 DEF ChdirFails, Return
  <2>2. touched' = {} => Back
    BY <2>1 DEF CdInv
  <2>3. "getcwd" \in touched' => "last_pwd" \in touched'
    BY <2>1 DEF CdInv
  <2> QED BY <2>1, <2>2, <2>3 DEF CdInv, Back
<1>8. CASE Others
  <2>1. touched' = {"last_pwd", "getcwd"} /\ UNCHANGED <<pc, cmd, todo, last_pwd, buf, cwd, prev>>
    BY <1>8 DEF Others, line, place
  <2>2. dir' \in [Paths -> Inodes \cup {NoDir}]
    BY <1>8 DEF Others, CdInv
  <2>3. (pc = "cd" => todo = Args(cmd))'
    BY <2>1 DEF CdInv, Args
  <2> QED BY <2>1, <2>2, <2>3 DEF CdInv
<1>9. CASE UNCHANGED vars
  BY <1>9 DEF vars, line, place, CdInv, Back, Exists
<1> QED BY <1>2, <1>3, <1>4, <1>5, <1>6, <1>7, <1>8, <1>9 DEF Next

(* cd - leads back to the directory before, for any directories and any    *)
(* order of cd, with a path that failed too, as long as no cd - fails and  *)
(* others do not change the directories.                                   *)
THEOREM DashAlwaysLeadsBack == Spec => []DashLeadsBack
<1>1. Init => CdInv
  BY ShellStateAssumption DEF Init, CdInv, Back, Range
<1>2. CdInv => DashLeadsBack
  BY DEF CdInv, DashLeadsBack, Back
<1> QED BY <1>1, <1>2, CdStep, PTL DEF Spec
=============================================================================
