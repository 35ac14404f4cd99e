------------------------------ MODULE Allocator ------------------------------
(***************************************************************************)
(* What a program may expect of smalloc, sfree and srealloc, whichever     *)
(* allocator is behind them: the memory handed out for one pointer shares  *)
(* no byte with the memory handed out for another, and what the program    *)
(* stored there stays until it gives the pointer back.                     *)
(***************************************************************************)
EXTENDS Integers

CONSTANTS
  Ptrs,      \* the pointers the allocator may return
  Bytes      \* the bytes of the address space

VARIABLES
  region,    \* the bytes behind each pointer in use
  intact     \* the pointers whose contents are what the program stored

avars == <<region, intact>>

InUse == DOMAIN region

Disjoint(r) == \A p, q \in DOMAIN r : p # q => r[p] \cap r[q] = {}

(* r without the pointers of S. *)
Without(r, S) == [p \in DOMAIN r \ S |-> r[p]]

(* r with the bytes E behind pointer p. *)
With(r, p, E) == [q \in DOMAIN r \cup {p} |-> IF q = p THEN E ELSE r[q]]

Init == region = [p \in {} |-> {}] /\ intact = {}

Alloc(p, E) ==
  /\ p \notin InUse
  /\ region' = With(region, p, E)
  /\ intact' = intact \cup {p}

Free(p) ==
  /\ p \in InUse
  /\ region' = Without(region, {p})
  /\ intact' = intact \ {p}

(* The contents move with the block; the block may also stay where it is. *)
Realloc(p, q, E) ==
  /\ p \in intact
  /\ q = p \/ q \notin InUse
  /\ region' = With(Without(region, {p}), q, E)
  /\ intact' = (intact \ {p}) \cup {q}

Next ==
  /\ \/ \E p \in DOMAIN region' : Alloc(p, region'[p])
     \/ \E p \in InUse : Free(p)
     \/ \E p \in InUse, q \in DOMAIN region' : Realloc(p, q, region'[q])
  /\ \A p \in DOMAIN region' : p \in Ptrs /\ region'[p] \subseteq Bytes
  /\ Disjoint(region')

Spec == Init /\ [][Next]_avars
=============================================================================
