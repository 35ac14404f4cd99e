------------------------- MODULE SyscallBansProofs -------------------------
(***************************************************************************)
(* Proofs about SyscallBans for every number of tasks: the walk of         *)
(* flip_ban_branch climbs the process tree whatever the other tasks do.    *)
(*                                                                         *)
(* The argument is about the tree alone: a parent is always older than its *)
(* child, since fork makes the child the youngest task and the end of a    *)
(* task hands its children to init, the oldest of all but the idle task.   *)
(***************************************************************************)
EXTENDS SyscallBans, FiniteSetTheorems, TLAPS

(* Parents are older than their children; only the idle task is its own    *)
(* parent.                                                                 *)
TreeOrdered ==
  /\ real_parent[Idle] = Idle
  /\ \A t \in Tasks \ {Idle} : real_parent[t] < t

(* FlipClimbs for one call; what is about to be flipped, or has just been, *)
(* is not the idle task.                                                   *)
Climbs(t, c) ==
  c.pc # "user" =>
    /\ c.proc < t
    /\ \A u \in c.seen : u < t /\ u # Idle
    /\ \A u \in c.seen : IF c.pc = "count" THEN c.proc <= u ELSE c.proc < u \/ c.proc = Idle
    /\ c.pc \in {"store", "count"} => c.proc # Idle /\ c.left > 0

IInv == TypeOK /\ TreeOrdered /\ (\A t \in Tasks : Climbs(t, call[t]))

Running == [pc : Labels, b : BanKinds, left : Nat, proc : Tasks, old : SUBSET BanKinds,
            count : Nat, seen : SUBSET Tasks, height : Nat,
            before : {<<>>} \cup [Tasks -> SUBSET BanKinds],
            above : SUBSET Tasks, quiet : BOOLEAN]

(* A call is either none or has all its registers. *)
LEMMA CallShape ==
  ASSUME TypeOK, NEW t \in Tasks
  PROVE  /\ call[t].pc = "user" => call[t] = NoCall
         /\ call[t].pc # "user" => call[t] \in Running
<1>1. call[t] \in Calls
  BY DEF TypeOK
<1>2. NoCall.pc = "user" /\ \A c \in Running : c.pc # "user"
  BY DEF NoCall, Running, Labels
<1>3. Calls = {NoCall} \cup Running
  BY DEF Calls, Running
<1> QED BY <1>1, <1>2, <1>3

(* What disturbing the other calls does not change. *)
LEMMA DisturbedCalls ==
  ASSUME TypeOK, NEW t \in Tasks
  PROVE  /\ Disturbed(t) \in [Tasks -> Calls]
         /\ Disturbed(t)[t] = call[t]
         /\ \A u \in Tasks : /\ Disturbed(t)[u].pc = call[u].pc
                             /\ call[u].pc # "user" =>
                                  /\ Disturbed(t)[u].proc = call[u].proc
                                  /\ Disturbed(t)[u].seen = call[u].seen
                                  /\ Disturbed(t)[u].left = call[u].left
                                  /\ Disturbed(t)[u].above = call[u].above
                                  /\ u # t => ~Disturbed(t)[u].quiet
<1> DEFINE d(u) == [call[u] EXCEPT !.quiet = FALSE, !.before = <<>>]
<1>1. ASSUME NEW u \in Tasks, call[u].pc # "user"
      PROVE  /\ d(u) \in Running /\ d(u).pc = call[u].pc
             /\ d(u).proc = call[u].proc /\ d(u).seen = call[u].seen
             /\ d(u).left = call[u].left /\ d(u).above = call[u].above /\ ~d(u).quiet
  <2>1. call[u] \in Running
    BY <1>1, CallShape
  <2> QED BY <2>1 DEF Running
<1>2. \A u \in Tasks : Disturbed(t)[u] = IF u # t /\ call[u].pc # "user" THEN d(u) ELSE call[u]
  BY DEF Disturbed, InCall
<1>3. Running \subseteq Calls
  BY DEF Running, Calls
<1>4. \A u \in Tasks : call[u] \in Calls
  BY DEF TypeOK
<1>5. Disturbed(t) \in [Tasks -> Calls]
  BY <1>1, <1>3, <1>4 DEF Disturbed, InCall
<1> HIDE DEF d
<1> QED BY <1>1, <1>2, <1>5

(* Disturbing the other calls leaves every walk where it was. *)
LEMMA DisturbedClimbs ==
  ASSUME TypeOK, NEW t \in Tasks, \A u \in Tasks : Climbs(u, call[u])
  PROVE  \A u \in Tasks : Climbs(u, Disturbed(t)[u])
BY DisturbedCalls DEF Climbs

LEMMA TaskNumbers ==
  /\ Idle \in Tasks /\ InitTask \in Tasks /\ Idle = 0 /\ InitTask = 1
  /\ Tasks \subseteq Nat /\ \A t \in Tasks : t # Idle => t > 0
BY BansAssumption DEF Tasks, Idle, InitTask

(* A step that only moves one call. *)
LEMMA GotoStep ==
  ASSUME IInv, NEW t \in Tasks, NEW c \in Calls, Goto(t, c), Climbs(t, c)
  PROVE  IInv'
<1>1. TypeOK'
  BY DEF IInv, TypeOK, Goto
<1>2. TreeOrdered'
  BY DEF IInv, TreeOrdered, Goto
<1>3. \A u \in Tasks : call'[u] = IF u = t THEN c ELSE call[u]
  BY DEF IInv, TypeOK, Goto
<1>4. ASSUME NEW u \in Tasks PROVE Climbs(u, call'[u])
  BY <1>3 DEF IInv
<1> QED BY <1>1, <1>2, <1>4 DEF IInv

(* A step that changes no call but by disturbing it. *)
LEMMA OtherStep ==
  ASSUME IInv, NEW t \in Tasks, call' = Disturbed(t), TreeOrdered',
         alive' \subseteq Tasks, {Idle, InitTask} \subseteq alive',
         created' \in Tasks, \A u \in alive' : u <= created',
         real_parent' \in [Tasks -> Tasks], root' \subseteq Tasks,
         syscall_bans' \in [Tasks -> SUBSET BanKinds]
  PROVE  IInv'
<1>1. TypeOK'
  BY DisturbedCalls DEF IInv, TypeOK
<1>2. \A u \in Tasks : Climbs(u, call'[u])
  BY DisturbedClimbs DEF IInv
<1> QED BY <1>1, <1>2 DEF IInv

(* The calls of the kernel and set_ban. *)
LEMMA ForkStep ==
  ASSUME IInv, NEW t \in Tasks, NEW keep \in BOOLEAN, Fork(t, keep)
  PROVE  IInv'
<1> DEFINE c == created + 1
<1>1. /\ t \in alive /\ t <= created /\ c \in Tasks /\ created \in Nat /\ t < c /\ c # Idle
      /\ call' = Disturbed(t)
  BY TaskNumbers DEF Fork, Runs, IInv, TypeOK
<1>2. TreeOrdered'
  BY <1>1, TaskNumbers DEF Fork, IInv, TypeOK, TreeOrdered
<1>3. /\ alive' \subseteq Tasks /\ {Idle, InitTask} \subseteq alive' /\ created' \in Tasks
      /\ real_parent' \in [Tasks -> Tasks] /\ root' \subseteq Tasks
      /\ syscall_bans' \in [Tasks -> SUBSET BanKinds]
  BY <1>1 DEF Fork, IInv, TypeOK
<1>4. \A u \in alive' : u <= created'
  BY <1>1, TaskNumbers DEF Fork, IInv, TypeOK
<1> QED BY <1>1, <1>2, <1>3, <1>4, OtherStep

LEMMA ExitStep ==
  ASSUME IInv, NEW t \in Tasks, t \notin {Idle, InitTask}, Exit(t)
  PROVE  IInv'
<1>1. call' = Disturbed(t)
  BY DEF Exit
<1>2. real_parent' = [c \in Tasks |-> IF real_parent[c] = t /\ c \in alive
                                      THEN InitTask ELSE real_parent[c]]
  BY DEF Exit
<1>3. TreeOrdered'
  <2>1. real_parent[Idle] = Idle /\ \A c \in Tasks \ {Idle} : real_parent[c] < c
    BY DEF IInv, TreeOrdered
  <2>2. real_parent'[Idle] = Idle
    BY <1>2, <2>1, TaskNumbers
  <2>3. ASSUME NEW c \in Tasks \ {Idle} PROVE real_parent'[c] < c
    <3>1. real_parent[c] = t => InitTask < c
      BY <2>1, TaskNumbers
    <3> QED BY <1>2, <2>1, <3>1
  <2> QED BY <2>2, <2>3 DEF TreeOrdered
<1>4. /\ alive' \subseteq Tasks /\ {Idle, InitTask} \subseteq alive' /\ created' \in Tasks
      /\ \A u \in alive' : u <= created'
      /\ real_parent' \in [Tasks -> Tasks] /\ root' \subseteq Tasks
      /\ syscall_bans' \in [Tasks -> SUBSET BanKinds]
  BY <1>2, TaskNumbers DEF Exit, IInv, TypeOK
<1> QED BY <1>1, <1>3, <1>4, OtherStep

LEMMA SetBanStep ==
  ASSUME IInv, NEW t \in Tasks, NEW arg \in [BanKinds -> Args], SetBan(t, arg)
  PROVE  IInv'
<1>1. TreeOrdered' /\ call' = Disturbed(t)
  BY DEF SetBan, IInv, TreeOrdered
<1>2. /\ alive' \subseteq Tasks /\ {Idle, InitTask} \subseteq alive' /\ created' \in Tasks
      /\ \A u \in alive' : u <= created'
      /\ real_parent' \in [Tasks -> Tasks] /\ root' \subseteq Tasks
      /\ syscall_bans' \in [Tasks -> SUBSET BanKinds]
  BY DEF SetBan, IInv, TypeOK
<1> QED BY <1>1, <1>2, OtherStep

(* The steps of flip_ban_branch. *)
LEMMA FlipBeginStep ==
  ASSUME IInv, NEW t \in Tasks, NEW height \in Heights, NEW b \in BanKinds,
         FlipBegin(t, height, b)
  PROVE  IInv'
<1> DEFINE n == [pc |-> "loop", b |-> b, left |-> height, proc |-> real_parent[t],
                 old |-> {}, count |-> 0, seen |-> {}, height |-> height,
                 before |-> syscall_bans, above |-> Ancestors(t), quiet |-> TRUE]
<1>1. height \in Nat /\ real_parent[t] \in Tasks
  BY BansAssumption DEF FlipBegin, IInv, TypeOK
<1>2. Ancestors(t) \subseteq Tasks
  BY DEF Ancestors
<1>3. n \in Calls
  BY <1>1, <1>2 DEF Calls, Labels, IInv, TypeOK
<1>4. Climbs(t, n)
  BY DEF Climbs, FlipBegin, Runs, IInv, TreeOrdered
<1>5. Goto(t, n)
  BY DEF FlipBegin
<1> HIDE DEF n
<1> QED BY <1>3, <1>4, <1>5, GotoStep

LEMMA FlipLoadStep ==
  ASSUME IInv, NEW t \in Tasks, FlipLoad(t)
  PROVE  IInv'
<1> DEFINE c == call[t]
           n == [c EXCEPT !.pc = "store", !.old = syscall_bans[c.proc]]
<1>1. c \in Running /\ Climbs(t, c)
  BY CallShape DEF FlipLoad, IInv
<1>2. n \in Running
  BY <1>1 DEF Running, Labels, IInv, TypeOK
<1>3. /\ n.pc = "store" /\ n.proc = c.proc /\ n.seen = c.seen /\ n.left = c.left
      /\ c.pc = "loop" /\ c.left > 0
  BY <1>1 DEF Running, FlipLoad
<1>4. c.proc # Idle
  BY <1>1 DEF FlipLoad, IInv, TreeOrdered
<1>5. Climbs(t, n)
  BY <1>1, <1>3, <1>4 DEF Climbs
<1>6. n \in Calls
  BY <1>2 DEF Calls, Running
<1>7. Goto(t, n)
  BY DEF FlipLoad
<1> HIDE DEF n
<1> QED BY <1>5, <1>6, <1>7, GotoStep

LEMMA FlipStoreStep ==
  ASSUME IInv, NEW t \in Tasks, FlipStore(t)
  PROVE  IInv'
<1> DEFINE c == call[t]
           n == [c EXCEPT !.pc = "count", !.old = {}, !.seen = c.seen \cup {c.proc}]
<1>1. c \in Running /\ Climbs(t, c) /\ c.pc = "store"
  BY CallShape DEF FlipStore, IInv
<1>2. /\ n \in Running /\ n.pc = "count" /\ n.proc = c.proc /\ n.left = c.left
      /\ n.seen = c.seen \cup {c.proc}
  BY <1>1 DEF Running, Labels
<1>3. Climbs(t, n)
  BY <1>1, <1>2, TaskNumbers DEF Climbs, Running
<1>4. n \in Calls
  BY <1>2 DEF Calls, Running
<1>5. \A u \in Tasks : call'[u] = IF u = t THEN n ELSE Disturbed(t)[u]
  <2>1. /\ Disturbed(t) \in [Tasks -> Calls] /\ Disturbed(t)[t] = c
        /\ call' = [Disturbed(t) EXCEPT ![t].pc = "count", ![t].old = {},
                                        ![t].seen = c.seen \cup {c.proc}]
    BY DisturbedCalls DEF FlipStore, IInv
  <2> QED BY <2>1
<1>6. DOMAIN call' = Tasks /\ call' = [u \in Tasks |-> call'[u]]
  BY DisturbedCalls DEF FlipStore, IInv
<1> HIDE DEF n
<1>7. call' \in [Tasks -> Calls]
  <2>1. \A u \in Tasks : call'[u] \in Calls
    BY <1>4, <1>5, DisturbedCalls DEF IInv
  <2> QED BY <1>6, <2>1
<1>8. TypeOK'
  <2>1. Toggle(c.old, c.b) \in SUBSET BanKinds
    BY <1>1 DEF Toggle, Running
  <2> QED BY <1>7, <2>1 DEF FlipStore, IInv, TypeOK
<1>9. TreeOrdered'
  BY DEF FlipStore, IInv, TreeOrdered
<1>10. ASSUME NEW u \in Tasks PROVE Climbs(u, call'[u])
  BY <1>3, <1>5, DisturbedClimbs DEF IInv
<1> QED BY <1>8, <1>9, <1>10 DEF IInv

LEMMA FlipCountStep ==
  ASSUME IInv, NEW t \in Tasks, FlipCount(t)
  PROVE  IInv'
<1> DEFINE c == call[t]
           one == IF c.b \in syscall_bans[c.proc] THEN 1 ELSE 0
           n == [c EXCEPT !.pc = "loop", !.left = c.left - 1, !.count = c.count + one,
                          !.proc = real_parent[c.proc]]
<1>1. c \in Running /\ Climbs(t, c) /\ c.pc = "count"
  BY CallShape DEF FlipCount, IInv
<1>2. c.proc \in Tasks /\ c.proc # Idle /\ c.left - 1 \in Nat /\ c.count + one \in Nat
  BY <1>1 DEF Climbs, Running
<1>3. real_parent[c.proc] \in Tasks /\ real_parent[c.proc] < c.proc
  BY <1>2 DEF IInv, TypeOK, TreeOrdered
<1> HIDE DEF one
<1>4. n \in Running /\ n.pc = "loop" /\ n.proc = real_parent[c.proc] /\ n.seen = c.seen
  BY <1>1, <1>2, <1>3 DEF Running, Labels
<1>5. Climbs(t, n)
  <2>1. t \in Nat /\ c.proc \in Nat /\ real_parent[c.proc] \in Nat /\ c.seen \subseteq Nat
    BY <1>1, <1>2, <1>3, TaskNumbers DEF Running
  <2>2. /\ c.proc < t
        /\ \A u \in c.seen : u < t /\ u # Idle /\ c.proc <= u
    BY <1>1 DEF Climbs
  <2>3. /\ real_parent[c.proc] < t
        /\ \A u \in c.seen : real_parent[c.proc] < u
    BY <1>3, <2>1, <2>2
  <2> HIDE DEF n
  <2> QED BY <1>4, <2>2, <2>3 DEF Climbs
<1>6. n \in Calls
  BY <1>4 DEF Calls, Running
<1>7. Goto(t, n)
  BY DEF FlipCount, one
<1> HIDE DEF n
<1> QED BY <1>5, <1>6, <1>7, GotoStep

LEMMA FlipEndStep ==
  ASSUME IInv, NEW t \in Tasks, FlipEnd(t)
  PROVE  IInv'
<1> DEFINE c == call[t]
           n == [c EXCEPT !.pc = "return"]
<1>1. c \in Running /\ Climbs(t, c)
  BY CallShape DEF FlipEnd, IInv
<1>2. n \in Running /\ n.pc = "return" /\ n.proc = c.proc /\ n.seen = c.seen /\ c.pc = "loop"
  BY <1>1 DEF Running, Labels, FlipEnd
<1>3. Climbs(t, n)
  BY <1>1, <1>2 DEF Climbs
<1>4. n \in Calls
  BY <1>2 DEF Calls, Running
<1>5. Goto(t, n)
  BY DEF FlipEnd
<1> HIDE DEF n
<1> QED BY <1>3, <1>4, <1>5, GotoStep

LEMMA FlipReturnStep ==
  ASSUME IInv, NEW t \in Tasks, FlipReturn(t)
  PROVE  IInv'
<1>1. Goto(t, NoCall) /\ NoCall \in Calls /\ Climbs(t, NoCall)
  BY DEF FlipReturn, Calls, Climbs, NoCall
<1> QED BY <1>1, GotoStep
-----------------------------------------------------------------------------
(* No step of anybody breaks the order of the tree or turns a walk around. *)
LEMMA Step == IInv /\ [Next]_vars => IInv'
<1> SUFFICES ASSUME IInv, [Next]_vars PROVE IInv'
  OBVIOUS
<1>1. ASSUME NEW t \in Tasks, NEW keep \in BOOLEAN, Fork(t, keep) PROVE IInv'
  BY <1>1, ForkStep
<1>2. ASSUME NEW t \in Tasks, Runs(t), t # InitTask, Exit(t) PROVE IInv'
  BY <1>2, ExitStep DEF Runs
<1>3. ASSUME NEW t \in Tasks, NEW u \in Tasks, Kill(t, u) PROVE IInv'
  BY <1>3, ExitStep DEF Kill, Runs
<1>4. ASSUME NEW t \in Tasks, NEW arg \in [BanKinds -> Args], SetBan(t, arg) PROVE IInv'
  BY <1>4, SetBanStep
<1>5. ASSUME NEW t \in Tasks, NEW height \in Heights, NEW b \in BanKinds,
             FlipBegin(t, height, b)
      PROVE  IInv'
  BY <1>5, FlipBeginStep
<1>6. ASSUME NEW t \in Tasks, FlipStep(t) PROVE IInv'
  BY <1>6, FlipLoadStep, FlipStoreStep, FlipCountStep, FlipEndStep, FlipReturnStep DEF FlipStep
<1>7. CASE UNCHANGED vars
  BY <1>7 DEF vars, IInv, TypeOK, TreeOrdered, Climbs
<1> QED BY <1>1, <1>2, <1>3, <1>4, <1>5, <1>6, <1>7 DEF Next

LEMMA InductiveInvariant == Spec => []IInv
<1>1. Init => IInv
  <2> SUFFICES ASSUME Init PROVE IInv
    OBVIOUS
  <2>1. TypeOK
    BY TaskNumbers DEF Init, TypeOK, Calls
  <2>2. TreeOrdered
    BY TaskNumbers DEF Init, TreeOrdered
  <2>3. \A t \in Tasks : Climbs(t, call[t])
    BY DEF Init, NoCall, Climbs
  <2> QED BY <2>1, <2>2, <2>3 DEF IInv
<1> QED BY <1>1, Step, PTL DEF Spec

(* sys_set_ban and sys_flip_ban_branch keep every ban a known letter and   *)
(* every walk among the tasks, for any number of tasks.                    *)
THEOREM TypeCorrect == Spec => []TypeOK
BY InductiveInvariant, PTL DEF IInv

(* flip_ban_branch, whatever forks and ends around it, goes up the tree    *)
(* only: it flips no task twice, never its caller, never the idle task.    *)
THEOREM WalkClimbs == Spec => []FlipClimbs
<1>1. IInv => FlipClimbs
  BY DEF IInv, Climbs, FlipClimbs, InCall
<1> QED BY <1>1, InductiveInvariant, PTL

(* The change BansChangeFromBelow allows. *)
FromBelow(t) ==
  \/ OwnSetBan(t)
  \/ \E u \in Tasks : u > t /\ call[u].pc = "store" /\ call[u].proc = t /\ FlipStore(u)

LEMMA ChangeStep ==
  ASSUME IInv, [Next]_vars, NEW t \in alive, syscall_bans'[t] # syscall_bans[t]
  PROVE  FromBelow(t)
<1>0. t \in Tasks /\ syscall_bans \in [Tasks -> SUBSET BanKinds] /\ t <= created /\ created \in Nat
  BY TaskNumbers DEF IInv, TypeOK
<1>1. ASSUME NEW u \in Tasks, NEW keep \in BOOLEAN, Fork(u, keep) PROVE FALSE
  <2>1. t # created + 1
    BY <1>0, TaskNumbers
  <2> QED BY <1>0, <1>1, <2>1 DEF Fork
<1>2. ASSUME NEW u \in Tasks, Exit(u) PROVE FALSE
  BY <1>2 DEF Exit
<1>3. ASSUME NEW u \in Tasks, NEW arg \in [BanKinds -> Args], SetBan(u, arg) PROVE FromBelow(t)
  <2>1. t = u
    BY <1>0, <1>3 DEF SetBan
  <2> QED BY <1>0, <1>3, <2>1 DEF SetBan, OwnSetBan, FromBelow
<1>4. ASSUME NEW u \in Tasks, NEW c, Goto(u, c) PROVE FALSE
  BY <1>4 DEF Goto
<1>5. ASSUME NEW u \in Tasks, FlipStore(u) PROVE FromBelow(t)
  <2>1. call[u].proc = t /\ call[u].pc = "store"
    BY <1>0, <1>5 DEF FlipStore
  <2>2. Climbs(u, call[u])
    BY DEF IInv
  <2>3. t < u
    BY <2>1, <2>2 DEF Climbs
  <2> QED BY <1>0, <1>5, <2>1, <2>3, TaskNumbers DEF FromBelow
<1>6. ASSUME NEW u \in Tasks, FlipStep(u) PROVE FromBelow(t)
  BY <1>4, <1>5, <1>6 DEF FlipStep, FlipLoad, FlipCount, FlipEnd, FlipReturn
<1>7. ASSUME NEW u \in Tasks, NEW height \in Heights, NEW b \in BanKinds, FlipBegin(u, height, b)
      PROVE  FALSE
  BY <1>4, <1>7 DEF FlipBegin
<1>8. ASSUME NEW u \in Tasks, NEW v \in Tasks, Kill(u, v) PROVE FALSE
  BY <1>2, <1>8 DEF Kill
<1>9. CASE UNCHANGED vars
  BY <1>9 DEF vars
<1> QED BY <1>1, <1>2, <1>3, <1>6, <1>7, <1>8, <1>9 DEF Next

(* What get_ban tells a task changes only by its own set_ban, as root, or  *)
(* by a flip_ban_branch of a younger task that has come up to it.          *)
THEOREM BansOnlyFromBelow == Spec => BansChangeFromBelow
<1>1. IInv /\ [Next]_vars =>
        [\A t \in alive, b \in BanKinds : GetBan(t, b)' # GetBan(t, b) =>
           \/ OwnSetBan(t)
           \/ \E u \in Tasks : u > t /\ call[u].pc = "store" /\ call[u].proc = t /\ FlipStore(u)]_vars
  <2> SUFFICES ASSUME IInv, [Next]_vars, NEW t \in alive, NEW b \in BanKinds,
                      GetBan(t, b)' # GetBan(t, b)
               PROVE  FromBelow(t)
    BY DEF FromBelow
  <2>1. syscall_bans'[t] # syscall_bans[t]
    BY DEF GetBan
  <2> QED BY <2>1, ChangeStep
<1> QED BY <1>1, InductiveInvariant, PTL DEF Spec, BansChangeFromBelow
-----------------------------------------------------------------------------
(* Whom a walk flips *)

(* Parents of tasks alive are alive, since those of a task that ends are   *)
(* given to init.                                                          *)
AliveTree == \A v \in alive : real_parent[v] \in alive

(* The tasks a call c may come to: the ancestors the caller had, and those *)
(* who adopt.                                                              *)
Reach(c) == c.above \cup {InitTask, Idle}

(* With every task the walk may come to, it may come to the task's parent, *)
(* in a tree rp with tasks up to last; no new task is among them.          *)
Branch(c, rp, last) ==
  c.pc # "user" =>
    /\ c.proc \in Reach(c)
    /\ c.seen \subseteq c.above \cup {InitTask}
    /\ \A v \in Reach(c) : v <= last /\ rp[v] \in Reach(c)

BranchInv == AliveTree /\ \A t \in Tasks : Branch(call[t], real_parent, created)

(* The ancestors of a task are closed under parents and older than it. *)
LEMMA AncestorsClosed ==
  ASSUME IInv, NEW t \in alive
  PROVE  /\ Ancestors(t) \subseteq Tasks /\ real_parent[t] \in Ancestors(t)
         /\ \A v \in Ancestors(t) : real_parent[v] \in Ancestors(t) /\ v <= created
<1>1. /\ real_parent \in [Tasks -> Tasks] /\ t \in Tasks /\ t <= created /\ created \in Tasks
      /\ TreeOrdered
  BY DEF IInv, TypeOK
<1>2. \A v \in Tasks : real_parent[v] \in Nat /\ v \in Nat /\ real_parent[v] <= v
  <2> TAKE v \in Tasks
  <2>1. v \in Nat /\ real_parent[v] \in Nat
    BY <1>1, TaskNumbers
  <2>2. real_parent[v] = v \/ real_parent[v] < v
    BY <1>1 DEF TreeOrdered
  <2> QED BY <2>1, <2>2
<1> DEFINE O == {u \in Tasks : u <= created}
<1>3. real_parent[t] \in O /\ (\A v \in O : real_parent[v] \in O) /\ O \in SUBSET Tasks
  BY <1>1, <1>2, TaskNumbers
<1>4. Ancestors(t) \subseteq O
  <2> HIDE DEF O
  <2> QED BY <1>3 DEF Ancestors
<1>5. real_parent[t] \in Ancestors(t)
  BY <1>1 DEF Ancestors
<1>6. ASSUME NEW v \in Ancestors(t) PROVE real_parent[v] \in Ancestors(t)
  <2>1. v \in Tasks /\ real_parent[v] \in Tasks
    BY <1>1 DEF Ancestors
  <2> QED BY <2>1 DEF Ancestors
<1> QED BY <1>4, <1>5, <1>6

(* A step in which calls change only by being disturbed. *)
LEMMA BranchOther ==
  ASSUME IInv, BranchInv, NEW t \in Tasks, call' = Disturbed(t), AliveTree',
         created <= created', created \in Nat, created' \in Nat,
         \A v \in Tasks : v <= created => real_parent'[v] \in {real_parent[v], InitTask}
  PROVE  BranchInv'
<1> SUFFICES ASSUME NEW u \in Tasks, call'[u].pc # "user"
             PROVE  Branch(call'[u], real_parent', created')
  BY DEF BranchInv, Branch
<1> DEFINE c == call[u]
           d == call'[u]
<1>1. /\ d.pc = c.pc /\ c.pc # "user" /\ d.proc = c.proc /\ d.seen = c.seen /\ d.above = c.above
  BY DisturbedCalls DEF IInv
<1>2. Branch(c, real_parent, created)
  BY DEF BranchInv
<1>3. Reach(c) \subseteq Tasks /\ Reach(d) = Reach(c) /\ InitTask \in Reach(c)
  <2>1. c \in Running
    BY <1>1, CallShape DEF IInv
  <2> QED BY <1>1, <2>1, TaskNumbers DEF Reach, Running
<1>4. \A v \in Reach(c) : v <= created' /\ real_parent'[v] \in Reach(c)
  BY <1>1, <1>2, <1>3, TaskNumbers DEF Branch
<1> QED BY <1>1, <1>2, <1>3, <1>4 DEF Branch

(* A step that moves one call. *)
LEMMA BranchGoto ==
  ASSUME IInv, BranchInv, NEW t \in Tasks, NEW c, Goto(t, c), Branch(c, real_parent, created)
  PROVE  BranchInv'
<1>1. \A u \in Tasks : call'[u] = IF u = t THEN c ELSE call[u]
  BY DEF IInv, TypeOK, Goto
<1>2. UNCHANGED <<real_parent, created, alive>>
  BY DEF Goto
<1>3. AliveTree'
  BY <1>2 DEF BranchInv, AliveTree
<1>4. ASSUME NEW u \in Tasks PROVE Branch(call'[u], real_parent, created)
  BY <1>1 DEF BranchInv
<1> QED BY <1>2, <1>3, <1>4 DEF BranchInv

LEMMA BranchFork ==
  ASSUME IInv, BranchInv, NEW t \in Tasks, NEW keep \in BOOLEAN, Fork(t, keep)
  PROVE  BranchInv'
<1>1. /\ t \in alive /\ created \in Nat /\ created' = created + 1 /\ created' \in Tasks
      /\ alive' = alive \cup {created'} /\ call' = Disturbed(t)
      /\ real_parent' = [real_parent EXCEPT ![created'] = t]
      /\ real_parent \in [Tasks -> Tasks] /\ alive \subseteq Tasks
      /\ \A v \in alive : v <= created
  BY TaskNumbers DEF Fork, Runs, IInv, TypeOK
<1>2. \A v \in Tasks : v <= created => real_parent'[v] = real_parent[v]
  BY <1>1, TaskNumbers
<1>3. AliveTree'
  <2>1. \A v \in alive : real_parent'[v] \in alive
    BY <1>1, <1>2 DEF BranchInv, AliveTree
  <2>2. real_parent'[created'] \in alive
    BY <1>1
  <2> QED BY <1>1, <2>1, <2>2 DEF AliveTree
<1> QED BY <1>1, <1>2, <1>3, TaskNumbers, BranchOther

LEMMA BranchExit ==
  ASSUME IInv, BranchInv, NEW t \in Tasks, t \notin {Idle, InitTask}, Exit(t)
  PROVE  BranchInv'
<1>1. /\ call' = Disturbed(t) /\ created' = created /\ created \in Nat /\ alive' = alive \ {t}
      /\ \A v \in Tasks : real_parent'[v] = IF real_parent[v] = t /\ v \in alive
                                            THEN InitTask ELSE real_parent[v]
      /\ alive \subseteq Tasks /\ InitTask \in alive
  BY TaskNumbers DEF Exit, IInv, TypeOK
<1>2. AliveTree'
  BY <1>1 DEF BranchInv, AliveTree
<1> QED BY <1>1, <1>2, BranchOther

LEMMA BranchSetBan ==
  ASSUME IInv, BranchInv, NEW t \in Tasks, NEW arg \in [BanKinds -> Args], SetBan(t, arg)
  PROVE  BranchInv'
<1>1. call' = Disturbed(t) /\ UNCHANGED <<alive, created, real_parent>> /\ created \in Nat
  BY TaskNumbers DEF SetBan, IInv, TypeOK
<1>2. AliveTree'
  BY <1>1 DEF BranchInv, AliveTree
<1> QED BY <1>1, <1>2, BranchOther

LEMMA BranchBegin ==
  ASSUME IInv, BranchInv, NEW t \in Tasks, NEW height \in Heights, NEW b \in BanKinds,
         FlipBegin(t, height, b)
  PROVE  BranchInv'
<1> DEFINE n == [pc |-> "loop", b |-> b, left |-> height, proc |-> real_parent[t],
                 old |-> {}, count |-> 0, seen |-> {}, height |-> height,
                 before |-> syscall_bans, above |-> Ancestors(t), quiet |-> TRUE]
<1>1. Goto(t, n) /\ t \in alive
  BY DEF FlipBegin, Runs
<1>2. n.proc = real_parent[t] /\ n.seen = {} /\ n.above = Ancestors(t)
  OBVIOUS
<1> HIDE DEF n
<1>3. /\ real_parent[t] \in Ancestors(t)
      /\ \A v \in Ancestors(t) : real_parent[v] \in Ancestors(t) /\ v <= created
  BY <1>1, AncestorsClosed
<1>4. /\ real_parent[Idle] = Idle /\ real_parent[InitTask] = Idle
      /\ Idle <= created /\ InitTask <= created
  <2>1. {Idle, InitTask} \subseteq alive /\ \A v \in alive : v <= created
    BY DEF IInv, TypeOK
  <2>2. real_parent[InitTask] \in Tasks /\ real_parent[InitTask] < InitTask
    BY TaskNumbers DEF IInv, TypeOK, TreeOrdered
  <2>3. real_parent[InitTask] = Idle
    <3>1. real_parent[InitTask] \in Nat /\ InitTask = 1 /\ Idle = 0
      BY <2>2, TaskNumbers
    <3> QED BY <2>2, <3>1
  <2> QED BY <2>1, <2>3 DEF IInv, TreeOrdered
<1>5. Branch(n, real_parent, created)
  BY <1>2, <1>3, <1>4 DEF Branch, Reach
<1> QED BY <1>1, <1>5, BranchGoto

LEMMA BranchFlip ==
  ASSUME IInv, BranchInv, NEW t \in Tasks, FlipLoad(t) \/ FlipCount(t) \/ FlipEnd(t) \/ FlipReturn(t)
  PROVE  BranchInv'
<1> DEFINE c == call[t]
<1>1. Branch(c, real_parent, created)
  BY DEF BranchInv
<1>2. c.pc # "user" => c \in Running
  BY CallShape DEF IInv
<1>3. CASE FlipReturn(t)
  BY <1>3, BranchGoto DEF FlipReturn, NoCall, Branch
<1>4. ASSUME NEW n, Goto(t, n), c.pc # "user", n.seen = c.seen, n.above = c.above,
             n.proc \in {c.proc, real_parent[c.proc]}
      PROVE  BranchInv'
  <2>1. Reach(n) = Reach(c)
    BY <1>4 DEF Reach
  <2>2. Branch(n, real_parent, created)
    BY <1>1, <1>4, <2>1 DEF Branch
  <2> QED BY <1>4, <2>2, BranchGoto
<1>5. CASE FlipLoad(t)
  <2> DEFINE n == [c EXCEPT !.pc = "store", !.old = syscall_bans[c.proc]]
  <2>1. Goto(t, n) /\ c.pc # "user"
    BY <1>5 DEF FlipLoad
  <2>2. n.seen = c.seen /\ n.above = c.above /\ n.proc = c.proc
    BY <1>2, <2>1 DEF Running
  <2> HIDE DEF n
  <2> QED BY <1>4, <2>1, <2>2
<1>6. CASE FlipEnd(t)
  <2> DEFINE n == [c EXCEPT !.pc = "return"]
  <2>1. Goto(t, n) /\ c.pc # "user"
    BY <1>6 DEF FlipEnd
  <2>2. n.seen = c.seen /\ n.above = c.above /\ n.proc = c.proc
    BY <1>2, <2>1 DEF Running
  <2> HIDE DEF n
  <2> QED BY <1>4, <2>1, <2>2
<1>7. CASE FlipCount(t)
  <2> DEFINE n == [c EXCEPT !.pc = "loop", !.left = c.left - 1,
                          !.count = c.count + (IF c.b \in syscall_bans[c.proc] THEN 1 ELSE 0),
                          !.proc = real_parent[c.proc]]
  <2>1. Goto(t, n) /\ c.pc # "user"
    BY <1>7 DEF FlipCount
  <2>2. n.seen = c.seen /\ n.above = c.above /\ n.proc = real_parent[c.proc]
    BY <1>2, <2>1 DEF Running
  <2> HIDE DEF n
  <2> QED BY <1>4, <2>1, <2>2
<1> QED BY <1>3, <1>5, <1>6, <1>7

(* What a store does to the calls. *)
LEMMA StoreCalls ==
  ASSUME IInv, NEW t \in Tasks, FlipStore(t)
  PROVE  /\ call[t] \in Running
         /\ call'[t] = [call[t] EXCEPT !.pc = "count", !.old = {},
                                       !.seen = call[t].seen \cup {call[t].proc}]
         /\ \A u \in Tasks \ {t} : call'[u] = Disturbed(t)[u]
<1>1. call[t] \in Running
  BY CallShape DEF FlipStore, IInv
<1>2. /\ Disturbed(t) \in [Tasks -> Calls] /\ Disturbed(t)[t] = call[t]
      /\ call' = [Disturbed(t) EXCEPT ![t].pc = "count", ![t].old = {},
                                      ![t].seen = call[t].seen \cup {call[t].proc}]
  BY DisturbedCalls DEF FlipStore, IInv
<1> QED BY <1>1, <1>2

LEMMA BranchStore ==
  ASSUME IInv, BranchInv, NEW t \in Tasks, FlipStore(t)
  PROVE  BranchInv'
<1>1. UNCHANGED <<alive, created, real_parent>> /\ call[t].pc = "store"
  BY DEF FlipStore
<1>2. AliveTree'
  BY <1>1 DEF BranchInv, AliveTree
<1>3. Branch(call'[t], real_parent, created)
  <2> DEFINE c == call[t]
             n == call'[t]
  <2>1. c.pc # "user" /\ n.proc = c.proc /\ n.above = c.above /\ n.seen = c.seen \cup {c.proc}
    BY <1>1, StoreCalls DEF Running
  <2>2. Branch(c, real_parent, created) /\ c.proc # Idle
    BY <1>1 DEF BranchInv, IInv, Climbs
  <2>3. Reach(n) = Reach(c)
    BY <2>1 DEF Reach
  <2>4. c.proc \in c.above \cup {InitTask}
    BY <2>1, <2>2 DEF Branch, Reach
  <2> HIDE DEF n, c
  <2> QED BY <2>1, <2>2, <2>3, <2>4 DEF Branch, n
<1>4. ASSUME NEW u \in Tasks \ {t} PROVE Branch(call'[u], real_parent, created)
  <2>1. /\ call'[u].pc = call[u].pc
        /\ call[u].pc # "user" =>
             /\ call'[u].proc = call[u].proc /\ call'[u].seen = call[u].seen
             /\ call'[u].above = call[u].above
    <3>1. call'[u] = Disturbed(t)[u]
      BY StoreCalls
    <3> QED BY <3>1, DisturbedCalls DEF IInv
  <2>2. Branch(call[u], real_parent, created)
    BY DEF BranchInv
  <2> QED BY <2>1, <2>2 DEF Branch, Reach
<1> QED BY <1>1, <1>2, <1>3, <1>4 DEF BranchInv

LEMMA BranchStep == IInv /\ BranchInv /\ [Next]_vars => BranchInv'
<1> SUFFICES ASSUME IInv, BranchInv, [Next]_vars PROVE BranchInv'
  OBVIOUS
<1>1. ASSUME NEW t \in Tasks, NEW keep \in BOOLEAN, Fork(t, keep) PROVE BranchInv'
  BY <1>1, BranchFork
<1>2. ASSUME NEW t \in Tasks, Runs(t), t # InitTask, Exit(t) PROVE BranchInv'
  BY <1>2, BranchExit DEF Runs
<1>3. ASSUME NEW t \in Tasks, NEW u \in Tasks, Kill(t, u) PROVE BranchInv'
  BY <1>3, BranchExit DEF Kill, Runs
<1>4. ASSUME NEW t \in Tasks, NEW arg \in [BanKinds -> Args], SetBan(t, arg) PROVE BranchInv'
  BY <1>4, BranchSetBan
<1>5. ASSUME NEW t \in Tasks, NEW height \in Heights, NEW b \in BanKinds,
             FlipBegin(t, height, b)
      PROVE  BranchInv'
  BY <1>5, BranchBegin
<1>6. ASSUME NEW t \in Tasks, FlipStep(t) PROVE BranchInv'
  BY <1>6, BranchFlip, BranchStore DEF FlipStep
<1>7. CASE UNCHANGED vars
  BY <1>7 DEF vars, BranchInv, AliveTree
<1> QED BY <1>1, <1>2, <1>3, <1>4, <1>5, <1>6, <1>7 DEF Next

LEMMA BranchInvariant == Spec => [](IInv /\ BranchInv)
<1>1. Init => BranchInv
  <2> SUFFICES ASSUME Init PROVE BranchInv
    OBVIOUS
  <2>1. AliveTree
    BY TaskNumbers DEF Init, AliveTree
  <2>2. \A t \in Tasks : Branch(call[t], real_parent, created)
    BY DEF Init, NoCall, Branch
  <2> QED BY <2>1, <2>2 DEF BranchInv
<1> QED BY <1>1, BranchStep, InductiveInvariant, PTL DEF Spec

(* Whoever forks, ends or is given to init meanwhile, flip_ban_branch      *)
(* flips none but ancestors the caller had when it called, and init.       *)
THEOREM OnlyAncestors == Spec => []FlipsOnlyAncestors
<1>1. BranchInv => FlipsOnlyAncestors
  BY DEF BranchInv, Branch, FlipsOnlyAncestors, InCall
<1> QED BY <1>1, BranchInvariant, PTL
-----------------------------------------------------------------------------
(* What a call does that nobody interferes with *)

(* A nonempty set of naturals has a least element. *)
LEMMA LeastNatural ==
  ASSUME NEW T \in SUBSET Nat, T # {}
  PROVE  \E x \in T : \A y \in T : x <= y
<1> DEFINE R == OpToRel(<, Nat)
<1>1. IsWellFoundedOn(R, Nat)
  BY NatLessThanWellFounded
<1>2. PICK x \in T : \A y \in T : ~ (<<y, x>> \in R)
  <2> HIDE DEF R
  <2> QED BY <1>1, WFMin
<1>3. \A y \in T : ~ (y < x)
  BY <1>2 DEF OpToRel
<1> QED BY <1>3

(* Ancestor, for a given tree; and the function it is the last value of. *)
AncestorOf(rp, t, k) ==
  LET up[i \in 0..k] == IF i = 0 THEN t ELSE rp[up[i - 1]] IN up[k]

IsUp(g, rp, t, k) == g = [i \in 0..k |-> IF i = 0 THEN t ELSE rp[g[i - 1]]]

LEMMA AncestorIs ==
  ASSUME NEW rp, NEW t, NEW k
  PROVE  AncestorOf(rp, t, k) = (CHOOSE g : IsUp(g, rp, t, k))[k]
BY DEF AncestorOf, IsUp

LEMMA UpUnique ==
  ASSUME NEW rp, NEW t, NEW k \in Nat, NEW m \in 0..k, NEW g, NEW h,
         IsUp(g, rp, t, k), IsUp(h, rp, t, m)
  PROVE  h[m] = g[m]
<1> DEFINE B == {i \in 0..m : h[i] # g[i]}
<1>1. SUFFICES ASSUME B # {} PROVE FALSE
  OBVIOUS
<1>2. PICK i \in B : \A j \in B : i <= j
  <2> HIDE DEF B
  <2>1. B \in SUBSET Nat
    BY DEF B
  <2> QED BY <1>1, <2>1, LeastNatural
<1>3. i \in 0..m /\ i \in 0..k /\ h[i] # g[i]
  BY <1>2
<1>4. /\ g[i] = IF i = 0 THEN t ELSE rp[g[i - 1]]
      /\ h[i] = IF i = 0 THEN t ELSE rp[h[i - 1]]
  BY <1>3 DEF IsUp
<1>5. i # 0 /\ i - 1 \in 0..m /\ ~(i <= i - 1)
  BY <1>3, <1>4
<1>6. h[i - 1] = g[i - 1]
  BY <1>2, <1>5
<1> QED BY <1>3, <1>4, <1>5, <1>6

LEMMA UpExists ==
  ASSUME NEW rp, NEW t, NEW k \in Nat
  PROVE  \E g : IsUp(g, rp, t, k)
<1> DEFINE B == {n \in Nat : ~ \E g : IsUp(g, rp, t, n)}
<1>1. SUFFICES ASSUME B # {} PROVE FALSE
  OBVIOUS
<1>2. PICK n \in B : \A j \in B : n <= j
  <2> HIDE DEF B
  <2>1. B \in SUBSET Nat
    BY DEF B
  <2> QED BY <1>1, <2>1, LeastNatural
<1>3. n \in Nat /\ ~ \E g : IsUp(g, rp, t, n)
  BY <1>2
<1>4. n # 0
  <2> DEFINE g == [i \in 0..0 |-> t]
  <2>1. IsUp(g, rp, t, 0)
    BY DEF IsUp
  <2> QED BY <1>3, <2>1
<1>5. n - 1 \in Nat /\ n - 1 \notin B
  BY <1>2, <1>3, <1>4
<1>6. PICK g : IsUp(g, rp, t, n - 1)
  BY <1>5
<1> DEFINE h == [i \in 0..n |-> IF i < n THEN g[i] ELSE rp[g[n - 1]]]
<1>7. \A i \in 0..n-1 : g[i] = IF i = 0 THEN t ELSE rp[g[i - 1]]
  BY <1>6 DEF IsUp
<1>8. \A i \in 0..n : h[i] = IF i = 0 THEN t ELSE rp[h[i - 1]]
  <2> TAKE i \in 0..n
  <2>1. CASE i < n
    <3>1. i \in 0..n-1 /\ (i # 0 => i - 1 \in 0..n /\ i - 1 < n)
      BY <1>3, <2>1
    <3> QED BY <1>7, <2>1, <3>1
  <2>2. CASE i = n
    <3>1. n - 1 \in 0..n /\ n - 1 < n /\ ~(n < n)
      BY <1>3, <1>5
    <3> QED BY <1>4, <2>2, <3>1
  <2> QED BY <1>3, <2>1, <2>2
<1>9. IsUp(h, rp, t, n)
  BY <1>8 DEF IsUp
<1> QED BY <1>3, <1>9

(* The k-th ancestor, by steps. *)
LEMMA AncestorSteps ==
  ASSUME NEW rp, NEW t, NEW k \in Nat
  PROVE  /\ AncestorOf(rp, t, 0) = t
         /\ AncestorOf(rp, t, k + 1) = rp[AncestorOf(rp, t, k)]
<1> DEFINE it(n) == CHOOSE g : IsUp(g, rp, t, n)
<1>1. \A n \in Nat : IsUp(it(n), rp, t, n) /\ AncestorOf(rp, t, n) = it(n)[n]
  BY UpExists, AncestorIs
<1> HIDE DEF it
<1>2. it(0)[0] = t
  <2>1. IsUp(it(0), rp, t, 0) /\ 0 \in 0..0
    BY <1>1
  <2> QED BY <2>1 DEF IsUp
<1>3. k + 1 \in Nat /\ k + 1 \in 0..(k + 1) /\ k + 1 # 0 /\ (k + 1) - 1 = k /\ k \in 0..(k + 1)
  OBVIOUS
<1>4. IsUp(it(k + 1), rp, t, k + 1) /\ IsUp(it(k), rp, t, k)
  BY <1>1, <1>3
<1>5. it(k + 1)[k + 1] = rp[it(k + 1)[k]]
  BY <1>3, <1>4 DEF IsUp
<1>6. it(k)[k] = it(k + 1)[k]
  BY <1>3, <1>4, UpUnique
<1>7. AncestorOf(rp, t, 0) = t
  BY <1>1, <1>2
<1>8. AncestorOf(rp, t, k + 1) = rp[AncestorOf(rp, t, k)]
  BY <1>1, <1>3, <1>5, <1>6
<1> QED BY <1>7, <1>8

(* From the idle task on there is nobody else. *)
LEMMA AboveIdle ==
  ASSUME NEW rp, rp[Idle] = Idle, NEW t, NEW m \in Nat, AncestorOf(rp, t, m) = Idle,
         NEW k \in Nat, k >= m
  PROVE  AncestorOf(rp, t, k) = Idle
<1> DEFINE B == {n \in Nat : n >= m /\ AncestorOf(rp, t, n) # Idle}
<1>1. SUFFICES ASSUME B # {} PROVE FALSE
  OBVIOUS
<1>2. PICK n \in B : \A j \in B : n <= j
  <2> HIDE DEF B
  <2>1. B \in SUBSET Nat
    BY DEF B
  <2> QED BY <1>1, <2>1, LeastNatural
<1>3. n \in Nat /\ n > m /\ AncestorOf(rp, t, n) # Idle
  BY <1>2
<1>4. n - 1 \in Nat /\ n - 1 >= m /\ (n - 1) + 1 = n /\ n - 1 \notin B
  BY <1>2, <1>3
<1>5. AncestorOf(rp, t, n - 1) = Idle
  BY <1>4
<1>6. AncestorOf(rp, t, (n - 1) + 1) = rp[AncestorOf(rp, t, n - 1)]
  BY <1>4, AncestorSteps
<1> QED BY <1>3, <1>4, <1>5, <1>6

(* The n nearest ancestors. *)
Nearest(rp, t, n) == {AncestorOf(rp, t, k) : k \in 1..n}

LEMMA NearestSteps ==
  ASSUME NEW rp, NEW t, NEW n \in Nat
  PROVE  /\ Nearest(rp, t, 0) = {}
         /\ Nearest(rp, t, n + 1) = Nearest(rp, t, n) \cup {AncestorOf(rp, t, n + 1)}
<1>1. 1..0 = {} /\ 1..(n + 1) = (1..n) \cup {n + 1}
  OBVIOUS
<1> QED BY <1>1 DEF Nearest

(* How far a call has come: the tasks it has left behind, flipped and      *)
(* counted.                                                                *)
Passed(c) == c.height - c.left

Flipped(c) == IF c.pc = "count" THEN Passed(c) + 1 ELSE Passed(c)

Counted(c) == IF c.pc = "count" THEN c.seen \ {c.proc} ELSE c.seen

(* The bans at the beginning with those of the flipped tasks inverted. *)
Inverted(c) == [u \in Tasks |-> IF u \in c.seen THEN Toggle(c.before[u], c.b) ELSE c.before[u]]

(* What holds throughout a call t makes and nobody interferes with. *)
Alone(t, c, rp, bans, al) ==
  /\ c.left <= c.height
  /\ c.before \in [Tasks -> SUBSET BanKinds]
  /\ c.b \notin c.before[t]
  /\ c.proc = AncestorOf(rp, t, Passed(c) + 1)
  /\ c.seen = Nearest(rp, t, Flipped(c))
  /\ c.proc \in al /\ c.seen \subseteq al
  /\ bans = Inverted(c)
  /\ c.pc = "store" => c.old = bans[c.proc]
  /\ c.count = Cardinality({u \in Counted(c) : c.b \in bans[u]})
  /\ c.pc = "return" => c.left = 0 \/ c.proc = Idle

Quiet(t, c, rp, bans, al) == c.pc # "user" /\ c.quiet => Alone(t, c, rp, bans, al)

QuietInv == \A t \in Tasks : Quiet(t, call[t], real_parent, syscall_bans, alive)

(* A task that changes something from outside leaves no call quiet. *)
LEMMA QuietOther ==
  ASSUME IInv, NEW t \in Tasks, call[t].pc = "user", call' = Disturbed(t)
  PROVE  QuietInv'
<1> SUFFICES ASSUME NEW u \in Tasks, call'[u].pc # "user", call'[u].quiet
             PROVE  FALSE
  BY DEF QuietInv, Quiet
<1>1. call'[u].pc = call[u].pc /\ (call[u].pc # "user" /\ u # t => ~call'[u].quiet)
  BY DisturbedCalls DEF IInv
<1> QED BY <1>1

LEMMA QuietGoto ==
  ASSUME IInv, QuietInv, NEW t \in Tasks, NEW c, Goto(t, c),
         Quiet(t, c, real_parent, syscall_bans, alive)
  PROVE  QuietInv'
<1>1. \A u \in Tasks : call'[u] = IF u = t THEN c ELSE call[u]
  BY DEF IInv, TypeOK, Goto
<1>2. UNCHANGED <<real_parent, syscall_bans, alive>>
  BY DEF Goto
<1>3. ASSUME NEW u \in Tasks PROVE Quiet(u, call'[u], real_parent, syscall_bans, alive)
  BY <1>1 DEF QuietInv
<1> QED BY <1>2, <1>3 DEF QuietInv

LEMMA QuietBegin ==
  ASSUME IInv, BranchInv, QuietInv, NEW t \in Tasks, NEW height \in Heights, NEW b \in BanKinds,
         FlipBegin(t, height, b)
  PROVE  QuietInv'
<1> DEFINE n == [pc |-> "loop", b |-> b, left |-> height, proc |-> real_parent[t],
                 old |-> {}, count |-> 0, seen |-> {}, height |-> height,
                 before |-> syscall_bans, above |-> Ancestors(t), quiet |-> TRUE]
<1>1. Goto(t, n) /\ t \in alive /\ b \notin syscall_bans[t] /\ height \in Int
  BY BansAssumption DEF FlipBegin, Runs
<1>2. /\ n.pc = "loop" /\ n.b = b /\ n.left = height /\ n.proc = real_parent[t] /\ n.count = 0
      /\ n.seen = {} /\ n.height = height /\ n.before = syscall_bans
  OBVIOUS
<1> HIDE DEF n
<1>3. Passed(n) = 0 /\ Flipped(n) = 0 /\ Counted(n) = {}
  BY <1>1, <1>2 DEF Passed, Flipped, Counted
<1>4. n.proc = AncestorOf(real_parent, t, 0 + 1)
  BY <1>2, AncestorSteps
<1>5. n.seen = Nearest(real_parent, t, 0)
  BY <1>2, NearestSteps
<1>6. n.proc \in alive
  BY <1>1, <1>2 DEF BranchInv, AliveTree
<1>7. syscall_bans \in [Tasks -> SUBSET BanKinds] /\ syscall_bans = Inverted(n)
  BY <1>2 DEF Inverted, IInv, TypeOK
<1>8. n.count = Cardinality({u \in Counted(n) : n.b \in syscall_bans[u]})
  <2>1. {u \in Counted(n) : n.b \in syscall_bans[u]} = {}
    BY <1>3
  <2> QED BY <1>2, <2>1, FS_EmptySet
<1>9. Alone(t, n, real_parent, syscall_bans, alive)
  BY <1>1, <1>2, <1>3, <1>4, <1>5, <1>6, <1>7, <1>8 DEF Alone
<1> QED BY <1>1, <1>9, QuietGoto DEF Quiet

LEMMA QuietLoad ==
  ASSUME IInv, QuietInv, NEW t \in Tasks, FlipLoad(t)
  PROVE  QuietInv'
<1> DEFINE c == call[t]
           n == [c EXCEPT !.pc = "store", !.old = syscall_bans[c.proc]]
<1>1. c \in Running /\ c.pc = "loop" /\ Goto(t, n)
  BY CallShape DEF FlipLoad, IInv
<1>2. /\ n.pc = "store" /\ n.b = c.b /\ n.left = c.left /\ n.proc = c.proc /\ n.count = c.count
      /\ n.seen = c.seen /\ n.height = c.height /\ n.before = c.before /\ n.quiet = c.quiet
      /\ n.old = syscall_bans[c.proc]
  BY <1>1 DEF Running
<1>3. Quiet(t, c, real_parent, syscall_bans, alive)
  BY DEF QuietInv
<1> HIDE DEF c, n
<1>4. Passed(n) = Passed(c) /\ Flipped(n) = Flipped(c) /\ Counted(n) = Counted(c) /\ Inverted(n) = Inverted(c)
  BY <1>1, <1>2 DEF Passed, Flipped, Counted, Inverted
<1>5. Quiet(t, n, real_parent, syscall_bans, alive)
  BY <1>1, <1>2, <1>3, <1>4 DEF Quiet, Alone
<1> QED BY <1>1, <1>5, QuietGoto

LEMMA QuietEnd ==
  ASSUME IInv, QuietInv, NEW t \in Tasks, FlipEnd(t)
  PROVE  QuietInv'
<1> DEFINE c == call[t]
           n == [c EXCEPT !.pc = "return"]
<1>1. c \in Running /\ c.pc = "loop" /\ Goto(t, n) /\ (c.left = 0 \/ c.proc = real_parent[c.proc])
  BY CallShape DEF FlipEnd, IInv
<1>2. /\ n.pc = "return" /\ n.b = c.b /\ n.left = c.left /\ n.proc = c.proc /\ n.count = c.count
      /\ n.seen = c.seen /\ n.height = c.height /\ n.before = c.before /\ n.quiet = c.quiet
  BY <1>1 DEF Running
<1>3. Quiet(t, c, real_parent, syscall_bans, alive)
  BY DEF QuietInv
<1>4. c.left = 0 \/ c.proc = Idle
  <2>1. c.proc \in Tasks /\ c.proc \in Nat
    BY <1>1, TaskNumbers DEF Running
  <2>2. c.proc # Idle => real_parent[c.proc] < c.proc
    BY <2>1 DEF IInv, TreeOrdered
  <2> QED BY <1>1, <2>1, <2>2
<1> HIDE DEF c, n
<1>5. Passed(n) = Passed(c) /\ Flipped(n) = Flipped(c) /\ Counted(n) = Counted(c) /\ Inverted(n) = Inverted(c)
  BY <1>1, <1>2 DEF Passed, Flipped, Counted, Inverted
<1>6. Quiet(t, n, real_parent, syscall_bans, alive)
  BY <1>1, <1>2, <1>3, <1>4, <1>5 DEF Quiet, Alone
<1> QED BY <1>1, <1>6, QuietGoto

(* Counting one more. *)
LEMMA CountOneMore ==
  ASSUME NEW S, IsFiniteSet(S), NEW p \in S, NEW bans, NEW b
  PROVE  Cardinality({u \in S : b \in bans[u]})
           = Cardinality({u \in S \ {p} : b \in bans[u]}) + (IF b \in bans[p] THEN 1 ELSE 0)
<1> DEFINE A == {u \in S \ {p} : b \in bans[u]}
           D == {u \in S : b \in bans[u]}
<1>1. IsFiniteSet(A) /\ p \notin A
  <2>1. A \subseteq S /\ p \notin A
    OBVIOUS
  <2> HIDE DEF A
  <2> QED BY <2>1, FS_Subset
<1>2. Cardinality(A) \in Nat
  <2> HIDE DEF A
  <2> QED BY <1>1, FS_CardinalityType
<1>3. CASE b \in bans[p]
  <2>1. D = A \cup {p}
    BY <1>3
  <2>2. Cardinality(A \cup {p}) = Cardinality(A) + 1
    <3> HIDE DEF A
    <3> QED BY <1>1, FS_AddElement
  <2> HIDE DEF A, D
  <2>3. Cardinality(D) = Cardinality(A) + (IF b \in bans[p] THEN 1 ELSE 0)
    BY <1>3, <2>1, <2>2
  <2> QED BY <2>3 DEF A, D
<1>4. CASE b \notin bans[p]
  <2>1. D = A
    BY <1>4
  <2> HIDE DEF A, D
  <2>2. Cardinality(D) = Cardinality(A) + (IF b \in bans[p] THEN 1 ELSE 0)
    BY <1>2, <1>4, <2>1
  <2> QED BY <2>2 DEF A, D
<1> QED BY <1>3, <1>4

LEMMA QuietCount ==
  ASSUME IInv, BranchInv, QuietInv, NEW t \in Tasks, FlipCount(t)
  PROVE  QuietInv'
<1> DEFINE c == call[t]
           one == IF c.b \in syscall_bans[c.proc] THEN 1 ELSE 0
           n == [c EXCEPT !.pc = "loop", !.left = c.left - 1, !.count = c.count + one,
                          !.proc = real_parent[c.proc]]
<1>1. c \in Running /\ c.pc = "count" /\ Goto(t, n) /\ c.left > 0
  BY CallShape DEF FlipCount, IInv, Climbs
<1>2. /\ n.pc = "loop" /\ n.b = c.b /\ n.left = c.left - 1 /\ n.proc = real_parent[c.proc]
      /\ n.count = c.count + one
      /\ n.seen = c.seen /\ n.height = c.height /\ n.before = c.before /\ n.quiet = c.quiet
      /\ c.left \in Nat /\ c.height \in Nat /\ c.seen \subseteq Tasks
  BY <1>1 DEF Running
<1>3. Quiet(t, c, real_parent, syscall_bans, alive)
  BY DEF QuietInv
<1> HIDE DEF c, n
<1> SUFFICES ASSUME n.quiet PROVE Alone(t, n, real_parent, syscall_bans, alive)
  BY <1>1, QuietGoto DEF Quiet
<1>4. Alone(t, c, real_parent, syscall_bans, alive)
  BY <1>1, <1>2, <1>3 DEF Quiet
<1>5. /\ Passed(c) \in Nat /\ Passed(n) = Passed(c) + 1
      /\ Flipped(c) = Passed(c) + 1 /\ Flipped(n) = Passed(c) + 1
      /\ Counted(c) = c.seen \ {c.proc} /\ Counted(n) = c.seen /\ Inverted(n) = Inverted(c)
      /\ n.left <= n.height
  BY <1>1, <1>2, <1>4 DEF Passed, Flipped, Counted, Inverted, Alone
<1>6. c.proc = AncestorOf(real_parent, t, Passed(c) + 1) /\ c.seen = Nearest(real_parent, t, Passed(c) + 1)
  BY <1>4, <1>5 DEF Alone
<1>7. c.proc \in c.seen
  BY <1>5, <1>6, NearestSteps
<1>8. n.proc = AncestorOf(real_parent, t, Passed(n) + 1)
  <2>1. Passed(c) + 1 \in Nat
    BY <1>5
  <2>2. AncestorOf(real_parent, t, (Passed(c) + 1) + 1) = real_parent[AncestorOf(real_parent, t, Passed(c) + 1)]
    BY <2>1, AncestorSteps
  <2> QED BY <1>2, <1>5, <1>6, <2>2
<1>9. n.proc \in alive /\ n.seen \subseteq alive
  BY <1>2, <1>4 DEF Alone, BranchInv, AliveTree
<1>10. n.count = Cardinality({u \in Counted(n) : n.b \in syscall_bans[u]})
  <2>1. IsFiniteSet(c.seen)
    <3>1. IsFiniteSet(Tasks)
      BY BansAssumption, FS_Interval DEF Tasks
    <3> QED BY <1>2, <3>1, FS_Subset
  <2>2. Cardinality({u \in c.seen : c.b \in syscall_bans[u]})
           = Cardinality({u \in c.seen \ {c.proc} : c.b \in syscall_bans[u]}) + one
    BY <1>7, <2>1, CountOneMore
  <2>3. c.count = Cardinality({u \in c.seen \ {c.proc} : c.b \in syscall_bans[u]})
    BY <1>4, <1>5 DEF Alone
  <2>4. n.b = c.b /\ Counted(n) = c.seen /\ n.count = c.count + one
    BY <1>2, <1>5
  <2> HIDE DEF one
  <2> QED BY <2>2, <2>3, <2>4
<1>11. n.before \in [Tasks -> SUBSET BanKinds] /\ n.b \notin n.before[t] /\ syscall_bans = Inverted(n)
  BY <1>2, <1>4, <1>5 DEF Alone
<1> QED BY <1>2, <1>5, <1>6, <1>8, <1>9, <1>10, <1>11 DEF Alone

LEMMA QuietStore ==
  ASSUME IInv, QuietInv, NEW t \in Tasks, FlipStore(t)
  PROVE  QuietInv'
<1> DEFINE c == call[t]
           n == call'[t]
<1>1. /\ c \in Running /\ c.pc = "store" /\ UNCHANGED <<alive, real_parent>>
      /\ syscall_bans' = [syscall_bans EXCEPT ![c.proc] = Toggle(c.old, c.b)]
      /\ n = [c EXCEPT !.pc = "count", !.old = {}, !.seen = c.seen \cup {c.proc}]
  BY StoreCalls DEF FlipStore
<1>2. /\ n.pc = "count" /\ n.b = c.b /\ n.left = c.left /\ n.proc = c.proc
      /\ n.count = c.count /\ n.seen = c.seen \cup {c.proc}
      /\ n.height = c.height /\ n.before = c.before /\ n.quiet = c.quiet
      /\ c.left \in Nat /\ c.height \in Nat /\ c.seen \subseteq Tasks /\ c.proc \in Tasks
  BY <1>1 DEF Running
<1>3. Quiet(t, c, real_parent, syscall_bans, alive)
  BY DEF QuietInv
<1>4. c.proc \notin c.seen
  <2>1. c.proc # Idle /\ \A u \in c.seen : c.proc < u
    BY <1>1 DEF IInv, Climbs
  <2>2. c.proc \in Nat /\ ~(c.proc < c.proc)
    BY <1>2, TaskNumbers
  <2> QED BY <2>1, <2>2
<1>5. ASSUME NEW u \in Tasks \ {t} PROVE Quiet(u, call'[u], real_parent', syscall_bans', alive')
  <2>1. call'[u] = Disturbed(t)[u]
    BY StoreCalls
  <2> QED BY <2>1, DisturbedCalls DEF Quiet, IInv
<1>6. ASSUME n.quiet PROVE Alone(t, n, real_parent, syscall_bans', alive)
  <2> HIDE DEF c, n
  <2>1. Alone(t, c, real_parent, syscall_bans, alive)
    BY <1>1, <1>2, <1>3, <1>6 DEF Quiet
  <2>2. /\ Passed(c) \in Nat /\ Passed(n) = Passed(c) /\ Flipped(c) = Passed(c)
        /\ Flipped(n) = Passed(c) + 1 /\ Counted(c) = c.seen /\ Counted(n) = c.seen
        /\ n.left <= n.height
    BY <1>1, <1>2, <1>4, <2>1 DEF Passed, Flipped, Counted, Alone
  <2>3. n.seen = Nearest(real_parent, t, Flipped(n)) /\ n.proc = AncestorOf(real_parent, t, Passed(n) + 1)
    <3>1. /\ c.seen = Nearest(real_parent, t, Passed(c))
          /\ c.proc = AncestorOf(real_parent, t, Passed(c) + 1)
      BY <2>1, <2>2 DEF Alone
    <3> QED BY <1>2, <2>2, <3>1, NearestSteps
  <2>4. n.proc \in alive /\ n.seen \subseteq alive
    BY <1>2, <2>1 DEF Alone
  <2>5. syscall_bans = Inverted(c) /\ c.old = syscall_bans[c.proc]
    BY <1>1, <2>1 DEF Alone
  <2>6. syscall_bans' = Inverted(n)
    <3>1. syscall_bans[c.proc] = c.before[c.proc]
      BY <1>2, <1>4, <2>5 DEF Inverted
    <3>2. DOMAIN syscall_bans = Tasks /\ DOMAIN syscall_bans' = Tasks
      BY <1>1, <2>5 DEF Inverted
    <3>3. \A u \in Tasks : syscall_bans'[u] = IF u \in n.seen THEN Toggle(n.before[u], n.b) ELSE n.before[u]
      <4> TAKE u \in Tasks
      <4>1. CASE u = c.proc
        BY <1>1, <1>2, <2>5, <3>1, <3>2, <4>1
      <4>2. CASE u # c.proc
        <5>1. syscall_bans'[u] = syscall_bans[u] /\ (u \in n.seen <=> u \in c.seen)
          BY <1>1, <1>2, <3>2, <4>2
        <5>2. syscall_bans[u] = IF u \in c.seen THEN Toggle(c.before[u], c.b) ELSE c.before[u]
          BY <2>5 DEF Inverted
        <5> QED BY <1>2, <5>1, <5>2
      <4> QED BY <4>1, <4>2
    <3> DEFINE I == [u \in Tasks |-> IF u \in n.seen THEN Toggle(n.before[u], n.b) ELSE n.before[u]]
    <3>4. DOMAIN I = Tasks /\ \A u \in Tasks : I[u] = IF u \in n.seen THEN Toggle(n.before[u], n.b) ELSE n.before[u]
      OBVIOUS
    <3>5. syscall_bans' = [u \in Tasks |-> syscall_bans'[u]]
      BY <1>1, <2>5 DEF Inverted
    <3> QED BY <3>3, <3>5 DEF Inverted
  <2>7. {u \in Counted(n) : n.b \in syscall_bans'[u]} = {u \in Counted(c) : c.b \in syscall_bans[u]}
    <3>1. DOMAIN syscall_bans = Tasks
      BY <2>5 DEF Inverted
    <3>2. \A u \in c.seen : syscall_bans'[u] = syscall_bans[u]
      BY <1>1, <1>2, <1>4, <3>1
    <3> QED BY <1>2, <2>2, <3>2
  <2>8. n.count = Cardinality({u \in Counted(n) : n.b \in syscall_bans'[u]})
    BY <1>2, <2>1, <2>7 DEF Alone
  <2>9. n.before \in [Tasks -> SUBSET BanKinds] /\ n.b \notin n.before[t]
    BY <1>2, <2>1 DEF Alone
  <2> QED BY <1>2, <2>2, <2>3, <2>4, <2>6, <2>8, <2>9 DEF Alone
<1>7. Quiet(t, call'[t], real_parent', syscall_bans', alive')
  BY <1>1, <1>6 DEF Quiet
<1> QED BY <1>5, <1>7 DEF QuietInv

LEMMA QuietStep == IInv /\ BranchInv /\ QuietInv /\ [Next]_vars => QuietInv'
<1> SUFFICES ASSUME IInv, BranchInv, QuietInv, [Next]_vars PROVE QuietInv'
  OBVIOUS
<1>1. ASSUME NEW t \in Tasks, NEW keep \in BOOLEAN, Fork(t, keep) PROVE QuietInv'
  BY <1>1, QuietOther DEF Fork, Runs, InCall
<1>2. ASSUME NEW t \in Tasks, Runs(t), Exit(t) PROVE QuietInv'
  BY <1>2, QuietOther DEF Runs, Exit, InCall
<1>3. ASSUME NEW t \in Tasks, NEW u \in Tasks, Kill(t, u) PROVE QuietInv'
  BY <1>2, <1>3 DEF Kill
<1>4. ASSUME NEW t \in Tasks, NEW arg \in [BanKinds -> Args], SetBan(t, arg) PROVE QuietInv'
  BY <1>4, QuietOther DEF SetBan, Runs, InCall
<1>5. ASSUME NEW t \in Tasks, NEW height \in Heights, NEW b \in BanKinds,
             FlipBegin(t, height, b)
      PROVE  QuietInv'
  BY <1>5, QuietBegin
<1>6. ASSUME NEW t \in Tasks, FlipReturn(t) PROVE QuietInv'
  BY <1>6, QuietGoto DEF FlipReturn, NoCall, Quiet
<1>7. ASSUME NEW t \in Tasks, FlipStep(t) PROVE QuietInv'
  BY <1>6, <1>7, QuietLoad, QuietStore, QuietCount, QuietEnd DEF FlipStep
<1>8. CASE UNCHANGED vars
  BY <1>8 DEF vars, QuietInv
<1> QED BY <1>1, <1>2, <1>3, <1>4, <1>5, <1>7, <1>8 DEF Next

(* What Inverted says of the tasks below init. *)
LEMMA InvertedBelow ==
  ASSUME NEW c, NEW S, c.seen = S \ {Idle}, syscall_bans = Inverted(c)
  PROVE  /\ c.seen \ {InitTask} = S \ {Idle, InitTask}
         /\ \A u \in Tasks \ {InitTask} :
              syscall_bans[u] = IF u \in c.seen THEN Toggle(c.before[u], c.b) ELSE c.before[u]
BY DEF Inverted

LEMMA QuietInvariant == Spec => [](IInv /\ QuietInv)
<1>1. Init => QuietInv
  BY DEF Init, NoCall, QuietInv, Quiet
<1> QED BY <1>1, QuietStep, BranchInvariant, PTL DEF Spec

(* A flip_ban_branch nobody interferes with inverts the ban of exactly its *)
(* height nearest ancestors below init, for any tree and height, and       *)
(* returns how many of the tasks it flipped are banned now.                *)
THEOREM QuietFlipsExact == Spec => []QuietFlipExact
<1>1. IInv /\ QuietInv => QuietFlipExact
  <2> SUFFICES ASSUME IInv, QuietInv, NEW t \in Tasks, call[t].pc = "return", call[t].quiet
               PROVE  /\ call[t].seen \ {InitTask}
                           = {Ancestor(t, k) : k \in 1..call[t].height} \ {Idle, InitTask}
                      /\ \A u \in Tasks \ {InitTask} :
                           syscall_bans[u] = IF u \in call[t].seen THEN Toggle(call[t].before[u], call[t].b)
                                             ELSE call[t].before[u]
                      /\ call[t].count = Cardinality({u \in call[t].seen : CheckBan(t, u, call[t].b) = 1})
    BY DEF QuietFlipExact
  <2> DEFINE c == call[t]
  <2>1. /\ c \in Running /\ Alone(t, c, real_parent, syscall_bans, alive) /\ Climbs(t, c)
    BY CallShape DEF IInv, QuietInv, Quiet
  <2>2. /\ c.left \in Nat /\ c.height \in Nat /\ c.left <= c.height /\ c.b \in BanKinds
        /\ c.seen \subseteq Tasks /\ c.seen \subseteq alive /\ c.pc = "return"
    BY <2>1 DEF Running, Alone
  <2>3. \A u \in c.seen : u # Idle /\ u # t
    BY <2>1, <2>2, TaskNumbers DEF Climbs
  <2> HIDE DEF c
  <2>4. c.seen = {Ancestor(t, k) : k \in 1..c.height} \ {Idle}
    <3>1. \A k : Ancestor(t, k) = AncestorOf(real_parent, t, k)
      BY DEF Ancestor, AncestorOf
    <3>2. {Ancestor(t, k) : k \in 1..c.height} = Nearest(real_parent, t, c.height)
      BY <3>1 DEF Nearest
    <3>3. c.seen = Nearest(real_parent, t, Passed(c)) /\ Passed(c) = c.height - c.left
      BY <2>1, <2>2 DEF Alone, Flipped, Passed
    <3>4. c.left = 0 \/ c.proc = Idle
      BY <2>1, <2>2 DEF Alone
    <3>5. CASE c.left = 0
      <4>1. Passed(c) = c.height
        BY <2>2, <3>3, <3>5
      <4> QED BY <2>3, <3>2, <3>3, <4>1
    <3>6. CASE c.proc = Idle
      <4>1. AncestorOf(real_parent, t, Passed(c) + 1) = Idle /\ real_parent[Idle] = Idle
        BY <2>1, <3>6 DEF Alone, IInv, TreeOrdered
      <4>2. Passed(c) \in Nat /\ Passed(c) + 1 \in Nat /\ Passed(c) <= c.height
        BY <2>2, <3>3
      <4>3. \A k \in Nat : k >= Passed(c) + 1 => AncestorOf(real_parent, t, k) = Idle
        BY <4>1, <4>2, AboveIdle
      <4>4. \A k \in 1..c.height : k \in 1..Passed(c) \/ (k \in Nat /\ k >= Passed(c) + 1)
        BY <4>2, <2>2
      <4>5. \A k \in 1..Passed(c) : k \in 1..c.height
        BY <4>2, <2>2
      <4>6. Nearest(real_parent, t, c.height) \ {Idle} \subseteq Nearest(real_parent, t, Passed(c))
        BY <4>3, <4>4 DEF Nearest
      <4>7. Nearest(real_parent, t, Passed(c)) \subseteq Nearest(real_parent, t, c.height)
        BY <4>5 DEF Nearest
      <4> QED BY <2>3, <3>2, <3>3, <4>6, <4>7
    <3> QED BY <3>4, <3>5, <3>6
  <2>5. syscall_bans = Inverted(c)
    BY <2>1 DEF Alone
  <2>6. c.b \notin syscall_bans[t]
    <3>1. t \notin c.seen /\ c.b \notin c.before[t]
      BY <2>1, <2>3 DEF Alone
    <3> QED BY <2>5, <3>1 DEF Inverted
  <2>7. \A u \in c.seen : (CheckBan(t, u, c.b) = 1) <=> c.b \in syscall_bans[u]
    BY <2>2, <2>6 DEF CheckBan
  <2>8. {u \in c.seen : CheckBan(t, u, c.b) = 1} = {u \in Counted(c) : c.b \in syscall_bans[u]}
    BY <2>2, <2>7 DEF Counted
  <2>9. c.count = Cardinality({u \in c.seen : CheckBan(t, u, c.b) = 1})
    BY <2>1, <2>8 DEF Alone
  <2> DEFINE S == {Ancestor(t, k) : k \in 1..c.height}
  <2> HIDE DEF S
  <2>10. c.seen = S \ {Idle}
    BY <2>4 DEF S
  <2>11. /\ c.seen \ {InitTask} = S \ {Idle, InitTask}
         /\ \A u \in Tasks \ {InitTask} :
              syscall_bans[u] = IF u \in c.seen THEN Toggle(c.before[u], c.b) ELSE c.before[u]
    BY <2>5, <2>10, InvertedBelow
  <2> QED BY <2>9, <2>11 DEF c, S
<1> QED BY <1>1, QuietInvariant, PTL
=============================================================================
