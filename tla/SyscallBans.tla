---------------------------- MODULE SyscallBans ----------------------------
(***************************************************************************)
(* The system calls of hw2.c that ban processes from getpid, pipe and      *)
(* kill, run by several tasks at once.                                     *)
(*                                                                         *)
(* A task is a number, in the order of creation: 0 is the idle task, its   *)
(* own parent, and 1 is init. syscall_bans is the set of its letters.      *)
(* flip_ban_branch runs in steps: it holds the RCU read lock, which keeps  *)
(* the tasks it walks from being freed and excludes nobody. The ^= on a    *)
(* task's bans is a load and a store.                                      *)
(*                                                                         *)
(* get_ban, check_ban, getpid and pipe change nothing; what they answer is *)
(* an operator of this module.                                             *)
(***************************************************************************)
EXTENDS Integers, FiniteSets

CONSTANTS
  MaxTask,    \* highest task number
  BanKinds,   \* the letters ban_char_to_mask knows
  Args,       \* the values passed to set_ban
  Heights     \* the heights passed to flip_ban_branch

Idle == 0
InitTask == 1
Tasks == 0..MaxTask

ASSUME BansAssumption ==
  /\ MaxTask \in Nat \ {0} /\ Args \subseteq Int /\ Heights \subseteq Int
  /\ IsFiniteSet(BanKinds)

VARIABLES
  alive,        \* the tasks there are
  created,      \* the last task created
  real_parent,
  root,         \* the tasks with uid 0
  syscall_bans,
  call          \* the flip_ban_branch call of each task

vars == <<alive, created, real_parent, root, syscall_bans, call>>

(* The registers of a call. seen, above, before and quiet are history: the *)
(* tasks flipped, the ancestors of the caller and the bans when the call   *)
(* began, and whether nobody else changed anything since (before is        *)
(* forgotten when somebody did).                                           *)
NoCall == [pc |-> "user"]

InCall(t) == call[t].pc # "user"

Init ==
  /\ alive = {Idle, InitTask}
  /\ created = InitTask
  /\ real_parent = [t \in Tasks |-> Idle]
  /\ root = {Idle, InitTask}
  /\ syscall_bans = [t \in Tasks |-> {}]
  /\ call = [t \in Tasks |-> NoCall]

Toggle(S, b) == IF b \in S THEN S \ {b} ELSE S \cup {b}

(* The calls of the other tasks are not alone any more. *)
Disturbed(t) ==
  [u \in Tasks |-> IF u # t /\ InCall(u)
                 THEN [call[u] EXCEPT !.quiet = FALSE, !.before = <<>>]
                 ELSE call[u]]

(* A task that can enter a system call: not the idle task. *)
Runs(t) == t \in alive \ {Idle} /\ ~InCall(t)
-----------------------------------------------------------------------------
(* The answers of the calls that change nothing *)

Denied(t, b) == b \in syscall_bans[t]     \* getpid "g", pipe "p" and kill "k"

GetBan(t, b) ==
  IF b \notin BanKinds THEN "EINVAL" ELSE IF b \in syscall_bans[t] THEN 1 ELSE 0

CheckBan(t, pid, b) ==
  IF b \notin BanKinds THEN "EINVAL"
  ELSE IF pid \notin alive THEN "ESRCH"
  ELSE IF b \in syscall_bans[t] THEN "EPERM"
  ELSE IF b \in syscall_bans[pid] THEN 1 ELSE 0
-----------------------------------------------------------------------------
(* The kernel around the patch *)

(* The new task's task_struct is a copy. It may give up root.             *)
Fork(t, keep) ==
  LET c == created + 1
  IN  /\ Runs(t) /\ c \in Tasks
      /\ alive' = alive \cup {c} /\ created' = c
      /\ real_parent' = [real_parent EXCEPT ![c] = t]
      /\ root' = IF t \in root /\ keep THEN root \cup {c} ELSE root
      /\ syscall_bans' = [syscall_bans EXCEPT ![c] = syscall_bans[t]]
      /\ call' = Disturbed(t)

(* The children of a task that ends go to init. The task itself stays      *)
(* readable for the calls that already hold it.                            *)
Exit(t) ==
  /\ alive' = alive \ {t}
  /\ real_parent' = [c \in Tasks |-> IF real_parent[c] = t /\ c \in alive
                                     THEN InitTask ELSE real_parent[c]]
  /\ call' = Disturbed(t)
  /\ UNCHANGED <<created, root, syscall_bans>>

(* kill, unless banned from it: the target ends once it is out of the      *)
(* kernel.                                                                 *)
Kill(t, u) ==
  /\ Runs(t) /\ ~Denied(t, "k")
  /\ Runs(u) /\ u # InitTask
  /\ Exit(u)
-----------------------------------------------------------------------------
(* A variant that forgets to ask for root. *)
SetBanAnyone(t, arg) ==
  /\ Runs(t)
  /\ \A b \in BanKinds : arg[b] >= 0
  /\ syscall_bans' = [syscall_bans EXCEPT ![t] = {b \in BanKinds : arg[b] > 0}]
  /\ call' = Disturbed(t)
  /\ UNCHANGED <<alive, created, real_parent, root>>

(* set_ban. Values above one count as one; a negative one is refused       *)
(* before the caller's uid is looked at.                                   *)
SetBan(t, arg) ==
  /\ Runs(t)
  /\ \A b \in BanKinds : arg[b] >= 0
  /\ t \in root
  /\ syscall_bans' = [syscall_bans EXCEPT ![t] = {b \in BanKinds : arg[b] > 0}]
  /\ call' = Disturbed(t)
  /\ UNCHANGED <<alive, created, real_parent, root>>

-----------------------------------------------------------------------------
(* flip_ban_branch *)

Goto(t, c) ==
  /\ call' = [call EXCEPT ![t] = c]
  /\ UNCHANGED <<alive, created, real_parent, root, syscall_bans>>

(* The tasks above t: the least set with its parent and, with each task,   *)
(* the task's parent.                                                      *)
Ancestors(t) ==
  {u \in Tasks : \A S \in SUBSET Tasks :
     real_parent[t] \in S /\ (\A v \in S : real_parent[v] \in S) => u \in S}

(* A variant that takes the task created before the caller for its parent. *)
FlipBeginElsewhere(t, height, b) ==
  /\ Runs(t) /\ height > 0
  /\ b \notin syscall_bans[t]
  /\ Goto(t, [pc |-> "loop", b |-> b, left |-> height, proc |-> t - 1,
              old |-> {}, count |-> 0, seen |-> {}, height |-> height,
              before |-> syscall_bans, above |-> Ancestors(t),
              quiet |-> TRUE])

FlipBegin(t, height, b) ==
  /\ Runs(t) /\ height > 0
  /\ b \notin syscall_bans[t]
  /\ Goto(t, [pc |-> "loop", b |-> b, left |-> height, proc |-> real_parent[t],
              old |-> {}, count |-> 0, seen |-> {}, height |-> height,
              before |-> syscall_bans, above |-> Ancestors(t),
              quiet |-> TRUE])

(* A variant that does not stop at a task that is its own parent. *)
FlipLoadThroughIdle(t) ==
  LET c == call[t]
  IN  /\ c.pc = "loop" /\ c.left > 0
      /\ Goto(t, [c EXCEPT !.pc = "store", !.old = syscall_bans[c.proc]])

(* The loop condition and the test for a task that is its own parent, then *)
(* the load.                                                               *)
FlipLoad(t) ==
  LET c == call[t]
  IN  /\ c.pc = "loop"
      /\ c.left > 0 /\ c.proc # real_parent[c.proc]
      /\ Goto(t, [c EXCEPT !.pc = "store", !.old = syscall_bans[c.proc]])

FlipStore(t) ==
  LET c == call[t]
  IN  /\ c.pc = "store"
      /\ syscall_bans' = [syscall_bans EXCEPT ![c.proc] = Toggle(c.old, c.b)]
      /\ call' = [Disturbed(t) EXCEPT ![t].pc = "count", ![t].old = {},
                                      ![t].seen = c.seen \cup {c.proc}]
      /\ UNCHANGED <<alive, created, real_parent, root>>

(* A variant that counts the bans lifted. *)
FlipCountLifted(t) ==
  LET c == call[t]
  IN  /\ c.pc = "count"
      /\ Goto(t, [c EXCEPT !.pc = "loop", !.left = c.left - 1,
                          !.count = c.count + (IF c.b \in syscall_bans[c.proc] THEN 0 ELSE 1),
                          !.proc = real_parent[c.proc]])

(* A variant that stays at the same task. *)
FlipCountStays(t) ==
  LET c == call[t]
  IN  /\ c.pc = "count"
      /\ Goto(t, [c EXCEPT !.pc = "loop",
                          !.count = c.count + (IF c.b \in syscall_bans[c.proc] THEN 1 ELSE 0)])

(* Reads the bans again to count, and goes to the next task up. *)
FlipCount(t) ==
  LET c == call[t]
  IN  /\ c.pc = "count"
      /\ Goto(t, [c EXCEPT !.pc = "loop", !.left = c.left - 1,
                          !.count = c.count + (IF c.b \in syscall_bans[c.proc] THEN 1 ELSE 0),
                          !.proc = real_parent[c.proc]])

FlipEnd(t) ==
  LET c == call[t]
  IN  /\ c.pc = "loop"
      /\ c.left = 0 \/ c.proc = real_parent[c.proc]
      /\ Goto(t, [c EXCEPT !.pc = "return"])

FlipReturn(t) == call[t].pc = "return" /\ Goto(t, NoCall)

FlipStep(t) == FlipLoad(t) \/ FlipStore(t) \/ FlipCount(t) \/ FlipEnd(t) \/ FlipReturn(t)
-----------------------------------------------------------------------------
Next ==
  \/ \E t \in Tasks :
       \/ \E keep \in BOOLEAN : Fork(t, keep)
       \/ Runs(t) /\ t # InitTask /\ Exit(t)
       \/ \E u \in Tasks : Kill(t, u)
       \/ \E arg \in [BanKinds -> Args] : SetBan(t, arg)
       \/ \E height \in Heights, b \in BanKinds : FlipBegin(t, height, b)
       \/ FlipStep(t)

Spec == Init /\ [][Next]_vars

FairSpec == Spec /\ \A t \in Tasks : WF_vars(FlipStep(t))
-----------------------------------------------------------------------------
Labels == {"loop", "store", "count", "return"}

Calls ==
  {NoCall} \cup
  [pc : Labels, b : BanKinds, left : Nat, proc : Tasks, old : SUBSET BanKinds, count : Nat,
   seen : SUBSET Tasks, height : Nat, before : {<<>>} \cup [Tasks -> SUBSET BanKinds],
   above : SUBSET Tasks, quiet : BOOLEAN]

(* Type invariant: no walk leaves the tasks there are, no ban is a letter  *)
(* the masks do not know.                                                  *)
TypeOK ==
  /\ alive \subseteq Tasks /\ {Idle, InitTask} \subseteq alive
  /\ created \in Tasks /\ \A t \in alive : t <= created
  /\ real_parent \in [Tasks -> Tasks]
  /\ root \subseteq Tasks
  /\ syscall_bans \in [Tasks -> SUBSET BanKinds]
  /\ call \in [Tasks -> Calls]

(* The walk of flip_ban_branch goes up and nowhere else, whoever forks,    *)
(* ends or is given to init meanwhile: the task it is at is older than the *)
(* caller and than every task it has flipped, so it flips no task twice    *)
(* and never its own caller.                                               *)
FlipClimbs ==
  \A t \in Tasks : InCall(t) =>
    LET c == call[t]
    IN  /\ c.proc < t
        /\ \A u \in c.seen : u < t /\ u # Idle
        /\ \A u \in c.seen : IF c.pc = "count" THEN c.proc <= u ELSE c.proc < u \/ c.proc = Idle

(* The tasks flip_ban_branch flips are ancestors the caller had when it    *)
(* called, or init, which adopts the children of those that ended since.   *)
FlipsOnlyAncestors ==
  \A t \in Tasks : InCall(t) =>
    call[t].seen \subseteq call[t].above \cup {InitTask}

(* The k-th task above t, the idle task at the latest. *)
Ancestor(t, k) ==
  LET up[i \in 0..k] == IF i = 0 THEN t ELSE real_parent[up[i - 1]] IN up[k]

(* A call nobody interferes with inverts the ban of the height nearest     *)
(* ancestors below init, no other task's but perhaps init's, and returns   *)
(* for how many of the tasks it flipped check_ban would now tell the       *)
(* caller that they are banned. StopsAtInit is about init.                 *)
QuietFlipExact ==
  \A t \in Tasks : call[t].pc = "return" /\ call[t].quiet =>
    LET c == call[t]
    IN  /\ c.seen \ {InitTask} = {Ancestor(t, k) : k \in 1..c.height} \ {Idle, InitTask}
        /\ \A u \in Tasks \ {InitTask} :
             syscall_bans[u] = IF u \in c.seen THEN Toggle(c.before[u], c.b) ELSE c.before[u]
        /\ c.count = Cardinality({u \in c.seen : CheckBan(t, u, c.b) = 1})

(* The walk stops when it has reached init, as the comment in the loop     *)
(* says: the ban of init is not inverted. The code compares a task with    *)
(* its parent only, and init's parent is the idle task.                    *)
StopsAtInit == \A t \in Tasks : InCall(t) => InitTask \notin call[t].seen

(* What flip_ban_branch does to an ancestor is to invert the ban, whoever  *)
(* else changes it meanwhile. The code loads and stores it without a lock: *)
(* of two changes that meet at an ancestor one is lost.                    *)
FlipsInvert ==
  [][\A t \in Tasks : call[t].pc = "store" /\ call'[t].pc = "count" =>
       syscall_bans'[call[t].proc] = Toggle(syscall_bans[call[t].proc], call[t].b)]_vars

(* The bans of t alone are set, by a root task that is in no other call. *)
OwnSetBan(t) ==
  /\ Runs(t) /\ t \in root
  /\ \A u \in Tasks \ {t} : syscall_bans'[u] = syscall_bans[u]
  /\ UNCHANGED <<alive, created, real_parent, root>>

(* What get_ban tells a task changes only by its own set_ban, as root, or  *)
(* by the flip of a younger task that has come up to it.                   *)
BansChangeFromBelow ==
  [][\A t \in alive, b \in BanKinds : GetBan(t, b)' # GetBan(t, b) =>
       \/ OwnSetBan(t)
       \/ \E u \in Tasks : u > t /\ call[u].pc = "store" /\ call[u].proc = t /\ FlipStore(u)]_vars

(* Every flip_ban_branch returns. *)
FlipReturns == \A t \in Tasks : InCall(t) ~> ~InCall(t)
=============================================================================
