------------------------------- MODULE Smash -------------------------------
(***************************************************************************)
(* The shell of hw1-linux-basics: its jobs list, the commands that fork,   *)
(* wait for, list and signal processes, and the Ctrl-C handler.            *)
(*                                                                         *)
(* The shell is one thread; between any two of its steps a child may end   *)
(* or the handler may run on top of it. The handler cannot be interrupted  *)
(* by the shell, so it is one step. sigaction asks for SA_RESTART, so the  *)
(* handler never ends a waitpid. Children move to a process group of their *)
(* own before they exec, so the terminal's Ctrl-C reaches the shell alone. *)
(*                                                                         *)
(* A child of a redirection or a pipe that is to run a built-in command is *)
(* a fork of the shell: it works on a copy of the jobs list, and no job is *)
(* its child.                                                              *)
(***************************************************************************)
EXTENDS Integers, Sequences, SequencesExt

CONSTANTS
  Pids,       \* the process ids there are; a reaped one is used again
  Signals,    \* the signals given to the kill command, of KILL, STOP, CONT
  MaxJobId    \* bound: no background command is typed with this id in use

ASSUME SmashAssumption ==
  /\ -1 \notin Pids
  /\ Signals \subseteq {"KILL", "STOP", "CONT"}
  /\ MaxJobId \in Nat \ {0}

VARIABLES
  pc,       \* where the shell is
  cmd,      \* the line it executes
  jobs,     \* JobsList::jobs, entries of a job id and a process id
  at,       \* the iterator of removeFinishedJobs
  fg_pid,
  child,    \* the processes of this command, in the order of their waitpid
  proc,     \* the state of every process: "free" is reaped or not yet forked
  copy,     \* the jobs list of a child that runs a built-in command
  lost      \* history: first commands of pipes whose second fork failed

vars == <<pc, cmd, jobs, at, fg_pid, child, proc, copy, lost>>

(* A line. id 0 of fg is the fg without an argument, TooLong is a number   *)
(* that does not fit an int. builtin is what the child of a redirection or *)
(* a pipe executes: an external program, a built-in that begins with       *)
(* removeFinishedJobs (jobs, fg, quit kill) or kill.                       *)
TooLong == MaxJobId + 1
Ops == {"external", "background", "jobs", "fg", "kill", "quit", "quit_kill",
        "redirection", "pipe"}
Line == [op : Ops, id : 0..TooLong, sig : Signals \cup {"none"},
         builtin : {"none", "list", "kill"}]

Plain(op) == [op |-> op, id |-> 0, sig |-> "none", builtin |-> "none"]

Lines ==
  {Plain(op) : op \in Ops \ {"kill"}}
  \cup {[Plain("fg") EXCEPT !.id = i] : i \in 1..TooLong}
  \cup {[op |-> o, id |-> i, sig |-> s, builtin |-> "kill"] :
          o \in {"kill", "redirection", "pipe"}, i \in 1..TooLong, s \in Signals}
  \cup {[Plain(op) EXCEPT !.builtin = "list"] : op \in {"redirection", "pipe"}}

NoCopy == [runs |-> "none", list |-> <<>>, id |-> 0, sig |-> "none"]

(* The prompt, the command of the last line deleted. *)
NoLine == Plain("jobs")

Init ==
  /\ pc = "prompt"
  /\ cmd = NoLine
  /\ jobs = <<>>
  /\ at = 1
  /\ fg_pid = -1
  /\ child = <<>>
  /\ proc = [p \in Pids |-> "free"]
  /\ copy = [p \in Pids |-> NoCopy]
  /\ lost = {}
-----------------------------------------------------------------------------
(* The kernel's part *)

(* What a signal does to a process; an ended one is not changed. *)
Signalled(state, sig) ==
  IF state \notin {"running", "stopped"} THEN state
  ELSE CASE sig = "KILL" -> "zombie"
         [] sig = "STOP" -> "stopped"
         [] sig = "CONT" -> "running"

(* A new process; line is what it executes. *)
ForkOf(p, line) ==
  /\ proc[p] = "free"
  /\ proc' = [proc EXCEPT ![p] = "running"]
  /\ copy' = [copy EXCEPT ![p] =
       IF line.builtin = "none" THEN NoCopy
       ELSE [runs |-> line.builtin, list |-> jobs, id |-> line.id, sig |-> line.sig]]

(* A child exits by itself. *)
Exit(p) ==
  /\ proc[p] = "running"
  /\ proc' = [proc EXCEPT ![p] = "zombie"]
  /\ copy' = [copy EXCEPT ![p] = NoCopy]
  /\ UNCHANGED <<pc, cmd, jobs, at, fg_pid, child, lost>>

(* waitpid returns for a process that has ended, or that is no child any   *)
(* more.                                                                   *)
Ended(p) == proc[p] \in {"zombie", "free"}
-----------------------------------------------------------------------------
(* JobsList *)

JobPids == {jobs[i].pid : i \in DOMAIN jobs}

GetMaxJobId(list) ==
  IF list = <<>> THEN 0
  ELSE CHOOSE m \in {list[i].id : i \in DOMAIN list} :
         \A i \in DOMAIN list : list[i].id <= m

NewJobId == GetMaxJobId(jobs) + 1

(* The place of the job with this id, 0 when there is none. *)
GetJobById(list, id) == SelectInSeq(list, LAMBDA j : j.id = id)

GetLastJob(list) == GetJobById(list, GetMaxJobId(list))

(* The processes after kill(2) to some of them; the built-in command of a  *)
(* process that is killed ends with it.                                    *)
Kill(targets, sig) ==
  /\ proc' = [p \in Pids |->
                IF p \in targets THEN Signalled(proc[p], sig) ELSE proc[p]]
  /\ copy' = [p \in Pids |-> IF proc'[p] = "zombie" THEN NoCopy ELSE copy[p]]

(* The job the kill command names in a list, or nothing. *)
KillTarget(list, id) ==
  LET i == GetJobById(list, id) IN IF i = 0 THEN {} ELSE {list[i].pid}

(* One turn of the loop of removeFinishedJobs: waitpid with WNOHANG. *)
RemoveFinishedJobs ==
  /\ pc \in {"clean", "clean_again"}
  /\ at <= Len(jobs)
  /\ IF Ended(jobs[at].pid)
       THEN /\ proc' = [proc EXCEPT ![jobs[at].pid] = "free"]
            /\ jobs' = RemoveAt(jobs, at)
            /\ at' = at
       ELSE at' = at + 1 /\ UNCHANGED <<proc, jobs>>
  /\ UNCHANGED <<pc, cmd, fg_pid, child, copy, lost>>

CleanDone ==
  /\ pc \in {"clean", "clean_again"}
  /\ at > Len(jobs)
  /\ pc' = IF pc = "clean" THEN "run" ELSE "act"
  /\ at' = 1
  /\ UNCHANGED <<cmd, jobs, fg_pid, child, proc, copy, lost>>
-----------------------------------------------------------------------------
(* The shell *)

(* execute() returns, the command is deleted and the loop asks again. *)
Return == pc' = "prompt" /\ cmd' = NoLine

ReadLine ==
  /\ pc = "prompt"
  /\ \E line \in Lines :
       /\ line.op = "background" => GetMaxJobId(jobs) < MaxJobId
       /\ cmd' = line
  /\ pc' = "clean"
  /\ UNCHANGED <<jobs, at, fg_pid, child, proc, copy, lost>>

EndOfInput ==
  /\ pc = "prompt"
  /\ pc' = "exited"
  /\ UNCHANGED <<cmd, jobs, at, fg_pid, child, proc, copy, lost>>

(* fork succeeds: the child executes what is left of its line. *)
Forks(line, next) ==
  /\ \E p \in Pids : ForkOf(p, line) /\ child' = Append(child, p)
  /\ pc' = next
  /\ UNCHANGED <<cmd, jobs, at, fg_pid, lost>>

(* addJob begins with removeFinishedJobs. *)
ForkExternal ==
  /\ pc = "run" /\ cmd.op \in {"external", "background"}
  /\ Forks(cmd, IF cmd.op = "background" THEN "clean_again" ELSE "set_fg")

ForkRedirection == pc = "run" /\ cmd.op = "redirection" /\ Forks(cmd, "set_fg")

(* A pipe forks twice and sets fg_pid after that; the second command is    *)
(* always a program.                                                       *)
ForkFirst == pc = "run" /\ cmd.op = "pipe" /\ Forks(cmd, "fork_second")

ForkSecond == pc = "fork_second" /\ Forks(Plain("pipe"), "set_fg")

(* The only fork of a command, the first of a pipe or the pipe itself      *)
(* fails: the command returns.                                             *)
ForkFails ==
  /\ pc = "run" /\ cmd.op \in {"external", "background", "redirection", "pipe"}
  /\ Return
  /\ UNCHANGED <<jobs, at, fg_pid, child, proc, copy, lost>>

(* The second fork of a pipe fails: nobody waits for the first command. *)
SecondForkFails ==
  /\ pc = "fork_second"
  /\ Return
  /\ child' = <<>>
  /\ lost' = lost \cup {child[1]}
  /\ UNCHANGED <<jobs, at, fg_pid, proc, copy>>

AddJob ==
  /\ pc = "act" /\ cmd.op = "background"
  /\ jobs' = Append(jobs, [id |-> NewJobId, pid |-> child[1]])
  /\ child' = <<>>
  /\ Return
  /\ UNCHANGED <<at, fg_pid, proc, copy, lost>>

(* jobs, fg and quit kill begin with removeFinishedJobs. *)
CleanAgain ==
  /\ pc = "run" /\ cmd.op \in {"jobs", "fg", "quit_kill"}
  /\ pc' = "clean_again"
  /\ UNCHANGED <<cmd, jobs, at, fg_pid, child, proc, copy, lost>>

(* printJobsList prints and changes nothing. *)
PrintJobsList ==
  /\ pc = "act" /\ cmd.op = "jobs"
  /\ Return
  /\ UNCHANGED <<jobs, at, fg_pid, child, proc, copy, lost>>

(* Mutant: fg leaves the job in the list. *)
ForegroundKeepsJob ==
  LET i == IF cmd.id = 0 THEN GetLastJob(jobs) ELSE GetJobById(jobs, cmd.id)
  IN /\ pc = "act" /\ cmd.op = "fg" /\ cmd.id # TooLong
     /\ IF i = 0
          THEN Return /\ UNCHANGED <<jobs, child>>
          ELSE /\ child' = <<jobs[i].pid>>
               /\ jobs' = jobs
               /\ pc' = "set_fg" /\ cmd' = cmd
     /\ UNCHANGED <<at, fg_pid, proc, copy, lost>>

(* fg: the job leaves the list and becomes the process to wait for; it is  *)
(* not continued if it is stopped.                                         *)
Foreground ==
  LET i == IF cmd.id = 0 THEN GetLastJob(jobs) ELSE GetJobById(jobs, cmd.id)
  IN /\ pc = "act" /\ cmd.op = "fg" /\ cmd.id # TooLong
     /\ IF i = 0
          THEN Return /\ UNCHANGED <<jobs, child>>
          ELSE /\ child' = <<jobs[i].pid>>
               /\ jobs' = RemoveAt(jobs, i)
               /\ pc' = "set_fg" /\ cmd' = cmd
     /\ UNCHANGED <<at, fg_pid, proc, copy, lost>>

SetFg ==
  /\ pc = "set_fg"
  /\ fg_pid' = child[1]
  /\ pc' = "wait"
  /\ UNCHANGED <<cmd, jobs, at, child, proc, copy, lost>>

(* waitpid blocks until the process has ended, and reaps it. *)
Reaps(next) ==
  /\ pc = "wait"
  /\ Ended(child[1])
  /\ proc' = [proc EXCEPT ![child[1]] = "free"]
  /\ child' = Tail(child)
  /\ pc' = next
  /\ UNCHANGED <<cmd, jobs, at, fg_pid, copy, lost>>

(* Mutant: waitpid with WNOHANG. *)
WaitNoHang ==
  /\ pc = "wait" /\ cmd.op # "pipe"
  /\ proc' = [proc EXCEPT ![child[1]] = IF Ended(child[1]) THEN "free" ELSE @]
  /\ child' = <<>>
  /\ pc' = "clear_fg"
  /\ UNCHANGED <<cmd, jobs, at, fg_pid, copy, lost>>

Wait == cmd.op # "pipe" /\ Reaps("clear_fg")

(* Mutant: wait only for the process that fg_pid names. *)
WaitForFgOnly ==
  /\ pc = "wait" /\ cmd.op = "pipe" /\ fg_pid = child[1]
  /\ Reaps(IF Len(child) = 2 THEN "wait" ELSE "clear_fg")

(* A pipe waits for the first command, then for the second with fg_pid     *)
(* still naming the first.                                                 *)
WaitForBoth ==
  /\ cmd.op = "pipe"
  /\ Reaps(IF Len(child) = 2 THEN "wait" ELSE "clear_fg")

(* Mutant: fg_pid is not reset after the wait. *)
ClearFgNot ==
  /\ pc = "clear_fg"
  /\ fg_pid' = fg_pid
  /\ Return
  /\ UNCHANGED <<jobs, at, child, proc, copy, lost>>

ClearFg ==
  /\ pc = "clear_fg"
  /\ fg_pid' = -1
  /\ Return
  /\ UNCHANGED <<jobs, at, child, proc, copy, lost>>

KillCommand ==
  /\ pc = "run" /\ cmd.op = "kill" /\ cmd.id # TooLong
  /\ Kill(KillTarget(jobs, cmd.id), cmd.sig)
  /\ Return
  /\ UNCHANGED <<jobs, at, fg_pid, child, lost>>

(* stoi throws at a number that does not fit, and nobody catches: the      *)
(* shell ends.                                                             *)
StoiThrows ==
  /\ \/ pc = "run" /\ cmd.op = "kill"
     \/ pc = "act" /\ cmd.op = "fg"
  /\ cmd.id = TooLong
  /\ pc' = "exited"
  /\ UNCHANGED <<cmd, jobs, at, fg_pid, child, proc, copy, lost>>

Quit ==
  /\ pc = "run" /\ cmd.op = "quit"
  /\ pc' = "exited"
  /\ UNCHANGED <<cmd, jobs, at, fg_pid, child, proc, copy, lost>>

KillAllJobs ==
  /\ pc = "act" /\ cmd.op = "quit_kill"
  /\ Kill(JobPids, "KILL")
  /\ pc' = "exited"
  /\ UNCHANGED <<cmd, jobs, at, fg_pid, child, lost>>

(* ctrlCHandler. When kill fails, fg_pid stays. *)
CtrlC ==
  /\ pc # "exited"
  /\ IF fg_pid # -1 /\ proc[fg_pid] # "free"
       THEN Kill({fg_pid}, "KILL") /\ fg_pid' = -1
       ELSE UNCHANGED <<proc, copy, fg_pid>>
  /\ UNCHANGED <<pc, cmd, jobs, at, child, lost>>
-----------------------------------------------------------------------------
(* A built-in command in a child *)

(* removeFinishedJobs in the child: waitpid fails with ECHILD for every    *)
(* job, which counts as finished.                                          *)
ChildCleans(p) ==
  /\ proc[p] = "running" /\ copy[p].runs = "list"
  /\ copy' = [copy EXCEPT ![p].list = <<>>, ![p].runs = "exit"]
  /\ UNCHANGED <<pc, cmd, jobs, at, fg_pid, child, proc, lost>>

(* kill does not look whether its job has ended; the child ends after it,  *)
(* as it does when stoi throws.                                            *)
ChildKills(p) ==
  /\ proc[p] = "running" /\ copy[p].runs = "kill"
  /\ proc' = [q \in Pids |->
                IF q = p THEN "zombie"
                ELSE IF q \in KillTarget(copy[p].list, copy[p].id)
                THEN Signalled(proc[q], copy[p].sig) ELSE proc[q]]
  /\ copy' = [q \in Pids |-> IF proc'[q] = "zombie" THEN NoCopy ELSE copy[q]]
  /\ UNCHANGED <<pc, cmd, jobs, at, fg_pid, child, lost>>
-----------------------------------------------------------------------------
ShellStep ==
  \/ RemoveFinishedJobs \/ CleanDone
  \/ ForkExternal \/ ForkRedirection \/ ForkFirst \/ ForkSecond
  \/ ForkFails \/ SecondForkFails \/ AddJob
  \/ CleanAgain \/ PrintJobsList \/ Foreground
  \/ SetFg \/ Wait \/ WaitForBoth \/ ClearFg
  \/ KillCommand \/ StoiThrows \/ Quit \/ KillAllJobs

ChildStep(p) == Exit(p) \/ ChildCleans(p) \/ ChildKills(p)

Next ==
  \/ ReadLine \/ EndOfInput \/ ShellStep \/ CtrlC
  \/ \E p \in Pids : ChildStep(p)

Spec == Init /\ [][Next]_vars

(* The shell is scheduled, and a process that is not stopped ends. Nobody  *)
(* has to type, or to press Ctrl-C.                                        *)
FairSpec ==
  Spec /\ WF_vars(ShellStep) /\ \A p \in Pids : WF_vars(ChildStep(p))
-----------------------------------------------------------------------------
(* Properties *)

States == {"prompt", "clean", "run", "clean_again", "act", "fork_second",
           "set_fg", "wait", "clear_fg", "exited"}

(* The entries, ids and processes are of their kinds, and a command has at *)
(* most two processes.                                                     *)
TypeOK ==
  /\ pc \in States
  /\ cmd \in Line
  /\ jobs \in Seq([id : 1..MaxJobId, pid : Pids])
  /\ at \in 1..(Len(jobs) + 1)
  /\ fg_pid \in Pids \cup {-1}
  /\ child \in Seq(Pids) /\ Len(child) <= 2
  /\ proc \in [Pids -> {"free", "running", "stopped", "zombie"}]
  /\ copy \in [Pids -> [runs : {"none", "list", "kill", "exit"},
                       list : Seq([id : 1..MaxJobId, pid : Pids]),
                       id : 0..TooLong, sig : Signals \cup {"none"}]]
  /\ lost \in SUBSET Pids

(* The jobs list, the process being waited for and what fork failures left *)
(* behind name every unreaped child, each of them once, and nothing else:  *)
(* no entry outlives the waitpid that reaps its process (kill would then   *)
(* reach whoever has the id next), and no child is forgotten and stays a   *)
(* zombie, whichever of removeFinishedJobs, fg and the forking commands    *)
(* reaps it.                                                               *)
EachChildOnce ==
  /\ \A i, k \in DOMAIN jobs : jobs[i].pid = jobs[k].pid => i = k
  /\ \A i, k \in DOMAIN child : child[i] = child[k] => i = k
  /\ JobPids \cap ToSet(child) = {}
  /\ (JobPids \cup ToSet(child)) \cap lost = {}
  /\ {p \in Pids : proc[p] # "free"} = JobPids \cup ToSet(child) \cup lost

(* Ctrl-C never changes the process of a job, whatever became of the       *)
(* process that fg_pid names: background jobs survive it.                  *)
CtrlCSparesJobs ==
  [][CtrlC => \A p \in JobPids : proc'[p] = proc[p]]_vars

(* As long as the shell waits for a child that runs a built-in command,    *)
(* every process in the child's copy of the jobs list is an unreaped job:  *)
(* the kill in the child reaches the job it names.                         *)
CopyIsFresh ==
  \A p \in Pids \ lost : \A i \in DOMAIN copy[p].list :
    copy[p].list[i].pid \in JobPids

(* A command gets back to the prompt or ends the shell, unless it waits    *)
(* for a stopped process, which fg does not continue.                      *)
CommandReturns ==
  pc = "clean" ~>
    \/ pc \in {"prompt", "exited"}
    \/ pc = "wait" /\ proc[child[1]] = "stopped"
=============================================================================
