---------------------------- MODULE SmashProofs ----------------------------
(***************************************************************************)
(* Proofs about the shell's job control, for any number of processes and   *)
(* job ids and any signals.                                                *)
(***************************************************************************)
EXTENDS Smash, SequenceTheorems, WellFoundedInduction, TLAPS

Entry == [id : 1..MaxJobId, pid : Pids]
-----------------------------------------------------------------------------
(* Numbers and sequences *)

(* A nonempty set of naturals has a least element. *)
LEMMA LeastNatural ==
  ASSUME NEW T \in SUBSET Nat, T # {}
  PROVE  \E x \in T : \A y \in T : x <= y
<1> DEFINE R == OpToRel(<, Nat)
<1>1. IsWellFoundedOn(R, Nat)
  BY NatLessThanWellFounded
<1>2. PICK x \in T : \A y \in T : ~ (<<y, x>> \in R)
  <2> HIDE DEF R
  <2> QED BY <1>1, WFMin
<1>3. \A y \in T : ~ (y < x)
  BY <1>2 DEF OpToRel
<1> QED BY <1>3

(* A nonempty set of naturals with a bound has a greatest element. *)
LEMMA GreatestNatural ==
  ASSUME NEW b \in Nat, NEW T \in SUBSET (0..b), T # {}
  PROVE  \E x \in T : \A y \in T : y <= x
<1> DEFINE D == {n \in Nat : b - n \in T}
<1>1. D # {} /\ D \in SUBSET Nat
  <2>1. PICK x \in T : TRUE
    OBVIOUS
  <2>2. b - x \in Nat /\ b - (b - x) = x
    OBVIOUS
  <2> QED BY <2>2
<1>2. PICK d \in D : \A e \in D : d <= e
  <2> HIDE DEF D
  <2> QED BY <1>1, LeastNatural
<1>3. \A y \in T : b - y \in D
  OBVIOUS
<1> QED BY <1>2, <1>3

(* RemoveAt moves the later elements up by one. *)
LEMMA RemoveAtProperties ==
  ASSUME NEW S, NEW s \in Seq(S), NEW i \in 1..Len(s)
  PROVE  /\ RemoveAt(s, i) \in Seq(S)
         /\ Len(RemoveAt(s, i)) = Len(s) - 1
         /\ \A k \in 1..Len(s)-1 : RemoveAt(s, i)[k] = IF k < i THEN s[k] ELSE s[k + 1]
<1> DEFINE a == SubSeq(s, 1, i - 1)
           b == SubSeq(s, i + 1, Len(s))
<1>0. Len(s) \in Nat /\ i \in Int /\ \A k \in 1..Len(s) : s[k] \in S
  BY LenProperties, ElementOfSeq
<1>1. a \in Seq(S) /\ Len(a) = i - 1 /\ \A k \in 1..i-1 : a[k] = s[k]
  <2>1. \A k \in 1..i-1 : s[k] \in S
    BY <1>0
  <2>2. /\ a \in Seq(S) /\ Len(a) = IF 1 <= i - 1 THEN (i - 1) - 1 + 1 ELSE 0
        /\ \A k \in 1..(i-1)-1+1 : a[k] = s[1+k-1]
    BY <1>0, <2>1, SubSeqProperties
  <2> QED BY <1>0, <2>2
<1>2. b \in Seq(S) /\ Len(b) = Len(s) - i /\ \A k \in 1..Len(s)-i : b[k] = s[i + k]
  <2>1. \A k \in i+1..Len(s) : s[k] \in S
    BY <1>0
  <2>2. /\ b \in Seq(S) /\ Len(b) = IF i + 1 <= Len(s) THEN Len(s) - (i + 1) + 1 ELSE 0
        /\ \A k \in 1..Len(s)-(i+1)+1 : b[k] = s[i+1+k-1]
    BY <1>0, <2>1, SubSeqProperties
  <2> QED BY <1>0, <2>2
<1>3. RemoveAt(s, i) = a \o b
  BY DEF RemoveAt
<1> HIDE DEF a, b
<1>4. /\ a \o b \in Seq(S) /\ Len(a \o b) = Len(a) + Len(b)
      /\ \A k \in 1..Len(a)+Len(b) : (a \o b)[k] = IF k <= Len(a) THEN a[k] ELSE b[k - Len(a)]
  BY <1>1, <1>2, ConcatProperties
<1>5. ASSUME NEW k \in 1..Len(s)-1
      PROVE  RemoveAt(s, i)[k] = IF k < i THEN s[k] ELSE s[k + 1]
  <2>1. k \in 1..Len(a)+Len(b)
    BY <1>0, <1>1, <1>2
  <2>2. CASE k < i
    BY <1>0, <1>1, <1>3, <1>4, <2>1, <2>2
  <2>3. CASE k >= i
    <3>1. k - (i - 1) \in 1..Len(s)-i /\ i + (k - (i - 1)) = k + 1
      BY <1>0, <2>3
    <3> QED BY <1>0, <1>1, <1>2, <1>3, <1>4, <2>1, <2>3, <3>1
  <2> QED BY <1>0, <2>2, <2>3
<1> QED BY <1>0, <1>1, <1>2, <1>3, <1>4, <1>5

(* getJobById returns the place of an entry, or 0 for none. *)
LEMMA JobPlace ==
  ASSUME NEW list \in Seq(Entry), NEW id
  PROVE  GetJobById(list, id) \in 0..Len(list)
<1> DEFINE I == {i \in 1..Len(list) : list[i].id = id}
<1>1. GetJobById(list, id) = IF I # {} THEN Min(I) ELSE 0
  BY DEF GetJobById, SelectInSeq
<1>2. Len(list) \in Nat /\ I \in SUBSET Nat
  BY LenProperties
<1>3. I # {} => Min(I) \in I
  <2>1. I # {} => \E x \in I : \A y \in I : x <= y
    <3> HIDE DEF I
    <3> QED BY <1>2, LeastNatural
  <2> HIDE DEF I
  <2> QED BY <2>1 DEF Min
<1> QED BY <1>1, <1>2, <1>3

(* getMaxJobId returns the greatest id in use, or 0. *)
LEMMA MaxId ==
  ASSUME NEW list \in Seq(Entry)
  PROVE  /\ GetMaxJobId(list) \in 0..MaxJobId
         /\ \A i \in DOMAIN list : list[i].id <= GetMaxJobId(list)
         /\ list # <<>> => \E i \in DOMAIN list : list[i].id = GetMaxJobId(list)
<1>1. CASE list = <<>>
  BY <1>1, SmashAssumption DEF GetMaxJobId
<1>2. CASE list # <<>>
  <2> DEFINE ids == {list[i].id : i \in DOMAIN list}
  <2>1. Len(list) \in Nat \ {0} /\ DOMAIN list = 1..Len(list)
    BY <1>2, LenProperties, EmptySeq
  <2>2. \A i \in DOMAIN list : list[i].id \in 1..MaxJobId
    <3>1. \A i \in DOMAIN list : list[i] \in Entry
      BY <2>1, ElementOfSeq
    <3> QED BY <3>1 DEF Entry
  <2>3. ids # {} /\ ids \in SUBSET (0..MaxJobId)
    BY <2>1, <2>2, SmashAssumption
  <2>4. \E x \in ids : \A y \in ids : y <= x
    <3> HIDE DEF ids
    <3> QED BY <2>3, GreatestNatural, SmashAssumption
  <2>5. \E x \in ids : \A i \in DOMAIN list : list[i].id <= x
    BY <2>4
  <2>6. GetMaxJobId(list) = CHOOSE m \in ids : \A i \in DOMAIN list : list[i].id <= m
    BY <1>2 DEF GetMaxJobId
  <2>7. GetMaxJobId(list) \in ids /\ \A i \in DOMAIN list : list[i].id <= GetMaxJobId(list)
    <3> HIDE DEF ids
    <3> QED BY <2>5, <2>6
  <2> QED BY <2>3, <2>7
<1> QED BY <1>1, <1>2
-----------------------------------------------------------------------------
(* The inductive invariant *)

(* The line is one that can be typed: a background or an external command  *)
(* forks a program. A background command is typed while there is an id     *)
(* left, and nothing takes an id until it has added its job. The iterator  *)
(* lives in removeFinishedJobs.                                            *)
LineInv ==
  /\ cmd \in Lines
  /\ pc \in {"clean", "run", "clean_again", "act"} /\ cmd.op = "background" =>
       \A i \in DOMAIN jobs : jobs[i].id < MaxJobId
  /\ pc \notin {"clean", "clean_again"} => at = 1

(* Where the command has processes to wait for, and how many. *)
ChildInv ==
  /\ pc \in {"prompt", "clean", "run", "clear_fg", "exited"} => child = <<>>
  /\ pc \in {"clean_again", "act"} =>
       IF cmd.op = "background" THEN Len(child) = 1 ELSE child = <<>>
  /\ pc = "fork_second" => Len(child) = 1 /\ cmd.op = "pipe"
  /\ pc = "set_fg" => Len(child) = IF cmd.op = "pipe" THEN 2 ELSE 1
  /\ pc = "wait" => Len(child) \in 1..2 /\ (cmd.op # "pipe" => Len(child) = 1)

(* fg_pid names no job: it is set to the process of the command, and the   *)
(* list does not change before it is reset.                                *)
FgInv == fg_pid # -1 => pc \in {"wait", "clear_fg"} /\ fg_pid \notin JobPids

(* Only a process that is waited for, or was lost, executes a built-in,    *)
(* and not after it has ended; its kill has a signal.                      *)
CopyInv ==
  \A p \in Pids : copy[p] # NoCopy =>
    /\ copy[p].runs = "kill" => copy[p].sig \in Signals
    /\ proc[p] \in {"running", "stopped"}
    /\ p \in lost \/ (p \in ToSet(child) /\ pc \in {"fork_second", "set_fg", "wait"})

IInv ==
  TypeOK /\ LineInv /\ ChildInv /\ EachChildOnce /\ FgInv /\ CopyInv /\ CopyIsFresh
-----------------------------------------------------------------------------
(* What can be typed is of the type of a line. *)
LEMMA LinesAreLines ==
  /\ Lines \subseteq Line /\ NoLine \in Lines /\ NoLine.op = "jobs"
  /\ \A line \in Lines : line.op \in {"external", "background"} => line.builtin = "none"
  /\ \A line \in Lines : line.builtin = "kill" => line.sig \in Signals
<1>1. \A op \in Ops : Plain(op) \in Line
  BY SmashAssumption DEF Plain, Line, TooLong
<1>2. \A i \in 1..TooLong : [Plain("fg") EXCEPT !.id = i] \in Line
  BY SmashAssumption DEF Plain, Line, TooLong, Ops
<1>3. \A o \in {"kill", "redirection", "pipe"}, i \in 1..TooLong, sg \in Signals :
        [op |-> o, id |-> i, sig |-> sg, builtin |-> "kill"] \in Line
  BY SmashAssumption DEF Line, TooLong, Ops
<1>4. \A op \in {"redirection", "pipe"} : [Plain(op) EXCEPT !.builtin = "list"] \in Line
  BY SmashAssumption DEF Plain, Line, TooLong, Ops
<1>5. Lines \subseteq Line
  BY <1>1, <1>2, <1>3, <1>4 DEF Lines
<1>6. NoLine \in Lines /\ NoLine.op = "jobs"
  <2>1. "jobs" \in Ops \ {"kill"}
    BY DEF Ops
  <2>2. Plain("jobs") \in {Plain(op) : op \in Ops \ {"kill"}}
    BY <2>1
  <2>3. Plain("jobs") \in Lines
    BY <2>2 DEF Lines
  <2> QED BY <2>3 DEF NoLine, Plain
<1>7. ASSUME NEW line \in Lines, line.op \in {"external", "background"}
      PROVE  line.builtin = "none"
  BY <1>7 DEF Lines, Plain, Ops
<1>8. ASSUME NEW line \in Lines, line.builtin = "kill"
      PROVE  line.sig \in Signals
  BY <1>8 DEF Lines, Plain, Ops
<1> QED BY <1>5, <1>6, <1>7, <1>8

LEMMA JobsType ==
  ASSUME TypeOK
  PROVE  /\ jobs \in Seq(Entry) /\ Len(jobs) \in Nat /\ DOMAIN jobs = 1..Len(jobs)
         /\ \A i \in DOMAIN jobs : jobs[i].pid \in Pids /\ jobs[i].id \in 1..MaxJobId
         /\ child \in Seq(Pids) /\ Len(child) \in Nat /\ DOMAIN child = 1..Len(child)
         /\ \A i \in DOMAIN child : child[i] \in Pids
         /\ JobPids \subseteq Pids /\ ToSet(child) \subseteq Pids
<1>1. jobs \in Seq(Entry) /\ child \in Seq(Pids)
  BY DEF TypeOK, Entry
<1>2. /\ Len(jobs) \in Nat /\ DOMAIN jobs = 1..Len(jobs)
      /\ Len(child) \in Nat /\ DOMAIN child = 1..Len(child)
  BY <1>1, LenProperties
<1>3. (\A i \in DOMAIN jobs : jobs[i] \in Entry) /\ (\A i \in DOMAIN child : child[i] \in Pids)
  BY <1>1, <1>2, ElementOfSeq
<1>4. \A i \in DOMAIN jobs : jobs[i].pid \in Pids /\ jobs[i].id \in 1..MaxJobId
  BY <1>3 DEF Entry
<1> QED BY <1>1, <1>2, <1>3, <1>4 DEF JobPids, ToSet

(* A step of the shell that neither forks nor reaps nor signals, and       *)
(* leaves the list alone.                                                  *)
LEMMA ControlStep ==
  ASSUME IInv, UNCHANGED <<jobs, child, proc, copy, lost>>,
         pc' \in States, at' \in 1..(Len(jobs) + 1), fg_pid' \in Pids \cup {-1},
         LineInv', ChildInv', FgInv',
         pc \in {"fork_second", "set_fg", "wait"} => pc' \in {"fork_second", "set_fg", "wait"}
  PROVE  IInv'
<1>1. TypeOK'
  BY LinesAreLines DEF IInv, TypeOK, LineInv
<1>2. EachChildOnce'
  BY DEF IInv, EachChildOnce, JobPids, ToSet
<1>3. CopyIsFresh'
  BY DEF IInv, CopyIsFresh, JobPids
<1>4. CopyInv'
  BY DEF IInv, CopyInv, ToSet
<1> QED BY <1>1, <1>2, <1>3, <1>4 DEF IInv

LEMMA ReturnStep ==
  ASSUME IInv, UNCHANGED <<jobs, child, proc, copy, lost, at>>, Return,
         child = <<>>, fg_pid' = -1,
         pc \notin {"clean", "clean_again", "fork_second", "set_fg", "wait"}
  PROVE  IInv'
<1>1. pc' = "prompt" /\ cmd' = NoLine
  BY DEF Return
<1>2. at' \in 1..(Len(jobs) + 1)
  BY DEF IInv, TypeOK
<1>3. LineInv' /\ ChildInv' /\ FgInv'
  BY <1>1, LinesAreLines DEF IInv, LineInv, ChildInv, FgInv
<1> QED BY <1>1, <1>2, <1>3, ControlStep DEF States

LEMMA ReadLineStep == ASSUME IInv, ReadLine PROVE IInv'
<1>1. /\ pc = "prompt" /\ pc' = "clean" /\ cmd' \in Lines
      /\ cmd'.op = "background" => GetMaxJobId(jobs) < MaxJobId
      /\ UNCHANGED <<jobs, at, fg_pid, child, proc, copy, lost>>
  BY DEF ReadLine
<1>2. cmd'.op = "background" => \A i \in DOMAIN jobs : jobs[i].id < MaxJobId
  <2>1. GetMaxJobId(jobs) \in Nat /\ \A i \in DOMAIN jobs : jobs[i].id <= GetMaxJobId(jobs)
    BY JobsType, MaxId DEF IInv
  <2> QED BY <1>1, <2>1, JobsType, SmashAssumption DEF IInv
<1>3. LineInv' /\ ChildInv' /\ FgInv'
  BY <1>1, <1>2 DEF IInv, LineInv, ChildInv, FgInv
<1>4. at' \in 1..(Len(jobs) + 1) /\ fg_pid' \in Pids \cup {-1}
  BY <1>1 DEF IInv, TypeOK
<1> QED BY <1>1, <1>3, <1>4, ControlStep DEF States

(* Steps between the places of a command. *)
LEMMA MoveStep ==
  ASSUME IInv, EndOfInput \/ CleanDone \/ CleanAgain \/ SetFg \/ StoiThrows \/ Quit
  PROVE  IInv'
<1>1. UNCHANGED <<cmd, jobs, child, proc, copy, lost>>
  BY DEF EndOfInput, CleanDone, CleanAgain, SetFg, StoiThrows, Quit
<1>0. /\ Len(jobs) \in Nat /\ Len(child) \in Nat /\ DOMAIN child = 1..Len(child)
      /\ at \in 1..(Len(jobs) + 1) /\ fg_pid \in Pids \cup {-1}
      /\ \A i \in DOMAIN child : child[i] \in Pids
  BY JobsType DEF IInv, TypeOK
<1>2. pc' \in States /\ at' \in 1..(Len(jobs) + 1)
  BY <1>0 DEF EndOfInput, CleanDone, CleanAgain, SetFg, StoiThrows, Quit, States
<1>3. ASSUME SetFg PROVE fg_pid' \in Pids /\ fg_pid' \notin JobPids
  <2>1. 1 \in DOMAIN child
    BY <1>0, <1>3 DEF IInv, SetFg, ChildInv
  <2> QED BY <1>0, <1>3, <2>1 DEF IInv, SetFg, EachChildOnce, ToSet
<1>4. LineInv'
  BY <1>1 DEF IInv, LineInv, EndOfInput, CleanDone, CleanAgain, SetFg, StoiThrows, Quit
<1>5. ChildInv'
  BY <1>0, <1>1 DEF IInv, ChildInv, EndOfInput, CleanDone, CleanAgain, SetFg, StoiThrows, Quit
<1>6. fg_pid' \in Pids \cup {-1}
  BY <1>0, <1>3 DEF EndOfInput, CleanDone, CleanAgain, SetFg, StoiThrows, Quit
<1>7. FgInv'
  BY <1>1, <1>3 DEF IInv, FgInv, JobPids, EndOfInput, CleanDone, CleanAgain, SetFg, StoiThrows, Quit
<1>8. pc \in {"fork_second", "set_fg", "wait"} => pc' \in {"fork_second", "set_fg", "wait"}
  BY DEF EndOfInput, CleanDone, CleanAgain, SetFg, StoiThrows, Quit
<1> QED BY <1>1, <1>2, <1>4, <1>5, <1>6, <1>7, <1>8, ControlStep

LEMMA ReturningStep ==
  ASSUME IInv, ForkFails \/ PrintJobsList \/ ClearFg
  PROVE  IInv'
<1>1. UNCHANGED <<jobs, child, proc, copy, lost, at>> /\ Return
  BY DEF ForkFails, PrintJobsList, ClearFg
<1>2. /\ child = <<>> /\ fg_pid' = -1
      /\ pc \notin {"clean", "clean_again", "fork_second", "set_fg", "wait"}
  BY DEF IInv, ForkFails, PrintJobsList, ClearFg, ChildInv, FgInv
<1> QED BY <1>1, <1>2, ReturnStep
-----------------------------------------------------------------------------
(* Signals and ends of processes *)

CopyRecord ==
  [runs : {"none", "list", "kill", "exit"}, list : Seq(Entry),
   id : 0..TooLong, sig : Signals \cup {"none"}]

ProcStates == {"free", "running", "stopped", "zombie"}

LEMMA NoCopyType == NoCopy \in CopyRecord /\ NoCopy.list = <<>>
<1>1. <<>> \in Seq(Entry)
  BY EmptySeq
<1> QED BY <1>1, SmashAssumption DEF NoCopy, CopyRecord, TooLong

(* A step that reaps and forks nobody: processes end, stop or go on, and   *)
(* copies go with the processes that end.                                  *)
LEMMA ProcStep ==
  ASSUME IInv, UNCHANGED <<jobs, child, lost, at>>,
         proc' \in [Pids -> ProcStates],
         \A p \in Pids : proc'[p] = "free" <=> proc[p] = "free",
         copy' \in [Pids -> CopyRecord],
         \A p \in Pids : copy'[p] # NoCopy =>
            /\ copy[p] # NoCopy /\ proc'[p] \in {"running", "stopped"}
            /\ copy'[p].runs \in {copy[p].runs, "exit"} /\ copy'[p].sig = copy[p].sig
            /\ copy'[p].list \in {copy[p].list, <<>>},
         pc' \in States, fg_pid' \in Pids \cup {-1}, LineInv', ChildInv', FgInv',
         pc \in {"fork_second", "set_fg", "wait"} => pc' \in {"fork_second", "set_fg", "wait"}
  PROVE  IInv'
<1>1. TypeOK'
  BY LinesAreLines DEF IInv, TypeOK, LineInv, Entry, CopyRecord, ProcStates
<1>2. EachChildOnce'
  <2>1. {p \in Pids : proc'[p] # "free"} = {p \in Pids : proc[p] # "free"}
    OBVIOUS
  <2>2. JobPids' = JobPids /\ ToSet(child)' = ToSet(child)
    BY DEF JobPids, ToSet
  <2> QED BY <2>1, <2>2 DEF IInv, EachChildOnce
<1>3. CopyIsFresh'
  <2>1. \A p \in Pids : DOMAIN copy'[p].list # {} => copy'[p].list = copy[p].list
    BY NoCopyType
  <2> QED BY <2>1 DEF IInv, CopyIsFresh, JobPids
<1>4. ASSUME NEW p \in Pids, copy'[p] # NoCopy
      PROVE  /\ copy'[p].runs = "kill" => copy'[p].sig \in Signals
             /\ proc'[p] \in {"running", "stopped"}
             /\ \/ p \in lost'
                \/ p \in ToSet(child)' /\ pc' \in {"fork_second", "set_fg", "wait"}
  <2>1. copy[p] # NoCopy /\ copy'[p].runs \in {copy[p].runs, "exit"} /\ copy'[p].sig = copy[p].sig
    BY <1>4
  <2>2. /\ copy[p].runs = "kill" => copy[p].sig \in Signals
        /\ p \in lost \/ (p \in ToSet(child) /\ pc \in {"fork_second", "set_fg", "wait"})
    BY <2>1 DEF IInv, CopyInv
  <2> QED BY <1>4, <2>1, <2>2 DEF ToSet
<1> QED BY <1>1, <1>2, <1>3, <1>4 DEF IInv, CopyInv

LEMMA SignalledState ==
  ASSUME NEW state \in ProcStates, NEW sig \in {"KILL", "STOP", "CONT"}
  PROVE  /\ Signalled(state, sig) \in ProcStates
         /\ Signalled(state, sig) = "free" <=> state = "free"
         /\ state \in {"running", "stopped"} /\ Signalled(state, sig) # "zombie" =>
              Signalled(state, sig) \in {"running", "stopped"}
BY DEF Signalled, ProcStates

LEMMA ProcType ==
  ASSUME IInv
  PROVE  /\ proc \in [Pids -> ProcStates] /\ copy \in [Pids -> CopyRecord]
         /\ \A p \in Pids : copy[p] # NoCopy =>
              /\ proc[p] \in {"running", "stopped"}
              /\ copy[p].runs = "kill" => copy[p].sig \in Signals
BY DEF IInv, TypeOK, ProcStates, CopyRecord, Entry, CopyInv

LEMMA TypeFromParts ==
  ASSUME pc' \in States, cmd' \in Line, jobs' \in Seq(Entry), at' \in 1..(Len(jobs') + 1),
         fg_pid' \in Pids \cup {-1}, child' \in Seq(Pids), Len(child') <= 2,
         proc' \in [Pids -> ProcStates], copy' \in [Pids -> CopyRecord], lost' \in SUBSET Pids
  PROVE  TypeOK'
BY DEF TypeOK, Entry, ProcStates, CopyRecord

(* kill(2) to some processes. *)
LEMMA KillProcs ==
  ASSUME IInv, NEW targets, NEW sig, sig \in {"KILL", "STOP", "CONT"} \/ targets = {},
         Kill(targets, sig)
  PROVE  /\ proc' \in [Pids -> ProcStates]
         /\ \A p \in Pids : proc'[p] = "free" <=> proc[p] = "free"
         /\ copy' \in [Pids -> CopyRecord]
         /\ \A p \in Pids : copy'[p] # NoCopy =>
              /\ copy[p] # NoCopy /\ proc'[p] \in {"running", "stopped"}
              /\ copy'[p].runs \in {copy[p].runs, "exit"} /\ copy'[p].sig = copy[p].sig
              /\ copy'[p].list \in {copy[p].list, <<>>}
<1>1. \A p \in Pids : proc'[p] = IF p \in targets THEN Signalled(proc[p], sig) ELSE proc[p]
  BY DEF Kill
<1>2. \A p \in Pids : copy'[p] = IF proc'[p] = "zombie" THEN NoCopy ELSE copy[p]
  BY DEF Kill
<1>3. proc \in [Pids -> ProcStates] /\ copy \in [Pids -> CopyRecord]
  BY ProcType
<1>4. ASSUME NEW p \in Pids
      PROVE  /\ proc'[p] \in ProcStates
             /\ proc'[p] = "free" <=> proc[p] = "free"
             /\ proc[p] \in {"running", "stopped"} /\ proc'[p] # "zombie" =>
                  proc'[p] \in {"running", "stopped"}
  <2>1. CASE p \in targets
    <3>1. sig \in {"KILL", "STOP", "CONT"} /\ proc[p] \in ProcStates
      BY <1>3, <2>1
    <3> QED BY <1>1, <2>1, <3>1, SignalledState
  <2>2. CASE p \notin targets
    BY <1>1, <1>3, <2>2
  <2> QED BY <2>1, <2>2
<1>5. proc' \in [Pids -> ProcStates] /\ copy' \in [Pids -> CopyRecord]
  <2>1. \A p \in Pids : copy'[p] \in CopyRecord
    BY <1>2, <1>3, NoCopyType
  <2> QED BY <1>4, <2>1 DEF Kill
<1>6. ASSUME NEW p \in Pids, copy'[p] # NoCopy
      PROVE  copy[p] # NoCopy /\ proc'[p] \in {"running", "stopped"} /\ copy'[p] = copy[p]
  <2>1. copy'[p] = copy[p] /\ proc'[p] # "zombie"
    BY <1>2, <1>6
  <2> QED BY <1>4, <1>6, <2>1, ProcType
<1> QED BY <1>4, <1>5, <1>6

LEMMA KillCommandStep == ASSUME IInv, KillCommand PROVE IInv'
<1>1. /\ pc = "run" /\ cmd.op = "kill" /\ pc' = "prompt" /\ cmd' = NoLine
      /\ Kill(KillTarget(jobs, cmd.id), cmd.sig)
      /\ UNCHANGED <<jobs, at, fg_pid, child, lost>>
  BY DEF KillCommand, Return
<1>2. cmd.sig \in {"KILL", "STOP", "CONT"}
  <2>1. \A line \in Lines : line.op = "kill" => line.sig \in Signals
    BY DEF Lines, Plain, Ops
  <2> QED BY <1>1, <2>1, SmashAssumption DEF IInv, LineInv
<1>3. child = <<>> /\ fg_pid = -1 /\ fg_pid' = -1
  BY <1>1 DEF IInv, ChildInv, FgInv
<1>4. LineInv' /\ ChildInv' /\ FgInv'
  BY <1>1, <1>3, LinesAreLines DEF IInv, LineInv, ChildInv, FgInv
<1>5. pc' \in States
  BY <1>1 DEF States
<1> QED BY <1>1, <1>2, <1>3, <1>4, <1>5, KillProcs, ProcStep

LEMMA KillAllJobsStep == ASSUME IInv, KillAllJobs PROVE IInv'
<1>1. /\ pc = "act" /\ cmd.op = "quit_kill" /\ pc' = "exited"
      /\ Kill(JobPids, "KILL")
      /\ UNCHANGED <<cmd, jobs, at, fg_pid, child, lost>>
  BY DEF KillAllJobs
<1>2. child = <<>> /\ fg_pid = -1
  BY <1>1 DEF IInv, ChildInv, FgInv
<1>3. LineInv' /\ ChildInv' /\ FgInv'
  BY <1>1, <1>2 DEF IInv, LineInv, ChildInv, FgInv
<1>4. pc' \in States
  BY <1>1 DEF States
<1> QED BY <1>1, <1>2, <1>3, <1>4, KillProcs, ProcStep

(* The handler of Ctrl-C signals fg_pid alone. *)
LEMMA CtrlCStep == ASSUME IInv, CtrlC PROVE IInv'
<1>1. UNCHANGED <<pc, cmd, jobs, at, child, lost>>
  BY DEF CtrlC
<1>2. LineInv' /\ ChildInv' /\ pc' \in States
  BY <1>1 DEF IInv, TypeOK, LineInv, ChildInv
<1>3. CASE fg_pid # -1 /\ proc[fg_pid] # "free"
  <2>1. Kill({fg_pid}, "KILL") /\ fg_pid' = -1
    BY <1>3 DEF CtrlC
  <2>2. FgInv'
    BY <2>1 DEF FgInv
  <2> QED BY <1>1, <1>2, <2>1, <2>2, KillProcs, ProcStep
<1>4. CASE ~(fg_pid # -1 /\ proc[fg_pid] # "free")
  <2>1. UNCHANGED <<proc, copy, fg_pid>>
    BY <1>4 DEF CtrlC
  <2>2. FgInv' /\ fg_pid' \in Pids \cup {-1} /\ at' \in 1..(Len(jobs) + 1)
    BY <1>1, <2>1 DEF IInv, TypeOK, FgInv, JobPids
  <2> QED BY <1>1, <1>2, <2>1, <2>2, ControlStep
<1> QED BY <1>3, <1>4

(* What the children do by themselves. *)
LEMMA ChildProcs ==
  ASSUME IInv, NEW p \in Pids, ChildStep(p)
  PROVE  /\ proc' \in [Pids -> ProcStates]
         /\ \A q \in Pids : proc'[q] = "free" <=> proc[q] = "free"
         /\ copy' \in [Pids -> CopyRecord]
         /\ \A q \in Pids : copy'[q] # NoCopy =>
              /\ copy[q] # NoCopy /\ proc'[q] \in {"running", "stopped"}
              /\ copy'[q].runs \in {copy[q].runs, "exit"} /\ copy'[q].sig = copy[q].sig
              /\ copy'[q].list \in {copy[q].list, <<>>}
<1>0. /\ proc \in [Pids -> ProcStates] /\ copy \in [Pids -> CopyRecord]
      /\ \A q \in Pids : copy[q] # NoCopy =>
           /\ proc[q] \in {"running", "stopped"}
           /\ copy[q].runs = "kill" => copy[q].sig \in Signals
  BY ProcType
<1>1. CASE Exit(p)
  <2>1. /\ proc[p] = "running" /\ proc' = [proc EXCEPT ![p] = "zombie"]
        /\ copy' = [copy EXCEPT ![p] = NoCopy]
    BY <1>1 DEF Exit
  <2> QED BY <1>0, <2>1, NoCopyType DEF ProcStates
<1>2. CASE ChildCleans(p)
  <2>1. /\ proc[p] = "running" /\ copy[p].runs = "list" /\ proc' = proc
        /\ copy' = [copy EXCEPT ![p] = [copy[p] EXCEPT !.list = <<>>, !.runs = "exit"]]
    BY <1>0, <1>2 DEF ChildCleans
  <2>2. copy[p] # NoCopy
    BY <2>1 DEF NoCopy
  <2>3. /\ copy'[p] \in CopyRecord /\ copy'[p].runs = "exit"
        /\ copy'[p].sig = copy[p].sig /\ copy'[p].list = <<>>
    BY <1>0, <2>1, EmptySeq DEF CopyRecord
  <2>4. \A q \in Pids : q # p => copy'[q] = copy[q]
    BY <1>0, <2>1
  <2>5. copy' \in [Pids -> CopyRecord]
    BY <1>0, <2>1, <2>3, <2>4
  <2> QED BY <1>0, <2>1, <2>2, <2>3, <2>4, <2>5
<1>3. CASE ChildKills(p)
  <2> DEFINE T == KillTarget(copy[p].list, copy[p].id)
  <2>1. /\ proc[p] = "running" /\ copy[p].runs = "kill"
        /\ \A q \in Pids : proc'[q] = IF q = p THEN "zombie"
                                      ELSE IF q \in T THEN Signalled(proc[q], copy[p].sig)
                                      ELSE proc[q]
        /\ \A q \in Pids : copy'[q] = IF proc'[q] = "zombie" THEN NoCopy ELSE copy[q]
    BY <1>3 DEF ChildKills
  <2> HIDE DEF T
  <2>2. copy[p].sig \in {"KILL", "STOP", "CONT"}
    <3>1. copy[p] # NoCopy
      BY <2>1 DEF NoCopy
    <3> QED BY <1>0, <2>1, <3>1, SmashAssumption
  <2>3. \A q \in Pids :
          /\ proc'[q] \in ProcStates
          /\ proc'[q] = "free" <=> proc[q] = "free"
          /\ proc[q] \in {"running", "stopped"} /\ proc'[q] # "zombie" =>
               proc'[q] \in {"running", "stopped"}
    <3> TAKE q \in Pids
    <3>1. CASE q = p
      BY <2>1, <3>1 DEF ProcStates
    <3>2. CASE q # p /\ q \in T
      <4>1. proc[q] \in ProcStates /\ proc'[q] = Signalled(proc[q], copy[p].sig)
        BY <1>0, <2>1, <3>2
      <4> QED BY <2>2, <4>1, SignalledState
    <3>3. CASE q # p /\ q \notin T
      BY <1>0, <2>1, <3>3
    <3> QED BY <3>1, <3>2, <3>3
  <2>4. \A q \in Pids : copy'[q] # NoCopy => copy'[q] = copy[q] /\ proc'[q] # "zombie"
    BY <2>1
  <2>5. \A q \in Pids : copy'[q] \in CopyRecord
    BY <1>0, <2>4, NoCopyType
  <2>6. proc' \in [Pids -> ProcStates] /\ copy' \in [Pids -> CopyRecord]
    BY <1>3, <2>3, <2>5 DEF ChildKills
  <2> QED BY <1>0, <2>3, <2>4, <2>6
<1> QED BY <1>1, <1>2, <1>3 DEF ChildStep

LEMMA ChildrenStep == ASSUME IInv, NEW p \in Pids, ChildStep(p) PROVE IInv'
<1>1. UNCHANGED <<pc, cmd, jobs, at, fg_pid, child, lost>>
  BY DEF ChildStep, Exit, ChildCleans, ChildKills
<1>2. LineInv' /\ ChildInv' /\ FgInv' /\ pc' \in States /\ fg_pid' \in Pids \cup {-1}
  BY <1>1 DEF IInv, TypeOK, LineInv, ChildInv, FgInv, JobPids
<1> QED BY <1>1, <1>2, ChildProcs, ProcStep
-----------------------------------------------------------------------------
(* Forks *)

(* A new process joins those of the command. It may execute a built-in     *)
(* only if the shell is going to wait for it.                              *)
LEMMA ForkStep ==
  ASSUME IInv, NEW line \in Lines, NEW next \in States, Forks(line, next),
         pc \in {"run", "fork_second"},
         line.builtin = "none" \/ next \in {"fork_second", "set_fg"},
         pc = "fork_second" => next = "set_fg",
         Len(child') = Len(child) + 1 => ChildInv', LineInv'
  PROVE  IInv'
<1>1. PICK p \in Pids :
        /\ proc[p] = "free" /\ proc' = [proc EXCEPT ![p] = "running"]
        /\ copy' = [copy EXCEPT ![p] =
             IF line.builtin = "none" THEN NoCopy
             ELSE [runs |-> line.builtin, list |-> jobs, id |-> line.id, sig |-> line.sig]]
        /\ child' = Append(child, p)
        /\ pc' = next /\ UNCHANGED <<cmd, jobs, at, fg_pid, lost>>
  BY DEF Forks, ForkOf
<1> DEFINE new == IF line.builtin = "none" THEN NoCopy
                  ELSE [runs |-> line.builtin, list |-> jobs, id |-> line.id, sig |-> line.sig]
<1>2. /\ jobs \in Seq(Entry) /\ child \in Seq(Pids) /\ Len(child) \in Nat
      /\ DOMAIN child = 1..Len(child) /\ \A i \in DOMAIN jobs : jobs[i].pid \in JobPids
  BY JobsType DEF IInv, JobPids
<1>3. proc \in [Pids -> ProcStates] /\ copy \in [Pids -> CopyRecord]
  BY ProcType
<1>4. /\ new \in CopyRecord
      /\ new.list \in {<<>>, jobs} /\ (new.runs = "kill" => new.sig \in Signals)
  <2>1. line \in Line /\ (line.builtin = "kill" => line.sig \in Signals)
    BY LinesAreLines
  <2>2. CASE line.builtin = "none"
    BY <2>2, NoCopyType DEF NoCopy
  <2>3. CASE line.builtin # "none"
    BY <1>2, <2>1, <2>3 DEF Line, CopyRecord
  <2> QED BY <2>2, <2>3
<1>5. /\ proc' \in [Pids -> ProcStates] /\ proc'[p] = "running"
      /\ \A q \in Pids \ {p} : proc'[q] = proc[q]
  BY <1>1, <1>3 DEF ProcStates
<1>6. /\ copy' \in [Pids -> CopyRecord] /\ copy'[p] = new
      /\ \A q \in Pids \ {p} : copy'[q] = copy[q]
  BY <1>1, <1>3, <1>4
<1> HIDE DEF new
<1>7. /\ child' \in Seq(Pids) /\ Len(child') = Len(child) + 1 /\ child'[Len(child) + 1] = p
      /\ \A i \in 1..Len(child) : child'[i] = child[i]
      /\ DOMAIN child' = 1..Len(child)+1
  BY <1>1, <1>2, AppendProperties
<1>8. ToSet(child') = ToSet(child) \cup {p}
  BY <1>2, <1>7 DEF ToSet
<1>9. p \notin JobPids /\ p \notin ToSet(child) /\ p \notin lost
  BY <1>1 DEF IInv, EachChildOnce
<1>10. ChildInv'
  BY <1>7
<1>11. TypeOK'
  <2>1. Len(child') <= 2
    BY <1>2, <1>7 DEF IInv, ChildInv, EmptySeq
  <2> QED BY <1>1, <1>5, <1>6, <1>7, <2>1 DEF IInv, TypeOK, Entry, CopyRecord, ProcStates
<1>12. EachChildOnce'
  <2>1. JobPids' = JobPids /\ UNCHANGED <<jobs, lost>>
    BY <1>1 DEF JobPids
  <2>2. \A i, k \in DOMAIN child' : child'[i] = child'[k] => i = k
    <3>1. \A i, k \in 1..Len(child) : child[i] = child[k] => i = k
      BY <1>2 DEF IInv, EachChildOnce
    <3>2. \A i \in 1..Len(child) : child[i] # p
      BY <1>2, <1>9 DEF ToSet
    <3> QED BY <1>2, <1>7, <3>1, <3>2
  <2>3. {q \in Pids : proc'[q] # "free"} = {q \in Pids : proc[q] # "free"} \cup {p}
    BY <1>5
  <2> QED BY <1>8, <1>9, <2>1, <2>2, <2>3 DEF IInv, EachChildOnce
<1>13. FgInv'
  BY <1>1 DEF IInv, FgInv, Forks, States, JobPids
<1>14. CopyInv'
  <2>1. ASSUME NEW q \in Pids, copy'[q] # NoCopy, q # p
        PROVE  /\ copy'[q].runs = "kill" => copy'[q].sig \in Signals
               /\ proc'[q] \in {"running", "stopped"}
               /\ q \in lost \/ (q \in ToSet(child) /\ next = "set_fg")
    <3>1. copy'[q] = copy[q] /\ proc'[q] = proc[q] /\ copy[q] # NoCopy
      BY <1>5, <1>6, <2>1
    <3> QED BY <3>1 DEF IInv, CopyInv
  <2>2. copy'[p] # NoCopy => next \in {"fork_second", "set_fg"}
    BY <1>6 DEF new
  <2>3. ASSUME NEW q \in Pids, copy'[q] # NoCopy
        PROVE  /\ copy'[q].runs = "kill" => copy'[q].sig \in Signals
               /\ proc'[q] \in {"running", "stopped"}
               /\ q \in lost' \/ (q \in ToSet(child') /\ pc' \in {"fork_second", "set_fg", "wait"})
    <3>1. CASE q = p
      BY <1>1, <1>4, <1>5, <1>6, <1>8, <2>2, <2>3, <3>1
    <3>2. CASE q # p
      BY <1>1, <1>8, <2>1, <2>3, <3>2
    <3> QED BY <3>1, <3>2
  <2> QED BY <2>3 DEF CopyInv
<1>15. CopyIsFresh'
  <2>1. JobPids' = JobPids
    BY <1>1 DEF JobPids
  <2>2. ASSUME NEW q \in Pids \ lost', NEW i \in DOMAIN copy'[q].list
        PROVE  copy'[q].list[i].pid \in JobPids
    <3>1. CASE q = p
      BY <1>2, <1>4, <1>6, <2>2, <3>1
    <3>2. CASE q # p
      BY <1>1, <1>6, <2>2, <3>2 DEF IInv, CopyIsFresh
    <3> QED BY <3>1, <3>2
  <2> QED BY <2>1, <2>2 DEF CopyIsFresh
<1> QED BY <1>10, <1>11, <1>12, <1>13, <1>14, <1>15 DEF IInv

LEMMA ForkingStep ==
  ASSUME IInv, ForkExternal \/ ForkRedirection \/ ForkFirst \/ ForkSecond
  PROVE  IInv'
<1>1. Len(child) \in Nat /\ Len(<<>>) = 0
  BY JobsType DEF IInv
<1>2. cmd \in Lines
  BY DEF IInv, LineInv
<1>3. CASE ForkExternal
  <2> DEFINE next == IF cmd.op = "background" THEN "clean_again" ELSE "set_fg"
  <2>1. /\ pc = "run" /\ cmd.op \in {"external", "background"} /\ Forks(cmd, next)
        /\ pc' = next /\ next \in States /\ UNCHANGED <<cmd, jobs, at, fg_pid>>
    BY <1>3 DEF ForkExternal, Forks, States
  <2>2. cmd.builtin = "none"
    BY <1>2, <2>1, LinesAreLines
  <2>3. LineInv'
    BY <2>1 DEF IInv, LineInv
  <2>4. Len(child') = Len(child) + 1 => ChildInv'
    BY <1>1, <2>1 DEF IInv, ChildInv
  <2> HIDE DEF next
  <2> QED BY <1>2, <2>1, <2>2, <2>3, <2>4, ForkStep
<1>4. CASE ForkRedirection
  <2>1. /\ pc = "run" /\ cmd.op = "redirection" /\ Forks(cmd, "set_fg")
        /\ pc' = "set_fg" /\ "set_fg" \in States /\ UNCHANGED <<cmd, jobs, at, fg_pid>>
    BY <1>4 DEF ForkRedirection, Forks, States
  <2>2. LineInv'
    BY <2>1 DEF IInv, LineInv
  <2>3. Len(child') = Len(child) + 1 => ChildInv'
    BY <1>1, <2>1 DEF IInv, ChildInv
  <2> QED BY <1>2, <2>1, <2>2, <2>3, ForkStep
<1>5. CASE ForkFirst
  <2>1. /\ pc = "run" /\ cmd.op = "pipe" /\ Forks(cmd, "fork_second")
        /\ pc' = "fork_second" /\ "fork_second" \in States /\ UNCHANGED <<cmd, jobs, at, fg_pid>>
    BY <1>5 DEF ForkFirst, Forks, States
  <2>2. LineInv'
    BY <2>1 DEF IInv, LineInv
  <2>3. Len(child') = Len(child) + 1 => ChildInv'
    BY <1>1, <2>1 DEF IInv, ChildInv
  <2> QED BY <1>2, <2>1, <2>2, <2>3, ForkStep
<1>6. CASE ForkSecond
  <2>1. /\ pc = "fork_second" /\ Forks(Plain("pipe"), "set_fg")
        /\ pc' = "set_fg" /\ "set_fg" \in States /\ UNCHANGED <<cmd, jobs, at, fg_pid>>
    BY <1>6 DEF ForkSecond, Forks, States
  <2>2. LineInv'
    BY <2>1 DEF IInv, LineInv
  <2>3. ASSUME Len(child') = Len(child) + 1 PROVE ChildInv'
    <3>1. Len(child) = 1 /\ cmd.op = "pipe"
      BY <2>1 DEF IInv, ChildInv
    <3>2. Len(child') = 2 /\ cmd'.op = "pipe" /\ pc' = "set_fg"
      BY <2>1, <2>3, <3>1
    <3> QED BY <3>2 DEF ChildInv
  <2>4. Plain("pipe") \in Lines /\ Plain("pipe").builtin = "none"
    <3>1. Plain("pipe") \in {Plain(op) : op \in Ops \ {"kill"}}
      BY DEF Ops
    <3> QED BY <3>1 DEF Lines, Plain
  <2> QED BY <2>1, <2>2, <2>3, <2>4, ForkStep
<1> QED BY <1>3, <1>4, <1>5, <1>6
-----------------------------------------------------------------------------
(* Reaping, and changes of the list *)

(* An entry leaves the list. *)
LEMMA ListWithout ==
  ASSUME IInv, NEW i \in DOMAIN jobs, jobs' = RemoveAt(jobs, i)
  PROVE  /\ jobs' \in Seq(Entry) /\ Len(jobs') = Len(jobs) - 1
         /\ JobPids' = JobPids \ {jobs[i].pid}
         /\ \A k, m \in DOMAIN jobs' : jobs'[k].pid = jobs'[m].pid => k = m
         /\ \A k \in DOMAIN jobs' : \E m \in DOMAIN jobs : jobs'[k] = jobs[m]
<1>1. /\ jobs \in Seq(Entry) /\ Len(jobs) \in Nat /\ DOMAIN jobs = 1..Len(jobs)
      /\ \A k, m \in DOMAIN jobs : jobs[k].pid = jobs[m].pid => k = m
  BY JobsType DEF IInv, EachChildOnce
<1>2. /\ jobs' \in Seq(Entry) /\ Len(jobs') = Len(jobs) - 1
      /\ \A k \in 1..Len(jobs)-1 : jobs'[k] = IF k < i THEN jobs[k] ELSE jobs[k + 1]
  BY <1>1, RemoveAtProperties
<1>3. DOMAIN jobs' = 1..Len(jobs)-1
  BY <1>2, LenProperties
<1>4. i \in 1..Len(jobs) /\ i \in Int
  BY <1>1
<1>5. \A k \in DOMAIN jobs' : /\ k < i => k \in DOMAIN jobs /\ jobs'[k] = jobs[k]
                              /\ ~(k < i) => k + 1 \in DOMAIN jobs /\ jobs'[k] = jobs[k + 1]
  BY <1>1, <1>2, <1>3, <1>4
<1>6. \A k, m \in DOMAIN jobs' : jobs'[k].pid = jobs'[m].pid => k = m
  BY <1>1, <1>3, <1>4, <1>5
<1>7. \A k \in DOMAIN jobs' : \E m \in DOMAIN jobs \ {i} : jobs'[k] = jobs[m]
  BY <1>1, <1>3, <1>4, <1>5
<1>8. ASSUME NEW m \in DOMAIN jobs, m # i PROVE \E k \in DOMAIN jobs' : jobs'[k] = jobs[m]
  <2>1. CASE m < i
    BY <1>1, <1>3, <1>4, <1>5, <2>1
  <2>2. CASE m > i
    <3>1. m - 1 \in DOMAIN jobs' /\ ~(m - 1 < i) /\ (m - 1) + 1 = m
      BY <1>1, <1>3, <1>4, <2>2
    <3> QED BY <1>5, <3>1
  <2> QED BY <1>1, <1>4, <1>8, <2>1, <2>2
<1>9. JobPids' = {jobs[m].pid : m \in DOMAIN jobs \ {i}}
  BY <1>7, <1>8 DEF JobPids
<1>10. {jobs[m].pid : m \in DOMAIN jobs \ {i}} = JobPids \ {jobs[i].pid}
  BY <1>1 DEF JobPids
<1> QED BY <1>2, <1>6, <1>7, <1>9, <1>10

(* No process with a copy of the list is about when the list changes, but  *)
(* those that were lost.                                                   *)
LEMMA NoCopies ==
  ASSUME IInv, pc \notin {"fork_second", "set_fg", "wait"}, NEW p \in Pids \ lost
  PROVE  copy[p] = NoCopy /\ DOMAIN copy[p].list = {}
<1>1. copy[p] = NoCopy
  BY DEF IInv, CopyInv
<1>2. NoCopy.list = <<>> /\ DOMAIN <<>> = {}
  BY NoCopyType
<1> QED BY <1>1, <1>2

LEMMA CopiesStay ==
  ASSUME IInv, pc \notin {"fork_second", "set_fg", "wait"}, UNCHANGED <<proc, copy, lost>>
  PROVE  CopyInv' /\ CopyIsFresh'
<1>1. \A q \in Pids \ lost : copy[q] = NoCopy /\ DOMAIN copy[q].list = {}
  BY NoCopies
<1>2. CopyInv'
  <2> SUFFICES ASSUME NEW q \in Pids, copy[q] # NoCopy
               PROVE  /\ copy[q].runs = "kill" => copy[q].sig \in Signals
                      /\ proc[q] \in {"running", "stopped"} /\ q \in lost
    BY DEF CopyInv
  <2> QED BY <1>1 DEF IInv, CopyInv
<1>3. CopyIsFresh'
  BY <1>1 DEF CopyIsFresh
<1> QED BY <1>2, <1>3

(* removeFinishedJobs: one entry. *)
LEMMA RemoveFinishedStep == ASSUME IInv, RemoveFinishedJobs PROVE IInv'
<1>1. /\ pc \in {"clean", "clean_again"} /\ at <= Len(jobs)
      /\ UNCHANGED <<pc, cmd, fg_pid, child, copy, lost>>
  BY DEF RemoveFinishedJobs
<1>2. /\ jobs \in Seq(Entry) /\ Len(jobs) \in Nat /\ DOMAIN jobs = 1..Len(jobs)
      /\ at \in DOMAIN jobs /\ jobs[at].pid \in Pids
  <2>1. at \in 1..(Len(jobs) + 1)
    BY DEF IInv, TypeOK
  <2>2. /\ jobs \in Seq(Entry) /\ Len(jobs) \in Nat /\ DOMAIN jobs = 1..Len(jobs)
        /\ \A i \in DOMAIN jobs : jobs[i].pid \in Pids
    BY JobsType DEF IInv
  <2> QED BY <1>1, <2>1, <2>2
<1>3. fg_pid = -1
  BY <1>1 DEF IInv, FgInv
<1>4. CASE Ended(jobs[at].pid)
  <2> DEFINE p == jobs[at].pid
  <2>1. proc' = [proc EXCEPT ![p] = "free"] /\ jobs' = RemoveAt(jobs, at) /\ at' = at
    BY <1>4 DEF RemoveFinishedJobs
  <2>2. /\ jobs' \in Seq(Entry) /\ Len(jobs') = Len(jobs) - 1 /\ JobPids' = JobPids \ {p}
        /\ \A k, m \in DOMAIN jobs' : jobs'[k].pid = jobs'[m].pid => k = m
        /\ \A k \in DOMAIN jobs' : \E m \in DOMAIN jobs : jobs'[k] = jobs[m]
    BY <1>2, <2>1, ListWithout
  <2>3. /\ proc' \in [Pids -> ProcStates] /\ proc'[p] = "free"
        /\ \A q \in Pids \ {p} : proc'[q] = proc[q]
    BY <1>2, <2>1, ProcType DEF ProcStates
  <2>4. p \in JobPids /\ p \notin ToSet(child) /\ p \notin lost
    BY <1>2 DEF IInv, EachChildOnce, JobPids
  <2> HIDE DEF p
  <2>5. TypeOK'
    <3>1. at' \in 1..(Len(jobs') + 1)
      BY <1>2, <2>1, <2>2
    <3> QED BY <1>1, <2>2, <2>3, <3>1 DEF IInv, TypeOK, Entry, ProcStates
  <2>6. LineInv'
    BY <1>1, <2>2 DEF IInv, LineInv
  <2>7. ChildInv' /\ FgInv'
    BY <1>1, <1>3 DEF IInv, ChildInv, FgInv
  <2>8. EachChildOnce'
    <3>1. {q \in Pids : proc'[q] # "free"} = {q \in Pids : proc[q] # "free"} \ {p}
      BY <2>3
    <3>2. ToSet(child)' = ToSet(child) /\ UNCHANGED <<child, lost>>
      BY <1>1
    <3> QED BY <2>2, <2>4, <3>1, <3>2 DEF IInv, EachChildOnce
  <2>9. CopyInv'
    <3>1. p \notin lost => copy[p] = NoCopy
      BY <1>1, NoCopies, <1>2 DEF p
    <3> QED BY <1>1, <2>3, <2>4, <3>1 DEF IInv, CopyInv
  <2>10. CopyIsFresh'
    BY <1>1, NoCopies DEF CopyIsFresh
  <2> QED BY <2>5, <2>6, <2>7, <2>8, <2>9, <2>10 DEF IInv
<1>5. CASE ~Ended(jobs[at].pid)
  <2>1. at' = at + 1 /\ UNCHANGED <<proc, jobs>>
    BY <1>5 DEF RemoveFinishedJobs
  <2>2. at' \in 1..(Len(jobs) + 1)
    BY <1>2, <2>1
  <2>3. LineInv' /\ ChildInv' /\ FgInv' /\ pc' \in States /\ fg_pid' \in Pids \cup {-1}
    BY <1>1, <1>3, <2>1 DEF IInv, TypeOK, LineInv, ChildInv, FgInv
  <2> QED BY <1>1, <2>1, <2>2, <2>3, ControlStep
<1> QED BY <1>4, <1>5

(* fg: the job moves from the list to the processes waited for. *)
LEMMA ForegroundStep == ASSUME IInv, Foreground PROVE IInv'
<1> DEFINE i == IF cmd.id = 0 THEN GetLastJob(jobs) ELSE GetJobById(jobs, cmd.id)
<1>1. /\ pc = "act" /\ cmd.op = "fg" /\ UNCHANGED <<at, fg_pid, proc, copy, lost>>
      /\ IF i = 0
           THEN Return /\ UNCHANGED <<jobs, child>>
           ELSE child' = <<jobs[i].pid>> /\ jobs' = RemoveAt(jobs, i) /\ pc' = "set_fg" /\ cmd' = cmd
  BY DEF Foreground
<1>2. /\ jobs \in Seq(Entry) /\ Len(jobs) \in Nat /\ DOMAIN jobs = 1..Len(jobs)
      /\ \A k \in DOMAIN jobs : jobs[k].pid \in Pids
  BY JobsType DEF IInv
<1>3. i \in 0..Len(jobs)
  BY <1>2, JobPlace DEF GetLastJob
<1> HIDE DEF i
<1>4. child = <<>> /\ fg_pid = -1
  BY <1>1 DEF IInv, ChildInv, FgInv
<1>5. CASE i = 0
  BY <1>1, <1>4, <1>5, ReturnStep
<1>6. CASE i # 0
  <2> DEFINE p == jobs[i].pid
  <2>1. i \in DOMAIN jobs /\ p \in Pids /\ p \in JobPids
    BY <1>2, <1>3, <1>6 DEF JobPids
  <2>2. child' = <<p>> /\ jobs' = RemoveAt(jobs, i) /\ pc' = "set_fg" /\ cmd' = cmd
    BY <1>1, <1>6
  <2>3. /\ jobs' \in Seq(Entry) /\ Len(jobs') = Len(jobs) - 1 /\ JobPids' = JobPids \ {p}
        /\ \A k, m \in DOMAIN jobs' : jobs'[k].pid = jobs'[m].pid => k = m
    BY <2>1, <2>2, ListWithout
  <2> HIDE DEF p
  <2>4. ToSet(child') = {p} /\ ToSet(child) = {} /\ DOMAIN child' = {1} /\ Len(child') = 1
        /\ child' \in Seq(Pids)
    BY <1>4, <2>1, <2>2 DEF ToSet
  <2>5. TypeOK'
    <3>1. at = 1
      BY <1>1 DEF IInv, LineInv
    <3>2. at' \in 1..(Len(jobs') + 1) /\ pc' \in States
      BY <1>1, <1>2, <2>1, <2>2, <2>3, <3>1 DEF States
    <3>3. cmd \in Line /\ fg_pid \in Pids \cup {-1} /\ lost \in SUBSET Pids
      BY DEF IInv, TypeOK
    <3> QED BY <1>1, <2>2, <2>3, <2>4, <3>2, <3>3, ProcType, TypeFromParts
  <2>6. LineInv' /\ ChildInv' /\ FgInv'
    BY <1>1, <1>4, <2>2, <2>4 DEF IInv, LineInv, ChildInv, FgInv
  <2>7. EachChildOnce'
    <3>1. UNCHANGED <<proc, lost>> /\ \A k, m \in DOMAIN child' : child'[k] = child'[m] => k = m
      BY <1>1, <2>4
    <3>2. p \notin lost
      BY <2>1 DEF IInv, EachChildOnce
    <3> QED BY <2>1, <2>3, <2>4, <3>1, <3>2 DEF IInv, EachChildOnce
  <2>8. CopyInv' /\ CopyIsFresh'
    BY <1>1, CopiesStay
  <2> QED BY <2>5, <2>6, <2>7, <2>8 DEF IInv
<1> QED BY <1>5, <1>6

(* addJob: the process of a background command joins the list. *)
LEMMA AddJobStep == ASSUME IInv, AddJob PROVE IInv'
<1>1. /\ pc = "act" /\ cmd.op = "background" /\ pc' = "prompt" /\ cmd' = NoLine
      /\ jobs' = Append(jobs, [id |-> NewJobId, pid |-> child[1]]) /\ child' = <<>>
      /\ UNCHANGED <<at, fg_pid, proc, copy, lost>>
  BY DEF AddJob, Return
<1> DEFINE p == child[1]
           j == [id |-> NewJobId, pid |-> p]
<1>2. /\ jobs \in Seq(Entry) /\ Len(jobs) \in Nat /\ DOMAIN jobs = 1..Len(jobs)
      /\ Len(child) \in Nat /\ DOMAIN child = 1..Len(child)
      /\ \A i \in DOMAIN child : child[i] \in Pids
  BY JobsType DEF IInv
<1>3. Len(child) = 1 /\ fg_pid = -1 /\ at = 1
  BY <1>1 DEF IInv, ChildInv, FgInv, LineInv
<1>4. p \in Pids /\ ToSet(child) = {p}
  BY <1>2, <1>3 DEF ToSet
<1>5. NewJobId \in 1..MaxJobId
  <2>1. \A i \in DOMAIN jobs : jobs[i].id < MaxJobId
    BY <1>1 DEF IInv, LineInv
  <2>2. /\ GetMaxJobId(jobs) \in 0..MaxJobId
        /\ jobs # <<>> => \E i \in DOMAIN jobs : jobs[i].id = GetMaxJobId(jobs)
    BY <1>2, MaxId
  <2>3. jobs = <<>> => GetMaxJobId(jobs) = 0
    BY DEF GetMaxJobId
  <2> QED BY <2>1, <2>2, <2>3, SmashAssumption DEF NewJobId
<1>6. j \in Entry /\ j.pid = p
  BY <1>4, <1>5 DEF Entry
<1>7. jobs' = Append(jobs, j)
  BY <1>1
<1> HIDE DEF j, p
<1>8. /\ jobs' \in Seq(Entry) /\ Len(jobs') = Len(jobs) + 1 /\ jobs'[Len(jobs) + 1] = j
      /\ \A k \in 1..Len(jobs) : jobs'[k] = jobs[k]
      /\ DOMAIN jobs' = 1..Len(jobs)+1
  BY <1>2, <1>6, <1>7, AppendProperties
<1>9. JobPids' = JobPids \cup {p}
  BY <1>2, <1>6, <1>8 DEF JobPids
<1>10. p \notin JobPids /\ p \notin lost
  BY <1>4 DEF IInv, EachChildOnce
<1>11. child' = <<>> /\ child' \in Seq(Pids) /\ Len(child') = 0 /\ ToSet(child') = {}
  BY <1>1, EmptySeq DEF ToSet
<1>12. TypeOK'
  <2>1. at' \in 1..(Len(jobs') + 1) /\ pc' \in States
    BY <1>1, <1>2, <1>3, <1>8 DEF States
  <2>2. cmd' \in Line
    BY <1>1, LinesAreLines
  <2>3. fg_pid \in Pids \cup {-1} /\ lost \in SUBSET Pids
    BY DEF IInv, TypeOK
  <2> QED BY <1>1, <1>8, <1>11, <2>1, <2>2, <2>3, ProcType, TypeFromParts
<1>13. LineInv' /\ ChildInv' /\ FgInv'
  BY <1>1, <1>3, LinesAreLines DEF LineInv, ChildInv, FgInv
<1>14. EachChildOnce'
  <2>1. \A k, m \in DOMAIN jobs' : jobs'[k].pid = jobs'[m].pid => k = m
    <3>1. \A k, m \in 1..Len(jobs) : jobs[k].pid = jobs[m].pid => k = m
      BY <1>2 DEF IInv, EachChildOnce
    <3>2. \A k \in 1..Len(jobs) : jobs[k].pid # p
      BY <1>2, <1>10 DEF JobPids
    <3> QED BY <1>2, <1>6, <1>8, <3>1, <3>2
  <2>2. UNCHANGED <<proc, lost>> /\ DOMAIN child' = {}
    BY <1>1
  <2> QED BY <1>4, <1>9, <1>10, <1>11, <2>1, <2>2 DEF IInv, EachChildOnce
<1>15. CopyInv' /\ CopyIsFresh'
  BY <1>1, CopiesStay
<1> QED BY <1>12, <1>13, <1>14, <1>15 DEF IInv

(* The second fork of a pipe fails: the first process is lost. *)
LEMMA SecondForkFailsStep == ASSUME IInv, SecondForkFails PROVE IInv'
<1> DEFINE p == child[1]
<1>1. /\ pc = "fork_second" /\ pc' = "prompt" /\ cmd' = NoLine /\ child' = <<>>
      /\ lost' = lost \cup {p} /\ UNCHANGED <<jobs, at, fg_pid, proc, copy>>
  BY DEF SecondForkFails, Return
<1>2. /\ Len(child) \in Nat /\ DOMAIN child = 1..Len(child)
      /\ \A i \in DOMAIN child : child[i] \in Pids
  BY JobsType DEF IInv
<1>3. Len(child) = 1 /\ fg_pid = -1 /\ at = 1
  BY <1>1 DEF IInv, ChildInv, FgInv, LineInv
<1>4. p \in Pids /\ ToSet(child) = {p}
  BY <1>2, <1>3 DEF ToSet
<1> HIDE DEF p
<1>5. child' \in Seq(Pids) /\ Len(child') = 0 /\ ToSet(child') = {} /\ DOMAIN child' = {}
  BY <1>1, EmptySeq DEF ToSet
<1>6. TypeOK'
  <2>1. cmd' \in Line /\ pc' \in States
    BY <1>1, LinesAreLines DEF States
  <2>2. lost' \in SUBSET Pids
    BY <1>1, <1>4 DEF IInv, TypeOK
  <2>3. jobs \in Seq(Entry) /\ at \in 1..(Len(jobs) + 1) /\ fg_pid \in Pids \cup {-1}
    BY DEF IInv, TypeOK, Entry
  <2> QED BY <1>1, <1>5, <2>1, <2>2, <2>3, ProcType, TypeFromParts
<1>7. LineInv' /\ ChildInv' /\ FgInv'
  BY <1>1, <1>3, LinesAreLines DEF LineInv, ChildInv, FgInv
<1>8. JobPids' = JobPids
  BY <1>1 DEF JobPids
<1>9. EachChildOnce'
  <2>1. UNCHANGED <<jobs, proc>> /\ p \notin JobPids
    BY <1>1, <1>4 DEF IInv, EachChildOnce
  <2> QED BY <1>1, <1>4, <1>5, <1>8, <2>1 DEF IInv, EachChildOnce
<1>10. CopyInv'
  <2> SUFFICES ASSUME NEW q \in Pids, copy[q] # NoCopy
               PROVE  /\ copy[q].runs = "kill" => copy[q].sig \in Signals
                      /\ proc[q] \in {"running", "stopped"} /\ q \in lost'
    BY <1>1 DEF CopyInv
  <2> QED BY <1>1, <1>4 DEF IInv, CopyInv
<1>11. CopyIsFresh'
  BY <1>1, <1>8 DEF IInv, CopyIsFresh
<1> QED BY <1>6, <1>7, <1>9, <1>10, <1>11 DEF IInv

(* waitpid: the first process of the command is reaped. *)
LEMMA WaitStep == ASSUME IInv, Wait \/ WaitForBoth PROVE IInv'
<1> DEFINE p == child[1]
<1>1. /\ pc = "wait" /\ proc[p] \in {"zombie", "free"}
      /\ proc' = [proc EXCEPT ![p] = "free"] /\ child' = Tail(child)
      /\ UNCHANGED <<cmd, jobs, at, fg_pid, copy, lost>>
      /\ IF cmd.op # "pipe" THEN pc' = "clear_fg"
         ELSE pc' = IF Len(child) = 2 THEN "wait" ELSE "clear_fg"
  BY DEF Wait, WaitForBoth, Reaps, Ended
<1>2. /\ child \in Seq(Pids) /\ Len(child) \in Nat /\ DOMAIN child = 1..Len(child)
      /\ \A i \in DOMAIN child : child[i] \in Pids
  BY JobsType DEF IInv
<1>3. Len(child) \in 1..2 /\ (cmd.op # "pipe" => Len(child) = 1) /\ at = 1
  BY <1>1 DEF IInv, ChildInv, LineInv
<1>4. p \in Pids /\ p \in ToSet(child)
  BY <1>2, <1>3 DEF ToSet
<1>5. p \notin JobPids /\ p \notin lost
  BY <1>4 DEF IInv, EachChildOnce
<1>6. /\ child' \in Seq(Pids) /\ Len(child') = Len(child) - 1
      /\ \A i \in 1..Len(child') : child'[i] = child[i + 1]
      /\ DOMAIN child' = 1..Len(child')
  <2>1. child # <<>>
    BY <1>3, EmptySeq
  <2> QED BY <1>1, <1>2, <2>1, HeadTailProperties
<1>7. /\ proc' \in [Pids -> ProcStates] /\ proc'[p] = "free"
      /\ \A q \in Pids \ {p} : proc'[q] = proc[q]
  BY <1>1, <1>4, ProcType DEF ProcStates
<1>8. copy[p] = NoCopy
  BY <1>1, <1>4, ProcType
<1>9. \A i, k \in 1..Len(child) : child[i] = child[k] => i = k
  BY <1>2 DEF IInv, EachChildOnce
<1>10. ToSet(child') = ToSet(child) \ {p} /\ \A i, k \in DOMAIN child' : child'[i] = child'[k] => i = k
  <2>1. \A i \in DOMAIN child' : i + 1 \in DOMAIN child /\ i + 1 # 1 /\ child'[i] = child[i + 1]
    BY <1>2, <1>6
  <2>2. \A i \in DOMAIN child : i # 1 => i - 1 \in DOMAIN child' /\ child'[i - 1] = child[i]
    BY <1>2, <1>6
  <2>3. ToSet(child') = {child[i] : i \in DOMAIN child \ {1}}
    BY <1>2, <2>1, <2>2 DEF ToSet
  <2>4. ToSet(child) = {child[i] : i \in DOMAIN child}
    BY DEF ToSet
  <2>5. 1 \in 1..Len(child)
    BY <1>3
  <2>6. ToSet(child') = ToSet(child) \ {p}
    BY <1>2, <1>9, <2>3, <2>4, <2>5
  <2> QED BY <1>2, <1>6, <1>9, <2>1, <2>6
<1>11. pc' = IF Len(child') = 0 THEN "clear_fg" ELSE "wait"
  <2>1. pc' = IF Len(child) = 2 THEN "wait" ELSE "clear_fg"
    BY <1>1, <1>3
  <2>2. Len(child') = 0 <=> Len(child) # 2
    BY <1>3, <1>6
  <2> QED BY <2>1, <2>2
<1> HIDE DEF p
<1>12. JobPids' = JobPids
  BY <1>1 DEF JobPids
<1>13. TypeOK'
  <2>1. Len(child') <= 2 /\ pc' \in States
    BY <1>3, <1>6, <1>11 DEF States
  <2>2. /\ jobs \in Seq(Entry) /\ at \in 1..(Len(jobs) + 1) /\ fg_pid \in Pids \cup {-1}
        /\ cmd \in Line /\ lost \in SUBSET Pids
    BY DEF IInv, TypeOK, Entry
  <2> QED BY <1>1, <1>6, <1>7, <2>1, <2>2, ProcType, TypeFromParts
<1>14. LineInv' /\ FgInv'
  BY <1>1, <1>11, <1>12 DEF IInv, LineInv, FgInv
<1>15. ChildInv'
  <2>1. Len(child') = 0 => child' = <<>>
    BY <1>6, EmptySeq
  <2>2. Len(child') \in 0..1
    BY <1>3, <1>6
  <2> QED BY <1>11, <2>1, <2>2 DEF ChildInv
<1>16. EachChildOnce'
  <2>1. {q \in Pids : proc'[q] # "free"} = {q \in Pids : proc[q] # "free"} \ {p}
    BY <1>7
  <2>2. UNCHANGED <<jobs, lost>>
    BY <1>1
  <2> QED BY <1>4, <1>5, <1>10, <1>12, <2>1, <2>2 DEF IInv, EachChildOnce
<1>17. CopyInv'
  <2> SUFFICES ASSUME NEW q \in Pids, copy[q] # NoCopy
               PROVE  /\ copy[q].runs = "kill" => copy[q].sig \in Signals
                      /\ proc'[q] \in {"running", "stopped"}
                      /\ q \in lost \/ (q \in ToSet(child') /\ pc' = "wait")
    BY <1>1 DEF CopyInv
  <2>1. q # p /\ proc'[q] = proc[q]
    BY <1>7, <1>8
  <2>2. /\ copy[q].runs = "kill" => copy[q].sig \in Signals
        /\ proc[q] \in {"running", "stopped"} /\ (q \in lost \/ q \in ToSet(child))
    BY DEF IInv, CopyInv
  <2>3. q \in ToSet(child') => Len(child') # 0
    BY <1>6 DEF ToSet
  <2>4. q \in lost \/ (q \in ToSet(child') /\ pc' = "wait")
    BY <1>10, <1>11, <2>1, <2>2, <2>3
  <2> QED BY <2>1, <2>2, <2>4
<1>18. CopyIsFresh'
  BY <1>1, <1>12 DEF IInv, CopyIsFresh
<1> QED BY <1>13, <1>14, <1>15, <1>16, <1>17, <1>18 DEF IInv
-----------------------------------------------------------------------------
(* The theorems *)

LEMMA InitIInv == ASSUME Init PROVE IInv
<1>1. Len(<<>>) = 0 /\ DOMAIN <<>> = {} /\ ToSet(<<>>) = {} /\ \A S : <<>> \in Seq(S)
  BY EmptySeq DEF ToSet
<1>2. /\ pc = "prompt" /\ cmd = NoLine /\ jobs = <<>> /\ at = 1 /\ fg_pid = -1
      /\ child = <<>> /\ proc = [p \in Pids |-> "free"] /\ copy = [p \in Pids |-> NoCopy]
      /\ lost = {}
  BY DEF Init
<1>3. TypeOK
  <2>1. cmd \in Line /\ pc \in States
    BY <1>2, LinesAreLines DEF States
  <2>2. copy \in [Pids -> CopyRecord]
    BY <1>2, NoCopyType
  <2>3. jobs \in Seq(Entry) /\ child \in Seq(Pids) /\ Len(child) <= 2 /\ at \in 1..(Len(jobs) + 1)
    BY <1>1, <1>2
  <2>4. proc \in [Pids -> ProcStates] /\ lost \in SUBSET Pids /\ fg_pid \in Pids \cup {-1}
    BY <1>2 DEF ProcStates
  <2> QED BY <2>1, <2>2, <2>3, <2>4 DEF TypeOK, CopyRecord, Entry, ProcStates
<1>4. LineInv /\ ChildInv /\ FgInv
  BY <1>2, LinesAreLines DEF LineInv, ChildInv, FgInv
<1>5. JobPids = {}
  BY <1>1, <1>2 DEF JobPids
<1>6. EachChildOnce
  BY <1>1, <1>2, <1>5 DEF EachChildOnce
<1>7. CopyInv
  BY <1>2 DEF CopyInv
<1>8. CopyIsFresh
  BY <1>1, <1>2, NoCopyType DEF CopyIsFresh
<1> QED BY <1>3, <1>4, <1>6, <1>7, <1>8 DEF IInv

LEMMA Step == ASSUME IInv, [Next]_vars PROVE IInv'
<1>1. CASE UNCHANGED vars
  <2>1. UNCHANGED <<pc, cmd, jobs, at, fg_pid, child, proc, copy, lost>>
    BY <1>1 DEF vars
  <2>2. pc' \in States /\ at' \in 1..(Len(jobs) + 1) /\ fg_pid' \in Pids \cup {-1}
    BY <2>1 DEF IInv, TypeOK
  <2>3. LineInv' /\ ChildInv' /\ FgInv'
    BY <2>1 DEF IInv, LineInv, ChildInv, FgInv, JobPids
  <2> QED BY <2>1, <2>2, <2>3, ControlStep
<1>2. CASE ReadLine
  BY <1>2, ReadLineStep
<1>3. CASE EndOfInput
  BY <1>3, MoveStep
<1>4. CASE ShellStep
  BY <1>4, MoveStep, ReturningStep, ForkingStep, KillCommandStep, KillAllJobsStep,
     RemoveFinishedStep, ForegroundStep, AddJobStep, SecondForkFailsStep, WaitStep
  DEF ShellStep
<1>5. CASE CtrlC
  BY <1>5, CtrlCStep
<1>6. CASE \E p \in Pids : ChildStep(p)
  BY <1>6, ChildrenStep
<1> QED BY <1>1, <1>2, <1>3, <1>4, <1>5, <1>6 DEF Next

(* The inductive invariant holds throughout. *)
THEOREM InductiveInvariant == Spec => []IInv
BY InitIInv, Step, PTL DEF Spec

(* Every variable keeps its type: entries, ids and processes stay in their *)
(* ranges and a command never has more than two processes.                 *)
THEOREM TypeCorrect == Spec => []TypeOK
<1>1. IInv => TypeOK
  BY DEF IInv
<1> QED BY <1>1, InductiveInvariant, PTL

(* The jobs list, the command's processes and the lost ones name every     *)
(* unreaped child exactly once, whatever the shell, its children and       *)
(* Ctrl-C do in between.                                                   *)
THEOREM ChildrenOnce == Spec => []EachChildOnce
<1>1. IInv => EachChildOnce
  BY DEF IInv
<1> QED BY <1>1, InductiveInvariant, PTL

(* A built-in that a waited-for child executes works on a copy of the list *)
(* whose processes are all still jobs.                                     *)
THEOREM CopiesFresh == Spec => []CopyIsFresh
<1>1. IInv => CopyIsFresh
  BY DEF IInv
<1> QED BY <1>1, InductiveInvariant, PTL

(* ctrlCHandler never changes the process of a job. *)
THEOREM CtrlCSafe == Spec => CtrlCSparesJobs
<1>1. ASSUME IInv, CtrlC, NEW p \in JobPids PROVE proc'[p] = proc[p]
  <2>1. p \in Pids /\ p # fg_pid
    <3>1. JobPids \subseteq Pids
      BY <1>1, JobsType DEF IInv
    <3>2. p \in Pids /\ p # -1
      BY <1>1, <3>1, SmashAssumption
    <3> QED BY <1>1, <3>2 DEF IInv, FgInv
  <2> QED BY <1>1, <2>1 DEF CtrlC, Kill
<1>2. IInv /\ [Next]_vars => [CtrlC => \A p \in JobPids : proc'[p] = proc[p]]_vars
  BY <1>1
<1> QED BY <1>2, InductiveInvariant, PTL DEF Spec, CtrlCSparesJobs
=============================================================================
