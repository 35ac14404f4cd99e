----------------------------- MODULE ShellState -----------------------------
(***************************************************************************)
(* What the shell of hw1-linux-basics remembers between lines, apart from  *)
(* its jobs (module Smash): the aliases, the prompt, the directory it is   *)
(* in and the one before, and the environment of the programs it starts.   *)
(*                                                                         *)
(* A line is a sequence of words, an operator being a word of its own; the *)
(* quoted part of  alias name='value'  is a definition at its end. Other   *)
(* processes make, remove and rename directories at any time. What a child *)
(* does that runs a pipe or a redirection is not seen here: it has a copy. *)
(***************************************************************************)
EXTENDS Integers, Sequences, SequencesExt

CONSTANTS
  Lines,       \* what is typed
  Paths,       \* the paths of directories
  Inodes,      \* the directories
  Environ0,    \* the names of the environment at exec, in order
  EnvVisible   \* how many of them fit the buffer of _envVarExists

NoDir == 0

ASSUME ShellStateAssumption ==
  /\ \A l \in Lines : l.words \in Seq(STRING) /\ l.words # <<>>
  /\ Paths \subseteq STRING /\ "" \notin Paths /\ "-" \notin Paths
  /\ NoDir \notin Inodes /\ Inodes # {}
  /\ Environ0 \in Seq(STRING) /\ IsInjective(Environ0)
  /\ EnvVisible \in 0..Len(Environ0)

VARIABLES
  pc,           \* the command being executed
  cmd,          \* its line, the alias resolved
  todo,         \* the arguments still to be looked at
  aliases, alias_order, prompt, last_pwd,
  buf,          \* cwd[PATH_MAX] of ChangeDirCommand
  environ,      \* __environ
  dir,          \* the directory behind every path
  cwd,          \* the directory the shell is in
  prev,         \* history: the one it was in before
  touched,      \* history: what happened since last_pwd was set: directories changed
                \* ("getcwd": since getcwd too), or a cd - failed
  unset         \* history: the variables unsetenv took

line == <<pc, cmd, todo>>
names == <<aliases, alias_order>>
place == <<last_pwd, buf, cwd, prev>>
env == <<environ, unset>>
vars == <<line, names, prompt, place, env, dir, touched>>

(* s without the elements of S. It is SelectSeq, as a recursive function   *)
(* the provers can unfold.                                                 *)
Without(s, S) ==
  LET keep[i \in 0..Len(s)] ==
        IF i = 0 THEN <<>> ELSE IF s[i] \in S THEN keep[i - 1] ELSE Append(keep[i - 1], s[i])
  IN  keep[Len(s)]

NoLine == [words |-> <<>>, def |-> {}]
Operators == {"|", "|&", ">", ">>"}
WordsOf(l) == ToSet(l.words) \cup UNION {ToSet(d.val) : d \in l.def}

Init ==
  /\ pc = "prompt" /\ cmd = NoLine /\ todo = <<>>
  /\ aliases = <<>> /\ alias_order = <<>> /\ prompt = "smash" /\ last_pwd = ""
  /\ buf = "" /\ environ = Environ0 /\ unset = {}
  /\ dir \in [Paths -> Inodes \cup {NoDir}]
  /\ \A p, q \in Paths : dir[p] = dir[q] /\ p # q => dir[p] = NoDir
  /\ cwd \in Range(dir) \ {NoDir}
  /\ prev = NoDir /\ touched = {}
-----------------------------------------------------------------------------
(* The command loop *)

Reserved == {"chprompt", "showpid", "pwd", "cd", "jobs", "fg", "quit", "kill",
  "alias", "unalias", "unsetenv", "sysinfo", "du", "whoami", "usbinfo"}

(* The built-in commands that change this state. *)
Remembering == {"chprompt", "cd", "alias", "unalias", "unsetenv"}

ResolveAlias(l) ==
  IF l.words[1] \in DOMAIN aliases
  THEN [l EXCEPT !.words = aliases[l.words[1]] \o Tail(@)]
  ELSE l

(* Operators count wherever they are, inside the quotes too. "other" is an *)
(* external program or one of the commands that leave this state alone.    *)
CreateCommand(l) ==
  CASE l = NoLine -> "prompt"
    [] WordsOf(l) \cap Operators # {} -> "child"
    [] OTHER -> IF l.words # <<>> /\ l.words[1] \in Remembering THEN l.words[1] ELSE "other"

(* The arguments; a definition is one that names no path or variable. *)
Args(l) == (IF l.words = <<>> THEN <<>> ELSE Tail(l.words))
           \o (IF l.def = {} THEN <<>> ELSE <<"quoted">>)

(* executeCommand *)
ReadLine ==
  /\ pc = "prompt"
  /\ \E l \in Lines : LET resolved == ResolveAlias(l) IN
       pc' = CreateCommand(resolved) /\ cmd' = resolved /\ todo' = Args(resolved)
  /\ UNCHANGED <<names, prompt, place, env, dir, touched>>

(* execute() returns and the command is deleted. *)
Return == pc' = "prompt" /\ cmd' = NoLine /\ todo' = <<>>

RunOther ==
  /\ pc \in {"child", "other"}
  /\ Return /\ UNCHANGED <<names, prompt, place, env, dir, touched>>

Chprompt ==
  /\ pc = "chprompt"
  /\ prompt' = IF todo = <<>> THEN "smash" ELSE todo[1]
  /\ Return /\ UNCHANGED <<names, place, env, dir, touched>>
-----------------------------------------------------------------------------
(* Aliases *)

AddAlias(d) ==
  /\ aliases' = [n \in DOMAIN aliases \cup {d.name} |->
                   IF n = d.name THEN d.val ELSE aliases[n]]
  /\ alias_order' = Append(alias_order, d.name)

RemoveAlias(name) ==
  /\ aliases' = [n \in DOMAIN aliases \ {name} |-> aliases[n]]
  /\ alias_order' = Without(alias_order, {name})

(* A variant that refuses the built-in names only. *)
AliasCommandAgain ==
  /\ pc = "alias"
  /\ \/ \E d \in cmd.def : /\ cmd.words = <<"alias">> /\ d.name \notin Reserved
                           /\ AddAlias(d)
     \/ /\ \A d \in cmd.def : cmd.words # <<"alias">> \/ d.name \in Reserved
        /\ UNCHANGED names
  /\ Return /\ UNCHANGED <<prompt, place, env, dir, touched>>

(* Without a definition the aliases are listed or the format is wrong. *)
AliasCommand ==
  /\ pc = "alias"
  /\ \/ \E d \in cmd.def : /\ cmd.words = <<"alias">>
                           /\ d.name \notin Reserved \cup DOMAIN aliases
                           /\ AddAlias(d)
     \/ /\ \A d \in cmd.def : cmd.words # <<"alias">>
                              \/ d.name \in Reserved \cup DOMAIN aliases
        /\ UNCHANGED names
  /\ Return /\ UNCHANGED <<prompt, place, env, dir, touched>>

(* The loop ends at the first name that is no alias. *)
UnaliasCommand ==
  /\ pc = "unalias"
  /\ \/ /\ todo # <<>> /\ todo[1] \in DOMAIN aliases
        /\ RemoveAlias(todo[1]) /\ todo' = Tail(todo) /\ UNCHANGED <<pc, cmd>>
     \/ /\ todo # <<>> => todo[1] \notin DOMAIN aliases
        /\ Return /\ UNCHANGED names
  /\ UNCHANGED <<prompt, place, env, dir, touched>>
-----------------------------------------------------------------------------
(* Environment *)

(* /proc/self/environ shows the environment as it was at exec, and the     *)
(* buffer takes the first part of it.                                      *)
EnvVarExists(v) == \E i \in 1..EnvVisible : Environ0[i] = v

(* A variant that puts the last variable into the place of the removed one. *)
WithoutVarUnordered(e, v) ==
  IF v \notin ToSet(e) THEN e
  ELSE LET j == SelectInSeq(e, LAMBDA x : x = v)
       IN  [i \in 1..Len(e) - 1 |-> IF i = j THEN e[Len(e)] ELSE e[i]]

(* The first entry of that name is taken out, the rest moves up. *)
WithoutVar(e, v) ==
  IF v \notin ToSet(e) THEN e
  ELSE LET j == SelectInSeq(e, LAMBDA x : x = v)
       IN  [i \in 1..Len(e) - 1 |-> IF i < j THEN e[i] ELSE e[i + 1]]

UnsetenvCommand ==
  /\ pc = "unsetenv"
  /\ \/ /\ todo # <<>> /\ EnvVarExists(todo[1])
        /\ environ' = WithoutVar(environ, todo[1])
        /\ unset' = unset \cup {todo[1]}
        /\ todo' = Tail(todo) /\ UNCHANGED <<pc, cmd>>
     \/ /\ todo # <<>> => ~EnvVarExists(todo[1])
        /\ Return /\ UNCHANGED env
  /\ UNCHANGED <<names, prompt, place, dir, touched>>
-----------------------------------------------------------------------------
(* The directory *)

(* getcwd fails when the directory has been removed. *)
Getcwd == {p \in Paths : dir[p] = cwd}

CdRefused ==
  /\ pc = "cd"
  /\ Len(todo) # 1 \/ Getcwd = {} \/ (todo = <<"-">> /\ last_pwd = "")
  /\ Return /\ UNCHANGED <<names, prompt, place, env, dir, touched>>

(* cd - stores the current directory before it knows whether chdir works. *)
CdGetcwd ==
  /\ pc = "cd" /\ Len(todo) = 1
  /\ \E p \in Getcwd :
       /\ buf' = p
       /\ IF todo[1] = "-"
          THEN last_pwd # "" /\ todo' = <<last_pwd>> /\ last_pwd' = p
          ELSE UNCHANGED <<todo, last_pwd>>
  /\ pc' = "chdir" /\ touched' = touched \ {"getcwd"}
  /\ UNCHANGED <<cmd, names, prompt, cwd, prev, env, dir>>

Exists(p) == p \in Paths /\ dir[p] # NoDir

(* A variant that stores the directory after chdir. *)
ChdirStoresNew ==
  /\ pc = "chdir" /\ Exists(todo[1])
  /\ cwd' = dir[todo[1]] /\ last_pwd' = todo[1] /\ prev' = cwd
  /\ touched' = IF "getcwd" \in touched THEN touched ELSE {}
  /\ buf' = "" /\ Return /\ UNCHANGED <<names, prompt, env, dir>>

Chdir ==
  /\ pc = "chdir" /\ Exists(todo[1])
  /\ cwd' = dir[todo[1]] /\ last_pwd' = buf /\ prev' = cwd
  /\ touched' = IF "getcwd" \in touched THEN touched ELSE {}
  /\ buf' = "" /\ Return /\ UNCHANGED <<names, prompt, env, dir>>

(* chdir fails, of a path that is not there or for any other reason. The  *)
(* "revert" of cd - stores the current directory again.                    *)
ChdirFails ==
  /\ pc = "chdir"
  /\ touched' = IF Args(cmd)[1] = "-" THEN touched \cup {"failed"} ELSE touched
  /\ buf' = "" /\ Return
  /\ UNCHANGED <<names, prompt, last_pwd, cwd, prev, env, dir>>

(* Other processes *)
Others ==
  /\ \/ \E p \in Paths, i \in Inodes \ (Range(dir) \cup {cwd}) :
          dir[p] = NoDir /\ dir' = [dir EXCEPT ![p] = i]                    \* mkdir
     \/ \E p \in Paths : dir[p] # NoDir /\ dir' = [dir EXCEPT ![p] = NoDir]   \* rmdir
     \/ \E p, q \in Paths :                                                   \* rename
          /\ dir[p] # NoDir /\ dir[q] = NoDir
          /\ dir' = [dir EXCEPT ![p] = NoDir, ![q] = dir[p]]
  /\ touched' = {"last_pwd", "getcwd"}
  /\ UNCHANGED <<line, names, prompt, place, env>>

Next ==
  \/ ReadLine \/ RunOther \/ Chprompt
  \/ AliasCommand \/ UnaliasCommand \/ UnsetenvCommand
  \/ CdRefused \/ CdGetcwd \/ Chdir \/ ChdirFails
  \/ Others

Spec == Init /\ [][Next]_vars
-----------------------------------------------------------------------------
(* Whatever is defined and removed, in the middle of a command that stops  *)
(* at a wrong name too, the list of the alias command shows every alias    *)
(* once, and no built-in is hidden by an alias.                            *)
AliasesExact ==
  /\ IsInjective(alias_order) /\ Range(alias_order) = DOMAIN aliases
  /\ DOMAIN aliases \cap Reserved = {}

(* A line that has the format of an alias definition, for a name that is   *)
(* free, is carried out as one. The code takes it apart at an operator     *)
(* between the quotes before it looks at the format.                       *)
DefinitionsTaken ==
  pc = "child" /\ cmd.words = <<"alias">> =>
    \A d \in cmd.def : d.name \in Reserved \cup DOMAIN aliases

(* Programs are started with the variables the shell was started with, in  *)
(* their order, less exactly the ones unsetenv took: lookups are answered  *)
(* from a stale copy, so a name is taken a second time without harm, and a *)
(* command that stops at an unknown name has taken the ones before it.     *)
EnvironExact == environ = Without(Environ0, unset)

(* cd - leads back to the directory the shell was in before, after any     *)
(* number of cd that succeeded and of cd with a path that failed, unless   *)
(* others changed the directories. RevertRestores is about a cd - that     *)
(* failed.                                                                 *)
DashLeadsBack ==
  pc # "chdir" /\ touched = {} =>
    IF last_pwd = "" THEN prev = NoDir ELSE dir[last_pwd] = prev

(* A cd - that failed is reverted: the next one leads where it would have  *)
(* led. The code stores the current directory again and loses the other.   *)
RevertRestores ==
  pc # "chdir" /\ touched \subseteq {"failed"} =>
    IF last_pwd = "" THEN prev = NoDir ELSE dir[last_pwd] = prev
=============================================================================
