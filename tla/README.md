# Verification of operating-systems-projects

The repository holds four independent programs of an operating-systems course: a
multithreaded web server, four memory allocators of growing ambition, a small shell
(smash) and a set of Linux system calls. This directory models them in TLA+, checks
the models with TLC on small instances and proves with TLAPS, for every size, the
facts that matter most. `PROJECT.json` ties every definition to its source lines,
every property to a run and to a mutant that breaks it, and lists the hazards the
properties are for.

To check a run: `tlc -workers 2 -config X.cfg M`. To check proofs: `tlapm M.tla`.

## Inventory

### Web server (`multithreaded-web-server/`)

| Part | State | Operations | What is hard |
|---|---|---|---|
| request queue (`server.c`) | ring `items`, `head`, `tail`, `count`, mutex, conditions `not_full`, `not_empty` | `queue_push` by the master, `queue_pop` by the workers | lost, stolen and spurious wakeups; one signal for several sleepers; index arithmetic at full and empty; who closes a descriptor |
| server log (`log.c`) | buffer, `len`, `capacity`; `readers_active`, `writers_active`, `writers_waiting`, mutex, conditions | `log_write` (grows the buffer), `log_read` (copies it) | writer priority, exclusion that depends on counters, torn appends, growth at the exact boundary, the terminating NUL |
| request handling (`request.c`, `server.c`) | per-thread counters, time stamps, CGI children, open descriptors | `handle_request` for static, dynamic and POST requests and errors | counters, log and answers changing at different moments; descriptors inherited by CGI children; an error in any wrapper ends the process |
| wrappers (`segel.c`) | `rio_t`: the unread part of a buffer | system calls that exit on failure; `rio_writen`, `rio_readlineb`, `rio_readnb` | reads and writes that do part of the work; the end of the headers and the start of the body in one buffer; one connection's error ends everybody's |
| test client (`client.c`) | `length`, `remaining`, `buf` | sends a request, `print_response` | both sides waiting for one another; a response cut anywhere; a body longer than the buffer |
| CGI demo (`output.c`) | none | prints a page | nothing |

The master accepts a connection and pushes it; a worker pops it, reads the request,
appends to or copies the log, answers, waits for its CGI child and closes it.
Correct means: each connection has one owner and is finally closed, nobody sleeps
while there is work, log appends are atomic, a POST sees every GET answered before
it, counters, log and time stamps agree, and a client gets exactly the body the server
meant, however the bytes are cut, or the beginning of it when the server dies.

### Memory allocators (`memory-allocator/`)

| Part | State | Operations | What is hard |
|---|---|---|---|
| `malloc_1.cpp` | none | one guarded `sbrk` | nothing |
| `malloc_2.cpp` | list of blocks sorted by address | first fit, free, realloc | reuse of larger blocks; the break is shared with other code; statistics that must add up |
| `malloc_3.cpp` | buddy heap, one linked free list per order, list of mappings | split, merge, in-place growth in `srealloc`, mmap above a threshold | links stored in the memory they manage, merging reads a neighbour's metadata, boundaries of the size classes |
| `malloc_4.cpp` | as `malloc_3.cpp` plus huge pages | as above with a choice of page size | the same; a mapping that fell back to ordinary pages is unmapped by a recomputed length |

Correct means: no byte is handed out twice, contents survive `srealloc`, a returned
block has the room asked for, and freeing everything gives the heap and the mappings
back.

### Shell (`hw1-linux-basics/`)

| Part | State | Operations | What is hard |
|---|---|---|---|
| job control (`Commands.cpp`, `signals.cpp`, `smash.cpp`) | jobs list, `fg_pid`, the children | external, background, redirected and piped commands, `jobs`, `fg`, `kill`, `quit`, Ctrl-C | the handler runs between any two steps; children end at any time; process ids are used again; a built-in in a child works on a copy of the list |
| aliases | map and order | `alias`, `unalias`, `resolveAlias`, the classification in `createCommand` | partial failure of `unalias`; operators inside quotes; aliases that expand to commands on aliases |
| directory, prompt, environment | `last_pwd`, prompt, `__environ` | `cd`, `chprompt`, `pwd`, `unsetenv` | directories that others remove and rename between two system calls; a `chdir` that fails; a stale `/proc/self/environ` |
| information commands | none | `showpid`, `sysinfo`, `du`, `whoami`, `usbinfo` | nothing |

Correct means: every child is reaped once and never forgotten, no entry of the list
outlives its process, Ctrl-C reaches the foreground process and no job, every
command returns, no alias hides a built-in command, programs get the environment that
`unsetenv` left, and `cd -` leads back.

### System calls (`hw2-process-management/`)

| Part | State | Operations | What is hard |
|---|---|---|---|
| bans (`hw2.c`, `pipe.c`, `signal.c`, `sys.c`, `sched.h`) | `syscall_bans` of each task, the process tree | `set_ban`, `get_ban`, `check_ban`, `flip_ban_branch`; banned `getpid`, `pipe`, `kill` | `flip_ban_branch` walks and writes other tasks' fields while tasks fork, end, are adopted by init and flip as well |
| table, declarations, test program | none | | nothing |

Correct means: a flip goes up the caller's ancestors and nowhere else, flips each once,
returns, and a ban changes by nobody else's doing.

## Modules

| Module | Models | Extends or instantiates |
|---|---|---|
| `BoundedFifo` | what the request queue promises: a bounded FIFO channel and its progress | |
| `RequestQueue` | `server.c`'s queue, accept loop and worker loop | `BoundedFifo` as refinement |
| `RequestQueueProofs` | theorems about it | `RequestQueue` |
| `RWLog` | `log.c` | |
| `RWLogProofs` | theorems about it | `RWLog` |
| `WebServer` | `handle_request` with the queue and the log at the level the two modules establish | |
| `WebServerProofs` | theorems about it, and about one connection byte by byte | `WebServer`, `HttpExchange` |
| `HttpExchange` | `client.c`, the rio functions of `segel.c` and the framing of `request.c`, one connection byte by byte | |
| `Allocator` | what a program may expect of any of the allocators | |
| `FreeListAlloc` | `malloc_2.cpp` | `Allocator` as refinement |
| `FreeListAllocProofs` | theorems about it | `FreeListAlloc` |
| `BuddyAlloc` | `malloc_3.cpp` and `malloc_4.cpp` | `Allocator` as refinement |
| `BuddyAllocProofs` | theorems about it | `BuddyAlloc` |
| `SyscallBans` | `hw2.c` and the patched system calls | |
| `SyscallBansProofs` | theorems about it | `SyscallBans` |
| `Smash` | job control of the shell | |
| `SmashProofs` | theorems about it | `Smash` |
| `ShellState` | aliases, prompt, directory and environment of the shell | |
| `ShellStateProofs` | theorems about it | `ShellState` |
| `MCBuddyAlloc`, `MCSyscallBans`, `MCSmash`, `MCShellState` | symmetry sets and constants that a configuration file cannot hold | the module they are named after |

The other modules are checked as they are, with the configuration file of their name.

### How state and actions correspond to the code

**RequestQueue.** Variables have the names of the struct's fields. A thread takes one
step for the mutex, one for the `while` condition, one for the body; waiting gives up
the mutex and enters the condition's wait set in one step, as the library does.
A signal takes any sleeper, sleepers may wake spuriously, and a thread that was woken
competes for the mutex with newcomers. `handle_request` is the one step `Finish`.

**RWLog.** What the code does between taking and giving up `log->mutex` is one step;
every access to the buffer under the reader-writer lock is a step of its own, so an
overlap would show. A byte of the buffer is a pair of an entry and a position in it.

**WebServer.** One worker is a sequence of steps from `queue_pop` to `Close`, with the
time stamps taken where the code takes them and the entry built where it is built.
The queue is a FIFO sequence and the log a sequence of entries with exclusive appends:
these are the abstractions the two modules above are shown to implement. `Die` is the
end of the process, which any failing wrapper of any thread and a write to a reset
connection cause; it can come whenever the master is in `Accept` or a worker is past its
time stamp.
A connection is a bound: it is accepted once.

**HttpExchange.** What `WebServer` calls reading the request and sending the answer is
here a sequence of steps of two processes: a `write` that takes part of what is left, a
`read` that fills part of `rio_buf`, one byte taken by `rio_readlineb`, a line compared
with the blank line. The text of a line is of one kind of byte, CR and LF are kept
apart, and the Content-Length line carries its number in one byte. Each socket holds
`SockBuf` bytes. A response of `send_error` or `serve_post` is of kind `memory`: its
body cannot change; that of a file may be cut or gone when `serve_static` opens it.
`Interrupted` is EINTR, after which both loops of `segel.c` try again. `ServerDies` is the
`Die` of `WebServer` seen from one connection: a wrapper fails or SIGPIPE comes in the
thread of another one, at any byte of this answer. When it left some of the request
unread the kernel resets the connection (`ClientReset`); when it cut the Content-Length
line the client reads any first digits of it. `print_response` reads the body in chunks
of `MAXBUF`. Behind a full chunk `buf[n] = '\0'` (`client.c:26`) is written past `buf`,
which is undefined; `ClientBody` has both outcomes that builds of it show. Where the
compiler puts other bytes there nothing happens; where it puts `rio` there, as gcc does
with the flags of the Makefile, the low byte of `rio_fd` becomes 0, the client takes what
is left in `rio_buf` and then reads standard input: it is `astray`, and ends `misled`.

**FreeListAlloc.** The list from `g_head` is the sequence of its metadata; a call is one
step, as it writes nothing that another call could see half done. `others` counts what
other code took from `sbrk`, `want` and `intact` are the program's view.

**BuddyAlloc.** `Init` chooses with `hugepages` which of the two files the program is
linked with; their buddy code is the same but for a mark in `srealloc`. `kernel` is
what is really mapped, `mmaps` what the metadata says. The heap is an array of units of the smallest block; metadata fields
are functions of the address and keep old values in the middle of blocks, so a stray
read or write would be visible. A call runs alone (the allocator has no locks and
promises nothing to threads), one step for each turn of a loop that writes to the heap.
`live` is the program's view: what it asked for behind each pointer, and how much of
its data is still there.

**SyscallBans.** Tasks are numbered in the order of their creation; the idle task is
its own parent. `flip_ban_branch` takes one step to load a task's byte, one to store
it, one to read it back and go on to the parent: the RCU read lock it holds keeps the
tasks from being freed and excludes nobody. `set_ban` writes the caller's own byte in one step.
`seen`, `above`, `before` and `quiet` are history variables.

**Smash.** The shell is one thread; `pc` stands between system calls. The Ctrl-C handler
is one step that may come anywhere, which is what a signal handler on a single thread
is. `SA_RESTART` means it never ends a `waitpid`. `proc` is the kernel's view of each
process id; a reaped id is free to be used again. `copy` is the jobs list of a child
that runs a built-in command. Forks may fail, `std::stoi` may throw.

**ShellState.** A line is a sequence of words; resolving an alias puts its words in the
place of the first one. `createCommand` looks for operators in all of the line, the
quoted part of an alias definition included, and a line with one runs in children that
have a copy of the state, so it changes nothing here. The names in `Environ0` are
assumed to be distinct: the code takes out the first entry of a name, so in an
environment with two of them the second would stay. `unalias` and `unsetenv` take one
argument in a step and stop where the code does. `cd` is the step of `getcwd` and the
step of `chdir`; between them, and at any other time, other processes make, remove and
rename directories (`Others`). `chdir` may fail of any path (`ChdirFails`), since a
directory that is there may be one the shell may not enter. `dir` maps paths to directories, so a directory that was
removed and made again is another one. `prev`, `touched` and `unset` are history
variables.

## Runs

Passing runs:

| Run | Instance | What it shows |
|---|---|---|
| `request_queue` | 3 workers, ring of 2, 4 descriptors | no wakeup is lost, one owner for each connection, and the queue implements `BoundedFifo`, its progress included |
| `server_log` | 3 workers, 4 operations, entries of 2 bytes in an initial buffer of 2 | exclusion, whole entries, current snapshots, no lost wakeup, writer priority, across growths and exact fits; every call returns |
| `web_server` | 2 workers, 2 connections, queue of 1 | a POST sees what was answered before it; counters, log and times agree, with the process dying wherever a wrapper can fail; every connection is released by worker and CGI children |
| `http_exchange` | lines up to 5 bytes with a line buffer of 4, bodies of 0, 1, 7 and 13 bytes with a client buffer of 6, socket buffers of 5 | the client gets the body and nothing else, all of it unless the server died or the client strayed, the server reads the whole request, neither waits for ever; with reads and writes cut anywhere, the client killed, the server dying of another connection, the file cut or removed |
| `free_list_allocator` | sizes and a break limit that allow up to five blocks | blocks stay sorted and apart, the statistics account for every byte, it implements `Allocator` |
| `buddy_allocator` | both files; 3 blocks of order 2, 2 mappings, huge pages there or not | blocks tile the heap, lists lead to free blocks only, buddies are merged, no metadata is written into memory in use; it implements `Allocator`, the heap comes back, every mapped page goes with its block |
| `system_call_bans` | 2 tasks below init, heights 1 and 3 | the walk climbs, through ancestors only, and returns; an undisturbed flip is exact below init |
| `shell_jobs` | 3 process ids, 3 job ids | every child has one owner, Ctrl-C spares jobs, copies in waited-for children are fresh |
| `shell_progress` | 2 process ids, 2 job ids, KILL, STOP and CONT | a command returns unless it waits for a stopped process |
| `shell_state` | 2 alias names, 2 paths, 2 directories, 3 variables of which 2 are visible | every alias is listed once, none hides a built-in; the environment is the initial one less what was unset; `cd -` leads back unless a `cd -` failed or others changed directories |

Runs that refute what a comment of the repository says:

| Run | What the code does instead |
|---|---|
| `free_lists_hold_all_free` | `buddy_alloc` calls `fl_remove` on a half that is in no list and thereby drops the other halves from their lists |
| `size_to_order_fits` | a size just below the mmap threshold gets a block without room for the metadata |

Five more statements of comments are refuted by configurations kept beside the runs; each
checks the one definition named and TLC stops at a counterexample:

| Configuration (module) | Definition | What the code does instead |
|---|---|---|
| `MCBanLost.cfg` (`MCSyscallBans`) | `FlipsInvert` | the `^=` of `flip_ban_branch` is a load and a store that nothing makes atomic: of two changes that meet at an ancestor one is lost, and its ban is not inverted (`hw2.c:124`) |
| `MCBanInit.cfg` (`MCSyscallBans`) | `StopsAtInit` | the walk flips init as well and stops at the idle task, the only one that is its own parent (`hw2.c:153`) |
| `WebServerLog.cfg` (`WebServer`) | `EntriesInOrder` | two workers append in the opposite order of their entries' times, since an entry is built before its worker has the lock (`request.c:237`) |
| `MCShellRevert.cfg` (`MCShellState`) | `RevertRestores` | when the `chdir` of `cd -` fails, the "revert" of `Commands.cpp:357` stores the current directory again: the next `cd -` does not lead where this one was to |
| `MCShellDefine.cfg` (`MCShellState`) | `DefinitionsTaken` | a definition with an operator between its quotes, which the format of `Commands.cpp:509` admits, is run as a pipe or redirection in children and defines nothing in the shell |

The consequence of `free_lists_hold_all_free` is visible elsewhere in the model: each
initial block serves one live allocation at a time, the lists of the lower orders are
empty between calls, and the `memmove` of `srealloc` towards lower addresses is never
reached. No block is lost for good: merging finds the dropped halves by address, which
is what `EverythingComesBack` checks. The passing allocator run uses sizes outside the
window of `size_to_order_fits` and products that do not wrap: in `scalloc`, `num * size`
is computed in a `size_t`, and the model's `Scalloc` wraps as it does.

What they refute limits two passing properties: `QuietFlipExact` is about calls
nobody interferes with and says nothing of init, and `DashLeadsBack` says nothing after a
`cd -` that failed, until the next `cd` that succeeds. A `cd -` can fail with nobody
touching a directory, as when the shell was started in one it may not enter again.

More differences between text and code are visible in the models without a run of
their own:

- The log times inside an entry are the dispatch time, since `log_write` takes them
  later (`request.h:11`).
- In the child of a redirection or pipe no job is a child, so `removeFinishedJobs` drops
  them all and `jobs > file` lists nothing.
- Once the current directory itself is removed `getcwd` fails and every `cd` is refused.
- `Commands.cpp:220` says aliases are resolved for lines without pipe or redirection
  only; the first word of every line is resolved, and in a piped or redirected one a
  second time by `PipeCommand` and `RedirectionCommand`.

### Bounds

Two sleepers and a third thread are what a stolen or misdirected wakeup needs; a ring
of two slots wraps; four descriptors fill the ring and keep the master and a worker
busy. A fourth log operation makes writers and readers queue behind each
other while the buffer grows for the second time. The properties of the server compare
two requests, or a request with its worker's counters, so two connections meet in every
order. In the exchange a request line that is longer than the line buffer comes in two
pieces, `rio_buf` is smaller than a header and larger than the rest of a line, so that
the start of the body can be read together with the end of the headers; a body of
seven bytes does not fit the socket and fills the client's buffer once with a byte to
spare, and one of thirteen fills it twice. Order 2 makes a merge cascade and a growth of two
orders possible; two mappings let `srealloc` move between them, one page of ordinary
size is less than a huge one, and the sizes reach each of the thresholds. Three initial blocks make `fl_insert` walk its list. Two tasks below
init are enough for flips that meet at an ancestor, for adoption by init and for a walk
that passes through a task that ends. Three process ids are a job and a pipe of two,
and, after a reap, an id used again; the third
job id makes a gap in the ids. Two alias names give definitions that use one another
and an `unalias` that fails at its second name; two paths and two directories give
rename, and removal followed by a new directory of the old name. `MaxOps`, `MaxTask`, `MaxJobId`, `Limit`, the sets of
connections and the typed `Lines` are bounds; nothing else in the models stops a behaviour. Symmetry is used
only where no liveness is checked. Deadlock is
checked except where the system really stops: an exhausted bound (`RWLog`,
`WebServer`), a server that has died, a shell that has exited, an exchange that is over.

`ExchangeAssumption` leaves out two inputs that break the code: a line of which
`rio_readlineb` leaves just the line end for its next call, which ends the headers too
early; and, as the client's requests are complete, one that `snprintf` cuts.

### Fairness

Every assumption is weak fairness of a thread's own steps: the scheduler runs a thread
that can run. Beyond that: requests end (the body of `handle_request`, and a client
that sends or closes), a CGI program and a shell's child end unless stopped, spurious
wakeups do not go on for ever, interrupted calls are not interrupted for ever, and the
standard input a client strayed to goes on or ends. Nothing is assumed of clients connecting, of wrappers failing, of users typing or pressing
Ctrl-C, or of the mutex being granted in any order.

## Proofs

All constants are arbitrary within the named assumptions: finitely many workers, any
set of connections, a queue capacity of at least 1, positive entry lengths, any number
of tasks, process ids, job ids, aliases and variables, any sizes and any break limit.
Each proof module has one inductive invariant, cut into parts that are proved one after
the other where a later part needs the earlier ones.

- `RequestQueueProofs`: `TypeCorrect`, `MasterNeverSleepsWithRoom`, `NoLostWakeup`,
  `EveryConnectionHasOneOwner`, `QueueImplementsFifo`. The inductive invariant adds
  `Control` (the mutex holder is the thread in the critical section, threads in a wait
  set are blocked, what the `while` condition established still holds in the body) and
  `Ownership` (the tail follows from head and count; the places a connection can be in
  are disjoint). The wakeup property counts: a push adds one item and wakes at most
  one sleeper, a pop uses up one of the workers on their way. The refinement maps the
  ring to the sequence of its contents; push and pop are appending and taking the head
  modulo the capacity, all other steps stutter.
- `RWLogProofs`: `TypeCorrect`, `WritersExclude`, `LockWakeups`, `WritersGoFirst`,
  `LogStaysIntact`, `ReadsAreSnapshots`. Exclusion is not inductive: the guards read
  counters. `LockInv` says what the counters count, as cardinalities of the sets of
  threads at given places. The contents of the buffer are described by a layout: a start
  and a length for each entry, intervals that are disjoint and cover the buffer up to
  `len`. An append extends the layout by one interval at its end, growing the buffer
  keeps it, and what the properties say byte by byte is read off it.
- `WebServerProofs`: `TypeCorrect`, `TimesStayInOrder`, `PostsReadTheGets`,
  `CountersAddUp`. `Places` says that a connection is with the master, in the queue or
  with one worker, and not answered before `Send`. `Sections` relates the critical
  sections that have ended (answered, or about to be) to those still running: one that
  must not overlap with them began after they ended, so when it ends it is apart from
  them too. `LogFacts` says which connections have an entry and what the copy of a POST
  reaches. `Counters` is `StatsAddUp` with what `log_write` is about to add.
- `WebServerProofs`, second part: `ExchangeResponseExact`, `ExchangeNothingLeftUnread`,
  about `HttpExchange` under its `ExchangeAssumption`: any
  `RIO_BUFSIZE` and socket buffer, a `MAXLINE` above 3, a `MAXBUF` above 5, bodies of any
  length, request lines of any length but the ones the assumption leaves out.
  Neither property is inductive: both speak of the end. `ExchangeInv` follows the bytes.
  Each direction is one stream whose bytes are known in advance (`Request`, `Reply`), and
  at any time it is in four stages: with the reader (its line, or the body it has), in its
  `rio_buf`, in the socket, not yet written. `Stages` says that the four in a row are the
  stream from a position on, so a step that moves bytes from a stage to the next keeps it
  wherever the kernel cuts; this is proved once for each kind of move and used for both
  directions. `ServerReads` and `ClientReads` say which positions a reader can be at: the
  start of a line, or of a piece of a long one. `PieceOfRequest` is the step where the
  assumption on request lines is needed: a piece is the blank line only at the end of the
  request, so when `handle_request` answers nothing is left. For the client,
  `PieceOfHead` says that what it takes for the blank line is the end of the header;
  `Sending` says how much of the answer has been begun, so an end of the connection inside
  the header or the body means that the server died. A death only drops what was not yet
  written, so the stream stays a beginning of the answer (`Sent`). A
  client that is astray has passed a full chunk and has more to come, so its body is
  longer than `MAXBUF`. A file that shrinks only allows more bytes of the buffer.
- `FreeListAllocProofs`: `ListStaysSound`, `FirstFitImplementsAllocator`,
  `StatisticsExact`. Sorted and disjoint blocks below the break are inductive together
  with what the program holds; first fit takes a free block or a new one at the break,
  so the refinement follows. The statistics are sums over the list; lemmas say how a sum
  changes when one term does.
- `BuddyAllocProofs`: `TypeCorrect`, `HeapStaysTiled`, `FreeListsStaySound`, `AlwaysCoalesced`,
  `NothingIsLost`, `MappingsStayExact`, `KeepsHandsOff`, `FitsOutsideTheGap`,
  `BuddyImplementsAllocator`, for any number of orders and initial blocks. `HeapInv` describes the heap the code really keeps, which is simpler
  than a buddy heap has to be: as `fl_remove` takes a block that is in no list for the
  first of its list, a half put on a list by `split_block` is off it again before the
  call returns. So between calls only the list of `MAX_ORDER` has elements, and every
  block handed out starts where `buddy_init` put one (a base). `Layout` says that a
  base of some order has free halves of every order from there on above it, `Chain` that
  the list of `MAX_ORDER` links the free bases upwards and both ways, `LowerLists` that
  the other lists are empty but for a half just put there, `Owners` that each base is on
  the list, with the program or in the running call's hands; `Splitting`, `Inserting`,
  `Merging` and `Growing` say what the call's registers mean at each step. The buddy of
  a base is thus always the half above it, and merging ends at `MAX_ORDER` or at a base
  of full size. `MapInv` says that mappings are whole pages, whole huge pages where the
  kernel gave those, so that the length `mmap_free` recomputes is the one mapped.
  The last two theorems assume `SizesFit`: no size, nor product that `scalloc` is given,
  is within `sizeof(MallocMetadata)` below the threshold, and no product wraps. The first
  is the bug `size_to_order_fits` shows, the second the hazard at `malloc_3.cpp:302`; the
  sizes of the run `buddy_allocator` satisfy both. `LiveInv` then says that every block
  has the room and the contents the program believes in, and that the block a call is
  going to return will. As `HeapInv` puts every block of the program at a base, blocks
  are apart, and each step is an allocation, a release, a move or a stutter.
- `SyscallBansProofs`: `TypeCorrect`, `WalkClimbs`, `BansOnlyFromBelow`, `OnlyAncestors`,
  `QuietFlipsExact`. The invariant orders the process tree: a parent is older than its
  child, also after adoption, so the walk's position decreases until it is the idle task.
  For the last two it also says where a walk is: at an ancestor the caller had when it
  called, or at init or idle; and, while nobody interferes, at the k-th one, with exactly
  the first k flipped.
- `SmashProofs`: `TypeCorrect`, `ChildrenOnce`, `CopiesFresh`, `CtrlCSafe`. The invariant
  says how many processes the command in hand has at each place of the shell, that
  `fg_pid` is set only around the wait and never names a job, and that only a process
  that is waited for, or was lost, executes a built-in command.
- `ShellStateProofs`: `AliasesStayExact`, `EnvironStaysExact`, `DashAlwaysLeadsBack`.
  A name is appended to the order of the aliases only when it is new, and removed from
  both together; taking the first entry of a name out of what is left of the environment is leaving out one more name of the
  initial one; and between `getcwd` and `chdir` of a `cd` the directory is the one
  `getcwd` found, unless others changed directories since, and `last_pwd` has been
  overwritten by a `cd -` only, whose failure `touched` remembers.

Facts about recursive functions (the k-th ancestor, a filtered sequence, sums over finite
sets, the sizes of blocks, the walk along the heap) are proved by the least
counterexample: the natural numbers and the finite subsets of a set are well-founded, so
a property that fails somewhere fails at a smallest place, and one unfolding of the
function refutes that.

Only model-checked: liveness under fairness (`ImplementsFairFifo`, `EveryCallReturns`,
`EveryConnectionEnds`, `ExchangeEnds`, `FlipReturns`, `CommandReturns`), which the prover
does not handle. Every invariant and every other action property of a passing run is
proved.

## Plan

Done, each with proofs: request queue, log and the server that composes them; the
exchange between client and server; the free-list allocator and its refinement; the buddy
heap, its mappings and their refinement; the bans; the shell's job control, aliases,
directory and environment. Open: nothing a run checks but liveness is without a theorem.
The natural next step is to let the exchange send several requests' worth of arbitrary
header lines, and to model the inputs that `ExchangeAssumption` leaves out once the code
handles them.

## Not modelled

The parsing and text of HTTP requests, responses and shell lines (abstracted to their
kinds, words and framing bytes); the children's file descriptors and output; the commands
that only print, `du` among them; `malloc_1.cpp`, one guarded `sbrk` without state; the CGI
demo, the test programs and the system-call table; socket setup and name resolution; the safety of `cout`
inside a signal handler. `log_destroy` is never reached from `main`. `sys_hello` only
prints. `fg_cmd` of the shell is written and never read.
