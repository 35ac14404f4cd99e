----------------------------- MODULE WebServer -----------------------------
(***************************************************************************)
(* The web server as a whole: the master's accept loop, the request queue, *)
(* the workers running handle_request (request.c), the log, CGI children,  *)
(* and clients that may go away.                                           *)
(*                                                                         *)
(* The queue is the FIFO channel that RequestQueue is shown to implement,  *)
(* and the log is guarded by the exclusion RWLog is shown to give, with    *)
(* the buffer itself reduced to a sequence of entries.  A wrapper of       *)
(* segel.c that sees an error ends the process: unix_error and posix_error *)
(* call exit(1), and a write to a connection the client has reset raises   *)
(* SIGPIPE.                                                                *)
(***************************************************************************)
EXTENDS Naturals, Sequences, FiniteSets

CONSTANTS
  Workers,   \* worker threads
  Conns,     \* connections (bound: each is accepted once)
  NoConn,    \* "no connection"
  Cap        \* queue_size

ASSUME ServerAssumption ==
  /\ IsFiniteSet(Workers) /\ Workers # {}
  /\ NoConn \notin Conns
  /\ Cap \in Nat \ {0}

VARIABLES
  clock,     \* what gettimeofday last returned
  up,        \* the server process is running
  accepted,  \* connections accepted so far
  inhand,    \* the item the master is about to push
  queue,     \* the queue, oldest first
  pc,        \* where each worker is
  req,       \* the request of each worker: connection, kind, time_stats, log copy
  stats,     \* g_tstats: the counters of each worker
  log,       \* the entries of the log, oldest first
  held,      \* connections the server process has open
  cgi,       \* connections the CGI child of each worker has inherited
  resp       \* what was sent on each connection

vars == <<clock, up, accepted, inhand, queue, pc, req, stats, log, held, cgi, resp>>
master == <<accepted, inhand, queue>>

NoTimes == [arrival |-> 0, dispatch |-> 0, log_enter |-> 0, log_exit |-> 0]
NoReq   == [conn |-> NoConn, kind |-> "none", tm |-> NoTimes, body |-> 0]
NoItem  == [conn |-> NoConn, arrival |-> 0]
NoResp  == [kind |-> "none", thread |-> NoConn, stats |-> 0, tm |-> NoTimes, body |-> 0, sent |-> 0]

Goto(w, label) == pc' = [pc EXCEPT ![w] = label]
Conn(w) == req[w].conn
-----------------------------------------------------------------------------
(* The memory of the process when main() enters its loop. *)
Fresh == [inhand |-> NoItem, queue |-> <<>>, log |-> <<>>, held |-> {},
          pc |-> [w \in Workers |-> "pop"],
          req |-> [w \in Workers |-> NoReq],
          stats |-> [w \in Workers |-> [total |-> 0, stat |-> 0, dynm |-> 0, post |-> 0]]]

Init ==
  /\ clock = 0
  /\ up = TRUE
  /\ accepted = {}
  /\ inhand = Fresh.inhand /\ queue = Fresh.queue /\ log = Fresh.log /\ held = Fresh.held
  /\ pc = Fresh.pc /\ req = Fresh.req /\ stats = Fresh.stats
  /\ cgi = [w \in Workers |-> {}]
  /\ resp = [c \in Conns |-> NoResp]

(* main(): Accept and the arrival time stamp. *)
Accept(c) ==
  /\ up
  /\ inhand = NoItem
  /\ c \notin accepted
  /\ accepted' = accepted \cup {c}
  /\ held' = held \cup {c}
  /\ clock' = clock + 1
  /\ inhand' = [conn |-> c, arrival |-> clock + 1]
  /\ UNCHANGED <<up, queue, pc, req, stats, log, cgi, resp>>

(* main(): queue_push. *)
Enqueue ==
  /\ up
  /\ inhand # NoItem
  /\ Len(queue) < Cap
  /\ queue' = Append(queue, inhand)
  /\ inhand' = NoItem
  /\ UNCHANGED <<clock, up, accepted, pc, req, stats, log, held, cgi, resp>>

(* worker(): queue_pop, *)
Pop(w) ==
  /\ up
  /\ pc[w] = "pop"
  /\ queue # <<>>
  /\ req' = [req EXCEPT ![w] = [NoReq EXCEPT !.conn = Head(queue).conn,
                                             !.tm.arrival = Head(queue).arrival]]
  /\ queue' = Tail(queue)
  /\ Goto(w, "stamp")
  /\ UNCHANGED <<clock, up, accepted, inhand, stats, log, held, cgi, resp>>

(* and then, not in the same critical section, the dispatch time stamp,    *)
(* which is also the default of the two log time stamps.                   *)
Stamp(w) ==
  /\ up
  /\ pc[w] = "stamp"
  /\ clock' = clock + 1
  /\ req' = [req EXCEPT ![w].tm.dispatch  = clock + 1,
                        ![w].tm.log_enter = clock + 1,
                        ![w].tm.log_exit  = clock + 1]
  /\ Goto(w, "read")
  /\ UNCHANGED <<master, up, stats, log, held, cgi, resp>>

(* Mutant: requests that end in an error are not counted. *)
CountSuccesses(s, kind) ==
  [total |-> IF kind = "error" THEN s.total ELSE s.total + 1,
   stat  |-> IF kind = "static" THEN s.stat + 1 ELSE s.stat,
   dynm  |-> IF kind = "dynamic" THEN s.dynm + 1 ELSE s.dynm,
   post  |-> IF kind = "post" THEN s.post + 1 ELSE s.post]

(* The counters after a request of some kind. *)
Count(s, kind) ==
  [total |-> s.total + 1,
   stat  |-> IF kind = "static" THEN s.stat + 1 ELSE s.stat,
   dynm  |-> IF kind = "dynamic" THEN s.dynm + 1 ELSE s.dynm,
   post  |-> IF kind = "post" THEN s.post + 1 ELSE s.post]

(* Mutant: static files are served without a log entry. *)
RouteUnlogged(kind) ==
  CASE kind \in {"error", "static"} -> "send"
    [] kind = "post" -> "log_read"
    [] OTHER -> "log_write"

(* Errors are answered at once, a POST reads the log, a GET writes it. *)
Route(kind) ==
  CASE kind = "error" -> "send"
    [] kind = "post" -> "log_read"
    [] OTHER -> "log_write"

(* handle_request: the client has closed without sending a line. *)
ReadNothing(w) ==
  /\ up
  /\ pc[w] = "read"
  /\ Goto(w, "close")
  /\ UNCHANGED <<clock, up, master, req, stats, log, held, cgi, resp>>

(* handle_request: the request is read, counted and classified: an error   *)
(* (501, 404 or 403), a POST, or a GET of a file or of a CGI program.      *)
Read(w, kind) ==
  /\ up
  /\ pc[w] = "read"
  /\ req' = [req EXCEPT ![w].kind = kind]
  /\ stats' = [stats EXCEPT ![w] = Count(@, kind)]
  /\ Goto(w, Route(kind))
  /\ UNCHANGED <<clock, up, master, log, held, cgi, resp>>

(* Mutant: a writer does not wait for readers. *)
WriterIgnoresReaders == \A v \in Workers : pc[v] # "writing"

(* What rw_write_lock and rw_read_lock wait for. *)
WriterMayEnter == \A v \in Workers : pc[v] \notin {"writing", "reading"}
ReaderMayEnter == \A v \in Workers : pc[v] # "writing"

(* append_stats into entry and log_write.  The entry is built before       *)
(* log_write sets the log time stamps of the request.  A writer is alone   *)
(* between its two stamps, readers are only apart from writers.            *)
WriteEnter(w) ==
  /\ up
  /\ pc[w] = "log_write"
  /\ WriterMayEnter
  /\ clock' = clock + 1
  /\ log' = Append(log, [conn |-> Conn(w), thread |-> w, stats |-> stats[w],
                         tm |-> req[w].tm])
  /\ req' = [req EXCEPT ![w].tm.log_enter = clock + 1]
  /\ Goto(w, "writing")
  /\ UNCHANGED <<up, master, stats, held, cgi, resp>>

(* serve_post: log_read.  The log only grows, so its length stands for the *)
(* copy made of it.                                                        *)
ReadEnter(w) ==
  /\ up
  /\ pc[w] = "log_read"
  /\ ReaderMayEnter
  /\ clock' = clock + 1
  /\ req' = [req EXCEPT ![w].tm.log_enter = clock + 1, ![w].body = Len(log)]
  /\ Goto(w, "reading")
  /\ UNCHANGED <<up, master, stats, log, held, cgi, resp>>

(* The second stamp and the return from log_write or log_read. *)
LogExit(w) ==
  /\ up
  /\ pc[w] \in {"writing", "reading"}
  /\ clock' = clock + 1
  /\ req' = [req EXCEPT ![w].tm.log_exit = clock + 1]
  /\ Goto(w, "send")
  /\ UNCHANGED <<up, master, stats, log, held, cgi, resp>>

(* send_error, serve_static, serve_dynamic and serve_post: the response    *)
(* line, the stat headers and the body.  serve_dynamic forks, and the      *)
(* child inherits every connection the server has open.                    *)
Send(w) ==
  /\ up
  /\ pc[w] = "send"
  /\ resp' = [resp EXCEPT ![Conn(w)] =
       [kind |-> req[w].kind, thread |-> w, stats |-> stats[w].total, tm |-> req[w].tm,
        body |-> req[w].body, sent |-> clock]]
  /\ \/ /\ req[w].kind = "dynamic"
        /\ cgi' = [cgi EXCEPT ![w] = held]
        /\ Goto(w, "wait_cgi")
     \/ /\ req[w].kind # "dynamic"
        /\ Goto(w, "close")
        /\ UNCHANGED cgi
  /\ UNCHANGED <<clock, up, master, req, stats, log, held>>

(* The CGI program ends and Waitpid returns. *)
CgiExit(w) ==
  /\ up
  /\ pc[w] = "wait_cgi"
  /\ cgi' = [cgi EXCEPT ![w] = {}]
  /\ Goto(w, "close")
  /\ UNCHANGED <<clock, up, master, req, stats, log, held, resp>>

(* Mutant: the connection is not closed. *)
CloseForgotten(w) ==
  /\ up
  /\ pc[w] = "close"
  /\ req' = [req EXCEPT ![w] = NoReq]
  /\ Goto(w, "pop")
  /\ UNCHANGED <<clock, up, master, stats, log, held, cgi, resp>>

(* worker(): Close(item.connfd). *)
Close(w) ==
  /\ up
  /\ pc[w] = "close"
  /\ held' = held \ {Conn(w)}
  /\ req' = [req EXCEPT ![w] = NoReq]
  /\ Goto(w, "pop")
  /\ UNCHANGED <<clock, up, master, stats, log, cgi, resp>>

(* A wrapper of segel.c fails in some thread and calls exit(1): Accept in  *)
(* the master, Rio_readlineb or Rio_writen of a connection the client has  *)
(* reset, Malloc or Realloc for the log or a file, Open, Fork, Waitpid,    *)
(* Close.  The memory of the process and all its connections are gone; CGI *)
(* children go on.                                                         *)
Die ==
  /\ up
  /\ inhand = NoItem \/ \E w \in Workers : pc[w] \notin {"pop", "stamp"}
  /\ up' = FALSE
  /\ inhand' = Fresh.inhand /\ queue' = Fresh.queue /\ log' = Fresh.log /\ held' = Fresh.held
  /\ pc' = Fresh.pc /\ req' = Fresh.req /\ stats' = Fresh.stats
  /\ UNCHANGED <<clock, accepted, cgi, resp>>

Kinds == {"error", "static", "dynamic", "post"}

WorkerStep(w) ==
  \/ Pop(w) \/ Stamp(w)
  \/ ReadNothing(w) \/ (\E kind \in Kinds : Read(w, kind))
  \/ WriteEnter(w) \/ ReadEnter(w) \/ LogExit(w) \/ Send(w) \/ CgiExit(w) \/ Close(w)

Next ==
  \/ \E c \in Conns : Accept(c)
  \/ Enqueue
  \/ \E w \in Workers : WorkerStep(w)
  \/ Die

Spec == Init /\ [][Next]_vars

(* Threads run, a client sends its request or closes, a CGI program ends.  *)
FairSpec ==
  /\ Spec
  /\ WF_vars(Enqueue)
  /\ \A w \in Workers : WF_vars(WorkerStep(w))
-----------------------------------------------------------------------------
Labels == {"pop", "stamp", "read", "log_write", "writing", "log_read", "reading", "send", "wait_cgi", "close"}

(* Type invariant: the queue holds at most queue_size accepted connections *)
(* and a worker has a connection exactly while it handles one.             *)
TypeOK ==
  /\ clock \in Nat
  /\ up \in BOOLEAN
  /\ accepted \subseteq Conns /\ held \subseteq accepted
  /\ inhand.conn \in accepted \cup {NoConn}
  /\ Len(queue) <= Cap /\ \A i \in DOMAIN queue : queue[i].conn \in accepted
  /\ pc \in [Workers -> Labels]
  /\ \A w \in Workers : Conn(w) \in accepted \cup {NoConn} /\ cgi[w] \subseteq accepted
  /\ \A w \in Workers : pc[w] \in {"pop"} <=> Conn(w) = NoConn

Entries(c) == {i \in DOMAIN log : log[i].conn = c}
Answered(kinds) == {c \in Conns : resp[c].kind \in kinds}
Gets == {"static", "dynamic"}

(* A client that has the answer to a GET and then sends a POST finds the   *)
(* GET's entry in the log it gets back: exactly one entry, and not later   *)
(* than the copy.  This needs the entry to be written before the answer    *)
(* and the log to lose nothing.                                            *)
ReadYourWrites == up =>
  /\ \A c \in Answered(Gets) : Cardinality(Entries(c)) = 1
  /\ \A c \in Answered(Gets), d \in Answered({"post"}) :
       resp[c].sent < resp[d].tm.arrival => \A i \in Entries(c) : i <= resp[d].body

(* The counters of a worker agree with what it has done: every request it  *)
(* counted is answered or in progress, and its successful GETs are the     *)
(* entries it has in the log, which carry 1, 2, 3... as its request count  *)
(* grows.                                                                  *)
StatsAddUp == up =>
  \A w \in Workers :
    LET answered(kinds) == Cardinality({c \in Answered(kinds) : resp[c].thread = w})
        busy(kinds) == IF pc[w] \in {"log_write", "writing", "log_read", "reading", "send"} /\ req[w].kind \in kinds
                         THEN 1 ELSE 0
        mine == {i \in DOMAIN log : log[i].thread = w}
    IN  /\ stats[w].total = answered(Kinds) + busy(Kinds)
        /\ stats[w].stat  = answered({"static"}) + busy({"static"})
        /\ stats[w].dynm  = answered({"dynamic"}) + busy({"dynamic"})
        /\ stats[w].post  = answered({"post"}) + busy({"post"})
        /\ Cardinality(mine) = stats[w].stat + stats[w].dynm - (IF pc[w] = "log_write" THEN 1 ELSE 0)
        /\ \A i, j \in mine : i < j => log[i].stats.total < log[j].stats.total

(* The times in a response are in the order of the events they name, and   *)
(* those of a request that used the log are the times of its own critical  *)
(* section: that of a GET overlaps with no other.                          *)
TimesInOrder ==
  LET logged == Answered(Gets \cup {"post"})
      Before(c, d) == resp[c].tm.log_exit < resp[d].tm.log_enter
  IN  /\ \A c \in Answered(Kinds) :
           LET tm == resp[c].tm
           IN  /\ tm.arrival < tm.dispatch
               /\ c \in logged => tm.dispatch < tm.log_enter /\ tm.log_enter < tm.log_exit
               /\ c \notin logged => tm.log_enter = tm.dispatch /\ tm.log_exit = tm.dispatch
      /\ \A c \in Answered(Gets) : \A d \in logged \ {c} : Before(c, d) \/ Before(d, c)

(* The entries of CGI requests are in the log in the order of their times, *)
(* as the comment where they are built says. The code builds an entry      *)
(* before it waits for the lock of the log, so another worker can be first *)
(* to write. It is stated of requests in hand, whose kind is known.        *)
EntriesInOrder ==
  LET dynamic(i) == req[log[i].thread].conn = log[i].conn /\ req[log[i].thread].kind = "dynamic"
  IN  \A i, j \in DOMAIN log :
        i < j /\ dynamic(i) /\ dynamic(j) => log[i].tm.dispatch <= log[j].tm.dispatch

(* Unless the server dies, every connection it accepts is finally closed,  *)
(* by the worker and by every CGI child that inherited it, so that the     *)
(* client sees the end of the response.                                    *)
EveryConnectionEnds ==
  \A c \in Conns : (c \in held) ~> (~up \/ (c \notin held /\ \A w \in Workers : c \notin cgi[w]))
=============================================================================
