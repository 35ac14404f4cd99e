--------------------------- MODULE WebServerProofs ---------------------------
(***************************************************************************)
(* Proofs about the web server for any number of workers and connections   *)
(* and any size of the queue.                                              *)
(*                                                                         *)
(* A connection is in one place at a time (with the master, in the queue,  *)
(* with one worker) and is answered by the worker that has it; the rest is *)
(* what each place says about times, the log and the counters.             *)
(*                                                                         *)
(* The second part is about a single connection, byte by byte.             *)
(***************************************************************************)
EXTENDS WebServer, HttpExchange, FiniteSetTheorems, TLAPS

Times  == [arrival : Nat, dispatch : Nat, log_enter : Nat, log_exit : Nat]
ReqT   == [conn : Conns \cup {NoConn}, kind : Kinds \cup {"none"}, tm : Times, body : Nat]
ItemT  == [conn : Conns, arrival : Nat]
StatT  == [total : Nat, stat : Nat, dynm : Nat, post : Nat]
EntryT == [conn : Conns \cup {NoConn}, thread : Workers, stats : StatT, tm : Times]
RespT  == [kind : Kinds \cup {"none"}, thread : Workers \cup {NoConn}, stats : Nat, tm : Times,
           body : Nat, sent : Nat]

Types ==
  /\ clock \in Nat /\ up \in BOOLEAN
  /\ accepted \in SUBSET Conns /\ IsFiniteSet(accepted) /\ held \subseteq accepted
  /\ inhand = NoItem \/ (inhand \in ItemT /\ inhand.conn \in accepted)
  /\ queue \in Seq(ItemT) /\ Len(queue) <= Cap
  /\ pc \in [Workers -> Labels] /\ req \in [Workers -> ReqT] /\ stats \in [Workers -> StatT]
  /\ log \in Seq(EntryT)
  /\ cgi \in [Workers -> SUBSET Conns] /\ \A w \in Workers : cgi[w] \subseteq accepted
  /\ resp \in [Conns -> RespT]

(* What a worker at p knows of its request r when the clock shows t. *)
Work(p, r, t) ==
  /\ p = "pop" <=> r.conn = NoConn
  /\ p # "pop" => r.tm.arrival <= t
  /\ p \in {"log_write", "writing"} => r.kind \in Gets
  /\ p \in {"log_read", "reading"} => r.kind = "post"
  /\ p = "send" => r.kind \in Kinds
  /\ p \in {"read", "log_write", "log_read", "writing", "reading", "send"} =>
       r.tm.arrival < r.tm.dispatch /\ r.tm.dispatch <= t
  /\ p \in {"read", "log_write", "log_read"} \/ (p = "send" /\ r.kind = "error") =>
       r.tm.log_enter = r.tm.dispatch /\ r.tm.log_exit = r.tm.dispatch
  /\ p \in {"writing", "reading"} => r.tm.dispatch < r.tm.log_enter /\ r.tm.log_enter <= t
  /\ p = "send" /\ r.kind # "error" =>
       r.tm.dispatch < r.tm.log_enter /\ r.tm.log_enter < r.tm.log_exit /\ r.tm.log_exit <= t

Works == \A w \in Workers : Work(pc[w], req[w], clock)

Arrivals == inhand.arrival <= clock /\ \A i \in DOMAIN queue : queue[i].arrival <= clock

Base == Types /\ Works /\ Arrivals

LEMMA WorkLater ==
  ASSUME NEW p, NEW r \in ReqT, NEW t \in Nat, NEW u \in Nat, t <= u, Work(p, r, t)
  PROVE  Work(p, r, u)
BY DEF Work, ReqT, Times

LEMMA NoReqFacts ==
  /\ NoReq \in ReqT /\ NoReq.conn = NoConn /\ NoReq.kind = "none" /\ NoReq.tm = NoTimes /\ NoReq.body = 0
  /\ NoTimes \in Times /\ NoTimes.arrival = 0
  /\ NoItem.conn = NoConn /\ NoItem.arrival = 0
BY DEF NoReq, NoTimes, ReqT, Times, NoItem

(* What each step does to the request of its worker. *)
LEMMA PopReq ==
  ASSUME Base, NEW w \in Workers, Pop(w)
  PROVE  /\ pc' = [pc EXCEPT ![w] = "stamp"] /\ pc[w] = "pop" /\ req' = [req EXCEPT ![w] = req'[w]]
         /\ req'[w] \in ReqT /\ req'[w].conn = queue[1].conn /\ req'[w].kind = "none"
         /\ req'[w].tm.arrival = queue[1].arrival
         /\ queue # <<>> /\ queue' = Tail(queue) /\ queue[1] \in ItemT
<1>1. queue # <<>> /\ queue \in Seq(ItemT) /\ req \in [Workers -> ReqT]
  BY DEF Pop, Base, Types
<1>2. Head(queue) = queue[1] /\ queue[1] \in ItemT
  BY <1>1
<1> DEFINE r == [NoReq EXCEPT !.conn = Head(queue).conn, !.tm.arrival = Head(queue).arrival]
<1>3. req' = [req EXCEPT ![w] = r]
  BY DEF Pop
<1>4. /\ r \in ReqT /\ r.conn = queue[1].conn /\ r.kind = "none" /\ r.tm.arrival = queue[1].arrival
  BY <1>2 DEF NoReq, NoTimes, ReqT, Times, ItemT
<1> HIDE DEF r
<1>5. req'[w] = r
  BY <1>1, <1>3
<1> QED BY <1>1, <1>2, <1>3, <1>4, <1>5 DEF Pop, Goto

LEMMA StampReq ==
  ASSUME Base, NEW w \in Workers, Stamp(w)
  PROVE  /\ pc' = [pc EXCEPT ![w] = "read"] /\ pc[w] = "stamp" /\ req' = [req EXCEPT ![w] = req'[w]]
         /\ req'[w] \in ReqT /\ req'[w].conn = req[w].conn /\ req'[w].kind = req[w].kind
         /\ req'[w].body = req[w].body /\ req'[w].tm.arrival = req[w].tm.arrival
         /\ req'[w].tm.dispatch = clock + 1 /\ req'[w].tm.log_enter = clock + 1
         /\ req'[w].tm.log_exit = clock + 1
<1>1. req \in [Workers -> ReqT] /\ clock \in Nat
  BY DEF Base, Types
<1> DEFINE a == [req[w] EXCEPT !.tm.dispatch = clock + 1]
           b == [a EXCEPT !.tm.log_enter = clock + 1]
           r == [b EXCEPT !.tm.log_exit = clock + 1]
<1>3. req' = [req EXCEPT ![w] = r]
  BY <1>1 DEF Stamp
<1>2. /\ r \in ReqT /\ r.conn = req[w].conn /\ r.kind = req[w].kind /\ r.body = req[w].body
      /\ r.tm.arrival = req[w].tm.arrival
      /\ r.tm.dispatch = clock + 1 /\ r.tm.log_enter = clock + 1 /\ r.tm.log_exit = clock + 1
  <2>1. /\ a \in ReqT /\ a.conn = req[w].conn /\ a.kind = req[w].kind /\ a.body = req[w].body
        /\ a.tm.arrival = req[w].tm.arrival /\ a.tm.dispatch = clock + 1
    BY <1>1 DEF ReqT, Times
  <2> HIDE DEF a
  <2>2. /\ b \in ReqT /\ b.conn = a.conn /\ b.kind = a.kind /\ b.body = a.body
        /\ b.tm.arrival = a.tm.arrival /\ b.tm.dispatch = a.tm.dispatch /\ b.tm.log_enter = clock + 1
    BY <1>1, <2>1 DEF ReqT, Times
  <2> HIDE DEF b
  <2>3. /\ r \in ReqT /\ r.conn = b.conn /\ r.kind = b.kind /\ r.body = b.body
        /\ r.tm.arrival = b.tm.arrival /\ r.tm.dispatch = b.tm.dispatch
        /\ r.tm.log_enter = b.tm.log_enter /\ r.tm.log_exit = clock + 1
    BY <1>1, <2>2 DEF ReqT, Times
  <2> QED BY <2>1, <2>2, <2>3
<1> HIDE DEF r
<1>4. req'[w] = r
  BY <1>1, <1>3
<1> QED BY <1>2, <1>3, <1>4 DEF Stamp, Goto

LEMMA ReadReq ==
  ASSUME Base, NEW w \in Workers, NEW kind \in Kinds, Read(w, kind)
  PROVE  /\ pc' = [pc EXCEPT ![w] = Route(kind)] /\ pc[w] = "read" /\ req' = [req EXCEPT ![w] = req'[w]]
         /\ req'[w] \in ReqT /\ req'[w].conn = req[w].conn /\ req'[w].kind = kind
         /\ req'[w].tm = req[w].tm
<1>1. req \in [Workers -> ReqT]
  BY DEF Base, Types
<1> DEFINE r == [req[w] EXCEPT !.kind = kind]
<1>2. r \in ReqT /\ r.conn = req[w].conn /\ r.kind = kind /\ r.tm = req[w].tm
  BY <1>1 DEF ReqT
<1>3. req' = [req EXCEPT ![w] = r]
  BY <1>1 DEF Read
<1> HIDE DEF r
<1>4. req'[w] = r
  BY <1>1, <1>3
<1> QED BY <1>2, <1>3, <1>4 DEF Read, Goto

LEMMA WriteEnterReq ==
  ASSUME Base, NEW w \in Workers, WriteEnter(w)
  PROVE  /\ pc' = [pc EXCEPT ![w] = "writing"] /\ pc[w] = "log_write" /\ req' = [req EXCEPT ![w] = req'[w]]
         /\ req'[w] \in ReqT /\ req'[w].conn = req[w].conn /\ req'[w].kind = req[w].kind
         /\ req'[w].tm.arrival = req[w].tm.arrival /\ req'[w].tm.dispatch = req[w].tm.dispatch
         /\ req'[w].tm.log_enter = clock + 1
<1>1. req \in [Workers -> ReqT] /\ clock \in Nat
  BY DEF Base, Types
<1> DEFINE r == [req[w] EXCEPT !.tm.log_enter = clock + 1]
<1>2. /\ r \in ReqT /\ r.conn = req[w].conn /\ r.kind = req[w].kind
      /\ r.tm.arrival = req[w].tm.arrival /\ r.tm.dispatch = req[w].tm.dispatch
      /\ r.tm.log_enter = clock + 1
  BY <1>1 DEF ReqT, Times
<1>3. req' = [req EXCEPT ![w] = r]
  BY <1>1 DEF WriteEnter
<1> HIDE DEF r
<1>4. req'[w] = r
  BY <1>1, <1>3
<1> QED BY <1>2, <1>3, <1>4 DEF WriteEnter, Goto

LEMMA ReadEnterReq ==
  ASSUME Base, NEW w \in Workers, ReadEnter(w)
  PROVE  /\ pc' = [pc EXCEPT ![w] = "reading"] /\ pc[w] = "log_read" /\ req' = [req EXCEPT ![w] = req'[w]]
         /\ req'[w] \in ReqT /\ req'[w].conn = req[w].conn /\ req'[w].kind = req[w].kind
         /\ req'[w].tm.arrival = req[w].tm.arrival /\ req'[w].tm.dispatch = req[w].tm.dispatch
         /\ req'[w].tm.log_enter = clock + 1 /\ req'[w].body = Len(log)
<1>0. Len(log) \in Nat
  BY DEF Base, Types
<1>1. req \in [Workers -> ReqT] /\ clock \in Nat
  BY DEF Base, Types
<1> DEFINE a == [req[w] EXCEPT !.tm.log_enter = clock + 1]
           r == [a EXCEPT !.body = Len(log)]
<1>3. req' = [req EXCEPT ![w] = r]
  BY <1>1 DEF ReadEnter
<1>2. /\ r \in ReqT /\ r.conn = req[w].conn /\ r.kind = req[w].kind
      /\ r.tm.arrival = req[w].tm.arrival /\ r.tm.dispatch = req[w].tm.dispatch
      /\ r.tm.log_enter = clock + 1 /\ r.body = Len(log)
  <2>1. /\ a \in ReqT /\ a.conn = req[w].conn /\ a.kind = req[w].kind
        /\ a.tm.arrival = req[w].tm.arrival /\ a.tm.dispatch = req[w].tm.dispatch
        /\ a.tm.log_enter = clock + 1
    BY <1>1 DEF ReqT, Times
  <2> HIDE DEF a
  <2>2. /\ r \in ReqT /\ r.conn = a.conn /\ r.kind = a.kind /\ r.tm = a.tm /\ r.body = Len(log)
    BY <1>0, <2>1 DEF ReqT
  <2> QED BY <2>1, <2>2
<1> HIDE DEF r
<1>4. req'[w] = r
  BY <1>1, <1>3
<1> QED BY <1>2, <1>3, <1>4 DEF ReadEnter, Goto

LEMMA LogExitReq ==
  ASSUME Base, NEW w \in Workers, LogExit(w)
  PROVE  /\ pc' = [pc EXCEPT ![w] = "send"] /\ pc[w] \in {"writing", "reading"}
         /\ req' = [req EXCEPT ![w] = req'[w]]
         /\ req'[w] \in ReqT /\ req'[w].conn = req[w].conn /\ req'[w].kind = req[w].kind
         /\ req'[w].tm.arrival = req[w].tm.arrival /\ req'[w].tm.dispatch = req[w].tm.dispatch
         /\ req'[w].tm.log_enter = req[w].tm.log_enter /\ req'[w].tm.log_exit = clock + 1
         /\ req'[w].body = req[w].body
<1>1. req \in [Workers -> ReqT] /\ clock \in Nat
  BY DEF Base, Types
<1> DEFINE r == [req[w] EXCEPT !.tm.log_exit = clock + 1]
<1>2. /\ r \in ReqT /\ r.conn = req[w].conn /\ r.kind = req[w].kind
      /\ r.tm.arrival = req[w].tm.arrival /\ r.tm.dispatch = req[w].tm.dispatch
      /\ r.tm.log_enter = req[w].tm.log_enter /\ r.tm.log_exit = clock + 1 /\ r.body = req[w].body
  BY <1>1 DEF ReqT, Times
<1>3. req' = [req EXCEPT ![w] = r]
  BY <1>1 DEF LogExit
<1> HIDE DEF r
<1>4. req'[w] = r
  BY <1>1, <1>3
<1> QED BY <1>2, <1>3, <1>4 DEF LogExit, Goto

(* A step of one worker keeps what the others know, since time only grows. *)
LEMMA WorksStep ==
  ASSUME Base, NEW w \in Workers, NEW p, NEW r,
         pc' = [pc EXCEPT ![w] = p], req' = [req EXCEPT ![w] = r],
         clock' \in Nat, clock <= clock', Work(p, r, clock')
  PROVE  Works'
<1>1. pc \in [Workers -> Labels] /\ req \in [Workers -> ReqT] /\ clock \in Nat
  BY DEF Base, Types
<1>2. ASSUME NEW v \in Workers PROVE Work(pc'[v], req'[v], clock')
  <2>1. CASE v = w
    BY <1>1, <2>1
  <2>2. CASE v # w
    <3>1. pc'[v] = pc[v] /\ req'[v] = req[v]
      BY <1>1, <2>2
    <3>2. Work(pc[v], req[v], clock)
      BY DEF Base, Works
    <3> QED BY <1>1, <3>1, <3>2, WorkLater
  <2> QED BY <2>1, <2>2
<1> QED BY <1>2 DEF Works

LEMMA WorksGo ==
  ASSUME Base, NEW w \in Workers, NEW p,
         pc' = [pc EXCEPT ![w] = p], req' = req, clock' = clock, Work(p, req[w], clock)
  PROVE  Works'
BY DEF Base, Works, Types

LEMMA WorksStill ==
  ASSUME Base, pc' = pc, req' = req, clock' \in Nat, clock <= clock'
  PROVE  Works'
BY WorkLater DEF Base, Works, Types

LEMMA BaseInit == Init => Base
<1> SUFFICES ASSUME Init PROVE Base
  OBVIOUS
<1>1. Types
  <2>1. NoResp \in RespT
    BY NoReqFacts DEF NoResp, RespT
  <2>2. resp \in [Conns -> RespT]
    BY <2>1 DEF Init
  <2>3. req \in [Workers -> ReqT]
    BY NoReqFacts DEF Init, Fresh
  <2>4. stats \in [Workers -> StatT] /\ pc \in [Workers -> Labels]
    BY DEF Init, Fresh, StatT, Labels
  <2>5. queue = <<>> /\ log = <<>> /\ inhand = NoItem /\ held = {}
    BY DEF Init, Fresh
  <2>6. accepted = {} /\ IsFiniteSet(accepted)
    BY FS_EmptySet DEF Init
  <2>7. cgi = [w \in Workers |-> {}] /\ clock = 0 /\ up = TRUE
    BY DEF Init
  <2>8. Cap \in Nat
    BY ServerAssumption
  <2>9. queue \in Seq(ItemT) /\ Len(queue) <= Cap /\ log \in Seq(EntryT)
    BY <2>5, <2>8
  <2> QED BY <2>2, <2>3, <2>4, <2>5, <2>6, <2>7, <2>9 DEF Types
<1>2. Works
  <2> SUFFICES ASSUME NEW w \in Workers PROVE Work(pc[w], req[w], clock)
    BY DEF Works
  <2>1. pc[w] = "pop" /\ req[w] = NoReq
    BY DEF Init, Fresh
  <2> QED BY <2>1, NoReqFacts DEF Work
<1>3. Arrivals
  BY NoReqFacts DEF Init, Fresh, Arrivals
<1> QED BY <1>1, <1>2, <1>3 DEF Base

LEMMA SendEffect ==
  ASSUME Base, NEW w \in Workers, Send(w)
  PROVE  /\ pc[w] = "send" /\ Conn(w) \in Conns /\ req[w].kind \in Kinds
         /\ resp' = [resp EXCEPT ![Conn(w)] = resp'[Conn(w)]] /\ resp'[Conn(w)] \in RespT
         /\ resp'[Conn(w)].kind = req[w].kind /\ resp'[Conn(w)].thread = w
         /\ resp'[Conn(w)].tm = req[w].tm /\ resp'[Conn(w)].body = req[w].body
         /\ resp'[Conn(w)].sent = clock
         /\ pc' = [pc EXCEPT ![w] = pc'[w]] /\ pc'[w] \in {"wait_cgi", "close"}
<1>1. /\ req \in [Workers -> ReqT] /\ clock \in Nat /\ pc \in [Workers -> Labels]
      /\ stats \in [Workers -> StatT] /\ resp \in [Conns -> RespT]
  BY DEF Base, Types
<1>2. pc[w] = "send" /\ req[w].kind \in Kinds /\ req[w].conn # NoConn
  BY DEF Send, Base, Works, Work
<1>3. Conn(w) \in Conns
  BY <1>1, <1>2 DEF Conn, ReqT
<1> DEFINE r == [kind |-> req[w].kind, thread |-> w, stats |-> stats[w].total, tm |-> req[w].tm,
                 body |-> req[w].body, sent |-> clock]
<1>4. /\ r \in RespT /\ r.kind = req[w].kind /\ r.thread = w /\ r.tm = req[w].tm
      /\ r.body = req[w].body /\ r.sent = clock
  BY <1>1, <1>2 DEF RespT, ReqT, StatT
<1>5. resp' = [resp EXCEPT ![Conn(w)] = r]
  BY DEF Send
<1> HIDE DEF r
<1>6. resp'[Conn(w)] = r
  BY <1>1, <1>3, <1>5
<1>7. pc' = [pc EXCEPT ![w] = "wait_cgi"] \/ pc' = [pc EXCEPT ![w] = "close"]
  BY DEF Send, Goto
<1>8. pc' = [pc EXCEPT ![w] = pc'[w]] /\ pc'[w] \in {"wait_cgi", "close"}
  BY <1>1, <1>7
<1> QED BY <1>2, <1>3, <1>4, <1>5, <1>6, <1>8

LEMMA RouteKinds ==
  ASSUME NEW kind \in Kinds
  PROVE  /\ Route(kind) \in {"send", "log_read", "log_write"}
         /\ Route(kind) = "send" <=> kind = "error"
         /\ Route(kind) = "log_read" <=> kind = "post"
         /\ Route(kind) = "log_write" <=> kind \in Gets
<1>1. CASE kind = "error"
  BY <1>1 DEF Route, Kinds, Gets
<1>2. CASE kind = "post"
  BY <1>2 DEF Route, Kinds, Gets
<1>3. CASE kind = "static"
  BY <1>3 DEF Route, Kinds, Gets
<1>4. CASE kind = "dynamic"
  BY <1>4 DEF Route, Kinds, Gets
<1> QED BY <1>1, <1>2, <1>3, <1>4 DEF Kinds

LEMMA CountType ==
  ASSUME NEW s \in StatT, NEW kind \in Kinds
  PROVE  Count(s, kind) \in StatT
BY DEF Count, StatT

LEMMA BaseAccept ==
  ASSUME Base, NEW c \in Conns, Accept(c)
  PROVE  Base'
<1>1. Types /\ Arrivals
  BY DEF Base
<1>2. clock' \in Nat /\ clock <= clock' /\ clock' = clock + 1
  BY <1>1 DEF Types, Accept
<1> DEFINE it == [conn |-> c, arrival |-> clock + 1]
<1>3. it \in ItemT /\ it.conn = c /\ it.arrival = clock + 1
  BY <1>1 DEF Types, ItemT
<1>4. inhand' = it
  BY DEF Accept
<1> HIDE DEF it
<1>5. IsFiniteSet(accepted') /\ accepted' = accepted \cup {c}
  BY <1>1, FS_AddElement DEF Types, Accept
<1>6. Types'
  BY <1>1, <1>2, <1>3, <1>4, <1>5 DEF Types, Accept
<1>7. Works'
  BY <1>2, WorksStill DEF Accept
<1>8. Arrivals'
  <2>1. queue' = queue /\ queue \in Seq(ItemT) /\ clock \in Nat
    BY <1>1 DEF Accept, Types
  <2>2. ASSUME NEW i \in DOMAIN queue PROVE queue[i].arrival <= clock'
    <3>1. queue[i].arrival <= clock /\ queue[i] \in ItemT
      BY <1>1, <2>1 DEF Arrivals
    <3> QED BY <1>2, <2>1, <3>1 DEF ItemT
  <2> QED BY <1>2, <1>3, <1>4, <2>1, <2>2 DEF Arrivals
<1> QED BY <1>6, <1>7, <1>8 DEF Base

LEMMA BaseEnqueue ==
  ASSUME Base, Enqueue
  PROVE  Base'
<1>1. Types /\ Arrivals
  BY DEF Base
<1>2. /\ inhand \in ItemT /\ inhand.conn \in accepted /\ queue \in Seq(ItemT) /\ Len(queue) < Cap
      /\ Cap \in Nat /\ queue' = Append(queue, inhand) /\ inhand' = NoItem
  BY <1>1, ServerAssumption DEF Types, Enqueue
<1>3. /\ queue' \in Seq(ItemT) /\ Len(queue') = Len(queue) + 1 /\ Len(queue') <= Cap
      /\ \A i \in DOMAIN queue' : queue'[i] = inhand \/ (i \in DOMAIN queue /\ queue'[i] = queue[i])
  BY <1>2
<1>4. Types'
  BY <1>1, <1>2, <1>3 DEF Types, Enqueue
<1>5. Works'
  BY <1>1, WorksStill DEF Enqueue, Types
<1>6. Arrivals'
  BY <1>1, <1>2, <1>3, NoReqFacts DEF Arrivals, Enqueue, Types
<1> QED BY <1>4, <1>5, <1>6 DEF Base

LEMMA TailFacts ==
  ASSUME NEW S, NEW s \in Seq(S), s # <<>>
  PROVE  /\ Tail(s) \in Seq(S) /\ Len(Tail(s)) = Len(s) - 1 /\ 1 \in DOMAIN s /\ Len(s) \in Nat
         /\ \A i \in DOMAIN Tail(s) : i + 1 \in DOMAIN s /\ i + 1 # 1 /\ Tail(s)[i] = s[i + 1]
OBVIOUS

LEMMA BasePop ==
  ASSUME Base, NEW w \in Workers, Pop(w)
  PROVE  Base'
<1>1. Types /\ Arrivals /\ clock \in Nat /\ queue \in Seq(ItemT) /\ Cap \in Nat
  BY ServerAssumption DEF Base, Types
<1>2. /\ pc' = [pc EXCEPT ![w] = "stamp"] /\ req' = [req EXCEPT ![w] = req'[w]]
      /\ req'[w] \in ReqT /\ req'[w].conn = queue[1].conn /\ req'[w].kind = "none"
      /\ req'[w].tm.arrival = queue[1].arrival
      /\ queue # <<>> /\ queue' = Tail(queue) /\ queue[1] \in ItemT
  BY PopReq
<1>3. /\ queue' \in Seq(ItemT) /\ Len(queue') <= Cap /\ 1 \in DOMAIN queue
      /\ \A i \in DOMAIN queue' : i + 1 \in DOMAIN queue /\ queue'[i] = queue[i + 1]
  BY <1>1, <1>2, TailFacts DEF Types
<1>4. Types'
  BY <1>1, <1>2, <1>3 DEF Types, Pop, Labels
<1>5. Work("stamp", req'[w], clock)
  BY <1>1, <1>2, <1>3, ServerAssumption DEF Work, Arrivals, ItemT
<1>6. Works'
  <2>1. clock' \in Nat /\ clock <= clock' /\ clock' = clock
    BY <1>1 DEF Pop
  <2> QED BY <2>1, <1>1, <1>2, <1>5, WorksStep
<1>7. Arrivals'
  BY <1>1, <1>3 DEF Arrivals, Pop
<1> QED BY <1>4, <1>6, <1>7 DEF Base

LEMMA ArrivalsLater ==
  ASSUME Base, queue' = queue, inhand' = inhand, clock' \in Nat, clock <= clock'
  PROVE  Arrivals'
<1>1. queue \in Seq(ItemT) /\ clock \in Nat
  BY DEF Base, Types
<1>2. inhand.arrival \in Nat
  BY NoReqFacts DEF Base, Types, ItemT
<1>3. ASSUME NEW i \in DOMAIN queue PROVE queue[i].arrival <= clock'
  <2>0. queue[i] \in ItemT
    BY <1>1
  <2>1. queue[i].arrival \in Nat
    BY <2>0 DEF ItemT
  <2>2. queue[i].arrival <= clock
    BY DEF Base, Arrivals
  <2> QED BY <1>1, <2>1, <2>2
<1>4. inhand.arrival <= clock
  BY DEF Base, Arrivals
<1> QED BY <1>1, <1>2, <1>3, <1>4 DEF Arrivals

LEMMA BaseStamp ==
  ASSUME Base, NEW w \in Workers, Stamp(w)
  PROVE  Base'
<1>1. Types /\ clock \in Nat /\ req \in [Workers -> ReqT] /\ Work(pc[w], req[w], clock)
  BY DEF Base, Types, Works
<1>2. clock' = clock + 1 /\ queue' = queue /\ inhand' = inhand
  BY DEF Stamp, master
<1>3. Types'
  <2>1. req' \in [Workers -> ReqT] /\ pc' \in [Workers -> Labels]
    BY <1>1, StampReq DEF Types, Labels
  <2> QED BY <2>1, <1>1, <1>2 DEF Types, Stamp, master
<1>4. Work("read", req'[w], clock + 1)
  BY <1>1, StampReq DEF Work, ReqT, Times
<1>5. Works'
  BY <1>1, <1>2, <1>4, StampReq, WorksStep
<1>6. Arrivals'
  BY <1>1, <1>2, ArrivalsLater
<1> QED BY <1>3, <1>5, <1>6 DEF Base

LEMMA BaseReadNothing ==
  ASSUME Base, NEW w \in Workers, ReadNothing(w)
  PROVE  Base'
<1>1. Types /\ clock \in Nat /\ req \in [Workers -> ReqT] /\ Work(pc[w], req[w], clock)
  BY DEF Base, Types, Works
<1>2. /\ clock' = clock /\ queue' = queue /\ inhand' = inhand /\ pc[w] = "read"
      /\ pc' = [pc EXCEPT ![w] = "close"] /\ req' = req
  BY DEF ReadNothing, master, Goto
<1>3. Types'
  BY <1>1, <1>2 DEF Types, ReadNothing, Labels, master
<1>4. Work("close", req[w], clock)
  BY <1>1, <1>2 DEF Work
<1>5. Works'
  BY <1>2, <1>4, WorksGo
<1>6. Arrivals'
  BY <1>1, <1>2, ArrivalsLater
<1> QED BY <1>3, <1>5, <1>6 DEF Base

LEMMA BaseRead ==
  ASSUME Base, NEW w \in Workers, NEW kind \in Kinds, Read(w, kind)
  PROVE  Base'
<1>1. Types /\ clock \in Nat /\ req \in [Workers -> ReqT] /\ Work(pc[w], req[w], clock)
  BY DEF Base, Types, Works
<1>2. clock' = clock /\ queue' = queue /\ inhand' = inhand /\ pc[w] = "read"
  BY DEF Read, master
<1>3. stats' = [stats EXCEPT ![w] = Count(stats[w], kind)] /\ Count(stats[w], kind) \in StatT
  BY <1>1, CountType DEF Read, Types
<1>4. Route(kind) \in Labels
  BY RouteKinds DEF Labels
<1>5. Types'
  <2>1. req' \in [Workers -> ReqT] /\ pc' \in [Workers -> Labels]
    BY <1>1, <1>4, ReadReq DEF Types
  <2> QED BY <2>1, <1>1, <1>2, <1>3, <1>4 DEF Types, Read, master
<1>6. Work(Route(kind), req'[w], clock)
  BY <1>1, <1>2, RouteKinds, ReadReq DEF Work
<1>7. Works'
  BY <1>1, <1>2, <1>6, ReadReq, WorksStep
<1>8. Arrivals'
  BY <1>1, <1>2, ArrivalsLater
<1> QED BY <1>5, <1>7, <1>8 DEF Base

LEMMA WriteEnterLog ==
  ASSUME Base, NEW w \in Workers, WriteEnter(w)
  PROVE  \E e \in EntryT : e.conn = Conn(w) /\ e.thread = w /\ e.stats = stats[w] /\ log' = Append(log, e)
<1>1. req \in [Workers -> ReqT] /\ stats \in [Workers -> StatT]
  BY DEF Base, Types
<1> DEFINE e == [conn |-> Conn(w), thread |-> w, stats |-> stats[w], tm |-> req[w].tm]
<1>2. e \in EntryT /\ e.conn = Conn(w) /\ e.thread = w /\ e.stats = stats[w]
  BY <1>1 DEF EntryT, ReqT, Conn
<1>3. log' = Append(log, e)
  BY DEF WriteEnter
<1> QED BY <1>2, <1>3

LEMMA BaseWriteEnter ==
  ASSUME Base, NEW w \in Workers, WriteEnter(w)
  PROVE  Base'
<1>1. Types /\ clock \in Nat /\ req \in [Workers -> ReqT] /\ Work(pc[w], req[w], clock)
  BY DEF Base, Types, Works
<1>2. clock' = clock + 1 /\ queue' = queue /\ inhand' = inhand
  BY DEF WriteEnter, master
<1>3. log' \in Seq(EntryT)
  <2>1. PICK e \in EntryT : log' = Append(log, e)
    BY WriteEnterLog
  <2>2. log \in Seq(EntryT)
    BY <1>1 DEF Types
  <2> QED BY <2>1, <2>2
<1>4. Types'
  <2>1. req' \in [Workers -> ReqT] /\ pc' \in [Workers -> Labels]
    BY <1>1, WriteEnterReq DEF Types, Labels
  <2> QED BY <2>1, <1>1, <1>2, <1>3 DEF Types, WriteEnter, master
<1>5. Work("writing", req'[w], clock + 1)
  BY <1>1, WriteEnterReq DEF Work, ReqT, Times
<1>6. Works'
  BY <1>1, <1>2, <1>5, WriteEnterReq, WorksStep
<1>7. Arrivals'
  BY <1>1, <1>2, ArrivalsLater
<1> QED BY <1>4, <1>6, <1>7 DEF Base

LEMMA BaseReadEnter ==
  ASSUME Base, NEW w \in Workers, ReadEnter(w)
  PROVE  Base'
<1>1. Types /\ clock \in Nat /\ req \in [Workers -> ReqT] /\ Work(pc[w], req[w], clock)
  BY DEF Base, Types, Works
<1>2. clock' = clock + 1 /\ queue' = queue /\ inhand' = inhand
  BY DEF ReadEnter, master
<1>3. Types'
  <2>1. req' \in [Workers -> ReqT] /\ pc' \in [Workers -> Labels]
    BY <1>1, ReadEnterReq DEF Types, Labels
  <2> QED BY <2>1, <1>1, <1>2 DEF Types, ReadEnter, master
<1>4. Work("reading", req'[w], clock + 1)
  BY <1>1, ReadEnterReq DEF Work, ReqT, Times
<1>5. Works'
  BY <1>1, <1>2, <1>4, ReadEnterReq, WorksStep
<1>6. Arrivals'
  BY <1>1, <1>2, ArrivalsLater
<1> QED BY <1>3, <1>5, <1>6 DEF Base

LEMMA BaseLogExit ==
  ASSUME Base, NEW w \in Workers, LogExit(w)
  PROVE  Base'
<1>1. Types /\ clock \in Nat /\ req \in [Workers -> ReqT] /\ Work(pc[w], req[w], clock)
  BY DEF Base, Types, Works
<1>2. clock' = clock + 1 /\ queue' = queue /\ inhand' = inhand
  BY DEF LogExit, master
<1>3. Types'
  <2>1. req' \in [Workers -> ReqT] /\ pc' \in [Workers -> Labels]
    BY <1>1, LogExitReq DEF Types, Labels
  <2> QED BY <2>1, <1>1, <1>2 DEF Types, LogExit, master
<1>4. Work("send", req'[w], clock + 1)
  BY <1>1, LogExitReq DEF Work, ReqT, Times, Gets, Kinds
<1>5. Works'
  BY <1>1, <1>2, <1>4, LogExitReq, WorksStep
<1>6. Arrivals'
  BY <1>1, <1>2, ArrivalsLater
<1> QED BY <1>3, <1>5, <1>6 DEF Base

LEMMA BaseSend ==
  ASSUME Base, NEW w \in Workers, Send(w)
  PROVE  Base'
<1>1. Types /\ clock \in Nat /\ req \in [Workers -> ReqT] /\ Work(pc[w], req[w], clock)
  BY DEF Base, Types, Works
<1>2. clock' = clock /\ queue' = queue /\ inhand' = inhand /\ req' = req
  BY DEF Send, master
<1>3. resp' \in [Conns -> RespT]
  BY <1>1, SendEffect DEF Types
<1>4. pc' \in [Workers -> Labels]
  BY <1>1, SendEffect DEF Types, Labels
<1>5. cgi' = cgi \/ cgi' = [cgi EXCEPT ![w] = held]
  BY DEF Send
<1>6. cgi' \in [Workers -> SUBSET Conns] /\ \A v \in Workers : cgi'[v] \subseteq accepted
  BY <1>1, <1>5 DEF Types
<1>7. Types'
  BY <1>1, <1>2, <1>3, <1>4, <1>6 DEF Types, Send, master
<1>8. Work(pc'[w], req[w], clock)
  BY <1>1, <1>2, SendEffect DEF Work
<1>9. Works'
  BY <1>2, <1>8, SendEffect, WorksGo
<1>10. Arrivals'
  BY <1>1, <1>2, ArrivalsLater
<1> QED BY <1>7, <1>9, <1>10 DEF Base

LEMMA BaseCgiExit ==
  ASSUME Base, NEW w \in Workers, CgiExit(w)
  PROVE  Base'
<1>1. Types /\ clock \in Nat /\ req \in [Workers -> ReqT] /\ Work(pc[w], req[w], clock)
  BY DEF Base, Types, Works
<1>2. /\ clock' = clock /\ queue' = queue /\ inhand' = inhand /\ pc[w] = "wait_cgi"
      /\ pc' = [pc EXCEPT ![w] = "close"] /\ req' = req
  BY DEF CgiExit, master, Goto
<1>3. Types'
  BY <1>1, <1>2 DEF Types, CgiExit, Labels, master
<1>4. Work("close", req[w], clock)
  BY <1>1, <1>2 DEF Work
<1>5. Works'
  BY <1>2, <1>4, WorksGo
<1>6. Arrivals'
  BY <1>1, <1>2, ArrivalsLater
<1> QED BY <1>3, <1>5, <1>6 DEF Base

LEMMA BaseClose ==
  ASSUME Base, NEW w \in Workers, Close(w)
  PROVE  Base'
<1>1. Types /\ clock \in Nat /\ req \in [Workers -> ReqT] /\ Work(pc[w], req[w], clock)
  BY DEF Base, Types, Works
<1>2. /\ clock' = clock /\ queue' = queue /\ inhand' = inhand /\ pc[w] = "close"
      /\ pc' = [pc EXCEPT ![w] = "pop"] /\ req' = [req EXCEPT ![w] = NoReq]
  BY DEF Close, master, Goto
<1>3. Types'
  BY <1>1, <1>2, NoReqFacts DEF Types, Close, Labels, master
<1>4. Work("pop", NoReq, clock)
  BY NoReqFacts DEF Work
<1>5. Works'
  <2>1. clock' \in Nat /\ clock <= clock' /\ clock' = clock
    BY <1>1, <1>2
  <2> QED BY <2>1, <1>1, <1>2, <1>4, WorksStep
<1>6. Arrivals'
  BY <1>1, <1>2, ArrivalsLater
<1> QED BY <1>3, <1>5, <1>6 DEF Base

LEMMA DieEffect ==
  ASSUME Die
  PROVE  /\ up' = FALSE /\ queue' = <<>> /\ log' = <<>> /\ inhand' = NoItem /\ held' = {}
         /\ pc' = [v \in Workers |-> "pop"] /\ req' = [v \in Workers |-> NoReq]
         /\ stats' \in [Workers -> StatT]
         /\ clock' = clock /\ accepted' = accepted /\ cgi' = cgi /\ resp' = resp
BY DEF Die, Fresh, StatT

LEMMA BaseDie ==
  ASSUME Base, Die
  PROVE  Base'
<1>1. Types /\ clock \in Nat /\ Cap \in Nat
  BY ServerAssumption DEF Base, Types
<1>2. pc' \in [Workers -> Labels] /\ req' \in [Workers -> ReqT]
  BY DieEffect, NoReqFacts DEF Labels
<1>3. queue' \in Seq(ItemT) /\ Len(queue') <= Cap /\ log' \in Seq(EntryT)
  <2>1. queue' = <<>> /\ log' = <<>>
    BY DieEffect
  <2> QED BY <1>1, <2>1
<1>4. Types'
  BY <1>1, <1>2, <1>3, DieEffect DEF Types
<1>5. Works'
  BY DieEffect, NoReqFacts DEF Works, Work
<1>6. Arrivals'
  <2>1. queue' = <<>> /\ inhand' = NoItem /\ clock' = clock
    BY DieEffect
  <2> QED BY <1>1, <2>1, NoReqFacts DEF Arrivals
<1> QED BY <1>4, <1>5, <1>6 DEF Base

LEMMA BaseStep == Base /\ [Next]_vars => Base'
<1> SUFFICES ASSUME Base, [Next]_vars PROVE Base'
  OBVIOUS
<1>1. CASE UNCHANGED vars
  BY <1>1 DEF vars, Base, Types, Works, Arrivals
<1>2. ASSUME NEW c \in Conns, Accept(c) PROVE Base'
  BY <1>2, BaseAccept
<1>3. CASE Enqueue
  BY <1>3, BaseEnqueue
<1>4. ASSUME NEW w \in Workers, WorkerStep(w) PROVE Base'
  BY <1>4, BasePop, BaseStamp, BaseReadNothing, BaseRead, BaseWriteEnter, BaseReadEnter, BaseLogExit,
     BaseSend, BaseCgiExit, BaseClose DEF WorkerStep
<1>5. ASSUME Die PROVE Base'
  BY <1>5, BaseDie
<1> QED BY <1>1, <1>2, <1>3, <1>4, <1>5 DEF Next

(* A connection is with the master, in the queue or with one worker, and   *)
(* it is not answered before Send.                                         *)
Unsent == {"stamp", "read", "log_write", "writing", "log_read", "reading", "send"}

InQueue ==
  /\ \A i \in DOMAIN queue :
       queue[i].conn \in accepted /\ queue[i].conn # inhand.conn /\ resp[queue[i].conn].kind = "none"
  /\ \A i, j \in DOMAIN queue : i # j => queue[i].conn # queue[j].conn

InHand == inhand # NoItem => resp[inhand.conn].kind = "none"

AtWorkers ==
  /\ \A w \in Workers : pc[w] # "pop" =>
       Conn(w) \in accepted /\ Conn(w) # inhand.conn /\ \A i \in DOMAIN queue : queue[i].conn # Conn(w)
  /\ \A v, w \in Workers : v # w /\ pc[v] # "pop" => Conn(v) # Conn(w)
  /\ \A w \in Workers : pc[w] \in Unsent => resp[Conn(w)].kind = "none"

Outside == \A c \in Conns : c \notin accepted => resp[c].kind = "none"

Places == InQueue /\ InHand /\ AtWorkers /\ Outside

LEMMA PlacesInit == Init => Places
<1> SUFFICES ASSUME Init PROVE Places
  OBVIOUS
<1>1. \A c \in Conns : resp[c].kind = "none"
  BY DEF Init, NoResp
<1>2. queue = <<>> /\ inhand = NoItem /\ pc = [w \in Workers |-> "pop"]
  BY DEF Init, Fresh
<1> QED BY <1>1, <1>2 DEF Places, InQueue, InHand, AtWorkers, Outside, Unsent

LEMMA PlacesGo ==
  ASSUME Base, Places, NEW w \in Workers, NEW p \in Labels, pc[w] # "pop", p # "pop",
         p \in Unsent => pc[w] \in Unsent,
         pc' = [pc EXCEPT ![w] = p], \A v \in Workers : req'[v].conn = req[v].conn,
         accepted' = accepted, inhand' = inhand, queue' = queue, resp' = resp
  PROVE  Places'
<1>1. pc \in [Workers -> Labels]
  BY DEF Base, Types
<1>2. \A v \in Workers : /\ Conn(v)' = Conn(v) /\ (pc'[v] # "pop" => pc[v] # "pop")
                         /\ (pc'[v] \in Unsent => pc[v] \in Unsent)
  BY <1>1 DEF Conn
<1>3. AtWorkers'
  BY <1>2 DEF Places, AtWorkers
<1> QED BY <1>3 DEF Places, InQueue, InHand, Outside

LEMMA PlacesAccept ==
  ASSUME Base, Places, NEW c \in Conns, Accept(c)
  PROVE  Places'
<1>1. /\ inhand = NoItem /\ c \notin accepted /\ accepted' = accepted \cup {c} /\ resp' = resp
      /\ queue' = queue /\ pc' = pc /\ req' = req /\ inhand'.conn = c
  BY DEF Accept
<1>2. resp[c].kind = "none" /\ accepted \subseteq Conns
  BY <1>1 DEF Places, Outside, Base, Types
<1>3. InQueue'
  BY <1>1, <1>2 DEF Places, InQueue
<1>4. AtWorkers'
  BY <1>1, <1>2 DEF Places, AtWorkers, Conn
<1> QED BY <1>1, <1>2, <1>3, <1>4 DEF Places, InHand, Outside

LEMMA PlacesEnqueue ==
  ASSUME Base, Places, Enqueue
  PROVE  Places'
<1>1. /\ inhand # NoItem /\ queue' = Append(queue, inhand) /\ inhand' = NoItem /\ resp' = resp
      /\ accepted' = accepted /\ pc' = pc /\ req' = req
  BY DEF Enqueue
<1>2. queue \in Seq(ItemT) /\ inhand \in ItemT /\ inhand.conn \in accepted /\ accepted \subseteq Conns
  BY <1>1 DEF Base, Types
<1>3. /\ Len(queue) \in Nat /\ DOMAIN queue = 1..Len(queue) /\ DOMAIN queue' = 1..(Len(queue) + 1)
      /\ \A i \in DOMAIN queue : queue'[i] = queue[i]
      /\ queue'[Len(queue) + 1] = inhand
  BY <1>1, <1>2
<1>4. \A i \in DOMAIN queue' : i \in DOMAIN queue \/ i = Len(queue) + 1
  BY <1>3
<1>5. NoConn \notin accepted
  BY <1>2, ServerAssumption
<1>6. InQueue'
  <2>1. ASSUME NEW i \in DOMAIN queue'
        PROVE  /\ queue'[i].conn \in accepted /\ queue'[i].conn # NoConn
               /\ resp[queue'[i].conn].kind = "none"
    BY <1>1, <1>2, <1>3, <1>4, <1>5 DEF Places, InQueue, InHand
  <2>2. ASSUME NEW i \in DOMAIN queue', NEW j \in DOMAIN queue', i # j
        PROVE  queue'[i].conn # queue'[j].conn
    BY <1>3, <1>4, <2>2 DEF Places, InQueue
  <2> QED BY <1>1, <2>1, <2>2, NoReqFacts DEF InQueue
<1>7. AtWorkers'
  <2>1. ASSUME NEW w \in Workers, pc[w] # "pop"
        PROVE  /\ Conn(w) \in accepted /\ Conn(w) # NoConn
               /\ \A i \in DOMAIN queue' : queue'[i].conn # Conn(w)
    <3>1. /\ Conn(w) \in accepted /\ Conn(w) # inhand.conn
          /\ \A i \in DOMAIN queue : queue[i].conn # Conn(w)
      BY <2>1 DEF Places, AtWorkers
    <3> QED BY <1>3, <1>4, <1>5, <3>1
  <2> QED BY <1>1, <2>1, NoReqFacts DEF Places, AtWorkers, Conn
<1> QED BY <1>1, <1>6, <1>7 DEF Places, InHand, Outside

LEMMA PlacesPop ==
  ASSUME Base, Places, NEW w \in Workers, Pop(w)
  PROVE  Places'
<1>1. /\ pc' = [pc EXCEPT ![w] = "stamp"] /\ pc[w] = "pop" /\ req' = [req EXCEPT ![w] = req'[w]]
      /\ req'[w].conn = queue[1].conn
      /\ queue # <<>> /\ queue' = Tail(queue) /\ queue[1] \in ItemT
  BY PopReq
<1>2. accepted' = accepted /\ inhand' = inhand /\ resp' = resp
  BY DEF Pop
<1>3. queue \in Seq(ItemT) /\ pc \in [Workers -> Labels] /\ req \in [Workers -> ReqT]
  BY DEF Base, Types
<1>4. /\ 1 \in DOMAIN queue /\ DOMAIN queue' \subseteq Nat
      /\ \A i \in DOMAIN queue' : i + 1 \in DOMAIN queue /\ i + 1 # 1 /\ queue'[i] = queue[i + 1]
  BY <1>1, <1>3, TailFacts
<1>5. InQueue'
  <2>1. ASSUME NEW i \in DOMAIN queue'
        PROVE  /\ queue'[i].conn \in accepted /\ queue'[i].conn # inhand.conn
               /\ resp[queue'[i].conn].kind = "none"
    BY <1>4 DEF Places, InQueue
  <2>2. ASSUME NEW i \in DOMAIN queue', NEW j \in DOMAIN queue', i # j
        PROVE  queue'[i].conn # queue'[j].conn
    <3>1. i + 1 # j + 1 /\ i + 1 \in DOMAIN queue /\ j + 1 \in DOMAIN queue
      BY <1>4, <2>2
    <3> QED BY <1>4, <3>1 DEF Places, InQueue
  <2> QED BY <1>2, <2>1, <2>2 DEF InQueue
<1>6. ASSUME NEW i \in DOMAIN queue' PROVE queue'[i].conn # queue[1].conn
  BY <1>4 DEF Places, InQueue
<1>7. /\ queue[1].conn \in accepted /\ queue[1].conn # inhand.conn /\ resp[queue[1].conn].kind = "none"
  BY <1>4 DEF Places, InQueue
<1>8. \A v \in Workers : v # w => pc'[v] = pc[v] /\ Conn(v)' = Conn(v)
  BY <1>1, <1>3 DEF Conn
<1>9. pc'[w] = "stamp" /\ Conn(w)' = queue[1].conn
  BY <1>1, <1>3 DEF Conn
<1>10. ASSUME NEW v \in Workers, pc[v] # "pop" PROVE Conn(v) # queue[1].conn
  BY <1>4, <1>10 DEF Places, AtWorkers
<1>11. AtWorkers'
  <2>1. ASSUME NEW v \in Workers, pc'[v] # "pop"
        PROVE  /\ Conn(v)' \in accepted /\ Conn(v)' # inhand.conn
               /\ \A i \in DOMAIN queue' : queue'[i].conn # Conn(v)'
    <3>1. CASE v = w
      BY <1>6, <1>7, <1>9, <3>1
    <3>2. CASE v # w
      BY <1>4, <1>8, <2>1, <3>2 DEF Places, AtWorkers
    <3> QED BY <3>1, <3>2
  <2>2. ASSUME NEW u \in Workers, NEW v \in Workers, u # v, pc'[u] # "pop" PROVE Conn(u)' # Conn(v)'
    <3>1. CASE u = w /\ pc[v] # "pop"
      BY <1>8, <1>9, <1>10, <2>2, <3>1
    <3>2. CASE u = w /\ pc[v] = "pop"
      <4>1. Conn(v) = NoConn /\ queue[1].conn # NoConn
        BY <1>7, <3>2, ServerAssumption DEF Base, Works, Work, Types, Conn
      <4> QED BY <1>8, <1>9, <2>2, <3>2, <4>1
    <3>3. CASE v = w
      BY <1>8, <1>9, <1>10, <2>2, <3>3
    <3>4. CASE u # w /\ v # w
      BY <1>8, <2>2, <3>4 DEF Places, AtWorkers
    <3> QED BY <3>1, <3>2, <3>3, <3>4
  <2>3. ASSUME NEW v \in Workers, pc'[v] \in Unsent PROVE resp[Conn(v)'].kind = "none"
    BY <1>7, <1>8, <1>9, <2>3 DEF Places, AtWorkers
  <2> QED BY <1>2, <2>1, <2>2, <2>3 DEF AtWorkers
<1> QED BY <1>2, <1>5, <1>11 DEF Places, InHand, Outside

LEMMA PlacesSend ==
  ASSUME Base, Places, NEW w \in Workers, Send(w)
  PROVE  Places'
<1>1. /\ pc[w] = "send" /\ Conn(w) \in Conns /\ resp' = [resp EXCEPT ![Conn(w)] = resp'[Conn(w)]]
      /\ pc' = [pc EXCEPT ![w] = pc'[w]] /\ pc'[w] \in {"wait_cgi", "close"}
  BY SendEffect
<1>2. accepted' = accepted /\ inhand' = inhand /\ queue' = queue /\ req' = req
  BY DEF Send, master
<1>3. pc \in [Workers -> Labels] /\ resp \in [Conns -> RespT] /\ accepted \subseteq Conns
  BY DEF Base, Types
<1>4. \A c \in Conns : c # Conn(w) => resp'[c] = resp[c]
  BY <1>1, <1>3
<1>5. \A v \in Workers : v # w => pc'[v] = pc[v]
  BY <1>1, <1>3
<1>6. /\ Conn(w) \in accepted /\ Conn(w) # inhand.conn
      /\ \A i \in DOMAIN queue : queue[i].conn # Conn(w)
  BY <1>1 DEF Places, AtWorkers
<1>7. InQueue'
  <2>1. ASSUME NEW i \in DOMAIN queue PROVE resp'[queue[i].conn].kind = "none"
    <3>1. queue[i].conn \in accepted /\ resp[queue[i].conn].kind = "none"
      BY DEF Places, InQueue
    <3> QED BY <1>3, <1>4, <1>6, <3>1
  <2> QED BY <1>2, <2>1 DEF Places, InQueue
<1>8. InHand'
  <2>1. ASSUME inhand # NoItem PROVE resp'[inhand.conn].kind = "none"
    <3>1. inhand.conn \in Conns /\ resp[inhand.conn].kind = "none"
      BY <2>1 DEF Places, InHand, Base, Types, ItemT
    <3> QED BY <1>4, <1>6, <3>1
  <2> QED BY <1>2, <2>1 DEF InHand
<1>9. AtWorkers'
  <2>1. \A v \in Workers : Conn(v)' = Conn(v) /\ (pc'[v] # "pop" => pc[v] # "pop")
    BY <1>1, <1>2, <1>5 DEF Conn
  <2>2. ASSUME NEW v \in Workers, pc'[v] \in Unsent PROVE resp'[Conn(v)].kind = "none"
    <3>1. v # w
      BY <1>1, <2>2 DEF Unsent
    <3>2. pc[v] \in Unsent /\ pc[v] # "pop"
      BY <1>5, <2>2, <3>1 DEF Unsent
    <3>3. Conn(v) # Conn(w) /\ Conn(v) \in Conns /\ resp[Conn(v)].kind = "none"
      BY <1>3, <3>1, <3>2 DEF Places, AtWorkers
    <3> QED BY <1>4, <3>3
  <2> QED BY <1>2, <2>1, <2>2 DEF Places, AtWorkers
<1>10. Outside'
  BY <1>2, <1>4, <1>6 DEF Places, Outside
<1> QED BY <1>7, <1>8, <1>9, <1>10 DEF Places

LEMMA PlacesClose ==
  ASSUME Base, Places, NEW w \in Workers, Close(w)
  PROVE  Places'
<1>1. /\ accepted' = accepted /\ inhand' = inhand /\ queue' = queue /\ resp' = resp
      /\ pc' = [pc EXCEPT ![w] = "pop"] /\ req' = [req EXCEPT ![w] = NoReq]
  BY DEF Close, master, Goto
<1>2. pc \in [Workers -> Labels] /\ req \in [Workers -> ReqT] /\ accepted \subseteq Conns
  BY DEF Base, Types
<1>3. pc'[w] = "pop" /\ Conn(w)' = NoConn
  BY <1>1, <1>2, NoReqFacts DEF Conn
<1>4. \A v \in Workers : v # w => pc'[v] = pc[v] /\ Conn(v)' = Conn(v)
  BY <1>1, <1>2 DEF Conn
<1>5. \A v \in Workers : pc[v] # "pop" => Conn(v) # NoConn
  BY DEF Base, Works, Work, Conn
<1>6. AtWorkers'
  <2>1. "pop" \notin Unsent
    BY DEF Unsent
  <2> QED BY <1>1, <1>3, <1>4, <1>5, <2>1 DEF Places, AtWorkers
<1> QED BY <1>1, <1>6 DEF Places, InQueue, InHand, Outside

LEMMA PlacesDie ==
  ASSUME Base, Places, Die
  PROVE  Places'
<1>1. /\ queue' = <<>> /\ inhand' = NoItem /\ accepted' = accepted /\ resp' = resp
      /\ \A v \in Workers : pc'[v] = "pop"
  BY DieEffect
<1> QED BY <1>1 DEF Places, InQueue, InHand, AtWorkers, Outside, Unsent

LEMMA SameConn ==
  ASSUME Base, NEW w \in Workers, NEW r, req' = [req EXCEPT ![w] = r], r.conn = req[w].conn
  PROVE  \A v \in Workers : req'[v].conn = req[v].conn
BY DEF Base, Types

LEMMA PlacesStep == Base /\ Places /\ [Next]_vars => Places'
<1> SUFFICES ASSUME Base, Places, [Next]_vars PROVE Places'
  OBVIOUS
<1>1. CASE UNCHANGED vars
  BY <1>1 DEF vars, Places, InQueue, InHand, AtWorkers, Outside, Conn
<1>2. ASSUME NEW c \in Conns, Accept(c) PROVE Places'
  BY <1>2, PlacesAccept
<1>3. CASE Enqueue
  BY <1>3, PlacesEnqueue
<1>4. ASSUME NEW w \in Workers, WorkerStep(w) PROVE Places'
  <2>1. CASE Stamp(w)
    <3>1. /\ pc' = [pc EXCEPT ![w] = "read"] /\ pc[w] = "stamp" /\ req' = [req EXCEPT ![w] = req'[w]]
          /\ req'[w].conn = req[w].conn
      BY <2>1, StampReq
    <3>2. \A v \in Workers : req'[v].conn = req[v].conn
      BY <3>1, SameConn
    <3>3. accepted' = accepted /\ inhand' = inhand /\ queue' = queue /\ resp' = resp
      BY <2>1 DEF Stamp, master
    <3>4. pc[w] # "pop" /\ pc[w] \in Unsent /\ "read" \in Labels
      BY <3>1 DEF Unsent, Labels
    <3> QED BY <3>1, <3>2, <3>3, <3>4, PlacesGo
  <2>2. CASE ReadNothing(w)
    <3>1. pc' = [pc EXCEPT ![w] = "close"] /\ pc[w] = "read" /\ req' = req
      BY <2>2 DEF ReadNothing, Goto
    <3>3. accepted' = accepted /\ inhand' = inhand /\ queue' = queue /\ resp' = resp
      BY <2>2 DEF ReadNothing, master
    <3>4. pc[w] # "pop" /\ "close" \notin Unsent /\ "close" \in Labels
      BY <3>1 DEF Unsent, Labels
    <3> QED BY <3>1, <3>3, <3>4, PlacesGo
  <2>3. ASSUME NEW kind \in Kinds, Read(w, kind) PROVE Places'
    <3>1. /\ pc' = [pc EXCEPT ![w] = Route(kind)] /\ pc[w] = "read" /\ req' = [req EXCEPT ![w] = req'[w]]
          /\ req'[w].conn = req[w].conn
      BY <2>3, ReadReq
    <3>2. \A v \in Workers : req'[v].conn = req[v].conn
      BY <3>1, SameConn
    <3>3. accepted' = accepted /\ inhand' = inhand /\ queue' = queue /\ resp' = resp
      BY <2>3 DEF Read, master
    <3>4. pc[w] # "pop" /\ pc[w] \in Unsent /\ Route(kind) \in Labels /\ Route(kind) # "pop"
      BY <3>1, RouteKinds DEF Unsent, Labels
    <3> QED BY <3>1, <3>2, <3>3, <3>4, PlacesGo
  <2>4. CASE WriteEnter(w)
    <3>1. /\ pc' = [pc EXCEPT ![w] = "writing"] /\ pc[w] = "log_write" /\ req' = [req EXCEPT ![w] = req'[w]]
          /\ req'[w].conn = req[w].conn
      BY <2>4, WriteEnterReq
    <3>2. \A v \in Workers : req'[v].conn = req[v].conn
      BY <3>1, SameConn
    <3>3. accepted' = accepted /\ inhand' = inhand /\ queue' = queue /\ resp' = resp
      BY <2>4 DEF WriteEnter, master
    <3>4. pc[w] # "pop" /\ pc[w] \in Unsent /\ "writing" \in Labels
      BY <3>1 DEF Unsent, Labels
    <3> QED BY <3>1, <3>2, <3>3, <3>4, PlacesGo
  <2>5. CASE ReadEnter(w)
    <3>1. /\ pc' = [pc EXCEPT ![w] = "reading"] /\ pc[w] = "log_read" /\ req' = [req EXCEPT ![w] = req'[w]]
          /\ req'[w].conn = req[w].conn
      BY <2>5, ReadEnterReq
    <3>2. \A v \in Workers : req'[v].conn = req[v].conn
      BY <3>1, SameConn
    <3>3. accepted' = accepted /\ inhand' = inhand /\ queue' = queue /\ resp' = resp
      BY <2>5 DEF ReadEnter, master
    <3>4. pc[w] # "pop" /\ pc[w] \in Unsent /\ "reading" \in Labels
      BY <3>1 DEF Unsent, Labels
    <3> QED BY <3>1, <3>2, <3>3, <3>4, PlacesGo
  <2>6. CASE LogExit(w)
    <3>1. /\ pc' = [pc EXCEPT ![w] = "send"] /\ pc[w] \in {"writing", "reading"}
          /\ req' = [req EXCEPT ![w] = req'[w]] /\ req'[w].conn = req[w].conn
      BY <2>6, LogExitReq
    <3>2. \A v \in Workers : req'[v].conn = req[v].conn
      BY <3>1, SameConn
    <3>3. accepted' = accepted /\ inhand' = inhand /\ queue' = queue /\ resp' = resp
      BY <2>6 DEF LogExit, master
    <3>4. pc[w] # "pop" /\ pc[w] \in Unsent /\ "send" \in Labels
      BY <3>1 DEF Unsent, Labels
    <3> QED BY <3>1, <3>2, <3>3, <3>4, PlacesGo
  <2>7. CASE CgiExit(w)
    <3>1. pc' = [pc EXCEPT ![w] = "close"] /\ pc[w] = "wait_cgi" /\ req' = req
      BY <2>7 DEF CgiExit, Goto
    <3>3. accepted' = accepted /\ inhand' = inhand /\ queue' = queue /\ resp' = resp
      BY <2>7 DEF CgiExit, master
    <3>4. pc[w] # "pop" /\ "close" \notin Unsent /\ "close" \in Labels
      BY <3>1 DEF Unsent, Labels
    <3> QED BY <3>1, <3>3, <3>4, PlacesGo
  <2> QED BY <1>4, <2>1, <2>2, <2>3, <2>4, <2>5, <2>6, <2>7, PlacesPop, PlacesSend, PlacesClose DEF WorkerStep
<1>5. ASSUME Die PROVE Places'
  BY <1>5, PlacesDie
<1> QED BY <1>1, <1>2, <1>3, <1>4, <1>5 DEF Next

(* The type invariant of the server holds in every state. *)
THEOREM TypeCorrect == Spec => []TypeOK
<1>1. Init => Base /\ Places
  BY BaseInit, PlacesInit
<1>2. Base /\ Places /\ [Next]_vars => (Base /\ Places)'
  BY BaseStep, PlacesStep
<1>3. Base /\ Places => TypeOK
  <2> SUFFICES ASSUME Base, Places PROVE TypeOK
    OBVIOUS
  <2>1. \A w \in Workers : pc[w] \in {"pop"} <=> Conn(w) = NoConn
    BY DEF Base, Works, Work, Conn
  <2>2. \A w \in Workers : Conn(w) \in accepted \cup {NoConn}
    BY <2>1 DEF Places, AtWorkers
  <2>3. \A i \in DOMAIN queue : queue[i].conn \in accepted
    BY DEF Places, InQueue
  <2>4. inhand.conn \in accepted \cup {NoConn}
    BY NoReqFacts DEF Base, Types
  <2> QED BY <2>1, <2>2, <2>3, <2>4 DEF Base, Types, TypeOK
<1> QED BY <1>1, <1>2, <1>3, PTL DEF Spec

(* Times: what an answer says of its request, which critical sections have *)
(* ended (their request is answered or about to be), and that a section    *)
(* that is still running began after every one it must not overlap with.   *)
Logged == Gets \cup {"post"}

RightTimes(tm, k, t) ==
  /\ tm.arrival < tm.dispatch /\ tm.dispatch <= t
  /\ k \in Logged => tm.dispatch < tm.log_enter /\ tm.log_enter < tm.log_exit /\ tm.log_exit <= t
  /\ k \notin Logged => tm.log_enter = tm.dispatch /\ tm.log_exit = tm.dispatch

Answers == \A c \in Conns : resp[c].kind # "none" => RightTimes(resp[c].tm, resp[c].kind, clock)

Exclusive == \A v, w \in Workers : v # w /\ pc[v] = "writing" => pc[w] \notin {"writing", "reading"}

Done(c, tm, k) ==
  \/ resp[c].kind = k /\ resp[c].tm = tm
  \/ \E w \in Workers : Conn(w) = c /\ pc[w] = "send" /\ req[w].kind = k /\ req[w].tm = tm

Apart == \A c, d \in Conns, tm, tn \in Times, k \in Gets, l \in Logged :
  c # d /\ Done(c, tm, k) /\ Done(d, tn, l) => tm.log_exit < tn.log_enter \/ tn.log_exit < tm.log_enter

After == \A c \in Conns, tm \in Times, k \in Logged, w \in Workers :
  Done(c, tm, k) /\ pc[w] \in {"writing", "reading"} /\ (k \in Gets \/ pc[w] = "writing") =>
    tm.log_exit < req[w].tm.log_enter

Sections == Answers /\ Exclusive /\ Apart /\ After

LEMMA DoneInTime ==
  ASSUME Base, Answers, NEW c \in Conns, NEW tm \in Times, NEW k \in Logged, Done(c, tm, k)
  PROVE  tm.log_exit <= clock
<1>1. k # "none" /\ k # "error"
  BY DEF Logged, Gets
<1>2. CASE resp[c].kind = k /\ resp[c].tm = tm
  BY <1>1, <1>2 DEF Answers, RightTimes
<1>3. CASE \E w \in Workers : Conn(w) = c /\ pc[w] = "send" /\ req[w].kind = k /\ req[w].tm = tm
  BY <1>1, <1>3 DEF Base, Works, Work
<1> QED BY <1>2, <1>3 DEF Done

LEMMA DoneKeep ==
  ASSUME resp' = resp,
         \A v \in Workers : pc'[v] = "send" /\ req'[v].kind \in Logged => pc[v] = "send" /\ req'[v] = req[v],
         NEW c \in Conns, NEW tm \in Times, NEW k \in Logged, Done(c, tm, k)'
  PROVE  Done(c, tm, k)
BY DEF Done, Conn

LEMMA AnswersKeep ==
  ASSUME Base, Answers, resp' = resp, clock' \in Nat, clock <= clock'
  PROVE  Answers'
<1> SUFFICES ASSUME NEW c \in Conns, resp[c].kind # "none"
             PROVE  RightTimes(resp[c].tm, resp[c].kind, clock')
  BY DEF Answers
<1>1. resp[c] \in RespT /\ clock \in Nat
  BY DEF Base, Types
<1>2. resp[c].tm \in Times
  BY <1>1 DEF RespT
<1>3. RightTimes(resp[c].tm, resp[c].kind, clock)
  BY DEF Answers
<1> QED BY <1>1, <1>2, <1>3 DEF RightTimes, Times

(* No section begins or ends. *)
LEMMA SectionsKeep ==
  ASSUME Base, Sections, resp' = resp, clock' \in Nat, clock <= clock',
         \A v \in Workers : pc'[v] = "send" /\ req'[v].kind \in Logged => pc[v] = "send" /\ req'[v] = req[v],
         \A v \in Workers : pc'[v] \in {"writing", "reading"} => pc[v] = pc'[v] /\ req'[v] = req[v]
  PROVE  Sections'
<1>1. Answers'
  BY AnswersKeep DEF Sections
<1>2. Exclusive'
  <2>1. ASSUME NEW v \in Workers, NEW w \in Workers, v # w, pc'[v] = "writing"
        PROVE  pc'[w] \notin {"writing", "reading"}
    <3>1. pc[v] = "writing" /\ pc[w] \notin {"writing", "reading"}
      BY <2>1 DEF Sections, Exclusive
    <3> QED BY <3>1
  <2> QED BY <2>1 DEF Exclusive
<1>3. \A c \in Conns, tm \in Times, k \in Logged : Done(c, tm, k)' => Done(c, tm, k)
  BY DoneKeep
<1>4. Apart'
  <2>1. Gets \subseteq Logged
    BY DEF Logged
  <2> QED BY <1>3, <2>1 DEF Sections, Apart
<1>5. After'
  BY <1>3 DEF Sections, After
<1> QED BY <1>1, <1>2, <1>4, <1>5 DEF Sections

LEMMA OthersStay ==
  ASSUME Base, NEW w \in Workers, NEW p, NEW r,
         pc' = [pc EXCEPT ![w] = p], req' = [req EXCEPT ![w] = r]
  PROVE  /\ pc'[w] = p /\ req'[w] = r
         /\ \A v \in Workers : v # w => pc'[v] = pc[v] /\ req'[v] = req[v]
BY DEF Base, Types

(* A section begins: a writer's with no other running, a reader's with no  *)
(* writer's.                                                               *)
LEMMA SectionsEnter ==
  ASSUME Base, Sections, resp' = resp, clock' = clock + 1, NEW w \in Workers, NEW p, NEW r,
         pc' = [pc EXCEPT ![w] = p], req' = [req EXCEPT ![w] = r], r.tm.log_enter = clock + 1,
         \/ p = "writing" /\ WriterMayEnter
         \/ p = "reading" /\ ReaderMayEnter
  PROVE  Sections'
<1>0. clock \in Nat /\ clock' \in Nat /\ clock <= clock'
  BY DEF Base, Types
<1>1. /\ pc'[w] = p /\ req'[w] = r
      /\ \A v \in Workers : v # w => pc'[v] = pc[v] /\ req'[v] = req[v]
  BY OthersStay
<1>2. Answers'
  BY <1>0, AnswersKeep DEF Sections
<1>3. Exclusive'
  BY <1>1 DEF Exclusive, Sections, WriterMayEnter, ReaderMayEnter
<1>4. \A c \in Conns, tm \in Times, k \in Logged : Done(c, tm, k)' => Done(c, tm, k)
  <2>1. \A v \in Workers : pc'[v] = "send" /\ req'[v].kind \in Logged => pc[v] = "send" /\ req'[v] = req[v]
    BY <1>1
  <2> QED BY <2>1, DoneKeep
<1>5. Apart'
  <2>1. Gets \subseteq Logged
    BY DEF Logged
  <2> QED BY <1>4, <2>1 DEF Sections, Apart
<1>6. After'
  <2> SUFFICES ASSUME NEW c \in Conns, NEW tm \in Times, NEW k \in Logged, NEW v \in Workers,
                      Done(c, tm, k)', pc'[v] \in {"writing", "reading"}, k \in Gets \/ pc'[v] = "writing"
               PROVE  tm.log_exit < req'[v].tm.log_enter
    BY DEF After
  <2>1. Done(c, tm, k)
    BY <1>4
  <2>2. CASE v = w
    <3>1. tm.log_exit <= clock /\ tm.log_exit \in Nat
      BY <2>1, DoneInTime DEF Sections, Times
    <3> QED BY <1>0, <1>1, <2>2, <3>1
  <2>3. CASE v # w
    BY <1>1, <2>1, <2>3 DEF Sections, After
  <2> QED BY <2>2, <2>3
<1> QED BY <1>2, <1>3, <1>5, <1>6 DEF Sections

LEMMA SectionsExit ==
  ASSUME Base, Places, Sections, NEW w \in Workers, LogExit(w)
  PROVE  Sections'
<1>0. clock \in Nat /\ clock' \in Nat /\ clock <= clock' /\ clock' = clock + 1 /\ resp' = resp
  BY DEF Base, Types, LogExit
<1>1. /\ pc' = [pc EXCEPT ![w] = "send"] /\ pc[w] \in {"writing", "reading"}
      /\ req' = [req EXCEPT ![w] = req'[w]]
      /\ req'[w].conn = req[w].conn /\ req'[w].kind = req[w].kind
      /\ req'[w].tm.log_enter = req[w].tm.log_enter /\ req'[w].tm.log_exit = clock + 1
  BY LogExitReq
<1>2. pc'[w] = "send" /\ \A v \in Workers : v # w => pc'[v] = pc[v] /\ req'[v] = req[v]
  BY <1>1 DEF Base, Types
<1>3. /\ pc[w] = "writing" => req[w].kind \in Gets
      /\ pc[w] = "reading" => req[w].kind = "post"
  BY DEF Base, Works, Work
<1>4. Answers'
  BY <1>0, AnswersKeep DEF Sections
<1>5. Exclusive'
  BY <1>2 DEF Exclusive, Sections
<1>6. ASSUME NEW c \in Conns, NEW tm \in Times, NEW k \in Logged, Done(c, tm, k)', ~ Done(c, tm, k)
      PROVE  c = Conn(w) /\ tm = req'[w].tm /\ k = req[w].kind
  BY <1>0, <1>1, <1>2, <1>6 DEF Done, Conn
<1>7. After'
  <2> SUFFICES ASSUME NEW c \in Conns, NEW tm \in Times, NEW k \in Logged, NEW v \in Workers,
                      Done(c, tm, k)', pc'[v] \in {"writing", "reading"}, k \in Gets \/ pc'[v] = "writing"
               PROVE  tm.log_exit < req'[v].tm.log_enter
    BY DEF After
  <2>1. v # w
    BY <1>2
  <2>2. pc[v] = pc'[v] /\ req[v] = req'[v]
    BY <1>2, <2>1
  <2>3. Done(c, tm, k)
    <3> SUFFICES ASSUME ~ Done(c, tm, k) PROVE FALSE
      OBVIOUS
    <3>1. k = req[w].kind
      BY <1>6
    <3>2. pc[w] = "writing" \/ pc[v] = "writing"
      BY <1>1, <1>3, <2>2, <3>1 DEF Gets
    <3> QED BY <1>1, <2>1, <2>2, <3>2 DEF Sections, Exclusive
  <2> QED BY <2>2, <2>3 DEF Sections, After
<1>8. ASSUME NEW d \in Conns, NEW tn \in Times, NEW l \in Logged, Done(d, tn, l),
             l \in Gets \/ pc[w] = "writing"
      PROVE  tn.log_exit < req'[w].tm.log_enter
  BY <1>1, <1>8 DEF Sections, After
<1>9. Apart'
  <2> SUFFICES ASSUME NEW c \in Conns, NEW d \in Conns, NEW tm \in Times, NEW tn \in Times,
                      NEW k \in Gets, NEW l \in Logged, c # d, Done(c, tm, k)', Done(d, tn, l)'
               PROVE  tm.log_exit < tn.log_enter \/ tn.log_exit < tm.log_enter
    BY DEF Apart
  <2>0. k \in Logged
    BY DEF Logged
  <2>1. CASE Done(c, tm, k) /\ Done(d, tn, l)
    BY <2>1 DEF Sections, Apart
  <2>2. CASE Done(c, tm, k) /\ ~ Done(d, tn, l)
    <3>1. tn = req'[w].tm
      BY <1>6, <2>2
    <3> QED BY <1>8, <2>0, <2>2, <3>1
  <2>3. CASE ~ Done(c, tm, k) /\ Done(d, tn, l)
    <3>1. tm = req'[w].tm /\ k = req[w].kind
      BY <1>6, <2>0, <2>3
    <3>2. pc[w] = "writing"
      BY <1>1, <1>3, <3>1 DEF Gets
    <3> QED BY <1>8, <2>3, <3>1, <3>2
  <2>4. CASE ~ Done(c, tm, k) /\ ~ Done(d, tn, l)
    BY <1>6, <2>0, <2>4
  <2> QED BY <2>1, <2>2, <2>3, <2>4
<1> QED BY <1>4, <1>5, <1>7, <1>9 DEF Sections

LEMMA SectionsSend ==
  ASSUME Base, Places, Sections, NEW w \in Workers, Send(w)
  PROVE  Sections'
<1>1. /\ pc[w] = "send" /\ Conn(w) \in Conns /\ req[w].kind \in Kinds
      /\ resp' = [resp EXCEPT ![Conn(w)] = resp'[Conn(w)]]
      /\ resp'[Conn(w)].kind = req[w].kind /\ resp'[Conn(w)].tm = req[w].tm
      /\ pc' = [pc EXCEPT ![w] = pc'[w]] /\ pc'[w] \in {"wait_cgi", "close"}
  BY SendEffect
<1>2. clock' = clock /\ req' = req
  BY DEF Send
<1>3. resp \in [Conns -> RespT] /\ pc \in [Workers -> Labels]
  BY DEF Base, Types
<1>4. /\ \A c \in Conns : c # Conn(w) => resp'[c] = resp[c]
      /\ \A v \in Workers : v # w => pc'[v] = pc[v]
  BY <1>1, <1>3
<1>5. RightTimes(req[w].tm, req[w].kind, clock)
  BY <1>1 DEF RightTimes, Base, Works, Work, Logged, Gets, Kinds
<1>6. Answers'
  <2> SUFFICES ASSUME NEW c \in Conns, resp'[c].kind # "none"
               PROVE  RightTimes(resp'[c].tm, resp'[c].kind, clock)
    BY <1>2 DEF Answers, RightTimes
  <2>1. CASE c = Conn(w)
    BY <1>1, <1>5, <2>1
  <2>2. CASE c # Conn(w)
    BY <1>4, <2>2 DEF Answers, Sections
  <2> QED BY <2>1, <2>2
<1>7. Exclusive'
  BY <1>1, <1>4 DEF Exclusive, Sections
<1>8. \A c \in Conns, tm \in Times, k \in Logged : Done(c, tm, k)' => Done(c, tm, k)
  <2> SUFFICES ASSUME NEW c \in Conns, NEW tm \in Times, NEW k \in Logged, Done(c, tm, k)'
               PROVE  Done(c, tm, k)
    OBVIOUS
  <2>1. CASE resp'[c].kind = k /\ resp'[c].tm = tm
    BY <1>1, <1>4, <2>1 DEF Done
  <2>2. CASE \E v \in Workers : Conn(v)' = c /\ pc'[v] = "send" /\ req'[v].kind = k /\ req'[v].tm = tm
    BY <1>1, <1>2, <1>4, <2>2 DEF Done, Conn
  <2> QED BY <2>1, <2>2 DEF Done
<1>9. Apart'
  <2>1. Gets \subseteq Logged
    BY DEF Logged
  <2> QED BY <1>8, <2>1 DEF Sections, Apart
<1>10. After'
  <2>1. \A v \in Workers : pc'[v] \in {"writing", "reading"} => pc'[v] = pc[v]
    BY <1>1, <1>4
  <2> QED BY <1>2, <1>8, <2>1 DEF Sections, After
<1> QED BY <1>6, <1>7, <1>9, <1>10 DEF Sections

LEMMA SectionsInit == Init => Sections
<1> SUFFICES ASSUME Init PROVE Sections
  OBVIOUS
<1>1. \A c \in Conns : resp[c].kind = "none"
  BY DEF Init, NoResp
<1>2. \A w \in Workers : pc[w] = "pop"
  BY DEF Init, Fresh
<1>3. \A c \in Conns, tm \in Times, k \in Logged : ~ Done(c, tm, k)
  BY <1>1, <1>2 DEF Done, Logged, Gets
<1>4. Gets \subseteq Logged
  BY DEF Logged
<1> QED BY <1>1, <1>2, <1>3, <1>4 DEF Sections, Answers, Exclusive, Apart, After

(* A step of w that is in no section before or after it. *)
LEMMA SectionsAside ==
  ASSUME Base, Sections, resp' = resp, clock' \in Nat, clock <= clock', NEW w \in Workers,
         \A v \in Workers : v # w => pc'[v] = pc[v] /\ req'[v] = req[v],
         pc'[w] \notin {"writing", "reading"}, pc'[w] # "send" \/ req'[w].kind \notin Logged
  PROVE  Sections'
<1>2. \A v \in Workers : pc'[v] = "send" /\ req'[v].kind \in Logged => pc[v] = "send" /\ req'[v] = req[v]
  OBVIOUS
<1>3. \A v \in Workers : pc'[v] \in {"writing", "reading"} => pc[v] = pc'[v] /\ req'[v] = req[v]
  OBVIOUS
<1> QED BY <1>2, <1>3, SectionsKeep

LEMMA SectionsStep == Base /\ Places /\ Sections /\ [Next]_vars => Sections'
<1> SUFFICES ASSUME Base, Places, Sections, [Next]_vars PROVE Sections'
  OBVIOUS
<1>0. clock \in Nat /\ req \in [Workers -> ReqT] /\ pc \in [Workers -> Labels]
  BY DEF Base, Types
<1>1. ASSUME UNCHANGED vars \/ Enqueue \/ \E c \in Conns : Accept(c) PROVE Sections'
  <2>1. resp' = resp /\ pc' = pc /\ req' = req /\ clock' \in Nat /\ clock <= clock'
    BY <1>0, <1>1 DEF vars, Enqueue, Accept
  <2> QED BY <2>1, SectionsKeep
<1>4. ASSUME NEW w \in Workers, WorkerStep(w) PROVE Sections'
  <2>1. CASE Pop(w)
    <3>1. pc' = [pc EXCEPT ![w] = "stamp"] /\ req' = [req EXCEPT ![w] = req'[w]]
      BY <2>1, PopReq
    <3>2. resp' = resp /\ clock' \in Nat /\ clock <= clock'
      BY <1>0, <2>1 DEF Pop
    <3>3. pc'[w] = "stamp" /\ \A v \in Workers : v # w => pc'[v] = pc[v] /\ req'[v] = req[v]
      BY <1>0, <3>1
    <3> QED BY <3>2, <3>3, SectionsAside
  <2>2. CASE Stamp(w)
    <3>1. pc' = [pc EXCEPT ![w] = "read"] /\ req' = [req EXCEPT ![w] = req'[w]]
      BY <2>2, StampReq
    <3>2. resp' = resp /\ clock' \in Nat /\ clock <= clock'
      BY <1>0, <2>2 DEF Stamp
    <3>3. pc'[w] = "read" /\ \A v \in Workers : v # w => pc'[v] = pc[v] /\ req'[v] = req[v]
      BY <1>0, <3>1
    <3> QED BY <3>2, <3>3, SectionsAside
  <2>3. CASE ReadNothing(w) \/ CgiExit(w)
    <3>1. pc' = [pc EXCEPT ![w] = "close"] /\ req' = req
      BY <2>3 DEF ReadNothing, CgiExit, Goto
    <3>2. pc'[w] = "close" /\ \A v \in Workers : v # w => pc'[v] = pc[v] /\ req'[v] = req[v]
      BY <1>0, <3>1
    <3>3. resp' = resp /\ clock' \in Nat /\ clock <= clock'
      BY <1>0, <2>3 DEF ReadNothing, CgiExit
    <3> QED BY <3>2, <3>3, SectionsAside
  <2>4. ASSUME NEW kind \in Kinds, Read(w, kind) PROVE Sections'
    <3>1. /\ pc' = [pc EXCEPT ![w] = Route(kind)] /\ req' = [req EXCEPT ![w] = req'[w]]
          /\ req'[w].kind = kind
      BY <2>4, ReadReq
    <3>2. resp' = resp /\ clock' \in Nat /\ clock <= clock'
      BY <1>0, <2>4 DEF Read
    <3>3. Route(kind) \notin {"writing", "reading"} /\ (Route(kind) = "send" => kind = "error")
      BY RouteKinds
    <3>4. "error" \notin Logged
      BY DEF Logged, Gets
    <3>5. pc'[w] = Route(kind) /\ \A v \in Workers : v # w => pc'[v] = pc[v] /\ req'[v] = req[v]
      BY <1>0, <3>1
    <3> QED BY <3>1, <3>2, <3>3, <3>4, <3>5, SectionsAside
  <2>5. CASE WriteEnter(w)
    <3>1. /\ pc' = [pc EXCEPT ![w] = "writing"] /\ req' = [req EXCEPT ![w] = req'[w]]
          /\ req'[w].tm.log_enter = clock + 1
      BY <2>5, WriteEnterReq
    <3>2. resp' = resp /\ clock' = clock + 1 /\ WriterMayEnter
      BY <2>5 DEF WriteEnter
    <3> QED BY <3>1, <3>2, SectionsEnter
  <2>6. CASE ReadEnter(w)
    <3>1. /\ pc' = [pc EXCEPT ![w] = "reading"] /\ req' = [req EXCEPT ![w] = req'[w]]
          /\ req'[w].tm.log_enter = clock + 1
      BY <2>6, ReadEnterReq
    <3>2. resp' = resp /\ clock' = clock + 1 /\ ReaderMayEnter
      BY <2>6 DEF ReadEnter
    <3> QED BY <3>1, <3>2, SectionsEnter
  <2>7. CASE Close(w)
    <3>1. pc' = [pc EXCEPT ![w] = "pop"] /\ req' = [req EXCEPT ![w] = NoReq]
      BY <2>7 DEF Close, Goto
    <3>2. resp' = resp /\ clock' \in Nat /\ clock <= clock'
      BY <1>0, <2>7 DEF Close
    <3>3. pc'[w] = "pop" /\ \A v \in Workers : v # w => pc'[v] = pc[v] /\ req'[v] = req[v]
      BY <1>0, <3>1
    <3> QED BY <3>2, <3>3, SectionsAside
  <2> QED BY <1>4, <2>1, <2>2, <2>3, <2>4, <2>5, <2>6, <2>7, SectionsExit, SectionsSend DEF WorkerStep
<1>5. ASSUME Die PROVE Sections'
  <2>0. pc' = [v \in Workers |-> "pop"] /\ resp' = resp /\ clock' = clock
    BY <1>5, DieEffect
  <2>1. /\ \A v \in Workers : pc'[v] = "pop"
        /\ resp' = resp /\ clock' \in Nat /\ clock <= clock'
    BY <1>0, <2>0
  <2> QED BY <2>1, SectionsKeep
<1> QED BY <1>1, <1>4, <1>5 DEF Next

LEMMA SectionsInvariant == Spec => [](Base /\ Places /\ Sections)
<1>1. Init => Base /\ Places /\ Sections
  BY BaseInit, PlacesInit, SectionsInit
<1>2. Base /\ Places /\ Sections /\ [Next]_vars => (Base /\ Places /\ Sections)'
  BY BaseStep, PlacesStep, SectionsStep
<1> QED BY <1>1, <1>2, PTL DEF Spec

(* The times the server reports are in the order of the events they name,  *)
(* and the critical section of a GET overlaps with that of no other        *)
(* request: what log_write and log_read stamp between the lock and the     *)
(* unlock is what handle_request sends.                                    *)
THEOREM TimesStayInOrder == Spec => []TimesInOrder
<1>1. Base /\ Places /\ Sections => TimesInOrder
  <2> SUFFICES ASSUME Base, Places, Sections PROVE TimesInOrder
    OBVIOUS
  <2>1. resp \in [Conns -> RespT] /\ Logged = Gets \cup {"post"} /\ Gets \subseteq Logged
    BY DEF Base, Types, Logged
  <2>2. ASSUME NEW c \in Answered(Kinds) PROVE RightTimes(resp[c].tm, resp[c].kind, clock)
    BY DEF Answered, Kinds, Sections, Answers
  <2>3. ASSUME NEW c \in Conns PROVE c \in Answered(Gets \cup {"post"}) <=> resp[c].kind \in Logged
    BY DEF Answered, Logged
  <2>4. ASSUME NEW c \in Answered(Gets), NEW d \in Answered(Gets \cup {"post"}) \ {c}
        PROVE  resp[c].tm.log_exit < resp[d].tm.log_enter \/ resp[d].tm.log_exit < resp[c].tm.log_enter
    <3>1. c \in Conns /\ d \in Conns /\ c # d /\ resp[c].kind \in Gets /\ resp[d].kind \in Logged
      BY <2>3 DEF Answered
    <3>2. resp[c].tm \in Times /\ resp[d].tm \in Times
      BY <2>1, <3>1 DEF RespT
    <3>3. Done(c, resp[c].tm, resp[c].kind) /\ Done(d, resp[d].tm, resp[d].kind)
      BY DEF Done
    <3> QED BY <3>1, <3>2, <3>3 DEF Sections, Apart
  <2>5. ASSUME NEW c \in Answered(Kinds)
        PROVE  /\ resp[c].tm.arrival < resp[c].tm.dispatch
               /\ c \in Answered(Gets \cup {"post"}) =>
                    resp[c].tm.dispatch < resp[c].tm.log_enter /\ resp[c].tm.log_enter < resp[c].tm.log_exit
               /\ c \notin Answered(Gets \cup {"post"}) =>
                    resp[c].tm.log_enter = resp[c].tm.dispatch /\ resp[c].tm.log_exit = resp[c].tm.dispatch
    <3>1. c \in Conns
      BY DEF Answered
    <3> QED BY <2>2, <2>3, <3>1 DEF RightTimes
  <2> QED BY <2>4, <2>5 DEF TimesInOrder
<1> QED BY <1>1, SectionsInvariant, PTL

(* The log: the connections with an entry are those whose GET is answered  *)
(* or past log_write, and the copy of a POST reaches every entry whose GET *)
(* was answered before the POST arrived.                                   *)
Wr(w) == pc[w] = "writing" \/ (pc[w] = "send" /\ req[w].kind \in Gets)
Rd(w) == pc[w] = "reading" \/ (pc[w] = "send" /\ req[w].kind = "post")

Wrote(c) == resp[c].kind \in Gets \/ \E w \in Workers : Conn(w) = c /\ Wr(w)

LogOnce == up =>
  /\ \A i \in DOMAIN log : log[i].conn \in Conns
  /\ \A i, j \in DOMAIN log : i # j => log[i].conn # log[j].conn
  /\ \A c \in Conns : Wrote(c) <=> \E i \in DOMAIN log : log[i].conn = c

Copied(a, b) ==
  \/ \E d \in Conns : resp[d].kind = "post" /\ resp[d].tm.arrival = a /\ resp[d].body = b
  \/ \E w \in Workers : Rd(w) /\ req[w].tm.arrival = a /\ req[w].body = b

Reaches(a, b) == \A c \in Conns : resp[c].kind \in Gets /\ resp[c].sent < a =>
                   \A i \in DOMAIN log : log[i].conn = c => i <= b

Covered == up => \A a, b \in Nat : Copied(a, b) => Reaches(a, b)

LogFacts == LogOnce /\ Covered

LEMMA LogFactsInit == Init => LogFacts
<1> SUFFICES ASSUME Init PROVE LogFacts
  OBVIOUS
<1>1. \A c \in Conns : resp[c].kind = "none"
  BY DEF Init, NoResp
<1>2. log = <<>> /\ \A w \in Workers : pc[w] = "pop"
  BY DEF Init, Fresh
<1>3. \A c \in Conns : ~ Wrote(c)
  BY <1>1, <1>2 DEF Wrote, Wr, Gets
<1>4. DOMAIN log = {}
  BY <1>2
<1>5. LogOnce
  BY <1>3, <1>4 DEF LogOnce
<1>6. Covered
  BY <1>4 DEF Covered, Reaches
<1> QED BY <1>5, <1>6 DEF LogFacts

LEMMA CopiedInTime ==
  ASSUME Base, Sections, NEW a \in Nat, NEW b \in Nat, Copied(a, b)
  PROVE  a <= clock
<1>0. clock \in Nat /\ resp \in [Conns -> RespT]
  BY DEF Base, Types
<1>1. ASSUME NEW d \in Conns, resp[d].kind = "post", resp[d].tm.arrival = a PROVE a <= clock
  <2>1. RightTimes(resp[d].tm, resp[d].kind, clock)
    BY <1>1 DEF Sections, Answers
  <2>2. resp[d].tm \in Times
    BY <1>0 DEF RespT
  <2> QED BY <1>0, <1>1, <2>1, <2>2 DEF RightTimes, Times
<1>2. ASSUME NEW w \in Workers, Rd(w), req[w].tm.arrival = a PROVE a <= clock
  BY <1>2 DEF Rd, Base, Works, Work
<1> QED BY <1>1, <1>2 DEF Copied

(* No entry is written and no copy taken. *)
LEMMA LogKeep ==
  ASSUME LogFacts, up' = up, log' = log, resp' = resp,
         \A v \in Workers : Wr(v)' <=> Wr(v),
         \A v \in Workers : Wr(v) => req'[v].conn = req[v].conn,
         \A v \in Workers : Rd(v)' => /\ Rd(v) /\ req'[v].tm.arrival = req[v].tm.arrival
                                      /\ req'[v].body = req[v].body
  PROVE  LogFacts'
<1>1. \A c \in Conns : Wrote(c)' <=> Wrote(c)
  BY DEF Wrote, Conn
<1>2. LogOnce'
  BY <1>1 DEF LogFacts, LogOnce
<1>3. \A a, b \in Nat : Copied(a, b)' => Copied(a, b)
  BY DEF Copied
<1>4. \A a, b \in Nat : Reaches(a, b)' <=> Reaches(a, b)
  BY DEF Reaches
<1>5. Covered'
  BY <1>3, <1>4 DEF LogFacts, Covered
<1> QED BY <1>2, <1>5 DEF LogFacts

LEMMA LogWriteEnter ==
  ASSUME Base, Places, Sections, LogFacts, NEW w \in Workers, WriteEnter(w)
  PROVE  LogFacts'
<1>1. /\ pc' = [pc EXCEPT ![w] = "writing"] /\ pc[w] = "log_write" /\ req' = [req EXCEPT ![w] = req'[w]]
      /\ req'[w].conn = req[w].conn
  BY WriteEnterReq
<1>2. up /\ up' = up /\ resp' = resp
  BY DEF WriteEnter
<1>3. PICK e \in EntryT : e.conn = Conn(w) /\ log' = Append(log, e)
  BY WriteEnterLog
<1>4. /\ log \in Seq(EntryT) /\ pc \in [Workers -> Labels] /\ req \in [Workers -> ReqT]
      /\ accepted \subseteq Conns
  BY DEF Base, Types
<1>5. /\ Len(log) \in Nat /\ DOMAIN log = 1..Len(log) /\ DOMAIN log' = 1..(Len(log) + 1)
      /\ \A i \in DOMAIN log : log'[i] = log[i]
      /\ log'[Len(log) + 1] = e
  BY <1>3, <1>4
<1>6. \A i \in DOMAIN log' : i \in DOMAIN log \/ i = Len(log) + 1
  BY <1>5
<1>7. Conn(w) \in Conns /\ resp[Conn(w)].kind = "none"
  BY <1>1, <1>4 DEF Places, AtWorkers, Unsent
<1>8. /\ pc'[w] = "writing" /\ \A v \in Workers : v # w => pc'[v] = pc[v] /\ req'[v] = req[v]
  BY <1>1, <1>4
<1>9. Wr(w)' /\ ~ Wr(w) /\ ~ Rd(w)' /\ ~ Rd(w) /\ \A v \in Workers : v # w => (Wr(v)' <=> Wr(v)) /\ (Rd(v)' <=> Rd(v))
  BY <1>1, <1>8 DEF Wr, Rd
<1>10. \A v \in Workers : Conn(v)' = Conn(v)
  BY <1>1, <1>8 DEF Conn
<1>11. ~ Wrote(Conn(w))
  <2>1. ASSUME NEW v \in Workers, Conn(v) = Conn(w), Wr(v) PROVE FALSE
    <3>1. pc[v] # "pop" /\ v # w
      BY <1>9, <2>1 DEF Wr
    <3> QED BY <2>1, <3>1 DEF Places, AtWorkers
  <2> QED BY <1>7, <2>1 DEF Wrote, Gets
<1>12. \A c \in Conns : Wrote(c)' <=> Wrote(c) \/ c = Conn(w)
  BY <1>2, <1>9, <1>10 DEF Wrote
<1>13. LogOnce /\ Covered
  BY DEF LogFacts
<1>14. \A i \in DOMAIN log : log[i].conn # Conn(w)
  BY <1>2, <1>7, <1>11, <1>13 DEF LogOnce
<1>15. LogOnce'
  <2>1. \A i \in DOMAIN log' : log'[i].conn \in Conns
    BY <1>2, <1>3, <1>5, <1>6, <1>7, <1>13 DEF LogOnce
  <2>2. ASSUME NEW i \in DOMAIN log', NEW j \in DOMAIN log', i # j PROVE log'[i].conn # log'[j].conn
    BY <1>2, <1>3, <1>5, <1>6, <1>13, <1>14, <2>2 DEF LogOnce
  <2>3. ASSUME NEW c \in Conns PROVE Wrote(c)' <=> \E i \in DOMAIN log' : log'[i].conn = c
    <3>1. Wrote(c) <=> \E i \in DOMAIN log : log[i].conn = c
      BY <1>2, <1>13 DEF LogOnce
    <3>2. DOMAIN log \subseteq DOMAIN log' /\ Len(log) + 1 \in DOMAIN log'
      BY <1>5
    <3> QED BY <1>3, <1>5, <1>6, <1>12, <3>1, <3>2
  <2> QED BY <2>1, <2>2, <2>3 DEF LogOnce
<1>16. Covered'
  <2>1. ASSUME NEW a \in Nat, NEW b \in Nat, Copied(a, b)' PROVE Copied(a, b)
    BY <1>2, <1>8, <1>9, <2>1 DEF Copied
  <2>2. ASSUME NEW a \in Nat, NEW b \in Nat, Reaches(a, b) PROVE Reaches(a, b)'
    <3> SUFFICES ASSUME NEW c \in Conns, resp[c].kind \in Gets, resp[c].sent < a,
                        NEW i \in DOMAIN log', log'[i].conn = c
                 PROVE  i <= b
      BY <1>2 DEF Reaches
    <3>1. i # Len(log) + 1
      BY <1>3, <1>5, <1>7 DEF Gets
    <3> QED BY <1>5, <1>6, <2>2, <3>1 DEF Reaches
  <2> QED BY <1>2, <1>13, <2>1, <2>2 DEF Covered
<1> QED BY <1>15, <1>16 DEF LogFacts

LEMMA LogReadEnter ==
  ASSUME Base, Places, Sections, LogFacts, NEW w \in Workers, ReadEnter(w)
  PROVE  LogFacts'
<1>1. /\ pc' = [pc EXCEPT ![w] = "reading"] /\ pc[w] = "log_read" /\ req' = [req EXCEPT ![w] = req'[w]]
      /\ req'[w].conn = req[w].conn /\ req'[w].body = Len(log)
  BY ReadEnterReq
<1>2. up' = up /\ resp' = resp /\ log' = log
  BY DEF ReadEnter
<1>3. log \in Seq(EntryT) /\ pc \in [Workers -> Labels] /\ req \in [Workers -> ReqT]
  BY DEF Base, Types
<1>4. /\ pc'[w] = "reading" /\ \A v \in Workers : v # w => pc'[v] = pc[v] /\ req'[v] = req[v]
  BY <1>1, <1>3
<1>5. \A v \in Workers : (Wr(v)' <=> Wr(v)) /\ Conn(v)' = Conn(v)
  BY <1>1, <1>4 DEF Wr, Conn
<1>6. LogOnce'
  <2>1. \A c \in Conns : Wrote(c)' <=> Wrote(c)
    BY <1>2, <1>5 DEF Wrote
  <2> QED BY <1>2, <2>1 DEF LogFacts, LogOnce
<1>7. Covered'
  <2>1. ASSUME NEW a \in Nat, NEW b \in Nat, Copied(a, b)' PROVE Copied(a, b) \/ b = Len(log)
    BY <1>1, <1>2, <1>4, <2>1 DEF Copied, Rd
  <2>2. ASSUME NEW a \in Nat PROVE Reaches(a, Len(log))
    <3>1. DOMAIN log = 1..Len(log) /\ Len(log) \in Nat
      BY <1>3
    <3> QED BY <3>1 DEF Reaches
  <2>3. \A a, b \in Nat : Reaches(a, b)' <=> Reaches(a, b)
    BY <1>2 DEF Reaches
  <2> QED BY <1>2, <2>1, <2>2, <2>3 DEF LogFacts, Covered
<1> QED BY <1>6, <1>7 DEF LogFacts

LEMMA LogSend ==
  ASSUME Base, Places, Sections, LogFacts, NEW w \in Workers, Send(w)
  PROVE  LogFacts'
<1>1. /\ pc[w] = "send" /\ Conn(w) \in Conns /\ req[w].kind \in Kinds
      /\ resp' = [resp EXCEPT ![Conn(w)] = resp'[Conn(w)]]
      /\ resp'[Conn(w)].kind = req[w].kind /\ resp'[Conn(w)].tm = req[w].tm
      /\ resp'[Conn(w)].body = req[w].body /\ resp'[Conn(w)].sent = clock
      /\ pc' = [pc EXCEPT ![w] = pc'[w]] /\ pc'[w] \in {"wait_cgi", "close"}
  BY SendEffect
<1>2. up' = up /\ req' = req /\ log' = log
  BY DEF Send
<1>3. resp \in [Conns -> RespT] /\ pc \in [Workers -> Labels] /\ clock \in Nat
  BY DEF Base, Types
<1>4. /\ \A c \in Conns : c # Conn(w) => resp'[c] = resp[c]
      /\ \A v \in Workers : v # w => pc'[v] = pc[v]
  BY <1>1, <1>3
<1>5. \A v \in Workers : v # w => (Wr(v)' <=> Wr(v)) /\ (Rd(v)' <=> Rd(v))
  BY <1>2, <1>4 DEF Wr, Rd
<1>6. /\ ~ Wr(w)' /\ ~ Rd(w)' /\ (Wr(w) <=> req[w].kind \in Gets) /\ (Rd(w) <=> req[w].kind = "post")
  BY <1>1, <1>2 DEF Wr, Rd
<1>7. resp[Conn(w)].kind = "none"
  BY <1>1 DEF Places, AtWorkers, Unsent
<1>8. \A v \in Workers : Conn(v)' = Conn(v) /\ (v # w /\ Wr(v) => Conn(v) # Conn(w))
  BY <1>2 DEF Places, AtWorkers, Conn, Wr
<1>9. \A c \in Conns : Wrote(c)' <=> Wrote(c)
  <2>1. ASSUME NEW c \in Conns, c # Conn(w) PROVE Wrote(c)' <=> Wrote(c)
    BY <1>4, <1>5, <1>6, <1>8, <2>1 DEF Wrote
  <2>2. ASSUME NEW c \in Conns, c = Conn(w) PROVE Wrote(c)' <=> Wrote(c)
    <3>1. Wrote(c) <=> req[w].kind \in Gets
      BY <1>6, <1>7, <1>8, <2>2 DEF Wrote, Gets
    <3>2. Wrote(c)' <=> req[w].kind \in Gets
      BY <1>1, <1>5, <1>6, <1>8, <2>2 DEF Wrote
    <3> QED BY <3>1, <3>2
  <2> QED BY <2>1, <2>2
<1>10. LogOnce'
  BY <1>2, <1>9 DEF LogFacts, LogOnce
<1>11. Covered'
  <2>1. ASSUME NEW a \in Nat, NEW b \in Nat, Copied(a, b)' PROVE Copied(a, b)
    <3>1. ASSUME NEW d \in Conns, resp'[d].kind = "post", resp'[d].tm.arrival = a, resp'[d].body = b
          PROVE  Copied(a, b)
      <4>1. CASE d = Conn(w)
        BY <1>1, <1>6, <3>1, <4>1 DEF Copied
      <4>2. CASE d # Conn(w)
        BY <1>4, <3>1, <4>2 DEF Copied
      <4> QED BY <4>1, <4>2
    <3>2. ASSUME NEW v \in Workers, Rd(v)', req'[v].tm.arrival = a, req'[v].body = b
          PROVE  Copied(a, b)
      BY <1>2, <1>5, <1>6, <3>2 DEF Copied
    <3> QED BY <2>1, <3>1, <3>2 DEF Copied
  <2>2. ASSUME NEW a \in Nat, NEW b \in Nat, Reaches(a, b), a <= clock PROVE Reaches(a, b)'
    <3> SUFFICES ASSUME NEW c \in Conns, resp'[c].kind \in Gets, resp'[c].sent < a,
                        NEW i \in DOMAIN log, log[i].conn = c
                 PROVE  i <= b
      BY <1>2 DEF Reaches
    <3>1. c # Conn(w)
      BY <1>1, <1>3, <2>2
    <3> QED BY <1>4, <2>2, <3>1 DEF Reaches
  <2> QED BY <1>2, <2>1, <2>2, CopiedInTime DEF LogFacts, Covered
<1> QED BY <1>10, <1>11 DEF LogFacts

(* A step of w that neither enters the log nor leaves it nor answers. *)
LEMMA LogAside ==
  ASSUME LogFacts, up' = up, log' = log, resp' = resp, NEW w \in Workers,
         \A v \in Workers : v # w => pc'[v] = pc[v] /\ req'[v] = req[v],
         ~ Wr(w), ~ Wr(w)', ~ Rd(w)'
  PROVE  LogFacts'
<1>1. \A v \in Workers : Wr(v)' <=> Wr(v)
  BY DEF Wr
<1>2. \A v \in Workers : Wr(v) => req'[v].conn = req[v].conn
  OBVIOUS
<1>3. \A v \in Workers : Rd(v)' => /\ Rd(v) /\ req'[v].tm.arrival = req[v].tm.arrival
                                   /\ req'[v].body = req[v].body
  BY DEF Rd
<1> QED BY <1>1, <1>2, <1>3, LogKeep

LEMMA LogFactsStep == Base /\ Places /\ Sections /\ LogFacts /\ [Next]_vars => LogFacts'
<1> SUFFICES ASSUME Base, Places, Sections, LogFacts, [Next]_vars PROVE LogFacts'
  OBVIOUS
<1>0. req \in [Workers -> ReqT] /\ pc \in [Workers -> Labels]
  BY DEF Base, Types
<1>1. ASSUME UNCHANGED vars \/ Enqueue \/ \E c \in Conns : Accept(c) PROVE LogFacts'
  <2>1. up' = up /\ log' = log /\ resp' = resp /\ pc' = pc /\ req' = req
    BY <1>1 DEF vars, Enqueue, Accept
  <2>2. \A v \in Workers : (Wr(v)' <=> Wr(v)) /\ (Rd(v)' <=> Rd(v))
    BY <2>1 DEF Wr, Rd
  <2> QED BY <2>1, <2>2, LogKeep
<1>2. ASSUME NEW w \in Workers, WorkerStep(w) PROVE LogFacts'
  <2>1. CASE Pop(w)
    <3>1. pc' = [pc EXCEPT ![w] = "stamp"] /\ req' = [req EXCEPT ![w] = req'[w]] /\ pc[w] = "pop"
      BY <2>1, PopReq
    <3>2. pc'[w] = "stamp" /\ \A v \in Workers : v # w => pc'[v] = pc[v] /\ req'[v] = req[v]
      BY <1>0, <3>1
    <3>3. up' = up /\ log' = log /\ resp' = resp
      BY <2>1 DEF Pop
    <3>4. ~ Wr(w) /\ ~ Wr(w)' /\ ~ Rd(w)'
      BY <3>1, <3>2 DEF Wr, Rd
    <3> QED BY <3>2, <3>3, <3>4, LogAside
  <2>2. CASE Stamp(w)
    <3>1. pc' = [pc EXCEPT ![w] = "read"] /\ req' = [req EXCEPT ![w] = req'[w]] /\ pc[w] = "stamp"
      BY <2>2, StampReq
    <3>2. pc'[w] = "read" /\ \A v \in Workers : v # w => pc'[v] = pc[v] /\ req'[v] = req[v]
      BY <1>0, <3>1
    <3>3. up' = up /\ log' = log /\ resp' = resp
      BY <2>2 DEF Stamp
    <3>4. ~ Wr(w) /\ ~ Wr(w)' /\ ~ Rd(w)'
      BY <3>1, <3>2 DEF Wr, Rd
    <3> QED BY <3>2, <3>3, <3>4, LogAside
  <2>3. CASE ReadNothing(w) \/ CgiExit(w)
    <3>1. pc' = [pc EXCEPT ![w] = "close"] /\ req' = req /\ pc[w] \in {"read", "wait_cgi"}
      BY <2>3 DEF ReadNothing, CgiExit, Goto
    <3>2. pc'[w] = "close" /\ \A v \in Workers : v # w => pc'[v] = pc[v] /\ req'[v] = req[v]
      BY <1>0, <3>1
    <3>3. up' = up /\ log' = log /\ resp' = resp
      BY <2>3 DEF ReadNothing, CgiExit
    <3>4. ~ Wr(w) /\ ~ Wr(w)' /\ ~ Rd(w)'
      BY <3>1, <3>2 DEF Wr, Rd
    <3> QED BY <3>2, <3>3, <3>4, LogAside
  <2>4. ASSUME NEW kind \in Kinds, Read(w, kind) PROVE LogFacts'
    <3>1. /\ pc' = [pc EXCEPT ![w] = Route(kind)] /\ req' = [req EXCEPT ![w] = req'[w]] /\ pc[w] = "read"
          /\ req'[w].kind = kind
      BY <2>4, ReadReq
    <3>2. pc'[w] = Route(kind) /\ \A v \in Workers : v # w => pc'[v] = pc[v] /\ req'[v] = req[v]
      BY <1>0, <3>1
    <3>3. up' = up /\ log' = log /\ resp' = resp
      BY <2>4 DEF Read
    <3>4. Route(kind) \notin {"writing", "reading"} /\ (Route(kind) = "send" => kind = "error")
      BY RouteKinds
    <3>5. ~ Wr(w) /\ ~ Wr(w)' /\ ~ Rd(w)'
      BY <3>1, <3>2, <3>4 DEF Wr, Rd, Gets
    <3> QED BY <3>2, <3>3, <3>5, LogAside
  <2>5. CASE LogExit(w)
    <3>1. /\ pc' = [pc EXCEPT ![w] = "send"] /\ pc[w] \in {"writing", "reading"}
          /\ req' = [req EXCEPT ![w] = req'[w]] /\ req'[w].conn = req[w].conn /\ req'[w].kind = req[w].kind
          /\ req'[w].tm.arrival = req[w].tm.arrival /\ req'[w].body = req[w].body
      BY <2>5, LogExitReq
    <3>2. pc'[w] = "send" /\ \A v \in Workers : v # w => pc'[v] = pc[v] /\ req'[v] = req[v]
      BY <1>0, <3>1
    <3>3. up' = up /\ log' = log /\ resp' = resp
      BY <2>5 DEF LogExit
    <3>4. /\ pc[w] = "writing" => req[w].kind \in Gets
          /\ pc[w] = "reading" => req[w].kind = "post"
      BY DEF Base, Works, Work
    <3>5. (Wr(w)' <=> Wr(w)) /\ (Rd(w)' <=> Rd(w))
      BY <3>1, <3>2, <3>4 DEF Wr, Rd, Gets
    <3>6. \A v \in Workers : (Wr(v)' <=> Wr(v)) /\ (Rd(v)' <=> Rd(v))
      BY <3>2, <3>5 DEF Wr, Rd
    <3>7. \A v \in Workers : /\ req'[v].conn = req[v].conn /\ req'[v].tm.arrival = req[v].tm.arrival
                             /\ req'[v].body = req[v].body
      BY <3>1, <3>2
    <3> QED BY <3>3, <3>6, <3>7, LogKeep
  <2>6. CASE Close(w)
    <3>1. pc' = [pc EXCEPT ![w] = "pop"] /\ req' = [req EXCEPT ![w] = NoReq] /\ pc[w] = "close"
      BY <2>6 DEF Close, Goto
    <3>2. pc'[w] = "pop" /\ \A v \in Workers : v # w => pc'[v] = pc[v] /\ req'[v] = req[v]
      BY <1>0, <3>1
    <3>3. up' = up /\ log' = log /\ resp' = resp
      BY <2>6 DEF Close
    <3>4. ~ Wr(w) /\ ~ Wr(w)' /\ ~ Rd(w)'
      BY <3>1, <3>2 DEF Wr, Rd
    <3> QED BY <3>2, <3>3, <3>4, LogAside
  <2> QED BY <1>2, <2>1, <2>2, <2>3, <2>4, <2>5, <2>6, LogWriteEnter, LogReadEnter, LogSend DEF WorkerStep
<1>3. ASSUME Die PROVE LogFacts'
  BY <1>3, DieEffect DEF LogFacts, LogOnce, Covered
<1> QED BY <1>1, <1>2, <1>3 DEF Next

(* While the server runs, every answered GET has exactly one entry in the  *)
(* log, and a POST that arrives after the answer to a GET gets a copy that *)
(* reaches the GET's entry.                                                *)
THEOREM PostsReadTheGets == Spec => []ReadYourWrites
<1> DEFINE Inv == Base /\ Places /\ Sections /\ LogFacts
<1>1. Init => Inv
  BY BaseInit, PlacesInit, SectionsInit, LogFactsInit
<1>2. Inv /\ [Next]_vars => Inv'
  BY BaseStep, PlacesStep, SectionsStep, LogFactsStep
<1>3. Inv => ReadYourWrites
  <2> SUFFICES ASSUME Base, LogFacts, up PROVE ReadYourWrites
    BY DEF ReadYourWrites
  <2>1. ASSUME NEW c \in Answered(Gets) PROVE Cardinality(Entries(c)) = 1
    <3>1. c \in Conns /\ Wrote(c)
      BY DEF Answered, Wrote
    <3>2. PICK i \in DOMAIN log : log[i].conn = c
      BY <3>1 DEF LogFacts, LogOnce
    <3>3. Entries(c) = {i}
      BY <3>2 DEF Entries, LogFacts, LogOnce
    <3> QED BY <3>3, FS_Singleton
  <2>2. ASSUME NEW c \in Answered(Gets), NEW d \in Answered({"post"}),
               resp[c].sent < resp[d].tm.arrival, NEW i \in Entries(c)
        PROVE  i <= resp[d].body
    <3>1. /\ c \in Conns /\ d \in Conns /\ resp[c].kind \in Gets /\ resp[d].kind = "post"
          /\ i \in DOMAIN log /\ log[i].conn = c
      BY DEF Answered, Entries
    <3>2. resp[d].tm.arrival \in Nat /\ resp[d].body \in Nat
      BY <3>1 DEF Base, Types, RespT, Times
    <3>3. Copied(resp[d].tm.arrival, resp[d].body)
      BY <3>1 DEF Copied
    <3>4. Reaches(resp[d].tm.arrival, resp[d].body)
      BY <3>2, <3>3 DEF LogFacts, Covered
    <3> QED BY <2>2, <3>1, <3>4 DEF Reaches
  <2> QED BY <2>1, <2>2 DEF ReadYourWrites
<1> QED BY <1>1, <1>2, <1>3, PTL DEF Spec

(* Counters: what a worker has counted is what it has answered plus the    *)
(* request it is busy with.                                                *)
BusyAt == {"log_write", "writing", "log_read", "reading", "send"}
Ans(w, K)  == {c \in Answered(K) : resp[c].thread = w}
Busy(w, K) == IF pc[w] \in BusyAt /\ req[w].kind \in K THEN 1 ELSE 0
Tally(w, K) == Cardinality(Ans(w, K)) + Busy(w, K)
Mine(w) == {i \in DOMAIN log : log[i].thread = w}

Tallied(w) ==
  /\ stats[w].total = Tally(w, Kinds)
  /\ stats[w].stat  = Tally(w, {"static"})
  /\ stats[w].dynm  = Tally(w, {"dynamic"})
  /\ stats[w].post  = Tally(w, {"post"})

Numbered(w) ==
  /\ Cardinality(Mine(w)) = stats[w].stat + stats[w].dynm - (IF pc[w] = "log_write" THEN 1 ELSE 0)
  /\ \A i \in Mine(w) : log[i].stats.total <= stats[w].total
  /\ pc[w] = "log_write" => \A i \in Mine(w) : log[i].stats.total < stats[w].total
  /\ \A i, j \in Mine(w) : i < j => log[i].stats.total < log[j].stats.total

Counters == up => \A w \in Workers : Tallied(w) /\ Numbered(w)

LEMMA AnsFinite ==
  ASSUME Base, Places, NEW w \in Workers, NEW K \in SUBSET Kinds
  PROVE  IsFiniteSet(Ans(w, K)) /\ Cardinality(Ans(w, K)) \in Nat
<1>1. Ans(w, K) \subseteq accepted
  BY DEF Ans, Answered, Places, Outside, Kinds
<1>2. IsFiniteSet(accepted)
  BY DEF Base, Types
<1>3. IsFiniteSet(Ans(w, K))
  BY <1>1, <1>2, FS_Subset
<1> QED BY <1>3, FS_CardinalityType

LEMMA SomeKinds ==
  Kinds \in SUBSET Kinds /\ {"static"} \in SUBSET Kinds /\ {"dynamic"} \in SUBSET Kinds /\ {"post"} \in SUBSET Kinds
BY DEF Kinds

LEMMA TallyKeep ==
  ASSUME resp' = resp, NEW v \in Workers, NEW K,
         pc'[v] \in BusyAt /\ req'[v].kind \in K <=> pc[v] \in BusyAt /\ req[v].kind \in K
  PROVE  Tally(v, K)' = Tally(v, K)
<1>1. Ans(v, K)' = Ans(v, K)
  BY DEF Ans, Answered
<1>2. Busy(v, K)' = Busy(v, K)
  BY DEF Busy
<1> QED BY <1>1, <1>2 DEF Tally

LEMMA TallySend ==
  ASSUME Base, Places, NEW w \in Workers, Send(w), NEW v \in Workers, NEW K \in SUBSET Kinds
  PROVE  Tally(v, K)' = Tally(v, K)
<1>1. /\ pc[w] = "send" /\ Conn(w) \in Conns
      /\ resp' = [resp EXCEPT ![Conn(w)] = resp'[Conn(w)]]
      /\ resp'[Conn(w)].kind = req[w].kind /\ resp'[Conn(w)].thread = w
      /\ pc' = [pc EXCEPT ![w] = pc'[w]] /\ pc'[w] \in {"wait_cgi", "close"}
  BY SendEffect
<1>2. resp \in [Conns -> RespT] /\ pc \in [Workers -> Labels] /\ req' = req
  BY DEF Base, Types, Send
<1>3. \A c \in Conns : c # Conn(w) => resp'[c] = resp[c]
  BY <1>1, <1>2
<1>4. \A u \in Workers : u # w => pc'[u] = pc[u]
  BY <1>1, <1>2
<1>5. resp[Conn(w)].kind = "none"
  BY <1>1 DEF Places, AtWorkers, Unsent
<1> DEFINE A == Ans(v, K)
           B == Ans(v, K)'
<1>6. Conn(w) \notin A
  BY <1>5 DEF Ans, Answered, Kinds
<1>7. \A c \in Conns : c # Conn(w) => (c \in B <=> c \in A)
  BY <1>3 DEF Ans, Answered
<1>8. A \subseteq Conns /\ B \subseteq Conns
  BY DEF Ans, Answered
<1>9. Conn(w) \in B <=> v = w /\ req[w].kind \in K
  BY <1>1 DEF Ans, Answered
<1>10. CASE v = w /\ req[w].kind \in K
  <2>1. B = A \cup {Conn(w)}
    BY <1>1, <1>7, <1>8, <1>9, <1>10
  <2>2. Cardinality(A \cup {Conn(w)}) = Cardinality(A) + 1 /\ Cardinality(A) \in Nat
    BY <1>6, AnsFinite, FS_AddElement
  <2>3. Busy(v, K) = 1
    BY <1>1, <1>10 DEF Busy, BusyAt
  <2>4. Busy(v, K)' = 0
    BY <1>1, <1>10 DEF Busy, BusyAt
  <2>5. Cardinality(B) = Cardinality(A) + 1
    BY <2>1, <2>2
  <2> HIDE DEF A, B
  <2>6. Tally(v, K) = Cardinality(A) + 1 /\ Tally(v, K)' = Cardinality(B) + 0
    BY <2>3, <2>4 DEF Tally, A, B
  <2> QED BY <2>2, <2>5, <2>6
<1>11. CASE ~ (v = w /\ req[w].kind \in K)
  <2>1. B = A
    BY <1>6, <1>7, <1>8, <1>9, <1>11
  <2>2. Busy(v, K)' = Busy(v, K)
    BY <1>1, <1>2, <1>4, <1>11 DEF Busy, BusyAt
  <2> QED BY <2>1, <2>2 DEF Tally
<1> QED BY <1>10, <1>11

LEMMA CountersKeep ==
  ASSUME Counters, up' = up, stats' = stats, log' = log,
         \A v \in Workers : pc'[v] = "log_write" <=> pc[v] = "log_write",
         \A v \in Workers : \A K \in SUBSET Kinds : Tally(v, K)' = Tally(v, K)
  PROVE  Counters'
<1> SUFFICES ASSUME up, NEW v \in Workers PROVE Tallied(v)' /\ Numbered(v)'
  BY DEF Counters
<1>1. Tallied(v) /\ Numbered(v)
  BY DEF Counters
<1>2. Tallied(v)'
  BY <1>1, SomeKinds DEF Tallied
<1>3. Mine(v)' = Mine(v)
  BY DEF Mine
<1>4. Numbered(v)'
  BY <1>1, <1>3 DEF Numbered
<1> QED BY <1>2, <1>4

(* A step of w that neither counts a request nor writes an entry. *)
LEMMA CountersAside ==
  ASSUME Counters, up' = up, stats' = stats, log' = log, resp' = resp, NEW w \in Workers,
         \A v \in Workers : v # w => pc'[v] = pc[v] /\ req'[v] = req[v],
         pc'[w] # "log_write", pc[w] # "log_write", pc'[w] \in BusyAt <=> pc[w] \in BusyAt,
         pc[w] \in BusyAt => req'[w].kind = req[w].kind
  PROVE  Counters'
<1>1. \A v \in Workers : pc'[v] = "log_write" <=> pc[v] = "log_write"
  OBVIOUS
<1>2. ASSUME NEW v \in Workers, NEW K \in SUBSET Kinds PROVE Tally(v, K)' = Tally(v, K)
  <2>1. pc'[v] \in BusyAt /\ req'[v].kind \in K <=> pc[v] \in BusyAt /\ req[v].kind \in K
    BY <1>2
  <2> QED BY <2>1, TallyKeep
<1> QED BY <1>1, <1>2, CountersKeep

LEMMA CountersRead ==
  ASSUME Base, Places, Counters, NEW w \in Workers, NEW kind \in Kinds, Read(w, kind)
  PROVE  Counters'
<1>1. /\ pc' = [pc EXCEPT ![w] = Route(kind)] /\ req' = [req EXCEPT ![w] = req'[w]] /\ pc[w] = "read"
      /\ req'[w].kind = kind
  BY ReadReq
<1>2. up' = up /\ log' = log /\ resp' = resp /\ stats' = [stats EXCEPT ![w] = Count(stats[w], kind)]
  BY DEF Read
<1>3. /\ req \in [Workers -> ReqT] /\ pc \in [Workers -> Labels] /\ stats \in [Workers -> StatT]
  BY DEF Base, Types
<1>4. /\ pc'[w] = Route(kind) /\ stats'[w] = Count(stats[w], kind)
      /\ \A v \in Workers : v # w => pc'[v] = pc[v] /\ req'[v] = req[v] /\ stats'[v] = stats[v]
  BY <1>1, <1>2, <1>3
<1>5. \A v \in Workers : Mine(v)' = Mine(v)
  BY <1>2 DEF Mine
<1> SUFFICES ASSUME up, NEW v \in Workers PROVE Tallied(v)' /\ Numbered(v)'
  BY <1>2 DEF Counters
<1>6. Tallied(v) /\ Numbered(v)
  BY DEF Counters
<1>7. CASE v # w
  <2>1. ASSUME NEW K \in SUBSET Kinds PROVE Tally(v, K)' = Tally(v, K)
    BY <1>2, <1>4, <1>7, TallyKeep
  <2>2. Tallied(v)'
    BY <1>4, <1>6, <1>7, <2>1, SomeKinds DEF Tallied
  <2>3. Numbered(v)'
    BY <1>2, <1>4, <1>5, <1>6, <1>7 DEF Numbered
  <2> QED BY <2>2, <2>3
<1>8. CASE v = w
  <2>1. ASSUME NEW K \in SUBSET Kinds
        PROVE  Tally(w, K)' = Tally(w, K) + (IF kind \in K THEN 1 ELSE 0) /\ Tally(w, K) \in Nat
    <3>1. Ans(w, K)' = Ans(w, K)
      BY <1>2 DEF Ans, Answered
    <3>2. Busy(w, K) = 0
      BY <1>1 DEF Busy, BusyAt
    <3>3. Busy(w, K)' = IF kind \in K THEN 1 ELSE 0
      <4>1. Route(kind) \in BusyAt
        BY RouteKinds DEF BusyAt
      <4> QED BY <1>1, <1>4, <4>1 DEF Busy
    <3>4. Cardinality(Ans(w, K)) \in Nat
      BY AnsFinite
    <3> QED BY <3>1, <3>2, <3>3, <3>4 DEF Tally
  <2>2. /\ Tally(w, Kinds)' = Tally(w, Kinds) + 1
        /\ Tally(w, {"static"})' = Tally(w, {"static"}) + (IF kind = "static" THEN 1 ELSE 0)
        /\ Tally(w, {"dynamic"})' = Tally(w, {"dynamic"}) + (IF kind = "dynamic" THEN 1 ELSE 0)
        /\ Tally(w, {"post"})' = Tally(w, {"post"}) + (IF kind = "post" THEN 1 ELSE 0)
    <3>1. Tally(w, Kinds)' = Tally(w, Kinds) + (IF kind \in Kinds THEN 1 ELSE 0)
      BY <2>1, SomeKinds
    <3>2. Tally(w, {"static"})' = Tally(w, {"static"}) + (IF kind \in {"static"} THEN 1 ELSE 0)
      BY <2>1, SomeKinds
    <3>3. Tally(w, {"dynamic"})' = Tally(w, {"dynamic"}) + (IF kind \in {"dynamic"} THEN 1 ELSE 0)
      BY <2>1, SomeKinds
    <3>4. Tally(w, {"post"})' = Tally(w, {"post"}) + (IF kind \in {"post"} THEN 1 ELSE 0)
      BY <2>1, SomeKinds
    <3> QED BY <3>1, <3>2, <3>3, <3>4
  <2>3. stats[w] \in StatT
    BY <1>3
  <2>4. /\ stats'[w].total = stats[w].total + 1
        /\ stats'[w].stat = stats[w].stat + (IF kind = "static" THEN 1 ELSE 0)
        /\ stats'[w].dynm = stats[w].dynm + (IF kind = "dynamic" THEN 1 ELSE 0)
        /\ stats'[w].post = stats[w].post + (IF kind = "post" THEN 1 ELSE 0)
    BY <1>4, <2>3 DEF Count, StatT
  <2>5. Tallied(w)'
    BY <1>6, <1>8, <2>2, <2>4 DEF Tallied
  <2>6. Numbered(w)'
    <3>1. /\ Cardinality(Mine(w)') = Cardinality(Mine(w))
          /\ Cardinality(Mine(w)) = stats[w].stat + stats[w].dynm
      <4>1. Cardinality(Mine(w)) = stats[w].stat + stats[w].dynm - 0
        BY <1>1, <1>6, <1>8 DEF Numbered
      <4>2. stats[w].stat \in Nat /\ stats[w].dynm \in Nat
        BY <2>3 DEF StatT
      <4>3. Mine(w)' = Mine(w)
        BY <1>5
      <4> QED BY <4>1, <4>2, <4>3
    <3>2. stats'[w].stat + stats'[w].dynm = stats[w].stat + stats[w].dynm + (IF kind \in Gets THEN 1 ELSE 0)
      BY <2>3, <2>4 DEF StatT, Gets
    <3>3. pc'[w] = "log_write" <=> kind \in Gets
      BY <1>4, RouteKinds
    <3>4. /\ stats[w].stat \in Nat /\ stats[w].dynm \in Nat /\ stats[w].total \in Nat
          /\ stats'[w].stat \in Nat /\ stats'[w].dynm \in Nat
      BY <1>4, <2>3, CountType DEF StatT
    <3>5. Cardinality(Mine(w)') = stats'[w].stat + stats'[w].dynm - (IF pc'[w] = "log_write" THEN 1 ELSE 0)
      <4>1. CASE kind \in Gets
        <5>1. Cardinality(Mine(w)') = stats'[w].stat + stats'[w].dynm - 1
          BY <3>1, <3>2, <3>4, <4>1
        <5> QED BY <3>3, <4>1, <5>1
      <4>2. CASE kind \notin Gets
        <5>1. Cardinality(Mine(w)') = stats'[w].stat + stats'[w].dynm - 0
          BY <3>1, <3>2, <3>4, <4>2
        <5> QED BY <3>3, <4>2, <5>1
      <4> QED BY <4>1, <4>2
    <3>6. ASSUME NEW i \in Mine(w) PROVE log[i].stats.total < stats'[w].total
      <4>1. log[i].stats.total <= stats[w].total
        BY <1>6, <1>8 DEF Numbered
      <4>2. log[i].stats.total \in Nat
        <5>1. log[i] \in EntryT
          BY DEF Mine, Base, Types
        <5> QED BY <5>1 DEF EntryT, StatT
      <4> QED BY <2>4, <3>4, <4>1, <4>2
    <3>7. \A i \in Mine(w) : log[i].stats.total <= stats'[w].total
      <4>1. ASSUME NEW i \in Mine(w) PROVE log[i].stats.total \in Nat
        <5>1. log[i] \in EntryT
          BY DEF Mine, Base, Types
        <5> QED BY <5>1 DEF EntryT, StatT
      <4>2. stats'[w].total \in Nat
        BY <2>4, <3>4
      <4> QED BY <3>6, <4>1, <4>2
    <3>8. \A i, j \in Mine(w) : i < j => log[i].stats.total < log[j].stats.total
      BY <1>6, <1>8 DEF Numbered
    <3> QED BY <1>2, <1>5, <3>5, <3>6, <3>7, <3>8 DEF Numbered
  <2> QED BY <1>8, <2>5, <2>6
<1> QED BY <1>7, <1>8

LEMMA CountersWriteEnter ==
  ASSUME Base, Places, Counters, NEW w \in Workers, WriteEnter(w)
  PROVE  Counters'
<1>1. /\ pc' = [pc EXCEPT ![w] = "writing"] /\ pc[w] = "log_write" /\ req' = [req EXCEPT ![w] = req'[w]]
      /\ req'[w].kind = req[w].kind
  BY WriteEnterReq
<1>2. up' = up /\ resp' = resp /\ stats' = stats
  BY DEF WriteEnter
<1>3. PICK e \in EntryT : e.thread = w /\ e.stats = stats[w] /\ log' = Append(log, e)
  BY WriteEnterLog
<1>4. /\ log \in Seq(EntryT) /\ pc \in [Workers -> Labels] /\ req \in [Workers -> ReqT]
      /\ stats \in [Workers -> StatT]
  BY DEF Base, Types
<1>5. /\ Len(log) \in Nat /\ DOMAIN log = 1..Len(log) /\ DOMAIN log' = 1..(Len(log) + 1)
      /\ \A i \in DOMAIN log : log'[i] = log[i]
      /\ log'[Len(log) + 1] = e
  BY <1>3, <1>4
<1> DEFINE n == Len(log) + 1
<1>6. n \in DOMAIN log' /\ n \notin DOMAIN log /\ \A i \in DOMAIN log' : i \in DOMAIN log \/ i = n
  BY <1>5
<1>7. DOMAIN log \subseteq DOMAIN log' /\ \A i \in DOMAIN log : i < n /\ i \in Nat
  BY <1>5
<1>8. log'[n] = e /\ n \in Nat
  BY <1>5
<1> HIDE DEF n
<1>9. /\ pc'[w] = "writing" /\ \A v \in Workers : v # w => pc'[v] = pc[v] /\ req'[v] = req[v]
  BY <1>1, <1>4
<1>10. ASSUME NEW v \in Workers, NEW K \in SUBSET Kinds PROVE Tally(v, K)' = Tally(v, K)
  <2>1. pc'[v] \in BusyAt /\ req'[v].kind \in K <=> pc[v] \in BusyAt /\ req[v].kind \in K
    BY <1>1, <1>9 DEF BusyAt
  <2> QED BY <1>2, <2>1, TallyKeep
<1> SUFFICES ASSUME up, NEW v \in Workers PROVE Tallied(v)' /\ Numbered(v)'
  BY <1>2 DEF Counters
<1>11. Tallied(v) /\ Numbered(v)
  BY DEF Counters
<1>12. Tallied(v)'
  BY <1>2, <1>10, <1>11, SomeKinds DEF Tallied
<1>13. CASE v # w
  <2>1. Mine(v)' = Mine(v)
    BY <1>3, <1>5, <1>6, <1>7, <1>8, <1>13 DEF Mine
  <2>2. Mine(v) \subseteq DOMAIN log
    BY DEF Mine
  <2> QED BY <1>2, <1>5, <1>9, <1>11, <1>12, <1>13, <2>1, <2>2 DEF Numbered
<1>14. CASE v = w
  <2>1. Mine(w)' = Mine(w) \cup {n} /\ n \notin Mine(w) /\ Mine(w) \subseteq DOMAIN log
    BY <1>3, <1>5, <1>6, <1>7, <1>8 DEF Mine
  <2>2. Cardinality(Mine(w)') = Cardinality(Mine(w)) + 1
    <3>1. IsFiniteSet(DOMAIN log)
      BY <1>5, FS_Interval
    <3>2. IsFiniteSet(Mine(w))
      BY <2>1, <3>1, FS_Subset
    <3> QED BY <2>1, <3>2, FS_AddElement
  <2>3. stats[w].stat \in Nat /\ stats[w].dynm \in Nat /\ stats[w].total \in Nat
    BY <1>4 DEF StatT
  <2>4. Cardinality(Mine(w)) = stats[w].stat + stats[w].dynm - 1
    BY <1>1, <1>11, <1>14 DEF Numbered
  <2>5. Cardinality(Mine(w)') = stats[w].stat + stats[w].dynm - 0
    BY <2>2, <2>3, <2>4
  <2>6. log'[n].stats.total = stats[w].total
    BY <1>3, <1>8
  <2>7. ASSUME NEW i \in Mine(w)
        PROVE  log'[i].stats.total < stats[w].total /\ log'[i].stats.total = log[i].stats.total /\ i < n /\ i \in Nat
    BY <1>1, <1>5, <1>7, <1>11, <1>14, <2>1 DEF Numbered
  <2>8. ASSUME NEW i \in Mine(w)' PROVE log'[i].stats.total <= stats[w].total
    <3>1. CASE i = n
      BY <2>3, <2>6, <3>1
    <3>2. CASE i \in Mine(w)
      <4>1. log[i] \in EntryT
        BY <1>4, <2>1, <3>2
      <4>2. log[i].stats.total \in Nat
        BY <4>1 DEF EntryT, StatT
      <4> QED BY <2>3, <2>7, <3>2, <4>2
    <3> QED BY <2>1, <3>1, <3>2
  <2>9. ASSUME NEW i \in Mine(w)', NEW j \in Mine(w)', i < j PROVE log'[i].stats.total < log'[j].stats.total
    <3>1. CASE i \in Mine(w) /\ j \in Mine(w)
      BY <1>11, <1>14, <2>7, <2>9, <3>1 DEF Numbered
    <3>2. CASE i \in Mine(w) /\ j = n
      BY <2>6, <2>7, <3>2
    <3>3. CASE i = n /\ j \in Mine(w)
      BY <1>8, <2>7, <2>9, <3>3
    <3>4. CASE i = n /\ j = n
      BY <1>8, <2>9, <3>4
    <3> QED BY <2>1, <3>1, <3>2, <3>3, <3>4
  <2> QED BY <1>2, <1>9, <1>12, <1>14, <2>5, <2>8, <2>9 DEF Numbered
<1> QED BY <1>13, <1>14

LEMMA CountersInit == Init => Counters
<1> SUFFICES ASSUME Init, NEW w \in Workers PROVE Tallied(w) /\ Numbered(w)
  BY DEF Counters
<1>1. \A c \in Conns : resp[c].kind = "none"
  BY DEF Init, NoResp
<1>2. log = <<>> /\ pc[w] = "pop" /\ stats[w] = [total |-> 0, stat |-> 0, dynm |-> 0, post |-> 0]
  BY DEF Init, Fresh
<1>3. ASSUME NEW K \in SUBSET Kinds PROVE Tally(w, K) = 0
  <2>1. Ans(w, K) = {}
    BY <1>1 DEF Ans, Answered, Kinds
  <2>2. Busy(w, K) = 0
    BY <1>2 DEF Busy, BusyAt
  <2>3. Cardinality({}) = 0
    BY FS_EmptySet
  <2> QED BY <2>1, <2>2, <2>3 DEF Tally
<1>4. Tallied(w)
  BY <1>2, <1>3, SomeKinds DEF Tallied
<1>5. Mine(w) = {}
  BY <1>2 DEF Mine
<1>6. Cardinality(Mine(w)) = 0
  BY <1>5, FS_EmptySet
<1>7. Numbered(w)
  BY <1>2, <1>5, <1>6 DEF Numbered
<1> QED BY <1>4, <1>7

LEMMA CountersStep == Base /\ Places /\ Counters /\ [Next]_vars => Counters'
<1> SUFFICES ASSUME Base, Places, Counters, [Next]_vars PROVE Counters'
  OBVIOUS
<1>0. req \in [Workers -> ReqT] /\ pc \in [Workers -> Labels]
  BY DEF Base, Types
<1>1. ASSUME UNCHANGED vars \/ Enqueue \/ \E c \in Conns : Accept(c) PROVE Counters'
  <2>1. up' = up /\ log' = log /\ resp' = resp /\ pc' = pc /\ req' = req /\ stats' = stats
    BY <1>1 DEF vars, Enqueue, Accept
  <2>2. ASSUME NEW v \in Workers, NEW K \in SUBSET Kinds PROVE Tally(v, K)' = Tally(v, K)
    BY <2>1, TallyKeep
  <2> QED BY <2>1, <2>2, CountersKeep
<1>2. ASSUME NEW w \in Workers, WorkerStep(w) PROVE Counters'
  <2>1. CASE Pop(w)
    <3>1. pc' = [pc EXCEPT ![w] = "stamp"] /\ req' = [req EXCEPT ![w] = req'[w]] /\ pc[w] = "pop"
      BY <2>1, PopReq
    <3>2. pc'[w] = "stamp" /\ \A v \in Workers : v # w => pc'[v] = pc[v] /\ req'[v] = req[v]
      BY <1>0, <3>1
    <3>3. up' = up /\ log' = log /\ resp' = resp /\ stats' = stats
      BY <2>1 DEF Pop
    <3>4. pc[w] \notin BusyAt /\ pc'[w] \notin BusyAt
      BY <3>1, <3>2 DEF BusyAt
    <3> QED BY <3>1, <3>2, <3>3, <3>4, CountersAside
  <2>2. CASE Stamp(w)
    <3>1. pc' = [pc EXCEPT ![w] = "read"] /\ req' = [req EXCEPT ![w] = req'[w]] /\ pc[w] = "stamp"
      BY <2>2, StampReq
    <3>2. pc'[w] = "read" /\ \A v \in Workers : v # w => pc'[v] = pc[v] /\ req'[v] = req[v]
      BY <1>0, <3>1
    <3>3. up' = up /\ log' = log /\ resp' = resp /\ stats' = stats
      BY <2>2 DEF Stamp
    <3>4. pc[w] \notin BusyAt /\ pc'[w] \notin BusyAt
      BY <3>1, <3>2 DEF BusyAt
    <3> QED BY <3>1, <3>2, <3>3, <3>4, CountersAside
  <2>3. CASE ReadNothing(w) \/ CgiExit(w)
    <3>1. pc' = [pc EXCEPT ![w] = "close"] /\ req' = req /\ pc[w] \in {"read", "wait_cgi"}
      BY <2>3 DEF ReadNothing, CgiExit, Goto
    <3>2. pc'[w] = "close" /\ \A v \in Workers : v # w => pc'[v] = pc[v] /\ req'[v] = req[v]
      BY <1>0, <3>1
    <3>3. up' = up /\ log' = log /\ resp' = resp /\ stats' = stats
      BY <2>3 DEF ReadNothing, CgiExit
    <3>4. pc[w] \notin BusyAt /\ pc'[w] \notin BusyAt
      BY <3>1, <3>2 DEF BusyAt
    <3> QED BY <3>1, <3>2, <3>3, <3>4, CountersAside
  <2>4. CASE ReadEnter(w)
    <3>1. /\ pc' = [pc EXCEPT ![w] = "reading"] /\ req' = [req EXCEPT ![w] = req'[w]] /\ pc[w] = "log_read"
          /\ req'[w].kind = req[w].kind
      BY <2>4, ReadEnterReq
    <3>2. pc'[w] = "reading" /\ \A v \in Workers : v # w => pc'[v] = pc[v] /\ req'[v] = req[v]
      BY <1>0, <3>1
    <3>3. up' = up /\ log' = log /\ resp' = resp /\ stats' = stats
      BY <2>4 DEF ReadEnter
    <3>4. pc[w] \in BusyAt /\ pc'[w] \in BusyAt
      BY <3>1, <3>2 DEF BusyAt
    <3> QED BY <3>1, <3>2, <3>3, <3>4, CountersAside
  <2>5. CASE LogExit(w)
    <3>1. /\ pc' = [pc EXCEPT ![w] = "send"] /\ pc[w] \in {"writing", "reading"}
          /\ req' = [req EXCEPT ![w] = req'[w]] /\ req'[w].kind = req[w].kind
      BY <2>5, LogExitReq
    <3>2. pc'[w] = "send" /\ \A v \in Workers : v # w => pc'[v] = pc[v] /\ req'[v] = req[v]
      BY <1>0, <3>1
    <3>3. up' = up /\ log' = log /\ resp' = resp /\ stats' = stats
      BY <2>5 DEF LogExit
    <3>4. pc[w] \in BusyAt /\ pc'[w] \in BusyAt
      BY <3>1, <3>2 DEF BusyAt
    <3> QED BY <3>1, <3>2, <3>3, <3>4, CountersAside
  <2>6. CASE Close(w)
    <3>1. pc' = [pc EXCEPT ![w] = "pop"] /\ req' = [req EXCEPT ![w] = NoReq] /\ pc[w] = "close"
      BY <2>6 DEF Close, Goto
    <3>2. pc'[w] = "pop" /\ \A v \in Workers : v # w => pc'[v] = pc[v] /\ req'[v] = req[v]
      BY <1>0, <3>1
    <3>3. up' = up /\ log' = log /\ resp' = resp /\ stats' = stats
      BY <2>6 DEF Close
    <3>4. pc[w] \notin BusyAt /\ pc'[w] \notin BusyAt
      BY <3>1, <3>2 DEF BusyAt
    <3> QED BY <3>1, <3>2, <3>3, <3>4, CountersAside
  <2>7. CASE Send(w)
    <3>1. pc[w] = "send" /\ pc' = [pc EXCEPT ![w] = pc'[w]] /\ pc'[w] \in {"wait_cgi", "close"}
      BY <2>7, SendEffect
    <3>2. \A v \in Workers : pc'[v] = "log_write" <=> pc[v] = "log_write"
      BY <1>0, <3>1
    <3>3. up' = up /\ log' = log /\ stats' = stats
      BY <2>7 DEF Send
    <3>4. \A v \in Workers : \A K \in SUBSET Kinds : Tally(v, K)' = Tally(v, K)
      BY <2>7, TallySend
    <3> QED BY <3>2, <3>3, <3>4, CountersKeep
  <2> QED BY <1>2, <2>1, <2>2, <2>3, <2>4, <2>5, <2>6, <2>7, CountersRead, CountersWriteEnter DEF WorkerStep
<1>3. ASSUME Die PROVE Counters'
  BY <1>3, DieEffect DEF Counters
<1> QED BY <1>1, <1>2, <1>3 DEF Next

(* While the server runs, the counters of every worker agree with what it  *)
(* has answered and is busy with, and number its entries in the log.       *)
THEOREM CountersAddUp == Spec => []StatsAddUp
<1> DEFINE Inv == Base /\ Places /\ Counters
<1>1. Init => Inv
  BY BaseInit, PlacesInit, CountersInit
<1>2. Inv /\ [Next]_vars => Inv'
  BY BaseStep, PlacesStep, CountersStep
<1>3. Counters => StatsAddUp
  BY DEF Counters, StatsAddUp, Tallied, Numbered, Tally, Ans, Busy, BusyAt, Mine
<1> QED BY <1>1, <1>2, <1>3, PTL DEF Spec
-----------------------------------------------------------------------------
(***************************************************************************)
(* One connection byte by byte (HttpExchange), for all sizes of buffers,   *)
(* request lines and bodies that ExchangeAssumption allows.                *)
(*                                                                         *)
(* Each direction of the connection is one stream of bytes in four stages: *)
(* in the hands of the reader, in its rio_buf, on the way, and not yet     *)
(* written. The invariant says that the stages in a row are that stream    *)
(* from the line on which the reader is, with nothing lost, doubled or out *)
(* of order, and how far the writer has got.                               *)
(***************************************************************************)
Bytes     == Nat
Positions == {"send", "request", "headers", "head", "body", "astray", "cgi", "closed",
              "done", "misled", "dead"}
Alive     == {"send", "headers", "body", "astray"}
Gone      == {"done", "misled", "dead"}

(* A stream is given by the bytes that may stand at each place; s is what  *)
(* stands behind its first p bytes.                                        *)
Fits(s, W, p) == \A i \in 1..Len(s) : s[i] \in W[p + i]

(* The four stages of a stream behind its first p bytes: in the hands of   *)
(* the reader, in its rio_buf, on the way, and not yet written.            *)
Stages(b, r, n, o, W, p) ==
  /\ Fits(b, W, p)
  /\ Fits(r, W, p + Len(b))
  /\ Fits(n, W, p + Len(b) + Len(r))
  /\ Fits(o, W, p + Len(b) + Len(r) + Len(n))

(* No line end but at the end of a line. *)
OneLine(b) == \A i \in 1..Len(b)-1 : b[i] # LF

(* The bytes of a request whose first line has a text of t bytes. *)
Request(t) == Line(t) \o Line(1) \o BlankLine
Asked(t)   == [i \in 1..t+7 |-> {Request(t)[i]}]

(* The answer: its header, then the body, in which what the file no longer *)
(* has may be what the buffer held before.                                 *)
HeadLen == IF answer = "dynamic" THEN 8 ELSE 11
Reply   == [i \in 1..HeadLen+length |->
              IF i <= HeadLen THEN {ResponseHead(answer, length)[i]}
              ELSE {20 + (i - HeadLen)} \cup (IF i - HeadLen > file THEN {Junk} ELSE {})]

(* p bytes are a number of full buffers of rio_readlineb. *)
Whole(p) == p % (MaxLine - 1) = 0

(* Where rio_readlineb starts reading a line of a request. *)
AtStart(p, t) == \/ p <= t + 1 /\ Whole(p)
                 \/ p = t + 2
                 \/ p = t + 5

Left(b, r, n, o) == Len(b) + Len(r) + Len(n) + Len(o)

(* The server has read p bytes of a request and is on its next line. *)
ServerReads(t, p) ==
  /\ AtStart(p, t)
  /\ Stages(buf["server"], rio["server"], net["server"], todo["client"], Asked(t), p)
  /\ Len(buf["server"]) < MaxLine /\ OneLine(buf["server"])
  /\ p + Left(buf["server"], rio["server"], net["server"], todo["client"]) <= t + 7
  /\ place["client"] # "dead" =>
       p + Left(buf["server"], rio["server"], net["server"], todo["client"]) = t + 7

ServerSide ==
  IF place["server"] \in {"request", "headers"}
  THEN \E t \in TextLens : \E p \in 0..t+5 : ServerReads(t, p)
  ELSE place["server"] # "dead" =>
         net["server"] = <<>> /\ rio["server"] = <<>> /\ todo["client"] = <<>>

(* How much of the answer the server has begun to send, at the most when   *)
(* it is dead.                                                             *)
Sending == IF place["server"] \in {"request", "headers"} THEN 0
           ELSE IF place["server"] = "head" THEN HeadLen
           ELSE HeadLen + length
Sent(k) == k <= Sending /\ (place["server"] # "dead" => k = Sending)

(* What the client knows of the length behind the first p bytes. *)
Known(p) == IF answer # "dynamic" /\ p > 3 THEN length ELSE 0

(* The part the client is working on. *)
InBody == place["client"] \in {"body", "astray"}
Hand   == IF InBody THEN got ELSE buf["client"]

(* The client is on the line, or in the body, behind p bytes of the answer. *)
ClientReads(p) ==
  /\ IF InBody THEN p = HeadLen
     ELSE p \in {0, 3, 6, 9} /\ p < HeadLen /\ got = <<>> /\ OneLine(Hand)
  /\ Stages(Hand, rio["client"], net["client"], todo["server"], Reply, p)
  /\ Sent(p + Left(Hand, rio["client"], net["client"], todo["server"]))
  /\ announced = Known(p) /\ Len(got) <= announced
  /\ place["client"] = "astray" => MaxBuf <= Len(got)

ClientSide == place["client"] \in Alive => \E p \in 0..11 : ClientReads(p)

ExchangeTypes ==
  /\ answer \in AnswerKinds /\ length \in BodyLens /\ length \in Nat /\ file \in -1..length
  /\ place \in [Ends -> Positions] /\ shut \in [Ends -> BOOLEAN]
  /\ todo \in [Ends -> Seq(Bytes)] /\ net \in [Ends -> Seq(Bytes)]
  /\ rio \in [Ends -> Seq(Bytes)] /\ buf \in [Ends -> Seq(Bytes)]
  /\ announced \in Nat /\ got \in Seq(Bytes)

(* Who has closed, and who has nothing to write. *)
Quiet ==
  /\ place["client"] \in Alive \cup Gone
  /\ place["server"] \in Positions \ {"send", "astray", "done", "misled"}
  /\ shut["client"] => place["server"] \in {"closed", "dead"}
  /\ shut["server"] => place["client"] \in Gone
  /\ place["client"] # "send" => todo["client"] = <<>>
  /\ place["client"] = "send" => buf["client"] = <<>>
  /\ place["server"] \notin {"head", "body", "cgi"} => todo["server"] = <<>>

(* The inductive invariant: ResponseExact alone says nothing of a client   *)
(* that is still reading.                                                  *)
ExchangeInv ==
  ExchangeTypes /\ Quiet /\ ServerSide /\ ClientSide /\ ResponseExact
-----------------------------------------------------------------------------
(* Cutting a sequence in two. *)
LEMMA CutSeq ==
  ASSUME NEW s \in Seq(Bytes), NEW k \in 0..Len(s)
  PROVE  /\ SubSeq(s, 1, k) \in Seq(Bytes) /\ Len(SubSeq(s, 1, k)) = k
         /\ \A i \in 1..k : SubSeq(s, 1, k)[i] = s[i]
         /\ SubSeq(s, k + 1, Len(s)) \in Seq(Bytes) /\ Len(SubSeq(s, k + 1, Len(s))) = Len(s) - k
         /\ \A i \in 1..Len(s)-k : SubSeq(s, k + 1, Len(s))[i] = s[k + i]
  OBVIOUS

(* Two sequences in a row. *)
LEMMA JoinSeq ==
  ASSUME NEW s \in Seq(Bytes), NEW u \in Seq(Bytes)
  PROVE  /\ s \o u \in Seq(Bytes) /\ Len(s \o u) = Len(s) + Len(u)
         /\ \A i \in 1..Len(s) : (s \o u)[i] = s[i]
         /\ \A i \in 1..Len(u) : (s \o u)[Len(s) + i] = u[i]
  OBVIOUS

(* What fits stays fitting when it is cut. *)
LEMMA FitsCut ==
  ASSUME NEW s \in Seq(Bytes), NEW k \in 0..Len(s), NEW W, NEW p \in Nat, Fits(s, W, p)
  PROVE  Fits(SubSeq(s, 1, k), W, p) /\ Fits(SubSeq(s, k + 1, Len(s)), W, p + k)
<1> DEFINE a == SubSeq(s, 1, k)
           c == SubSeq(s, k + 1, Len(s))
<1>1. Len(a) = k /\ \A i \in 1..k : a[i] = s[i]
  BY CutSeq
<1>2. Len(c) = Len(s) - k /\ \A i \in 1..Len(s)-k : c[i] = s[k + i]
  BY CutSeq
<1> HIDE DEF a, c
<1>3. \A i \in 1..Len(s) : s[i] \in W[p + i]
  BY DEF Fits
<1>4. ASSUME NEW i \in 1..Len(a) PROVE a[i] \in W[p + i]
  BY <1>1, <1>3
<1>5. ASSUME NEW i \in 1..Len(c) PROVE c[i] \in W[p + k + i]
  <2>1. k + i \in 1..Len(s) /\ p + (k + i) = p + k + i
    BY <1>2, <1>5
  <2> QED BY <1>2, <1>3, <1>5, <2>1
<1> QED BY <1>4, <1>5 DEF Fits, a, c

(* What fits in a row fits together. *)
LEMMA FitsJoin ==
  ASSUME NEW s \in Seq(Bytes), NEW u \in Seq(Bytes), NEW W, NEW p \in Nat,
         Fits(s, W, p), Fits(u, W, p + Len(s))
  PROVE  Fits(s \o u, W, p)
<1> DEFINE a == s \o u
<1>1. /\ Len(a) = Len(s) + Len(u)
      /\ \A i \in 1..Len(s) : a[i] = s[i]
      /\ \A i \in 1..Len(u) : a[Len(s) + i] = u[i]
  BY JoinSeq
<1>2. Len(s) \in Nat /\ Len(u) \in Nat
  OBVIOUS
<1> HIDE DEF a
<1>3. ASSUME NEW i \in 1..Len(a) PROVE a[i] \in W[p + i]
  <2>1. CASE i <= Len(s)
    BY <1>1, <1>2, <1>3, <2>1 DEF Fits
  <2>2. CASE ~(i <= Len(s))
    <3> DEFINE j == i - Len(s)
    <3>1. j \in 1..Len(u) /\ i = Len(s) + j /\ p + Len(s) + j = p + i
      BY <1>1, <1>2, <2>2
    <3> HIDE DEF j
    <3>2. a[i] = u[j] /\ u[j] \in W[p + Len(s) + j]
      BY <1>1, <3>1 DEF Fits
    <3> QED BY <3>1, <3>2
  <2> QED BY <2>1, <2>2
<1> QED BY <1>3 DEF Fits, a

(* rio_writen moves the first k bytes of o to the net. *)
LEMMA StagesWrite ==
  ASSUME NEW b \in Seq(Bytes), NEW r \in Seq(Bytes), NEW n \in Seq(Bytes), NEW o \in Seq(Bytes),
         NEW W, NEW p \in Nat, NEW k \in 0..Len(o), Stages(b, r, n, o, W, p)
  PROVE  LET n1 == n \o SubSeq(o, 1, k)
             o1 == SubSeq(o, k + 1, Len(o))
         IN  /\ n1 \in Seq(Bytes) /\ o1 \in Seq(Bytes)
             /\ Stages(b, r, n1, o1, W, p) /\ Left(b, r, n1, o1) = Left(b, r, n, o)
<1> DEFINE a == SubSeq(o, 1, k)
           n1 == n \o a
           o1 == SubSeq(o, k + 1, Len(o))
           q == p + Len(b) + Len(r)
<1>1. /\ a \in Seq(Bytes) /\ Len(a) = k
      /\ o1 \in Seq(Bytes) /\ Len(o1) = Len(o) - k
  BY CutSeq
<1>2. Len(b) \in Nat /\ Len(r) \in Nat /\ Len(n) \in Nat /\ Len(o) \in Nat /\ q \in Nat /\ q + Len(n) \in Nat
  OBVIOUS
<1>3. Fits(o, W, q + Len(n)) /\ Fits(n, W, q)
  BY DEF Stages
<1>4. Fits(a, W, q + Len(n)) /\ Fits(o1, W, q + Len(n) + k)
  <2> HIDE DEF q
  <2>1. \A z \in Nat : Fits(o, W, z) => Fits(a, W, z) /\ Fits(o1, W, z + k)
    BY FitsCut DEF a
  <2> QED BY <1>2, <1>3, <2>1
<1>5. n1 \in Seq(Bytes) /\ Len(n1) = Len(n) + k /\ Fits(n1, W, q)
  <2> HIDE DEF a, q
  <2>1. Fits(n \o a, W, q)
    BY <1>1, <1>2, <1>3, <1>4, FitsJoin
  <2>2. n \o a \in Seq(Bytes) /\ Len(n \o a) = Len(n) + Len(a)
    BY <1>1, JoinSeq
  <2> QED BY <1>1, <2>1, <2>2
<1> HIDE DEF n1, o1, a
<1>6. q + Len(n) + k = q + Len(n1)
  BY <1>2, <1>5
<1>7. Fits(o1, W, q + Len(n1))
  BY <1>4, <1>6
<1>8. Stages(b, r, n1, o1, W, p)
  BY <1>5, <1>7 DEF Stages
<1>9. Left(b, r, n1, o1) = Left(b, r, n, o)
  BY <1>1, <1>2, <1>5 DEF Left
<1> QED BY <1>1, <1>5, <1>8, <1>9 DEF n1, o1, a

(* rio_read fills an empty rio_buf with the first k bytes that arrived. *)
LEMMA StagesFill ==
  ASSUME NEW b \in Seq(Bytes), NEW r \in Seq(Bytes), NEW n \in Seq(Bytes), NEW o \in Seq(Bytes),
         NEW W, NEW p \in Nat, NEW k \in 0..Len(n), Len(r) = 0, Stages(b, r, n, o, W, p)
  PROVE  LET r1 == SubSeq(n, 1, k)
             n1 == SubSeq(n, k + 1, Len(n))
         IN  /\ r1 \in Seq(Bytes) /\ n1 \in Seq(Bytes)
             /\ Stages(b, r1, n1, o, W, p) /\ Left(b, r1, n1, o) = Left(b, r, n, o)
<1> DEFINE r1 == SubSeq(n, 1, k)
           n1 == SubSeq(n, k + 1, Len(n))
           q == p + Len(b)
<1>1. /\ r1 \in Seq(Bytes) /\ Len(r1) = k
      /\ n1 \in Seq(Bytes) /\ Len(n1) = Len(n) - k
  BY CutSeq
<1>2. Len(b) \in Nat /\ Len(r) = 0 /\ Len(n) \in Nat /\ Len(o) \in Nat /\ q \in Nat /\ q + Len(r) = q
  OBVIOUS
<1>3. Fits(b, W, p) /\ Fits(n, W, q) /\ Fits(o, W, q + Len(n))
  BY <1>2 DEF Stages
<1>4. Fits(r1, W, q) /\ Fits(n1, W, q + k)
  <2> HIDE DEF q
  <2> QED BY <1>2, <1>3, FitsCut
<1> HIDE DEF r1, n1
<1>5. q + Len(r1) = q + k /\ q + Len(r1) + Len(n1) = q + Len(n)
  BY <1>1, <1>2
<1>6. Stages(b, r1, n1, o, W, p)
  BY <1>3, <1>4, <1>5 DEF Stages
<1>7. Left(b, r1, n1, o) = Left(b, r, n, o)
  BY <1>1, <1>2 DEF Left
<1> QED BY <1>1, <1>6, <1>7 DEF r1, n1

(* The reader takes the first k bytes of its rio_buf. *)
LEMMA StagesTake ==
  ASSUME NEW b \in Seq(Bytes), NEW r \in Seq(Bytes), NEW n \in Seq(Bytes), NEW o \in Seq(Bytes),
         NEW W, NEW p \in Nat, NEW k \in 0..Len(r), Stages(b, r, n, o, W, p)
  PROVE  LET b1 == b \o SubSeq(r, 1, k)
             r1 == SubSeq(r, k + 1, Len(r))
         IN  /\ b1 \in Seq(Bytes) /\ r1 \in Seq(Bytes) /\ Len(b1) = Len(b) + k
             /\ Stages(b1, r1, n, o, W, p) /\ Left(b1, r1, n, o) = Left(b, r, n, o)
<1> DEFINE a == SubSeq(r, 1, k)
           b1 == b \o a
           r1 == SubSeq(r, k + 1, Len(r))
           q == p + Len(b)
<1>1. /\ a \in Seq(Bytes) /\ Len(a) = k
      /\ r1 \in Seq(Bytes) /\ Len(r1) = Len(r) - k
  BY CutSeq
<1>2. Len(b) \in Nat /\ Len(r) \in Nat /\ Len(n) \in Nat /\ Len(o) \in Nat /\ q \in Nat
  OBVIOUS
<1>3. Fits(b, W, p) /\ Fits(r, W, q) /\ Fits(n, W, q + Len(r)) /\ Fits(o, W, q + Len(r) + Len(n))
  BY DEF Stages
<1>4. Fits(a, W, q) /\ Fits(r1, W, q + k)
  <2> HIDE DEF q
  <2>1. \A z \in Nat : Fits(r, W, z) => Fits(a, W, z) /\ Fits(r1, W, z + k)
    BY FitsCut DEF a
  <2> QED BY <1>2, <1>3, <2>1
<1>5. b1 \in Seq(Bytes) /\ Len(b1) = Len(b) + k /\ Fits(b1, W, p)
  <2>1. Fits(a, W, p + Len(b))
    BY <1>4
  <2> HIDE DEF a, q
  <2>2. Fits(b \o a, W, p)
    BY <1>1, <1>2, <1>3, <2>1, FitsJoin
  <2>3. b \o a \in Seq(Bytes) /\ Len(b \o a) = Len(b) + Len(a)
    BY <1>1, JoinSeq
  <2> QED BY <1>1, <2>2, <2>3
<1> HIDE DEF b1, r1, a
<1>6. p + Len(b1) = q + k /\ p + Len(b1) + Len(r1) = q + Len(r)
  BY <1>1, <1>2, <1>5
<1>7. Stages(b1, r1, n, o, W, p)
  <2> HIDE DEF q
  <2> QED BY <1>3, <1>4, <1>5, <1>6 DEF Stages
<1>8. Left(b1, r1, n, o) = Left(b, r, n, o)
  BY <1>1, <1>2, <1>5 DEF Left
<1> QED BY <1>1, <1>5, <1>7, <1>8 DEF b1, r1, a

(* A line is done with: the next begins behind it. *)
LEMMA StagesNext ==
  ASSUME NEW b \in Seq(Bytes), NEW r \in Seq(Bytes), NEW n \in Seq(Bytes), NEW o \in Seq(Bytes),
         NEW W, NEW p \in Nat, Stages(b, r, n, o, W, p), NEW b1, b1 = <<>>
  PROVE  Stages(b1, r, n, o, W, p + Len(b)) /\ Left(b, r, n, o) = Len(b) + Left(b1, r, n, o)
<1>1. Len(b) \in Nat /\ Len(r) \in Nat /\ Len(n) \in Nat /\ Len(o) \in Nat /\ Len(b1) = 0
  OBVIOUS
<1>2. p + Len(b) + Len(b1) = p + Len(b)
  BY <1>1
<1>3. Fits(b1, W, p + Len(b))
  BY <1>1 DEF Fits
<1> QED BY <1>1, <1>2, <1>3 DEF Stages, Left

(* What is not written yet is dropped. *)
LEMMA StagesDrop ==
  ASSUME NEW b \in Seq(Bytes), NEW r \in Seq(Bytes), NEW n \in Seq(Bytes), NEW o \in Seq(Bytes),
         NEW W, NEW p \in Nat, Stages(b, r, n, o, W, p), NEW o1, o1 = <<>>
  PROVE  Stages(b, r, n, o1, W, p) /\ Left(b, r, n, o1) <= Left(b, r, n, o)
<1>1. Len(b) \in Nat /\ Len(r) \in Nat /\ Len(n) \in Nat /\ Len(o) \in Nat /\ Len(o1) = 0
  OBVIOUS
<1>2. Fits(o1, W, p + Len(b) + Len(r) + Len(n))
  BY <1>1 DEF Fits
<1> QED BY <1>1, <1>2 DEF Stages, Left

(* Something new is written behind a stream that is all on its way. *)
LEMMA StagesPut ==
  ASSUME NEW b \in Seq(Bytes), NEW r \in Seq(Bytes), NEW n \in Seq(Bytes), NEW o \in Seq(Bytes),
         NEW W, NEW p \in Nat, Stages(b, r, n, o, W, p), Len(o) = 0, NEW o1 \in Seq(Bytes),
         NEW q, p + Left(b, r, n, o) = q, Fits(o1, W, q)
  PROVE  Stages(b, r, n, o1, W, p) /\ p + Left(b, r, n, o1) = q + Len(o1)
<1>1. Len(b) \in Nat /\ Len(r) \in Nat /\ Len(n) \in Nat /\ Len(o1) \in Nat
  OBVIOUS
<1>2. q = p + Len(b) + Len(r) + Len(n)
  BY <1>1 DEF Left
<1> QED BY <1>1, <1>2 DEF Stages, Left

(* rio_readlineb takes one byte. *)
LEMMA StagesByte ==
  ASSUME NEW b \in Seq(Bytes), NEW r \in Seq(Bytes), NEW n \in Seq(Bytes), NEW o \in Seq(Bytes),
         NEW W, NEW p \in Nat, r # <<>>, Stages(b, r, n, o, W, p)
  PROVE  LET b1 == Append(b, r[1])
             r1 == Tail(r)
         IN  /\ b1 \in Seq(Bytes) /\ r1 \in Seq(Bytes) /\ Len(b1) = Len(b) + 1
             /\ Stages(b1, r1, n, o, W, p) /\ Left(b1, r1, n, o) = Left(b, r, n, o)
<1>1. Len(r) \in Nat /\ Len(r) > 0 /\ 1 \in 0..Len(r)
  OBVIOUS
<1>2. Tail(r) = SubSeq(r, 1 + 1, Len(r))
  <2>1. /\ Tail(r) \in Seq(Bytes) /\ Len(Tail(r)) = Len(r) - 1
        /\ \A i \in 1..Len(r)-1 : Tail(r)[i] = r[1 + i]
    BY <1>1
  <2>2. /\ SubSeq(r, 1 + 1, Len(r)) \in Seq(Bytes) /\ Len(SubSeq(r, 1 + 1, Len(r))) = Len(r) - 1
        /\ \A i \in 1..Len(r)-1 : SubSeq(r, 1 + 1, Len(r))[i] = r[1 + i]
    BY <1>1, CutSeq
  <2> QED BY <2>1, <2>2, <1>1
<1>3. Append(b, r[1]) = b \o SubSeq(r, 1, 1)
  <2>1. SubSeq(r, 1, 1) \in Seq(Bytes) /\ Len(SubSeq(r, 1, 1)) = 1 /\ SubSeq(r, 1, 1)[1] = r[1]
    BY <1>1, CutSeq
  <2>2. /\ Append(b, r[1]) \in Seq(Bytes) /\ Len(Append(b, r[1])) = Len(b) + 1
        /\ Append(b, r[1])[Len(b) + 1] = r[1]
        /\ \A i \in 1..Len(b) : Append(b, r[1])[i] = b[i]
    BY <1>1
  <2>3. /\ b \o SubSeq(r, 1, 1) \in Seq(Bytes) /\ Len(b \o SubSeq(r, 1, 1)) = Len(b) + 1
        /\ (b \o SubSeq(r, 1, 1))[Len(b) + 1] = r[1]
        /\ \A i \in 1..Len(b) : (b \o SubSeq(r, 1, 1))[i] = b[i]
    BY <2>1, JoinSeq
  <2> QED BY <2>2, <2>3
<1> DEFINE b1 == b \o SubSeq(r, 1, 1)
           r1 == SubSeq(r, 1 + 1, Len(r))
<1>4. /\ b1 \in Seq(Bytes) /\ r1 \in Seq(Bytes) /\ Len(b1) = Len(b) + 1
      /\ Stages(b1, r1, n, o, W, p) /\ Left(b1, r1, n, o) = Left(b, r, n, o)
  BY <1>1, StagesTake
<1>5. b1 = Append(b, r[1]) /\ r1 = Tail(r)
  BY <1>2, <1>3
<1> HIDE DEF b1, r1
<1> QED BY <1>4, <1>5
-----------------------------------------------------------------------------
(* The bytes of a line. *)
LEMMA LineBytes ==
  ASSUME NEW t \in Nat
  PROVE  /\ Line(t) \in Seq(Bytes) /\ Len(Line(t)) = t + 2
         /\ \A i \in 1..t : Line(t)[i] = 1
         /\ Line(t)[t + 1] = 13 /\ Line(t)[t + 2] = 10
<1> DEFINE s == [i \in 1..t |-> 1]
           u == <<13, 10>>
<1>1. s \in Seq(Bytes) /\ Len(s) = t /\ \A i \in 1..t : s[i] = 1
  BY DEF Bytes
<1>2. u \in Seq(Bytes) /\ Len(u) = 2 /\ u[1] = 13 /\ u[2] = 10
  BY DEF Bytes
<1>3. Line(t) = s \o u
  BY DEF Line, Text, CR, LF
<1> HIDE DEF s, u
<1>4. /\ s \o u \in Seq(Bytes) /\ Len(s \o u) = t + 2
      /\ \A i \in 1..t : (s \o u)[i] = s[i]
      /\ \A i \in 1..2 : (s \o u)[t + i] = u[i]
  <2>1. /\ s \o u \in Seq(Bytes) /\ Len(s \o u) = Len(s) + Len(u)
        /\ \A i \in 1..Len(s) : (s \o u)[i] = s[i]
        /\ \A i \in 1..Len(u) : (s \o u)[Len(s) + i] = u[i]
    BY <1>1, <1>2, JoinSeq
  <2> QED BY <1>1, <1>2, <2>1
<1> QED BY <1>1, <1>2, <1>3, <1>4

(* The bytes of a line with a text of one byte, and of a blank line. *)
LEMMA ShortLines ==
  /\ Line(1) \in Seq(Bytes) /\ Len(Line(1)) = 3
  /\ Line(1)[1] = 1 /\ Line(1)[2] = 13 /\ Line(1)[3] = 10
  /\ BlankLine \in Seq(Bytes) /\ Len(BlankLine) = 2
  /\ BlankLine[1] = 13 /\ BlankLine[2] = 10
<1> DEFINE u == Line(1)
           v == BlankLine
<1>1. /\ u \in Seq(Bytes) /\ Len(u) = 1 + 2 /\ \A i \in 1..1 : u[i] = 1
      /\ u[1 + 1] = 13 /\ u[1 + 2] = 10
  BY LineBytes
<1>2. v = <<13, 10>>
  BY Zenon DEF BlankLine, CR, LF
<1> HIDE DEF u, v
<1>3. v \in Seq(Bytes) /\ Len(v) = 2 /\ v[1] = 13 /\ v[2] = 10
  BY <1>2 DEF Bytes
<1>4. u \in Seq(Bytes) /\ Len(u) = 3 /\ u[1] = 1 /\ u[2] = 13 /\ u[3] = 10
  BY <1>1
<1> QED BY <1>3, <1>4 DEF u, v

(* The bytes of a request whose first line has a text of t bytes. *)
LEMMA RequestBytes ==
  ASSUME NEW t \in Nat
  PROVE  /\ Request(t) \in Seq(Bytes) /\ Len(Request(t)) = t + 7
         /\ Request(t)[t + 6] = 13
         /\ \A i \in 1..t+7 : /\ i \in {t + 2, t + 5, t + 7} => Request(t)[i] = 10
                              /\ i \notin {t + 2, t + 5, t + 7} => Request(t)[i] # 10
                              /\ i \notin {t + 1, t + 4, t + 6} => Request(t)[i] # 13
<1> DEFINE s == Line(t)
           u == Line(1)
           v == BlankLine
           w == s \o u
<1>1. /\ s \in Seq(Bytes) /\ Len(s) = t + 2 /\ \A i \in 1..t : s[i] = 1
      /\ s[t + 1] = 13 /\ s[t + 2] = 10
  BY LineBytes
<1>2. u \in Seq(Bytes) /\ Len(u) = 3 /\ u[1] = 1 /\ u[2] = 13 /\ u[3] = 10
  BY ShortLines
<1>3. v \in Seq(Bytes) /\ Len(v) = 2 /\ v[1] = 13 /\ v[2] = 10
  BY ShortLines
<1> HIDE DEF s, u, v
<1>4. /\ w \in Seq(Bytes) /\ Len(w) = t + 5
      /\ \A i \in 1..t+2 : w[i] = s[i]
      /\ \A i \in 1..3 : w[t + 2 + i] = u[i]
  <2>1. /\ s \o u \in Seq(Bytes) /\ Len(s \o u) = Len(s) + Len(u)
        /\ \A i \in 1..Len(s) : (s \o u)[i] = s[i]
        /\ \A i \in 1..Len(u) : (s \o u)[Len(s) + i] = u[i]
    BY <1>1, <1>2, JoinSeq
  <2> HIDE DEF w
  <2> QED BY <1>1, <1>2, <2>1 DEF w
<1> HIDE DEF w
<1>5. /\ w \o v \in Seq(Bytes) /\ Len(w \o v) = t + 7
      /\ \A i \in 1..t+5 : (w \o v)[i] = w[i]
      /\ \A i \in 1..2 : (w \o v)[t + 5 + i] = v[i]
  <2>1. /\ w \o v \in Seq(Bytes) /\ Len(w \o v) = Len(w) + Len(v)
        /\ \A i \in 1..Len(w) : (w \o v)[i] = w[i]
        /\ \A i \in 1..Len(v) : (w \o v)[Len(w) + i] = v[i]
    BY <1>3, <1>4, JoinSeq
  <2> QED BY <1>3, <1>4, <2>1
<1>6. Request(t) = w \o v
  BY Zenon DEF Request, s, u, v, w
<1> DEFINE q == w \o v
<1>7. q \in Seq(Bytes) /\ Len(q) = t + 7 /\ Request(t) = q
  BY <1>5, <1>6
<1>8. /\ \A i \in 1..t : q[i] = 1
      /\ q[t + 1] = 13 /\ q[t + 2] = 10 /\ q[t + 3] = 1 /\ q[t + 4] = 13 /\ q[t + 5] = 10
      /\ q[t + 6] = 13 /\ q[t + 7] = 10
  <2> HIDE DEF q
  <2>1. /\ \A i \in 1..t+5 : q[i] = w[i]
        /\ q[t + 5 + 1] = v[1] /\ q[t + 5 + 2] = v[2]
    BY <1>5 DEF q
  <2>2. w[t + 2 + 1] = u[1] /\ w[t + 2 + 2] = u[2] /\ w[t + 2 + 3] = u[3]
    BY <1>4
  <2> QED BY <1>1, <1>2, <1>3, <1>4, <2>1, <2>2
<1> HIDE DEF q
<1>9. ASSUME NEW i \in 1..t+7
      PROVE  /\ i \in {t + 2, t + 5, t + 7} => q[i] = 10
             /\ i \notin {t + 2, t + 5, t + 7} => q[i] # 10
             /\ i \notin {t + 1, t + 4, t + 6} => q[i] # 13
  <2>1. i \in 1..t \/ i = t + 1 \/ i = t + 2 \/ i = t + 3 \/ i = t + 4 \/ i = t + 5 \/ i = t + 6 \/ i = t + 7
    BY <1>9
  <2> QED BY <1>8, <2>1
<1> QED BY <1>7, <1>8, <1>9

(* The header of a CGI answer. *)
LEMMA DynamicHead ==
  ASSUME NEW n \in Nat, NEW q, q = ResponseHead("dynamic", n)
  PROVE  /\ q \in Seq(Bytes) /\ Len(q) = 8
         /\ q[1] = 1 /\ q[2] = 13 /\ q[3] = 10
         /\ q[4] = 1 /\ q[5] = 13 /\ q[6] = 10
         /\ q[7] = 13 /\ q[8] = 10
<1> DEFINE u == Line(1)
           v == BlankLine
           e == <<>>
           w1 == u \o e
           w2 == w1 \o u
           w3 == w2 \o v
<1>1. q = w3
  BY Zenon DEF ResponseHead
<1>2. u \in Seq(Bytes) /\ Len(u) = 3 /\ u[1] = 1 /\ u[2] = 13 /\ u[3] = 10
  BY ShortLines
<1>3. v \in Seq(Bytes) /\ Len(v) = 2 /\ v[1] = 13 /\ v[2] = 10
  BY ShortLines
<1>4. e \in Seq(Bytes) /\ Len(e) = 0
  OBVIOUS
<1> HIDE DEF u, v, e
<1>5. w1 \in Seq(Bytes) /\ Len(w1) = 3 + 0 /\ \A i \in 1..3 : w1[i] = u[i]
  <2>1. /\ u \o e \in Seq(Bytes) /\ Len(u \o e) = Len(u) + Len(e)
        /\ \A i \in 1..Len(u) : (u \o e)[i] = u[i]
        /\ \A i \in 1..Len(e) : (u \o e)[Len(u) + i] = e[i]
    BY <1>2, <1>4, JoinSeq
  <2> QED BY <1>2, <1>4, <2>1 DEF w1
<1> HIDE DEF w1
<1>6. w2 \in Seq(Bytes) /\ Len(w2) = 3 + 3 /\ (\A i \in 1..3 : w2[i] = w1[i]) /\ \A i \in 1..3 : w2[3 + i] = u[i]
  <2>1. /\ w1 \o u \in Seq(Bytes) /\ Len(w1 \o u) = Len(w1) + Len(u)
        /\ \A i \in 1..Len(w1) : (w1 \o u)[i] = w1[i]
        /\ \A i \in 1..Len(u) : (w1 \o u)[Len(w1) + i] = u[i]
    BY <1>2, <1>5, JoinSeq
  <2> QED BY <1>2, <1>5, <2>1 DEF w2
<1> HIDE DEF w2
<1>7. w3 \in Seq(Bytes) /\ Len(w3) = 6 + 2 /\ (\A i \in 1..6 : w3[i] = w2[i]) /\ \A i \in 1..2 : w3[6 + i] = v[i]
  <2>1. /\ w2 \o v \in Seq(Bytes) /\ Len(w2 \o v) = Len(w2) + Len(v)
        /\ \A i \in 1..Len(w2) : (w2 \o v)[i] = w2[i]
        /\ \A i \in 1..Len(v) : (w2 \o v)[Len(w2) + i] = v[i]
    BY <1>3, <1>6, JoinSeq
  <2> QED BY <1>3, <1>6, <2>1 DEF w3
<1> HIDE DEF w3
<1>8. w1[1] = 1 /\ w1[2] = 13 /\ w1[3] = 10
  BY <1>2, <1>5
<1>9. /\ w2[1] = 1 /\ w2[2] = 13 /\ w2[3] = 10
      /\ w2[3 + 1] = 1 /\ w2[3 + 2] = 13 /\ w2[3 + 3] = 10
  BY <1>2, <1>6, <1>8
<1>10. /\ w3[1] = 1 /\ w3[2] = 13 /\ w3[3] = 10 /\ w3[4] = 1 /\ w3[5] = 13 /\ w3[6] = 10
       /\ w3[6 + 1] = 13 /\ w3[6 + 2] = 10
  BY <1>3, <1>7, <1>9
<1> QED BY <1>1, <1>7, <1>10

(* The header of an answer with a Content-Length of n. *)
LEMMA LengthHead ==
  ASSUME NEW k, k # "dynamic", NEW n \in Nat, NEW q, q = ResponseHead(k, n)
  PROVE  /\ q \in Seq(Bytes) /\ Len(q) = 11
         /\ q[1] = 1 /\ q[2] = 13 /\ q[3] = 10
         /\ q[4] = 100 + n /\ q[5] = 13 /\ q[6] = 10
         /\ q[7] = 1 /\ q[8] = 13 /\ q[9] = 10
         /\ q[10] = 13 /\ q[11] = 10
<1> DEFINE u == Line(1)
           v == BlankLine
           e == <<100 + n, 13, 10>>
           w1 == u \o e
           w2 == w1 \o u
           w3 == w2 \o v
<1>1. q = w3
  BY Zenon DEF ResponseHead, LengthText, CR, LF
<1>2. u \in Seq(Bytes) /\ Len(u) = 3 /\ u[1] = 1 /\ u[2] = 13 /\ u[3] = 10
  BY ShortLines
<1>3. v \in Seq(Bytes) /\ Len(v) = 2 /\ v[1] = 13 /\ v[2] = 10
  BY ShortLines
<1>4. e \in Seq(Bytes) /\ Len(e) = 3 /\ e[1] = 100 + n /\ e[2] = 13 /\ e[3] = 10
  BY DEF Bytes
<1> HIDE DEF u, v, e
<1>5. w1 \in Seq(Bytes) /\ Len(w1) = 3 + 3 /\ (\A i \in 1..3 : w1[i] = u[i]) /\ \A i \in 1..3 : w1[3 + i] = e[i]
  <2>1. /\ u \o e \in Seq(Bytes) /\ Len(u \o e) = Len(u) + Len(e)
        /\ \A i \in 1..Len(u) : (u \o e)[i] = u[i]
        /\ \A i \in 1..Len(e) : (u \o e)[Len(u) + i] = e[i]
    BY <1>2, <1>4, JoinSeq
  <2> QED BY <1>2, <1>4, <2>1 DEF w1
<1> HIDE DEF w1
<1>6. w2 \in Seq(Bytes) /\ Len(w2) = 6 + 3 /\ (\A i \in 1..6 : w2[i] = w1[i]) /\ \A i \in 1..3 : w2[6 + i] = u[i]
  <2>1. /\ w1 \o u \in Seq(Bytes) /\ Len(w1 \o u) = Len(w1) + Len(u)
        /\ \A i \in 1..Len(w1) : (w1 \o u)[i] = w1[i]
        /\ \A i \in 1..Len(u) : (w1 \o u)[Len(w1) + i] = u[i]
    BY <1>2, <1>5, JoinSeq
  <2>2. Len(w1) = 6 /\ Len(u) = 3 /\ w2 = w1 \o u
    BY <1>2, <1>5
  <2>3. /\ w2 \in Seq(Bytes) /\ Len(w2) = Len(w1) + Len(u)
        /\ \A i \in 1..Len(w1) : w2[i] = w1[i]
        /\ \A i \in 1..Len(u) : w2[Len(w1) + i] = u[i]
    BY <2>1
  <2> HIDE DEF w2
  <2> QED BY <2>2, <2>3
<1> HIDE DEF w2
<1>7. w3 \in Seq(Bytes) /\ Len(w3) = 9 + 2 /\ (\A i \in 1..9 : w3[i] = w2[i]) /\ \A i \in 1..2 : w3[9 + i] = v[i]
  <2>1. /\ w2 \o v \in Seq(Bytes) /\ Len(w2 \o v) = Len(w2) + Len(v)
        /\ \A i \in 1..Len(w2) : (w2 \o v)[i] = w2[i]
        /\ \A i \in 1..Len(v) : (w2 \o v)[Len(w2) + i] = v[i]
    BY <1>3, <1>6, JoinSeq
  <2>2. Len(w2) = 9 /\ Len(v) = 2 /\ w3 = w2 \o v
    BY <1>3, <1>6
  <2>3. /\ w3 \in Seq(Bytes) /\ Len(w3) = Len(w2) + Len(v)
        /\ \A i \in 1..Len(w2) : w3[i] = w2[i]
        /\ \A i \in 1..Len(v) : w3[Len(w2) + i] = v[i]
    BY <2>1
  <2> HIDE DEF w3
  <2> QED BY <2>2, <2>3
<1> HIDE DEF w3
<1>8. /\ w1[1] = 1 /\ w1[2] = 13 /\ w1[3] = 10
      /\ w1[3 + 1] = 100 + n /\ w1[3 + 2] = 13 /\ w1[3 + 3] = 10
  BY <1>2, <1>4, <1>5
<1>9. /\ w2[1] = 1 /\ w2[2] = 13 /\ w2[3] = 10 /\ w2[4] = 100 + n /\ w2[5] = 13 /\ w2[6] = 10
      /\ w2[6 + 1] = 1 /\ w2[6 + 2] = 13 /\ w2[6 + 3] = 10
  BY <1>2, <1>6, <1>8
<1>10. /\ w3[1] = 1 /\ w3[2] = 13 /\ w3[3] = 10 /\ w3[4] = 100 + n /\ w3[5] = 13 /\ w3[6] = 10
       /\ w3[7] = 1 /\ w3[8] = 13 /\ w3[9] = 10
       /\ w3[9 + 1] = 13 /\ w3[9 + 2] = 10
  BY <1>3, <1>7, <1>9
<1> QED BY <1>1, <1>7, <1>10
-----------------------------------------------------------------------------
(* One more full buffer. *)
LEMMA WholeStep ==
  ASSUME NEW m \in Nat \ {0}, MaxLine = m + 1, NEW a \in Nat, Whole(a)
  PROVE  Whole(a + m)
<1> DEFINE k == a \div m
<1>1. MaxLine - 1 = m /\ a % m = 0
  BY DEF Whole
<1>2. k \in Nat /\ a = m * k
  BY <1>1
<1> HIDE DEF k
<1>3. a + m = m * (k + 1) /\ k + 1 \in Nat
  BY <1>2
<1>4. \A j \in Nat : (m * j) % m = 0
  OBVIOUS
<1>5. (a + m) % m = 0
  BY <1>3, <1>4
<1> QED BY <1>1, <1>5 DEF Whole

(* The bytes a reader has of a request. *)
LEMMA AskedBytes ==
  ASSUME NEW t \in Nat, NEW p \in Nat, NEW b \in Seq(Bytes), Fits(b, Asked(t), p),
         p + Len(b) <= t + 7
  PROVE  \A i \in 1..Len(b) : /\ b[i] = Request(t)[p + i]
                              /\ b[i] = 10 <=> p + i \in {t + 2, t + 5, t + 7}
<1>1. ASSUME NEW i \in 1..Len(b)
      PROVE  /\ b[i] = Request(t)[p + i]
             /\ b[i] = 10 <=> p + i \in {t + 2, t + 5, t + 7}
  <2>1. Len(b) \in Nat /\ p + i \in 1..t+7
    BY <1>1
  <2>2. Asked(t)[p + i] = {Request(t)[p + i]}
    BY <2>1 DEF Asked
  <2>3. b[i] \in Asked(t)[p + i]
    BY <1>1 DEF Fits
  <2>4. b[i] = Request(t)[p + i]
    BY <2>2, <2>3
  <2> DEFINE j == p + i
  <2>5. j \in 1..t+7 /\ b[i] = Request(t)[j]
    BY <2>1, <2>4
  <2> HIDE DEF j
  <2>6. Request(t)[j] = 10 <=> j \in {t + 2, t + 5, t + 7}
    BY <2>5, RequestBytes
  <2> QED BY <2>4, <2>5, <2>6 DEF j
<1> QED BY <1>1

(* Where a piece of l bytes ends that has its line end, if any, at its end *)
(* and has no more than m bytes.                                           *)
LEMMA PieceEnds ==
  ASSUME NEW t \in Nat, NEW m \in Nat, m >= 3, MaxLine = m + 1, ~Whole(t),
         NEW p \in Nat, AtStart(p, t), NEW b, NEW l \in Nat, l > 0, l <= m, p + l <= t + 7,
         \A i \in 1..l : b[i] = 10 <=> p + i \in {t + 2, t + 5, t + 7},
         \A i \in 1..l-1 : b[i] # 10,
         b[l] = 10 \/ l = m
  PROVE  /\ p = t + 5 => l = 2
         /\ p # t + 5 => p + l <= t + 5 /\ AtStart(p + l, t) /\ ~(l = 2 /\ b[2] = 10)
<1>1. CASE p = t + 5
  <2>1. l # 1
    BY <1>1
  <2> QED BY <1>1, <2>1
<1>2. CASE p = t + 2
  <2>1. ~(l > 3)
    <3>1. l > 3 => 3 \in 1..l /\ 3 \in 1..l-1
      OBVIOUS
    <3> QED BY <1>2, <3>1
  <2>2. l = 3
    <3>1. l \in 1..l
      OBVIOUS
    <3>2. b[l] = 10 => p + l \in {t + 2, t + 5, t + 7}
      BY <3>1
    <3> QED BY <1>2, <2>1, <3>2
  <2> QED BY <1>2, <2>2 DEF AtStart
<1>3. CASE p <= t + 1 /\ Whole(p)
  <2>1. p + l <= t + 2
    <3>1. SUFFICES ASSUME p + l > t + 2 PROVE FALSE
      OBVIOUS
    <3> DEFINE i == t + 2 - p
    <3>2. i \in 1..l /\ i \in 1..l-1 /\ p + i = t + 2
      BY <1>3, <3>1
    <3> HIDE DEF i
    <3> QED BY <3>2
  <2>2. ~(l = 2 /\ b[2] = 10)
    <3>1. SUFFICES ASSUME l = 2, b[2] = 10 PROVE FALSE
      OBVIOUS
    <3>2. p + 2 \in {t + 2, t + 5, t + 7}
      BY <3>1
    <3>3. p = t
      BY <1>3, <2>1, <3>1, <3>2
    <3> QED BY <1>3, <3>3
  <2>3. p + l <= t + 1 => AtStart(p + l, t)
    <3>1. SUFFICES ASSUME p + l <= t + 1 PROVE AtStart(p + l, t)
      OBVIOUS
    <3>2. b[l] # 10
      <4>1. l \in 1..l /\ p + l \notin {t + 2, t + 5, t + 7}
        BY <3>1
      <4> QED BY <4>1
    <3>3. Whole(p + l)
      BY <1>3, <3>2, WholeStep
    <3> QED BY <3>1, <3>3 DEF AtStart
  <2>4. p + l = t + 2 => AtStart(p + l, t)
    BY DEF AtStart
  <2> QED BY <1>3, <2>1, <2>2, <2>3, <2>4
<1> QED BY <1>1, <1>2, <1>3 DEF AtStart

(* A piece of at most MaxLine - 1 bytes that rio_readlineb has delivered   *)
(* is the blank line exactly at the end of the request, for no text of the *)
(* first line leaves just its line end for a piece of its own.             *)
LEMMA PieceOfRequest ==
  ASSUME NEW t \in Nat, NEW m \in Nat, m >= 3, MaxLine = m + 1, ~Whole(t),
         NEW p \in Nat, AtStart(p, t), NEW b \in Seq(Bytes), Fits(b, Asked(t), p),
         Len(b) <= m, p + Len(b) <= t + 7, OneLine(b),
         Len(b) # 0, b[Len(b)] = 10 \/ Len(b) = m
  PROVE  /\ b = BlankLine => p = t + 5 /\ Len(b) = 2
         /\ b # BlankLine => p + Len(b) <= t + 5 /\ AtStart(p + Len(b), t)
<1>1. PICK l \in Nat : l = Len(b)
  OBVIOUS
<1>2. l > 0
  BY <1>1
<1>3. \A i \in 1..l : b[i] = Request(t)[p + i] /\ (b[i] = 10 <=> p + i \in {t + 2, t + 5, t + 7})
  BY <1>1, AskedBytes
<1>4. \A i \in 1..l-1 : b[i] # 10
  BY <1>1 DEF OneLine, LF
<1>5. /\ p = t + 5 => l = 2
      /\ p # t + 5 => p + l <= t + 5 /\ AtStart(p + l, t) /\ ~(l = 2 /\ b[2] = 10)
  <2>1. \A i \in 1..l : b[i] = 10 <=> p + i \in {t + 2, t + 5, t + 7}
    BY <1>3
  <2>2. l <= m /\ p + l <= t + 7 /\ (b[l] = 10 \/ l = m)
    BY <1>1
  <2> QED BY <1>2, <1>4, <2>1, <2>2, PieceEnds
<1>6. /\ BlankLine \in Seq(Bytes) /\ Len(BlankLine) = 2
      /\ BlankLine[1] = 13 /\ BlankLine[2] = 10
  BY ShortLines
<1>7. p = t + 5 => b = BlankLine
  <2>1. SUFFICES ASSUME p = t + 5 PROVE b = BlankLine
    OBVIOUS
  <2>2. Len(b) = 2
    BY <1>1, <1>5, <2>1
  <2>3. b[1] = 13 /\ b[2] = 10
    <3>1. 1 \in 1..l /\ 2 \in 1..l /\ p + 1 = t + 6 /\ p + 2 = t + 7
      BY <1>1, <2>1, <2>2
    <3>2. b[1] = Request(t)[t + 6] /\ (b[2] = 10 <=> t + 7 \in {t + 2, t + 5, t + 7})
      BY <1>3, <3>1
    <3>3. Request(t)[t + 6] = 13
      BY RequestBytes
    <3> QED BY <3>2, <3>3
  <2> QED BY <1>6, <2>2, <2>3
<1>8. b = BlankLine => p = t + 5 /\ Len(b) = 2
  BY <1>1, <1>5, <1>6
<1> QED BY <1>1, <1>5, <1>7, <1>8
-----------------------------------------------------------------------------
(* A piece of a line of w bytes has the line end exactly if it is whole. *)
LEMMA PieceOfLine ==
  ASSUME NEW w \in {2, 3}, NEW l \in Nat, NEW b, NEW c,
         \A i \in 1..l : i <= w => b[i] = c[i],
         c[w] = 10, c[1] # 10, w = 3 => c[2] # 10,
         \A i \in 1..l-1 : b[i] # 10
  PROVE  l <= w /\ (l # 0 => (b[l] = 10 <=> l = w))
<1>1. l <= w
  <2>1. SUFFICES ASSUME l > w PROVE FALSE
    OBVIOUS
  <2>2. w \in 1..l /\ w \in 1..l-1
    BY <2>1
  <2> QED BY <2>2
<1>2. ASSUME l # 0 PROVE b[l] = 10 <=> l = w
  <2>1. l \in 1..l /\ b[l] = c[l]
    BY <1>1, <1>2
  <2>2. l = 1 \/ l = 2 \/ l = 3
    BY <1>1, <1>2
  <2> QED BY <1>1, <2>1, <2>2
<1> QED BY <1>1, <1>2

(* Where a line of a header starts: its bytes, and where the next starts. *)
HeadWidth(p) == IF p = HeadLen - 2 THEN 2 ELSE 3
HeadByte(i)  == ResponseHead(answer, length)[i]

(* The lines of a header: widths, line ends, and what the first byte of    *)
(* each says of the length.                                                *)
LEMMA HeadLines ==
  ASSUME answer \in AnswerKinds, length \in Nat, NEW p \in {0, 3, 6, 9}, p < HeadLen
  PROVE  /\ ResponseHead(answer, length) \in Seq(Bytes)
         /\ Len(ResponseHead(answer, length)) = HeadLen
         /\ HeadWidth(p) \in {2, 3} /\ p + HeadWidth(p) <= HeadLen
         /\ HeadByte(p + HeadWidth(p)) = 10 /\ HeadByte(p + 1) # 10
         /\ HeadWidth(p) = 3 => HeadByte(p + 2) # 10
         /\ HeadWidth(p) = 2 => HeadByte(p + 1) = 13 /\ p + HeadWidth(p) = HeadLen
         /\ HeadWidth(p) = 3 => p + HeadWidth(p) \in {3, 6, 9} /\ p + HeadWidth(p) < HeadLen
         /\ HeadByte(p + 1) \in Nat
         /\ (IF HeadByte(p + 1) > 100 THEN HeadByte(p + 1) - 100 ELSE Known(p))
              = Known(p + HeadWidth(p))
<1> DEFINE q == ResponseHead(answer, length)
<1>1. CASE answer = "dynamic"
  <2>1. /\ q \in Seq(Bytes) /\ Len(q) = 8
        /\ q[1] = 1 /\ q[2] = 13 /\ q[3] = 10
        /\ q[4] = 1 /\ q[5] = 13 /\ q[6] = 10
        /\ q[7] = 13 /\ q[8] = 10
    BY <1>1, DynamicHead
  <2>2. HeadLen = 8
    BY <1>1 DEF HeadLen
  <2>3. \A z : Known(z) = 0
    BY <1>1 DEF Known
  <2>4. p = 0 \/ p = 3 \/ p = 6
    BY <2>2
  <2>5. \A i : HeadByte(i) = q[i]
    BY DEF HeadByte
  <2> HIDE DEF q
  <2>6. CASE p = 0
    <3>1. HeadWidth(p) = 3
      BY <2>2, <2>6 DEF HeadWidth
    <3> QED BY <2>1, <2>2, <2>3, <2>5, <2>6, <3>1 DEF q
  <2>7. CASE p = 3
    <3>1. HeadWidth(p) = 3
      BY <2>2, <2>7 DEF HeadWidth
    <3> QED BY <2>1, <2>2, <2>3, <2>5, <2>7, <3>1 DEF q
  <2>8. CASE p = 6
    <3>1. HeadWidth(p) = 2
      BY <2>2, <2>8 DEF HeadWidth
    <3> QED BY <2>1, <2>2, <2>3, <2>5, <2>8, <3>1 DEF q
  <2> QED BY <2>4, <2>6, <2>7, <2>8
<1>2. CASE answer # "dynamic"
  <2>1. /\ q \in Seq(Bytes) /\ Len(q) = 11
        /\ q[1] = 1 /\ q[2] = 13 /\ q[3] = 10
        /\ q[4] = 100 + length /\ q[5] = 13 /\ q[6] = 10
        /\ q[7] = 1 /\ q[8] = 13 /\ q[9] = 10
        /\ q[10] = 13 /\ q[11] = 10
    BY <1>2, LengthHead
  <2>2. HeadLen = 11
    BY <1>2 DEF HeadLen
  <2>3. \A z \in Nat : Known(z) = IF z > 3 THEN length ELSE 0
    BY <1>2 DEF Known
  <2>5. \A i : HeadByte(i) = q[i]
    BY DEF HeadByte
  <2> HIDE DEF q
  <2>6. CASE p = 0
    <3>1. HeadWidth(p) = 3
      BY <2>2, <2>6 DEF HeadWidth
    <3> QED BY <2>1, <2>2, <2>3, <2>5, <2>6, <3>1 DEF q
  <2>7. CASE p = 3
    <3>1. HeadWidth(p) = 3
      BY <2>2, <2>7 DEF HeadWidth
    <3> QED BY <2>1, <2>2, <2>3, <2>5, <2>7, <3>1 DEF q
  <2>8. CASE p = 6
    <3>1. HeadWidth(p) = 3
      BY <2>2, <2>8 DEF HeadWidth
    <3> QED BY <2>1, <2>2, <2>3, <2>5, <2>8, <3>1 DEF q
  <2>9. CASE p = 9
    <3>1. HeadWidth(p) = 2
      BY <2>2, <2>9 DEF HeadWidth
    <3> QED BY <2>1, <2>2, <2>3, <2>5, <2>9, <3>1 DEF q
  <2> QED BY <2>6, <2>7, <2>8, <2>9
<1> QED BY <1>1, <1>2

(* A line of the header at the client. *)
LEMMA PieceOfHead ==
  ASSUME answer \in AnswerKinds, length \in Nat, NEW p \in {0, 3, 6, 9}, p < HeadLen,
         NEW b \in Seq(Bytes), Fits(b, Reply, p), p + Len(b) <= HeadLen + length, OneLine(b)
  PROVE  /\ Len(b) <= 3
         /\ b = <<>> \/ b[Len(b)] # 10 => p + Len(b) < HeadLen
         /\ b # <<>> /\ b[Len(b)] = 10 =>
              /\ b = BlankLine => p + Len(b) = HeadLen
              /\ b # BlankLine => p + Len(b) \in {3, 6, 9} /\ p + Len(b) < HeadLen
              /\ (IF b[1] > 100 THEN b[1] - 100 ELSE Known(p)) = Known(p + Len(b))
<1> DEFINE w == HeadWidth(p)
           q == ResponseHead(answer, length)
<1>1. /\ w \in {2, 3} /\ p + w <= HeadLen
      /\ q[p + w] = 10 /\ q[p + 1] # 10 /\ (w = 3 => q[p + 2] # 10)
      /\ w = 2 => q[p + 1] = 13 /\ p + w = HeadLen
      /\ w = 3 => p + w \in {3, 6, 9} /\ p + w < HeadLen
      /\ (IF q[p + 1] > 100 THEN q[p + 1] - 100 ELSE Known(p)) = Known(p + w)
  BY HeadLines DEF HeadByte
<1>2. HeadLen \in Nat
  BY DEF HeadLen
<1> HIDE DEF w, q
<1>3. PICK l \in Nat : l = Len(b)
  OBVIOUS
<1>4. ASSUME NEW i \in 1..l, i <= w PROVE b[i] = q[p + i]
  <2>1. b[i] \in Reply[p + i]
    BY <1>3, <1>4 DEF Fits
  <2>2. p + i \in 1..HeadLen+length /\ p + i <= HeadLen
    BY <1>1, <1>2, <1>3, <1>4
  <2>3. Reply[p + i] = {q[p + i]}
    BY <2>2 DEF Reply, q
  <2> QED BY <2>1, <2>3
<1>5. \A i \in 1..l-1 : b[i] # 10
  BY <1>3 DEF OneLine, LF
<1>6. l <= w /\ (l # 0 => (b[l] = 10 <=> l = w))
  <2>1. \A i \in 1..l : i <= w => b[i] = q[p + i]
    BY <1>4
  <2>2. w \in {2, 3} /\ q[p + w] = 10 /\ q[p + 1] # 10 /\ (w = 3 => q[p + 2] # 10)
    BY <1>1
  <2> DEFINE c == [i \in 1..3 |-> q[p + i]]
  <2>3. \A i \in 1..l : i <= w => b[i] = c[i]
    BY <2>1, <2>2
  <2>4. c[w] = 10 /\ c[1] # 10 /\ (w = 3 => c[2] # 10)
    BY <2>2
  <2> HIDE DEF c
  <2> QED BY <1>5, <2>2, <2>3, <2>4, PieceOfLine
<1>7. b = <<>> <=> l = 0
  BY <1>3
<1>8. Len(b) <= 3
  BY <1>1, <1>3, <1>6
<1>9. ASSUME b = <<>> \/ b[l] # 10 PROVE p + l < HeadLen
  BY <1>1, <1>2, <1>6, <1>7, <1>9
<1>10. ASSUME b # <<>>, b[l] = 10
       PROVE  /\ b = BlankLine => p + l = HeadLen
              /\ b # BlankLine => p + l \in {3, 6, 9} /\ p + l < HeadLen
              /\ (IF b[1] > 100 THEN b[1] - 100 ELSE Known(p)) = Known(p + l)
  <2>1. l = w
    BY <1>6, <1>7, <1>10
  <2>2. b[1] = q[p + 1] /\ b[l] = 10
    BY <1>1, <1>4, <1>10, <2>1
  <2>3. /\ BlankLine \in Seq(Bytes) /\ Len(BlankLine) = 2
        /\ BlankLine[1] = 13 /\ BlankLine[2] = 10
    BY ShortLines
  <2>4. w = 2 => b = BlankLine
    <3>1. SUFFICES ASSUME w = 2 PROVE b = BlankLine
      OBVIOUS
    <3>2. Len(b) = 2 /\ b[1] = 13 /\ b[2] = 10
      BY <1>1, <1>3, <2>1, <2>2, <3>1
    <3> QED BY <2>3, <3>2
  <2>5. b = BlankLine => w = 2
    BY <1>3, <2>1, <2>3
  <2>6. (IF b[1] > 100 THEN b[1] - 100 ELSE Known(p)) = Known(p + l)
    BY <1>1, <2>1, <2>2
  <2> QED BY <1>1, <2>1, <2>4, <2>5, <2>6
<1> QED BY <1>3, <1>8, <1>9, <1>10
-----------------------------------------------------------------------------
(* The sizes the assumptions on the constants give. *)
LEMMA ExchangeSizes ==
  /\ MaxLine - 1 \in Nat /\ MaxLine - 1 >= 3 /\ MaxBuf - 1 \in Nat /\ MaxBuf - 1 >= 5
  /\ \A t \in TextLens : t \in Nat /\ ~Whole(t)
  /\ \A n \in BodyLens : n \in Nat
  BY ExchangeAssumption DEF Whole

(* The body is one byte per byte announced, and each is the file's or what *)
(* the buffer held before if the file is shorter by then.                  *)
LEMMA BodyBytes ==
  ASSUME answer \in AnswerKinds, length \in Nat, file \in -1..length
  PROVE  /\ Body \in Seq(Bytes) /\ Len(Body) = length
         /\ Fits(Body, Reply, HeadLen)
<1> DEFINE f == [i \in 1..length |-> IF i <= file THEN Content(length)[i] ELSE Junk]
<1>1. \A i \in 1..length : Content(length)[i] = 20 + i
  BY DEF Content
<1>2. Content(length) \in Seq(Bytes) /\ Len(Content(length)) = length
  BY DEF Content, Bytes
<1>3. f \in Seq(Bytes) /\ Len(f) = length
  BY <1>1 DEF Bytes, Junk
<1>4. Body = f \/ Body = Content(length)
  BY DEF Body
<1>5. HeadLen \in Nat
  BY DEF HeadLen
<1>6. ASSUME NEW i \in 1..length
      PROVE  /\ Reply[HeadLen + i] = {20 + i} \cup (IF i > file THEN {Junk} ELSE {})
  <2>1. HeadLen + i \in 1..HeadLen+length /\ ~(HeadLen + i <= HeadLen) /\ (HeadLen + i) - HeadLen = i
    BY <1>5
  <2> QED BY <2>1 DEF Reply
<1>7. ASSUME NEW i \in 1..length PROVE Body[i] \in Reply[HeadLen + i]
  <2>1. f[i] = IF i <= file THEN 20 + i ELSE Junk
    BY <1>1
  <2>2. i <= file \/ i > file
    OBVIOUS
  <2> HIDE DEF f
  <2> QED BY <1>1, <1>4, <1>6, <2>1, <2>2
<1>8. Body \in Seq(Bytes) /\ Len(Body) = length
  BY <1>2, <1>3, <1>4
<1> QED BY <1>7, <1>8 DEF Fits

(* rio_readnb takes no more than there is, than is announced and than the  *)
(* chunk; a client that goes astray has a full chunk.                      *)
LEMMA BodyChunk ==
  ASSUME ExchangeTypes, ClientBody
  PROVE  /\ place["client"] \in {"body", "astray"}
         /\ UNCHANGED <<answer, length, file, todo, net, shut, buf, announced>>
         /\ \E n \in 0..Len(rio["client"]) :
              /\ Len(got) + n <= announced
              /\ got' = got \o SubSeq(rio["client"], 1, n)
              /\ rio' = [rio EXCEPT !["client"] = SubSeq(@, n + 1, Len(@))]
              /\ \/ place' = place
                 \/ MaxBuf <= Len(got) + n /\ place' = [place EXCEPT !["client"] = "astray"]
<1> DEFINE left == announced - Len(got)
           chunk == MaxBuf - (Len(got) % MaxBuf)
<1>1. /\ place["client"] \in {"body", "astray"} /\ Len(got) < announced
      /\ UNCHANGED <<answer, length, file, todo, net, shut, buf, announced>>
  BY DEF ClientBody, fixed
<1>2. PICK n \in {Len(rio["client"]), left, chunk} :
        /\ n <= Len(rio["client"]) /\ n <= left /\ n <= chunk
        /\ got' = got \o SubSeq(rio["client"], 1, n)
        /\ rio' = [rio EXCEPT !["client"] = SubSeq(@, n + 1, Len(@))]
        /\ \/ UNCHANGED place
           \/ n = chunk /\ place' = [place EXCEPT !["client"] = "astray"]
  BY DEF ClientBody
<1>3. Len(got) \in Nat /\ Len(rio["client"]) \in Nat /\ announced \in Nat
  BY DEF ExchangeTypes, Ends
<1>4. MaxBuf \in Nat /\ MaxBuf > 0
  BY ExchangeAssumption
<1>5. chunk \in 0..MaxBuf /\ Len(got) % MaxBuf \in Nat /\ Len(got) % MaxBuf <= Len(got)
  <2> DEFINE g == Len(got)
  <2>1. \A k \in Nat : k % MaxBuf \in 0..MaxBuf-1 /\ k % MaxBuf <= k
    BY <1>4
  <2> HIDE DEF g
  <2> QED BY <1>3, <1>4, <2>1
<1> HIDE DEF left
<1>6. left \in Nat /\ Len(got) + left = announced
  BY <1>1, <1>3 DEF left
<1>7. MaxBuf <= Len(got) + chunk
  BY <1>3, <1>4, <1>5
<1> HIDE DEF chunk
<1>8. n \in 0..Len(rio["client"]) /\ Len(got) + n <= announced
  BY <1>2, <1>3, <1>5, <1>6
<1>9. n = chunk => MaxBuf <= Len(got) + n
  BY <1>7
<1>10. \/ place' = place
       \/ MaxBuf <= Len(got) + n /\ place' = [place EXCEPT !["client"] = "astray"]
  BY <1>2, <1>9
<1> QED BY <1>1, <1>2, <1>8, <1>10

(* Every step keeps the types. *)
LEMMA ExchangeTypesStep ==
  ASSUME ExchangeTypes, [ExchangeNext]_exchangeVars
  PROVE  ExchangeTypes'
<1> USE DEF ExchangeTypes, fixed
<1>0. /\ "client" \in Ends /\ "server" \in Ends
      /\ \A e \in Ends : Peer(e) \in Ends
      /\ \A l \in {"headers", "head", "body", "astray", "cgi", "closed", "done", "misled", "dead"} :
           l \in Positions
      /\ <<>> \in Seq(Bytes)
  BY DEF Ends, Peer, Positions
<1>1. CASE UNCHANGED exchangeVars
  BY <1>1 DEF exchangeVars
<1>2. ASSUME NEW e \in Ends, Writen(e) PROVE ExchangeTypes'
  <2> DEFINE s == todo[e]
  <2>1. s \in Seq(Bytes) /\ Peer(e) \in Ends
    BY <1>0
  <2>2. \A k \in 1..Len(s) : SubSeq(s, 1, k) \in Seq(Bytes) /\ SubSeq(s, k + 1, Len(s)) \in Seq(Bytes)
    <3> HIDE DEF s
    <3> QED BY <2>1, CutSeq
  <2>3. \A x \in Seq(Bytes), y \in Seq(Bytes) : x \o y \in Seq(Bytes)
    BY JoinSeq
  <2>4. /\ UNCHANGED <<answer, length, file, rio, buf, announced, got>>
    BY <1>2 DEF Writen
  <2>5. CASE \E n \in 1..Len(todo[e]) :
          /\ todo' = [todo EXCEPT ![e] = SubSeq(@, n + 1, Len(@))]
          /\ net' = [net EXCEPT ![Peer(e)] = @ \o SubSeq(todo[e], 1, n)]
          /\ UNCHANGED <<place, shut>>
    <3>1. PICK n \in 1..Len(s) :
            /\ todo' = [todo EXCEPT ![e] = SubSeq(s, n + 1, Len(s))]
            /\ net' = [net EXCEPT ![Peer(e)] = @ \o SubSeq(s, 1, n)]
            /\ UNCHANGED <<place, shut>>
      BY <2>5
    <3> DEFINE g == net[Peer(e)] \o SubSeq(s, 1, n)
    <3>2. SubSeq(s, n + 1, Len(s)) \in Seq(Bytes) /\ g \in Seq(Bytes)
      BY <2>1, <2>2, <2>3
    <3>3. net' = [net EXCEPT ![Peer(e)] = g]
      BY <2>1, <3>1
    <3> HIDE DEF g, s
    <3>4. net' \in [Ends -> Seq(Bytes)] /\ todo' \in [Ends -> Seq(Bytes)]
      BY <2>1, <3>1, <3>2, <3>3
    <3> QED BY <2>4, <3>1, <3>4
  <2>6. CASE /\ todo' = [todo EXCEPT ![e] = <<>>]
             /\ \/ UNCHANGED <<place, shut>>
                \/ /\ place' = [place EXCEPT ![e] = "dead"]
                   /\ shut' = [shut EXCEPT ![Peer(e)] = TRUE]
             /\ UNCHANGED net
    <3>1. todo' \in [Ends -> Seq(Bytes)]
      BY <1>0, <2>6
    <3>2. place' \in [Ends -> Positions] /\ shut' \in [Ends -> BOOLEAN]
      BY <1>0, <2>1, <2>6
    <3> QED BY <2>4, <2>6, <3>1, <3>2
  <2> QED BY <1>2, <2>5, <2>6 DEF Writen
<1>3. ASSUME NEW e \in Ends, RioFill(e) PROVE ExchangeTypes'
  <2> DEFINE s == net[e]
  <2>1. s \in Seq(Bytes)
    BY <1>0
  <2>2. \A k \in 0..Len(s) : SubSeq(s, 1, k) \in Seq(Bytes) /\ SubSeq(s, k + 1, Len(s)) \in Seq(Bytes)
    <3> HIDE DEF s
    <3> QED BY <2>1, CutSeq
  <2>3. PICK n \in 1..RioBuf :
          /\ n <= Len(s) /\ rio' = [rio EXCEPT ![e] = SubSeq(s, 1, n)]
          /\ net' = [net EXCEPT ![e] = SubSeq(s, n + 1, Len(s))]
          /\ UNCHANGED <<answer, length, file, place, todo, shut, buf, announced, got>>
    BY <1>3 DEF RioFill
  <2>4. n \in 0..Len(s)
    BY <2>3
  <2>5. SubSeq(s, 1, n) \in Seq(Bytes) /\ SubSeq(s, n + 1, Len(s)) \in Seq(Bytes)
    BY <2>2, <2>4
  <2> HIDE DEF s
  <2> QED BY <2>3, <2>5
<1>4. ASSUME NEW e \in Ends, RioReadlineb(e) PROVE ExchangeTypes'
  <2>1. rio[e] # <<>> /\ rio[e] \in Seq(Bytes) /\ buf[e] \in Seq(Bytes)
    BY <1>4 DEF RioReadlineb
  <2>2. Append(buf[e], rio[e][1]) \in Seq(Bytes) /\ Tail(rio[e]) \in Seq(Bytes)
    BY <2>1
  <2> QED BY <1>4, <2>2 DEF RioReadlineb
<1>5. ASSUME Respond PROVE ExchangeTypes'
  <2>1. ResponseHead(answer, length) \in Seq(Bytes)
    <3>1. 0 \in {0, 3, 6, 9} /\ 0 < HeadLen
      BY DEF HeadLen
    <3> QED BY <3>1, HeadLines
  <2> QED BY <1>0, <1>5, <2>1 DEF Respond, MoveTo
<1>6. CASE ServerLine
  <2>1. CASE MoveTo("server", "headers") /\ UNCHANGED <<answer, length, file, todo, net, shut, rio, announced, got>>
    BY <1>0, <2>1 DEF MoveTo
  <2> QED BY <1>5, <1>6, <2>1 DEF ServerLine
<1>7. CASE ServerEof
  BY <1>0, <1>5, <1>7 DEF ServerEof, MoveTo, CloseEnd
<1>8. CASE ServerBody
  <2>1. Body \in Seq(Bytes)
    BY BodyBytes
  <2>2. UNCHANGED <<answer, length, file, net, rio, announced, got>>
    BY <1>8 DEF ServerBody
  <2>3. CASE file = -1
    BY <1>0, <1>8, <2>2, <2>3 DEF ServerBody, MoveTo, CloseEnd
  <2>4. CASE file # -1
    <3>1. PICK l \in Positions : MoveTo("server", l)
      BY <1>0, <1>8, <2>4 DEF ServerBody
    <3>2. todo' = [todo EXCEPT !["server"] = Body] /\ UNCHANGED shut
      BY <1>8, <2>4 DEF ServerBody
    <3> QED BY <1>0, <2>1, <2>2, <3>1, <3>2 DEF MoveTo
  <2> QED BY <2>3, <2>4
<1>9. CASE ServerClose
  BY <1>0, <1>9 DEF ServerClose, MoveTo, CloseEnd
<1>10. CASE ClientSent
  BY <1>0, <1>10 DEF ClientSent, MoveTo
<1>11. CASE ClientLine
  <2>1. buf["client"] \in Seq(Bytes) /\ buf["client"] # <<>>
    BY <1>0, <1>11 DEF ClientLine, LineDone
  <2>2. buf["client"][1] \in Nat
    BY <2>1 DEF Bytes
  <2>3. announced' \in Nat
    BY <1>11, <2>2 DEF ClientLine
  <2> QED BY <1>0, <1>11, <2>3 DEF ClientLine, MoveTo
<1>12. CASE ClientBody
  <2> DEFINE s == rio["client"]
  <2>1. s \in Seq(Bytes)
    BY <1>0
  <2>2. PICK n \in 0..Len(s) :
          /\ got' = got \o SubSeq(s, 1, n)
          /\ rio' = [rio EXCEPT !["client"] = SubSeq(s, n + 1, Len(s))]
          /\ UNCHANGED <<answer, length, file, todo, net, shut, buf, announced>>
          /\ place' = place \/ place' = [place EXCEPT !["client"] = "astray"]
    BY <1>12, BodyChunk
  <2>4. SubSeq(s, 1, n) \in Seq(Bytes) /\ SubSeq(s, n + 1, Len(s)) \in Seq(Bytes)
    <3> HIDE DEF s
    <3> QED BY <2>1, CutSeq
  <2>5. got \o SubSeq(s, 1, n) \in Seq(Bytes)
    BY <2>4, JoinSeq
  <2> HIDE DEF s
  <2>6. place' \in [Ends -> Positions]
    BY <1>0, <2>2
  <2>7. rio' \in [Ends -> Seq(Bytes)]
    BY <1>0, <2>2, <2>4
  <2> QED BY <2>2, <2>5, <2>6, <2>7
<1>13. CASE ClientDone
  <2>1. /\ CloseEnd("client", "done")
        /\ UNCHANGED <<answer, length, file, todo, net, rio, got>>
    BY <1>13 DEF ClientDone
  <2>2. announced' \in Nat
    <3>1. CASE UNCHANGED announced
      BY <3>1
    <3>2. CASE buf["client"] # <<>> /\ announced' \in 0..buf["client"][1] - 100
      BY <3>2
    <3> QED BY <1>13, <3>1, <3>2 DEF ClientDone
  <2> QED BY <1>0, <2>1, <2>2 DEF MoveTo, CloseEnd
<1>17. CASE ClientAstray
  BY <1>0, <1>17 DEF ClientAstray, MoveTo, CloseEnd
<1>19. CASE ClientReset
  BY <1>0, <1>19 DEF ClientReset, MoveTo, CloseEnd
<1>18. CASE ServerDies
  BY <1>0, <1>18 DEF ServerDies, MoveTo, CloseEnd
<1>14. CASE ClientKilled
  BY <1>0, <1>14 DEF ClientKilled, MoveTo, CloseEnd
<1>15. CASE FileShrinks
  BY <1>15 DEF FileShrinks
<1>16. ASSUME NEW e \in Ends, Interrupted(e) PROVE ExchangeTypes'
  BY <1>1, <1>16 DEF Interrupted
<1> QED
  BY <1>0, <1>1, <1>2, <1>3, <1>4, <1>6, <1>7, <1>8, <1>9, <1>10, <1>11, <1>12, <1>13, <1>14, <1>15, <1>16, <1>17,
     <1>18, <1>19
     DEF ExchangeNext, ServerStep, ClientStep, RioStep
-----------------------------------------------------------------------------
(* What each step does to the two streams. *)
KeepsRequest == /\ buf'["server"] = buf["server"] /\ rio'["server"] = rio["server"]
                /\ net'["server"] = net["server"] /\ todo'["client"] = todo["client"]
KeepsAnswer  == /\ buf'["client"] = buf["client"] /\ rio'["client"] = rio["client"]
                /\ net'["client"] = net["client"] /\ todo'["server"] = todo["server"]
                /\ announced' = announced /\ got' = got
KeepsFile    == answer' = answer /\ length' = length /\ file' = file
KeepsPlaces  == /\ place'["client"] = place["client"] /\ place'["server"] = place["server"]
                /\ shut'["client"] = shut["client"] /\ shut'["server"] = shut["server"]
ServerGoes(l) == /\ place'["server"] = l /\ place'["client"] = place["client"]
                 /\ shut'["server"] = shut["server"]
ClientGoes(l) == /\ place'["client"] = l /\ place'["server"] = place["server"]
                 /\ shut'["client"] = shut["client"]

(* rio_writen of the client writes some of the request, or fails when the  *)
(* server has closed.                                                      *)
LEMMA WritenClient ==
  ASSUME ExchangeTypes, Writen("client")
  PROVE  /\ todo["client"] # <<>> /\ KeepsAnswer /\ KeepsFile
         /\ buf'["server"] = buf["server"] /\ rio'["server"] = rio["server"]
         /\ \/ /\ KeepsPlaces
               /\ \E n \in 1..Len(todo["client"]) :
                    /\ todo'["client"] = SubSeq(todo["client"], n + 1, Len(todo["client"]))
                    /\ net'["server"] = net["server"] \o SubSeq(todo["client"], 1, n)
            \/ shut["client"] /\ todo'["client"] = <<>> /\ net'["server"] = net["server"]
               /\ (KeepsPlaces \/ (ClientGoes("dead") /\ shut'["server"] = TRUE))
<1>1. Peer("client") = "server" /\ Ends = {"client", "server"}
  BY DEF Peer, Ends
<1> USE DEF ExchangeTypes, KeepsAnswer, KeepsFile, KeepsPlaces, ClientGoes, fixed
<1>2. todo["client"] # <<>> /\ UNCHANGED <<answer, length, file, rio, buf, announced, got>>
  BY DEF Writen
<1>3. CASE \E n \in 1..Len(todo["client"]) :
             /\ todo' = [todo EXCEPT !["client"] = SubSeq(@, n + 1, Len(@))]
             /\ net' = [net EXCEPT !["server"] = @ \o SubSeq(todo["client"], 1, n)]
             /\ UNCHANGED <<place, shut>>
  BY <1>1, <1>2, <1>3
<1>4. CASE /\ shut["client"] /\ todo' = [todo EXCEPT !["client"] = <<>>] /\ UNCHANGED net
           /\ \/ UNCHANGED <<place, shut>>
              \/ /\ place' = [place EXCEPT !["client"] = "dead"]
                 /\ shut' = [shut EXCEPT !["server"] = TRUE]
  BY <1>1, <1>2, <1>4
<1> QED BY <1>1, <1>3, <1>4 DEF Writen

(* rio_writen of the server writes some of the answer, or fails when the   *)
(* client has closed.                                                      *)
LEMMA WritenServer ==
  ASSUME ExchangeTypes, Writen("server")
  PROVE  /\ todo["server"] # <<>> /\ KeepsRequest /\ KeepsFile
         /\ buf'["client"] = buf["client"] /\ rio'["client"] = rio["client"]
         /\ announced' = announced /\ got' = got
         /\ \/ /\ KeepsPlaces
               /\ \E n \in 1..Len(todo["server"]) :
                    /\ todo'["server"] = SubSeq(todo["server"], n + 1, Len(todo["server"]))
                    /\ net'["client"] = net["client"] \o SubSeq(todo["server"], 1, n)
            \/ shut["server"] /\ todo'["server"] = <<>> /\ net'["client"] = net["client"]
               /\ (KeepsPlaces \/ (ServerGoes("dead") /\ shut'["client"] = TRUE))
<1>1. Peer("server") = "client" /\ Ends = {"client", "server"}
  BY DEF Peer, Ends
<1> USE DEF ExchangeTypes, KeepsRequest, KeepsFile, KeepsPlaces, ServerGoes, fixed
<1>2. todo["server"] # <<>> /\ UNCHANGED <<answer, length, file, rio, buf, announced, got>>
  BY DEF Writen
<1>3. CASE \E n \in 1..Len(todo["server"]) :
             /\ todo' = [todo EXCEPT !["server"] = SubSeq(@, n + 1, Len(@))]
             /\ net' = [net EXCEPT !["client"] = @ \o SubSeq(todo["server"], 1, n)]
             /\ UNCHANGED <<place, shut>>
  BY <1>1, <1>2, <1>3
<1>4. CASE /\ shut["server"] /\ todo' = [todo EXCEPT !["server"] = <<>>] /\ UNCHANGED net
           /\ \/ UNCHANGED <<place, shut>>
              \/ /\ place' = [place EXCEPT !["server"] = "dead"]
                 /\ shut' = [shut EXCEPT !["client"] = TRUE]
  BY <1>1, <1>2, <1>4
<1> QED BY <1>1, <1>3, <1>4 DEF Writen

(* rio_read of the client fills its buffer from what has arrived. *)
LEMMA FillClient ==
  ASSUME ExchangeTypes, RioFill("client")
  PROVE  /\ InRead("client") /\ KeepsRequest /\ KeepsFile /\ KeepsPlaces
         /\ buf'["client"] = buf["client"] /\ todo'["server"] = todo["server"]
         /\ announced' = announced /\ got' = got
         /\ \E n \in 0..Len(net["client"]) :
              /\ rio'["client"] = SubSeq(net["client"], 1, n)
              /\ net'["client"] = SubSeq(net["client"], n + 1, Len(net["client"]))
  BY DEF ExchangeTypes, Ends, KeepsRequest, KeepsFile, KeepsPlaces, fixed, RioFill

(* rio_read of the server fills its buffer from what has arrived. *)
LEMMA FillServer ==
  ASSUME ExchangeTypes, RioFill("server")
  PROVE  /\ InRead("server") /\ KeepsAnswer /\ KeepsFile /\ KeepsPlaces
         /\ buf'["server"] = buf["server"] /\ todo'["client"] = todo["client"]
         /\ \E n \in 0..Len(net["server"]) :
              /\ rio'["server"] = SubSeq(net["server"], 1, n)
              /\ net'["server"] = SubSeq(net["server"], n + 1, Len(net["server"]))
  BY DEF ExchangeTypes, Ends, KeepsAnswer, KeepsFile, KeepsPlaces, fixed, RioFill

(* rio_readlineb of the client stores one byte. *)
LEMMA ByteClient ==
  ASSUME ExchangeTypes, RioReadlineb("client")
  PROVE  /\ InLine("client") /\ ~LineDone("client") /\ rio["client"] # <<>>
         /\ KeepsRequest /\ KeepsFile /\ KeepsPlaces
         /\ net'["client"] = net["client"] /\ todo'["server"] = todo["server"]
         /\ announced' = announced /\ got' = got
         /\ buf'["client"] = Append(buf["client"], rio["client"][1])
         /\ rio'["client"] = Tail(rio["client"])
  BY DEF ExchangeTypes, Ends, KeepsRequest, KeepsFile, KeepsPlaces, fixed, RioReadlineb

(* rio_readlineb of the server stores one byte. *)
LEMMA ByteServer ==
  ASSUME ExchangeTypes, RioReadlineb("server")
  PROVE  /\ InLine("server") /\ ~LineDone("server") /\ rio["server"] # <<>>
         /\ KeepsAnswer /\ KeepsFile /\ KeepsPlaces
         /\ net'["server"] = net["server"] /\ todo'["client"] = todo["client"]
         /\ buf'["server"] = Append(buf["server"], rio["server"][1])
         /\ rio'["server"] = Tail(rio["server"])
  BY DEF ExchangeTypes, Ends, KeepsAnswer, KeepsFile, KeepsPlaces, fixed, RioReadlineb

(* The answer begins. *)
ReplyStarts == /\ KeepsFile /\ ServerGoes("head") /\ shut'["client"] = shut["client"]
           /\ todo'["server"] = ResponseHead(answer, length) /\ todo'["client"] = todo["client"]
           /\ rio' = rio /\ net' = net /\ buf'["client"] = buf["client"]
           /\ announced' = announced /\ got' = got

(* The server starts its answer. *)
LEMMA RespondEffect ==
  ASSUME ExchangeTypes, Respond
  PROVE  ReplyStarts
  BY DEF ExchangeTypes, Ends, ReplyStarts, KeepsFile, ServerGoes, fixed,
         Respond, MoveTo

(* The server has read a line: the blank one starts the answer. *)
LEMMA ServerLineEffect ==
  ASSUME ExchangeTypes, ServerLine
  PROVE  /\ LineDone("server") /\ InLine("server")
         /\ \/ buf["server"] = BlankLine /\ ReplyStarts
            \/ /\ buf["server"] # BlankLine /\ buf'["server"] = <<>>
               /\ KeepsFile /\ KeepsAnswer /\ ServerGoes("headers") /\ shut'["client"] = shut["client"]
               /\ rio'["server"] = rio["server"] /\ net'["server"] = net["server"]
               /\ todo'["client"] = todo["client"]
<1>1. CASE buf["server"] = BlankLine /\ Respond
  BY <1>1, RespondEffect DEF ServerLine
<1>2. CASE /\ buf["server"] # BlankLine /\ MoveTo("server", "headers")
           /\ UNCHANGED <<answer, length, file, todo, net, shut, rio, announced, got>>
  BY <1>2 DEF ExchangeTypes, Ends, KeepsFile, KeepsAnswer, ServerGoes, ServerLine, MoveTo
<1> QED BY <1>1, <1>2 DEF ServerLine, fixed

(* The client closed before the blank line. *)
LEMMA ServerEofEffect ==
  ASSUME ExchangeTypes, ServerEof
  PROVE  /\ InLine("server") /\ rio["server"] = <<>> /\ net["server"] = <<>> /\ shut["server"]
         /\ \/ ReplyStarts
            \/ /\ ServerGoes("closed") /\ shut'["client"] = TRUE
               /\ KeepsFile /\ KeepsAnswer /\ rio'["server"] = rio["server"]
               /\ net'["server"] = net["server"] /\ todo'["client"] = todo["client"]
<1>1. InLine("server") /\ rio["server"] = <<>> /\ net["server"] = <<>> /\ shut["server"]
  BY DEF ServerEof, AtEof, InRead
<1>2. CASE Respond
  BY <1>1, <1>2, RespondEffect
<1>3. CASE CloseEnd("server", "closed") /\ UNCHANGED <<answer, length, file, todo, net, rio, announced, got>>
  BY <1>1, <1>3 DEF ExchangeTypes, Ends, KeepsFile, KeepsAnswer, ServerGoes, CloseEnd, MoveTo, Peer
<1> QED BY <1>2, <1>3 DEF ServerEof, fixed

(* The header is out: the body follows, or the file is gone. *)
LEMMA ServerBodyEffect ==
  ASSUME ExchangeTypes, ServerBody
  PROVE  /\ place["server"] = "head" /\ todo["server"] = <<>> /\ KeepsFile
         /\ rio'["server"] = rio["server"] /\ net'["server"] = net["server"] /\ todo'["client"] = todo["client"]
         /\ buf'["client"] = buf["client"] /\ rio'["client"] = rio["client"] /\ net'["client"] = net["client"]
         /\ announced' = announced /\ got' = got
         /\ \/ /\ file = -1 /\ ServerGoes("dead") /\ shut'["client"] = TRUE /\ todo'["server"] = todo["server"]
            \/ /\ ServerGoes("cgi") \/ ServerGoes("body")
               /\ shut'["client"] = shut["client"] /\ todo'["server"] = Body
<1> USE DEF ExchangeTypes, Ends, KeepsFile, ServerGoes
<1>1. /\ place["server"] = "head" /\ todo["server"] = <<>>
      /\ UNCHANGED <<answer, length, file, net, rio, announced, got>>
  BY DEF ServerBody, fixed
<1>2. CASE file = -1 /\ CloseEnd("server", "dead") /\ UNCHANGED todo
  BY <1>1, <1>2 DEF CloseEnd, MoveTo, Peer
<1>3. CASE /\ MoveTo("server", "cgi") \/ MoveTo("server", "body")
           /\ todo' = [todo EXCEPT !["server"] = Body] /\ UNCHANGED shut
  BY <1>1, <1>3 DEF MoveTo
<1> QED BY <1>2, <1>3 DEF ServerBody

(* The answer is out and the server closes. *)
LEMMA ServerCloseEffect ==
  ASSUME ExchangeTypes, ServerClose
  PROVE  /\ place["server"] \in {"body", "cgi"} /\ todo["server"] = <<>> /\ KeepsFile /\ KeepsAnswer
         /\ rio'["server"] = rio["server"] /\ net'["server"] = net["server"] /\ todo'["client"] = todo["client"]
         /\ ServerGoes("closed") /\ shut'["client"] = TRUE
  BY DEF ExchangeTypes, Ends, KeepsFile, KeepsAnswer, ServerGoes, fixed,
         ServerClose, CloseEnd, MoveTo, Peer

(* The request is out and the client starts to read. *)
LEMMA ClientSentEffect ==
  ASSUME ExchangeTypes, ClientSent
  PROVE  /\ place["client"] = "send" /\ todo["client"] = <<>> /\ KeepsFile /\ KeepsRequest
         /\ buf'["client"] = <<>> /\ rio'["client"] = rio["client"] /\ net'["client"] = net["client"]
         /\ todo'["server"] = todo["server"] /\ announced' = announced /\ got' = got
         /\ ClientGoes("headers") /\ shut'["server"] = shut["server"]
  BY DEF ExchangeTypes, Ends, KeepsFile, KeepsRequest, ClientGoes, fixed,
         ClientSent, MoveTo

(* The client has read a line of the header. *)
LEMMA ClientLineEffect ==
  ASSUME ExchangeTypes, ClientLine
  PROVE  /\ place["client"] = "headers" /\ LineDone("client") /\ KeepsFile /\ KeepsRequest
         /\ buf'["client"] = <<>> /\ rio'["client"] = rio["client"] /\ net'["client"] = net["client"]
         /\ todo'["server"] = todo["server"] /\ got' = got
         /\ ClientGoes(IF buf["client"] = BlankLine THEN "body" ELSE "headers")
         /\ shut'["server"] = shut["server"]
         /\ announced' = IF buf["client"][1] > 100 THEN buf["client"][1] - 100 ELSE announced
  BY DEF ExchangeTypes, Ends, KeepsFile, KeepsRequest, ClientGoes, fixed,
         ClientLine, MoveTo

(* The client takes a part of the body. *)
LEMMA ClientBodyEffect ==
  ASSUME ExchangeTypes, ClientBody
  PROVE  /\ place["client"] \in {"body", "astray"} /\ KeepsFile /\ KeepsRequest
         /\ ClientGoes("body") \/ ClientGoes("astray")
         /\ shut'["server"] = shut["server"]
         /\ buf'["client"] = buf["client"] /\ net'["client"] = net["client"] /\ todo'["server"] = todo["server"]
         /\ announced' = announced
         /\ \E n \in 0..Len(rio["client"]) :
              /\ Len(got) + n <= announced
              /\ got' = got \o SubSeq(rio["client"], 1, n)
              /\ rio'["client"] = SubSeq(rio["client"], n + 1, Len(rio["client"]))
              /\ place["client"] = "body" /\ place'["client"] = "astray" => MaxBuf <= Len(got) + n
<1>1. PICK n \in 0..Len(rio["client"]) :
        /\ Len(got) + n <= announced
        /\ got' = got \o SubSeq(rio["client"], 1, n)
        /\ rio' = [rio EXCEPT !["client"] = SubSeq(@, n + 1, Len(@))]
        /\ \/ place' = place
           \/ MaxBuf <= Len(got) + n /\ place' = [place EXCEPT !["client"] = "astray"]
        /\ UNCHANGED <<answer, length, file, todo, net, shut, buf, announced>>
        /\ place["client"] \in {"body", "astray"}
  BY BodyChunk
<1>2. "client" \in Ends /\ "server" \in Ends
  BY DEF Ends
<1>3. /\ place'["server"] = place["server"]
      /\ place'["client"] = place["client"] \/ place'["client"] = "astray"
      /\ place["client"] = "body" /\ place'["client"] = "astray" => MaxBuf <= Len(got) + n
  BY <1>1, <1>2 DEF ExchangeTypes
<1>4. rio'["client"] = SubSeq(rio["client"], n + 1, Len(rio["client"])) /\ rio'["server"] = rio["server"]
  BY <1>1, <1>2 DEF ExchangeTypes
<1> QED BY <1>1, <1>3, <1>4 DEF KeepsFile, KeepsRequest, ClientGoes

(* The client has the body, or sees the end of the connection. *)
LEMMA ClientDoneEffect ==
  ASSUME ExchangeTypes, ClientDone
  PROVE  /\ \/ AtEof("client") /\ (\/ announced' = announced
                                   \/ /\ place["client"] = "headers" /\ buf["client"] # <<>>
                                      /\ buf["client"][1] > 100
                                      /\ announced' \in 0..buf["client"][1] - 100)
            \/ /\ place["client"] \in {"body", "astray"} /\ Len(got) = announced
               /\ announced' = announced
         /\ KeepsFile /\ KeepsRequest /\ ClientGoes("done") /\ shut'["server"] = TRUE
         /\ todo'["server"] = todo["server"] /\ got' = got
  BY DEF ExchangeTypes, Ends, KeepsFile, KeepsRequest, ClientGoes, fixed,
         ClientDone, CloseEnd, MoveTo, Peer

(* The standard input of a client that went astray is at its end. *)
LEMMA ClientAstrayEffect ==
  ASSUME ExchangeTypes, ClientAstray
  PROVE  /\ place["client"] = "astray" /\ Len(got) < announced
         /\ KeepsFile /\ KeepsRequest /\ ClientGoes("misled") /\ shut'["server"] = TRUE
         /\ todo'["server"] = todo["server"] /\ announced' = announced /\ got' = got
  BY DEF ExchangeTypes, Ends, KeepsFile, KeepsRequest, ClientGoes, fixed,
         ClientAstray, CloseEnd, MoveTo, Peer

(* The connection is reset under a client that is reading. *)
LEMMA ClientResetEffect ==
  ASSUME ExchangeTypes, ClientReset
  PROVE  /\ InRead("client") /\ place["server"] = "dead"
         /\ KeepsFile /\ KeepsRequest /\ ClientGoes("dead") /\ shut'["server"] = TRUE
         /\ todo'["server"] = todo["server"]
  BY DEF ExchangeTypes, Ends, KeepsFile, KeepsRequest, ClientGoes, fixed,
         ClientReset, CloseEnd, MoveTo, Peer

(* The server dies of another connection. *)
LEMMA ServerDiesEffect ==
  ASSUME ExchangeTypes, ServerDies
  PROVE  /\ place["server"] \notin {"cgi", "closed", "dead"}
         /\ KeepsFile /\ ServerGoes("dead") /\ shut'["client"] = TRUE
         /\ todo'["server"] = <<>> /\ todo'["client"] = todo["client"]
         /\ rio' = rio /\ net' = net /\ buf'["client"] = buf["client"]
         /\ announced' = announced /\ got' = got
  BY DEF ExchangeTypes, Ends, KeepsFile, ServerGoes, fixed, ServerDies, CloseEnd, MoveTo, Peer

(* The client is killed. *)
LEMMA ClientKilledEffect ==
  ASSUME ExchangeTypes, ClientKilled
  PROVE  /\ place["client"] \notin Gone /\ KeepsFile
         /\ buf'["server"] = buf["server"] /\ rio'["server"] = rio["server"] /\ net'["server"] = net["server"]
         /\ todo'["client"] = <<>> /\ todo'["server"] = todo["server"]
         /\ ClientGoes("dead") /\ shut'["server"] = TRUE
  BY DEF ExchangeTypes, Ends, KeepsFile, ClientGoes, fixed, Gone,
         ClientKilled, CloseEnd, MoveTo, Peer

(* The file gets shorter, or goes. *)
LEMMA FileShrinksEffect ==
  ASSUME ExchangeTypes, FileShrinks
  PROVE  /\ file > -1 /\ file' = file - 1 /\ answer' = answer /\ length' = length
         /\ KeepsRequest /\ KeepsAnswer /\ KeepsPlaces
  BY DEF ExchangeTypes, KeepsRequest, KeepsAnswer, KeepsPlaces, fixed, FileShrinks
-----------------------------------------------------------------------------
(* Who has closed, and who has nothing to write, after each step. *)
LEMMA QuietStep ==
  ASSUME ExchangeTypes, Quiet, [ExchangeNext]_exchangeVars
  PROVE  Quiet'
<1>0. Ends = {"client", "server"}
  BY DEF Ends
<1>1. CASE UNCHANGED exchangeVars
  BY <1>1 DEF exchangeVars, Quiet
<1>2. CASE Writen("client")
  BY <1>2, WritenClient DEF Quiet, KeepsAnswer, KeepsFile, KeepsPlaces, ClientGoes, Alive, Gone
<1>3. CASE Writen("server")
  BY <1>3, WritenServer DEF Quiet, KeepsRequest, KeepsFile, KeepsPlaces, ServerGoes, Alive, Gone, Positions
<1>4. CASE RioFill("client")
  BY <1>4, FillClient DEF Quiet, KeepsRequest, KeepsFile, KeepsPlaces
<1>5. CASE RioFill("server")
  BY <1>5, FillServer DEF Quiet, KeepsAnswer, KeepsFile, KeepsPlaces
<1>6. CASE RioReadlineb("client")
  BY <1>6, ByteClient DEF Quiet, KeepsRequest, KeepsFile, KeepsPlaces, InLine
<1>7. CASE RioReadlineb("server")
  BY <1>7, ByteServer DEF Quiet, KeepsAnswer, KeepsFile, KeepsPlaces
<1>8. ASSUME ReplyStarts, InLine("server") PROVE Quiet'
  BY <1>8 DEF ReplyStarts, Quiet, KeepsFile, ServerGoes, Positions, InLine
<1>9. CASE ServerLine
  BY <1>8, <1>9, ServerLineEffect DEF Quiet, KeepsAnswer, KeepsFile, ServerGoes, Positions, InLine
<1>10. CASE ServerEof
  BY <1>8, <1>10, ServerEofEffect DEF Quiet, KeepsAnswer, KeepsFile, ServerGoes, Positions, InLine
<1>11. CASE ServerBody
  BY <1>11, ServerBodyEffect DEF Quiet, KeepsFile, ServerGoes, Positions
<1>12. CASE ServerClose
  BY <1>12, ServerCloseEffect DEF Quiet, KeepsAnswer, KeepsFile, ServerGoes, Positions
<1>13. CASE ClientSent
  BY <1>13, ClientSentEffect DEF Quiet, KeepsRequest, KeepsFile, ClientGoes, Alive, Gone
<1>14. CASE ClientLine
  BY <1>14, ClientLineEffect DEF Quiet, KeepsRequest, KeepsFile, ClientGoes, Alive, Gone
<1>15. CASE ClientBody
  BY <1>15, ClientBodyEffect DEF Quiet, KeepsRequest, KeepsFile, ClientGoes, Alive, Gone
<1>16. CASE ClientDone
  <2>1. place["client"] # "send"
    BY <1>16, ClientDoneEffect DEF AtEof, InRead, InLine
  <2> QED BY <1>16, <2>1, ClientDoneEffect DEF Quiet, KeepsRequest, KeepsFile, ClientGoes, Alive, Gone
<1>17. CASE ClientKilled
  BY <1>17, ClientKilledEffect DEF Quiet, KeepsFile, ClientGoes, Alive, Gone
<1>18. CASE FileShrinks
  BY <1>18, FileShrinksEffect DEF Quiet, KeepsRequest, KeepsAnswer, KeepsPlaces
<1>20. CASE ClientAstray
  BY <1>20, ClientAstrayEffect DEF Quiet, KeepsRequest, KeepsFile, ClientGoes, Gone
<1>21. CASE ClientReset
  <2>1. place["client"] # "send"
    BY <1>21, ClientResetEffect DEF InRead, InLine
  <2> QED BY <1>21, <2>1, ClientResetEffect DEF Quiet, KeepsRequest, KeepsFile, ClientGoes, Gone
<1>22. CASE ServerDies
  BY <1>22, ServerDiesEffect DEF Quiet, KeepsFile, ServerGoes, Positions
<1>19. ASSUME NEW e \in Ends, Interrupted(e) PROVE Quiet'
  BY <1>1, <1>19 DEF Interrupted
<1> QED
  BY <1>1, <1>2, <1>3, <1>4, <1>5, <1>6, <1>7, <1>9, <1>10, <1>11, <1>12, <1>13, <1>14, <1>15,
     <1>16, <1>17, <1>18, <1>19, <1>20, <1>21, <1>22
     DEF ExchangeNext, ServerStep, ClientStep, RioStep
-----------------------------------------------------------------------------
(* The request. *)
Receiving == place["server"] \in {"request", "headers"}

(* A step that leaves the request alone. *)
LEMMA RequestKept ==
  ASSUME ServerSide, KeepsRequest, Receiving, Receiving',
         place["client"] = "dead" => place'["client"] = "dead"
  PROVE  ServerSide'
  BY DEF ServerSide, ServerReads, KeepsRequest, Receiving

(* A step of a server that has read the request. *)
LEMMA RequestGone ==
  ASSUME net'["server"] = <<>>, rio'["server"] = <<>>, todo'["client"] = <<>>, ~Receiving'
  PROVE  ServerSide'
  BY DEF ServerSide, Receiving

(* A dead server reads nothing more. *)
LEMMA RequestDropped ==
  ASSUME place'["server"] = "dead"
  PROVE  ServerSide'
  BY DEF ServerSide

(* A step of a server that is reading. *)
LEMMA RequestMoves ==
  ASSUME NEW t \in TextLens, NEW p \in 0..t+5, AtStart(p, t),
         NEW b, b = buf'["server"], NEW r, r = rio'["server"], NEW n, n = net'["server"],
         NEW o, o = todo'["client"],
         Stages(b, r, n, o, Asked(t), p), Len(b) < MaxLine, OneLine(b),
         p + Left(b, r, n, o) <= t + 7, place'["client"] # "dead" => p + Left(b, r, n, o) = t + 7,
         Receiving'
  PROVE  ServerSide'
  BY DEF ServerSide, ServerReads, Receiving

(* A server that has read the request finds nothing more. *)
LEMMA ServerSideAfter ==
  ASSUME ExchangeTypes, Quiet, ServerSide, ~Receiving, [ExchangeNext]_exchangeVars
  PROVE  ServerSide'
<1>0. Ends = {"client", "server"}
  BY DEF Ends
<1>1. place["server"] # "dead" => net["server"] = <<>> /\ rio["server"] = <<>> /\ todo["client"] = <<>>
  BY DEF ServerSide, Receiving
<1> DEFINE Stay == /\ net'["server"] = net["server"] /\ rio'["server"] = rio["server"]
                   /\ todo'["client"] = todo["client"] /\ ~Receiving'
                   /\ place["server"] = "dead" => place'["server"] = "dead"
<1>2. ASSUME Stay PROVE ServerSide'
  BY <1>1, <1>2, RequestGone, RequestDropped
<1> USE DEF Receiving
<1>3. CASE UNCHANGED exchangeVars
  BY <1>2, <1>3 DEF exchangeVars
<1>4. CASE Writen("client")
  BY <1>1, <1>4, WritenClient, RequestDropped DEF KeepsPlaces, ClientGoes
<1>5. CASE Writen("server")
  BY <1>2, <1>5, WritenServer DEF KeepsPlaces, ServerGoes, KeepsRequest
<1>6. CASE RioFill("client") \/ RioReadlineb("client")
  BY <1>2, <1>6, FillClient, ByteClient DEF KeepsPlaces, KeepsRequest
<1>7. CASE RioFill("server") \/ RioReadlineb("server")
  BY <1>7, FillServer, ByteServer DEF InRead, InLine
<1>8. CASE ServerLine \/ ServerEof
  BY <1>8, ServerLineEffect, ServerEofEffect DEF InLine
<1>9. CASE ServerBody
  BY <1>2, <1>9, ServerBodyEffect DEF ServerGoes
<1>10. CASE ServerClose
  BY <1>2, <1>10, ServerCloseEffect DEF ServerGoes
<1>11. CASE ClientSent \/ ClientLine
  BY <1>2, <1>11, ClientSentEffect, ClientLineEffect DEF ClientGoes, KeepsRequest
<1>12. CASE ClientBody \/ ClientDone
  BY <1>2, <1>12, ClientBodyEffect, ClientDoneEffect DEF ClientGoes, KeepsRequest
<1>13. CASE ClientKilled
  <2>1. CASE place["server"] = "dead"
    BY <1>13, <2>1, ClientKilledEffect, RequestDropped DEF ClientGoes
  <2>2. CASE place["server"] # "dead"
    BY <1>1, <1>2, <1>13, <2>2, ClientKilledEffect DEF ClientGoes
  <2> QED BY <2>1, <2>2
<1>14. CASE FileShrinks
  BY <1>2, <1>14, FileShrinksEffect DEF KeepsPlaces, KeepsRequest
<1>15. ASSUME NEW e \in Ends, Interrupted(e) PROVE ServerSide'
  BY <1>3, <1>15 DEF Interrupted
<1>16. CASE ClientAstray \/ ClientReset
  BY <1>2, <1>16, ClientAstrayEffect, ClientResetEffect DEF ClientGoes, KeepsRequest
<1>17. CASE ServerDies
  BY <1>17, ServerDiesEffect, RequestDropped DEF ServerGoes
<1> QED
  BY <1>3, <1>4, <1>5, <1>6, <1>7, <1>8, <1>9, <1>10, <1>11, <1>12, <1>13, <1>14, <1>15, <1>16, <1>17
     DEF ExchangeNext, ServerStep, ClientStep, RioStep

(* A server that is reading stays at its place in the request, or has come *)
(* to its end.                                                             *)
LEMMA ServerSideReceiving ==
  ASSUME ExchangeTypes, Quiet, ServerSide, Receiving,
         [ExchangeNext]_exchangeVars
  PROVE  ServerSide'
<1> DEFINE b == buf["server"]
           r == rio["server"]
           n == net["server"]
           o == todo["client"]
           m == MaxLine - 1
<1>0. Ends = {"client", "server"}
  BY DEF Ends
<1>1. /\ b \in Seq(Bytes) /\ r \in Seq(Bytes) /\ n \in Seq(Bytes) /\ o \in Seq(Bytes)
      /\ Len(b) \in Nat /\ Len(r) \in Nat /\ Len(n) \in Nat /\ Len(o) \in Nat
  BY <1>0 DEF ExchangeTypes
<1>2. /\ m \in Nat /\ m >= 3 /\ MaxLine = m + 1
      /\ \A t \in TextLens : t \in Nat /\ ~Whole(t)
  BY ExchangeSizes, ExchangeAssumption
<1>3. PICK t \in TextLens : \E p \in 0..t+5 :
               /\ AtStart(p, t) /\ Stages(b, r, n, o, Asked(t), p)
               /\ Len(b) < MaxLine /\ OneLine(b) /\ p + Left(b, r, n, o) <= t + 7
               /\ place["client"] # "dead" => p + Left(b, r, n, o) = t + 7
  BY DEF ServerSide, ServerReads, Receiving
<1>4. PICK p \in 0..t+5 :
               /\ AtStart(p, t) /\ Stages(b, r, n, o, Asked(t), p)
               /\ Len(b) < MaxLine /\ OneLine(b) /\ p + Left(b, r, n, o) <= t + 7
               /\ place["client"] # "dead" => p + Left(b, r, n, o) = t + 7
  BY <1>3
<1>5. t \in Nat /\ ~Whole(t) /\ p \in Nat
  BY <1>2
<1> HIDE DEF m
<1>6. CASE UNCHANGED exchangeVars
  BY <1>6, RequestKept DEF exchangeVars, KeepsRequest, Receiving
<1>7. CASE Writen("client")
  <2>1. ~shut["client"] /\ place["client"] # "dead" /\ o # <<>>
    BY <1>7, WritenClient DEF Quiet, Receiving
  <2>2. PICK k \in 1..Len(o) : todo'["client"] = SubSeq(o, k + 1, Len(o)) /\ net'["server"] = n \o SubSeq(o, 1, k)
    BY <1>7, <2>1, WritenClient
  <2>3. buf'["server"] = b /\ rio'["server"] = r /\ Receiving'
    BY <1>7, <2>1, WritenClient DEF KeepsPlaces, Receiving
  <2> DEFINE n1 == n \o SubSeq(o, 1, k)
             o1 == SubSeq(o, k + 1, Len(o))
  <2>4. Stages(b, r, n1, o1, Asked(t), p) /\ Left(b, r, n1, o1) = Left(b, r, n, o)
    <3>1. k \in 0..Len(o)
      OBVIOUS
    <3> HIDE DEF b, r, n, o
    <3> QED BY <1>1, <1>4, <1>5, <3>1, StagesWrite
  <2>5. n1 = net'["server"] /\ o1 = todo'["client"]
    BY <2>2
  <2> HIDE DEF b, r, n, o, n1, o1
  <2> QED BY <1>4, <2>1, <2>3, <2>4, <2>5, RequestMoves
<1>8. CASE Writen("server")
  BY <1>8, WritenServer DEF Quiet, Receiving
<1>9. CASE RioFill("client") \/ RioReadlineb("client")
  BY <1>9, FillClient, ByteClient, RequestKept DEF KeepsPlaces, Receiving
<1>10. CASE RioFill("server")
  <2>1. PICK k \in 0..Len(n) : rio'["server"] = SubSeq(n, 1, k) /\ net'["server"] = SubSeq(n, k + 1, Len(n))
    BY <1>10, FillServer
  <2>2. /\ buf'["server"] = b /\ todo'["client"] = o /\ Receiving' /\ r = <<>>
        /\ place'["client"] = place["client"]
    BY <1>10, FillServer DEF KeepsPlaces, Receiving, InRead
  <2> DEFINE r1 == SubSeq(n, 1, k)
             n1 == SubSeq(n, k + 1, Len(n))
  <2>3. Stages(b, r1, n1, o, Asked(t), p) /\ Left(b, r1, n1, o) = Left(b, r, n, o)
    <3>1. Len(r) = 0 /\ k \in 0..Len(n)
      BY <2>2
    <3>2. Stages(b, r, n, o, Asked(t), p)
      BY <1>4
    <3> HIDE DEF b, r, n, o
    <3>3. Stages(b, r1, n1, o, Asked(t), p)
      BY <1>1, <1>5, <3>1, <3>2, StagesFill, Zenon
    <3>4. Left(b, r1, n1, o) = Left(b, r, n, o)
      <4>1. Len(r1) = k /\ Len(n1) = Len(n) - k
        BY <1>1, <3>1, CutSeq
      <4> HIDE DEF r1, n1
      <4> QED BY <1>1, <3>1, <4>1 DEF Left
    <3> QED BY <3>3, <3>4
  <2>4. r1 = rio'["server"] /\ n1 = net'["server"]
    BY <2>1
  <2> HIDE DEF b, r, n, o, r1, n1
  <2> QED BY <1>4, <2>2, <2>3, <2>4, RequestMoves
<1>11. CASE RioReadlineb("server")
  <2>1. /\ buf'["server"] = Append(b, r[1]) /\ rio'["server"] = Tail(r)
        /\ net'["server"] = n /\ todo'["client"] = o /\ r # <<>> /\ Receiving'
        /\ place'["client"] = place["client"]
    BY <1>11, ByteServer DEF KeepsPlaces, Receiving
  <2>2. b = <<>> \/ (b[Len(b)] # 10 /\ Len(b) # m)
    BY <1>11, ByteServer DEF LineDone, Last, LineLimit, LF, m
  <2> DEFINE b1 == Append(b, r[1])
             r1 == Tail(r)
  <2> HIDE DEF b, r, n, o
  <2>3. /\ b1 \in Seq(Bytes) /\ Len(b1) = Len(b) + 1
        /\ Stages(b1, r1, n, o, Asked(t), p) /\ Left(b1, r1, n, o) = Left(b, r, n, o)
    BY <1>1, <1>4, <1>5, <2>1, StagesByte
  <2>4. Len(b1) < MaxLine
    <3>1. b = <<>> => Len(b) = 0
      OBVIOUS
    <3> QED BY <1>1, <1>2, <1>4, <2>2, <2>3, <3>1
  <2>5. OneLine(b1)
    <3>1. ASSUME NEW i \in 1..Len(b1)-1 PROVE b1[i] # 10
      <4>1. i \in 1..Len(b)
        BY <1>1, <2>3, <3>1
      <4>2. b1[i] = b[i]
        BY <1>1, <4>1
      <4>3. i = Len(b) => b[i] # 10
        BY <1>1, <2>2, <4>1
      <4>4. i # Len(b) => b[i] # 10
        BY <1>1, <1>4, <4>1 DEF OneLine, LF
      <4> QED BY <4>2, <4>3, <4>4
    <3> QED BY <3>1 DEF OneLine, LF
  <2>6. b1 = buf'["server"] /\ r1 = rio'["server"] /\ n = net'["server"] /\ o = todo'["client"]
    BY <2>1
  <2> HIDE DEF b1, r1
  <2> QED BY <1>4, <2>1, <2>3, <2>4, <2>5, <2>6, RequestMoves
<1>12. CASE ServerLine
  <2>1. b # <<>> /\ (b[Len(b)] = 10 \/ Len(b) = m)
    BY <1>12, ServerLineEffect DEF LineDone, Last, LineLimit, LF, m
  <2>2. Len(b) <= m /\ p + Len(b) <= t + 7 /\ Fits(b, Asked(t), p) /\ OneLine(b) /\ AtStart(p, t)
    <3> HIDE DEF b, r, n, o
    <3> QED BY <1>1, <1>2, <1>4, <1>5 DEF Stages, Left
  <2>3. /\ b = BlankLine => p = t + 5 /\ Len(b) = 2
        /\ b # BlankLine => p + Len(b) <= t + 5 /\ AtStart(p + Len(b), t)
    <3> HIDE DEF b, r, n, o
    <3>1. b \in Seq(Bytes) /\ m \in Nat /\ m >= 3 /\ MaxLine = m + 1 /\ Len(b) # 0
      BY <1>1, <1>2, <2>1
    <3>2. b[Len(b)] = 10 \/ Len(b) = m
      BY <2>1
    <3> QED BY <1>5, <2>2, <3>1, <3>2, PieceOfRequest
  <2>4. CASE b = BlankLine /\ ReplyStarts
    <3>1. Len(r) = 0 /\ Len(n) = 0 /\ Len(o) = 0
      <4>1. p = t + 5 /\ Len(b) = 2
        BY <2>3, <2>4
      <4>2. p + (Len(b) + Len(r) + Len(n) + Len(o)) <= t + 7
        BY <1>4 DEF Left
      <4> HIDE DEF b, r, n, o
      <4> QED BY <1>1, <1>5, <4>1, <4>2
    <3>2. r = <<>> /\ n = <<>> /\ o = <<>>
      <4> HIDE DEF b, r, n, o
      <4> QED BY <1>1, <3>1
    <3> QED BY <2>4, <3>2, RequestGone DEF ReplyStarts, ServerGoes, Receiving
  <2>5. CASE /\ b # BlankLine /\ buf'["server"] = <<>> /\ ServerGoes("headers")
             /\ rio'["server"] = r /\ net'["server"] = n /\ todo'["client"] = o
    <3> DEFINE b1 == <<>>
               q == p + Len(b)
    <3>1. Receiving' /\ place'["client"] = place["client"]
      BY <2>5 DEF Receiving, ServerGoes
    <3>2. b1 = buf'["server"] /\ r = rio'["server"] /\ n = net'["server"] /\ o = todo'["client"]
      BY <2>5
    <3> HIDE DEF b, r, n, o
    <3>3. Stages(b1, r, n, o, Asked(t), q) /\ Left(b, r, n, o) = Len(b) + Left(b1, r, n, o)
      BY <1>1, <1>4, <1>5, StagesNext
    <3>4. q \in 0..t+5 /\ AtStart(q, t)
      BY <1>1, <1>5, <2>3, <2>5
    <3>5. Left(b1, r, n, o) \in Nat
      BY <1>1 DEF Left
    <3>6. q + Left(b1, r, n, o) = p + Left(b, r, n, o)
      BY <1>1, <1>5, <3>3, <3>5
    <3>7. Len(b1) < MaxLine /\ OneLine(b1)
      BY <1>2 DEF OneLine
    <3> HIDE DEF b1, q
    <3> QED BY <1>4, <3>1, <3>2, <3>3, <3>4, <3>6, <3>7, RequestMoves
  <2> QED BY <1>12, <2>4, <2>5, ServerLineEffect
<1>13. CASE ServerEof
  <2>1. r = <<>> /\ n = <<>> /\ o = <<>>
    BY <1>13, ServerEofEffect DEF Quiet, Gone
  <2> QED BY <1>13, <2>1, ServerEofEffect, RequestGone DEF ReplyStarts, ServerGoes, Receiving
<1>14. CASE ServerBody \/ ServerClose
  BY <1>14, ServerBodyEffect, ServerCloseEffect DEF Receiving
<1>15. CASE ClientSent \/ ClientLine
  BY <1>15, ClientSentEffect, ClientLineEffect, RequestKept DEF ClientGoes, Receiving
<1>16. CASE ClientBody \/ ClientDone
  <2>1. place["client"] # "dead"
    BY <1>16, ClientBodyEffect, ClientDoneEffect DEF AtEof, InRead, InLine
  <2> QED BY <1>16, <2>1, ClientBodyEffect, ClientDoneEffect, RequestKept DEF ClientGoes, Receiving
<1>17. CASE ClientKilled
  <2> DEFINE o1 == <<>>
  <2>1. /\ b = buf'["server"] /\ r = rio'["server"] /\ n = net'["server"] /\ o1 = todo'["client"]
        /\ place'["client"] = "dead" /\ Receiving'
    BY <1>17, ClientKilledEffect DEF ClientGoes, Receiving
  <2> HIDE DEF b, r, n, o
  <2>2. Stages(b, r, n, o1, Asked(t), p) /\ Left(b, r, n, o1) <= Left(b, r, n, o)
    BY <1>1, <1>4, <1>5, StagesDrop
  <2>3. Left(b, r, n, o) \in Nat /\ Left(b, r, n, o1) \in Nat
    BY <1>1 DEF Left
  <2>4. p + Left(b, r, n, o1) <= t + 7
    BY <1>4, <1>5, <2>2, <2>3
  <2> HIDE DEF o1
  <2> QED BY <1>4, <2>1, <2>2, <2>4, RequestMoves
<1>18. CASE FileShrinks
  BY <1>18, FileShrinksEffect, RequestKept DEF KeepsPlaces, Receiving
<1>19. ASSUME NEW e \in Ends, Interrupted(e) PROVE ServerSide'
  BY <1>6, <1>19 DEF Interrupted
<1>20. CASE ClientAstray
  BY <1>20, ClientAstrayEffect, RequestKept DEF ClientGoes, Receiving
<1>21. CASE ClientReset
  BY <1>21, ClientResetEffect DEF Receiving
<1>22. CASE ServerDies
  BY <1>22, ServerDiesEffect, RequestDropped DEF ServerGoes
<1> QED
  BY <1>0, <1>6, <1>7, <1>8, <1>9, <1>10, <1>11, <1>12, <1>13, <1>14, <1>15, <1>16, <1>17, <1>18, <1>19,
     <1>20, <1>21, <1>22
     DEF ExchangeNext, ServerStep, ClientStep, RioStep
-----------------------------------------------------------------------------
(* The answer. *)

(* What a step does to how much the server sends at the most. *)
Onward == /\ Sending <= Sending'
          /\ place'["server"] # "dead" => place["server"] # "dead" /\ Sending' = Sending

(* What was sent is no more than what is sent now. *)
LEMMA SentOnward ==
  ASSUME ExchangeTypes, Onward, NEW k \in Nat, Sent(k), KeepsFile
  PROVE  Sent(k)'
<1>1. Sending \in Nat /\ Sending' \in Nat
  BY DEF ExchangeTypes, Sending, HeadLen, KeepsFile
<1> QED BY <1>1 DEF Onward, Sent

(* A step that leaves the answer alone. *)
LEMMA AnswerKept ==
  ASSUME ExchangeTypes, ClientSide, KeepsAnswer, KeepsFile, Onward, place'["client"] = place["client"]
  PROVE  ClientSide'
<1> SUFFICES ASSUME place["client"] \in Alive PROVE \E p \in 0..11 : ClientReads(p)'
  BY DEF ClientSide
<1>1. PICK p \in 0..11 : ClientReads(p)
  BY DEF ClientSide
<1>2. Left(Hand, rio["client"], net["client"], todo["server"]) \in Nat
  BY DEF Left, ExchangeTypes, Ends, Hand
<1>3. p + Left(Hand, rio["client"], net["client"], todo["server"]) \in Nat
  BY <1>2
<1>4. Sent(p + Left(Hand, rio["client"], net["client"], todo["server"]))'
  <2>1. Sent(p + Left(Hand, rio["client"], net["client"], todo["server"]))
    BY <1>1 DEF ClientReads
  <2> DEFINE k == p + Left(Hand, rio["client"], net["client"], todo["server"])
  <2>2. k' = k
    BY DEF KeepsAnswer, Hand, InBody
  <2> HIDE DEF k
  <2>3. ASSUME NEW z \in Nat, Sent(z) PROVE z <= Sending' /\ (place'["server"] # "dead" => z = Sending')
    BY <2>3, SentOnward DEF Sent
  <2>4. k <= Sending' /\ (place'["server"] # "dead" => k = Sending')
    BY <1>3, <2>1, <2>3 DEF k
  <2>5. k' <= Sending' /\ (place'["server"] # "dead" => k' = Sending')
    BY <2>2, <2>4
  <2> QED BY <2>5 DEF Sent, k
<1>5. ClientReads(p)'
  BY <1>1, <1>4 DEF ClientReads, KeepsAnswer, KeepsFile, Hand, InBody, Known, Reply, HeadLen
<1> QED BY <1>5

(* A step of a client that has left. *)
LEMMA AnswerGone ==
  ASSUME place'["client"] \notin Alive
  PROVE  ClientSide'
  BY DEF ClientSide

(* A step of a client that is reading. *)
LEMMA AnswerMoves ==
  ASSUME KeepsFile, NEW p \in 0..11,
         NEW h, h = (IF InBody' THEN got' ELSE buf'["client"]),
         NEW r, r = rio'["client"], NEW n, n = net'["client"], NEW o, o = todo'["server"],
         IF InBody' THEN p = HeadLen
         ELSE p \in {0, 3, 6, 9} /\ p < HeadLen /\ got' = <<>> /\ OneLine(h),
         Stages(h, r, n, o, Reply, p), p + Left(h, r, n, o) <= Sending',
         place'["server"] # "dead" => p + Left(h, r, n, o) = Sending',
         announced' = Known(p), Len(got') <= announced',
         place'["client"] = "astray" => MaxBuf <= Len(got')
  PROVE  ClientSide'
<1>1. HeadLen' = HeadLen /\ Reply' = Reply
  BY DEF KeepsFile, HeadLen, Reply
<1>2. (IF answer' # "dynamic" /\ p > 3 THEN length' ELSE 0) = Known(p)
  BY DEF KeepsFile, Known
<1>3. Hand' = h
  BY DEF Hand
<1>4. ClientReads(p)'
  BY <1>1, <1>2, <1>3 DEF ClientReads, Known, Sent
<1> QED BY <1>4 DEF ClientSide

(* What fits does so where more bytes are allowed. *)
LEMMA StagesWider ==
  ASSUME NEW b \in Seq(Bytes), NEW r \in Seq(Bytes), NEW n \in Seq(Bytes), NEW o \in Seq(Bytes),
         NEW W, NEW V, NEW p \in Nat, Stages(b, r, n, o, W, p), NEW d \in Nat,
         p + Left(b, r, n, o) <= d, \A i \in 1..d : W[i] \subseteq V[i]
  PROVE  Stages(b, r, n, o, V, p)
<1>1. Len(b) \in Nat /\ Len(r) \in Nat /\ Len(n) \in Nat /\ Len(o) \in Nat
  OBVIOUS
<1>2. ASSUME NEW s \in Seq(Bytes), NEW q \in Nat, Fits(s, W, q), q + Len(s) <= d
      PROVE  Fits(s, V, q)
  <2>1. ASSUME NEW i \in 1..Len(s) PROVE s[i] \in V[q + i]
    <3>1. q + i \in 1..d /\ s[i] \in W[q + i]
      BY <1>2, <2>1 DEF Fits
    <3> QED BY <3>1
  <2> QED BY <2>1 DEF Fits
<1>3. /\ p + Len(b) <= d /\ p + Len(b) + Len(r) <= d /\ p + Len(b) + Len(r) + Len(n) <= d
      /\ p + Len(b) + Len(r) + Len(n) + Len(o) <= d
      /\ p + Len(b) \in Nat /\ p + Len(b) + Len(r) \in Nat /\ p + Len(b) + Len(r) + Len(n) \in Nat
  BY <1>1 DEF Left
<1>4. Fits(b, V, p)
  BY <1>2, <1>3 DEF Stages
<1>5. Fits(r, V, p + Len(b))
  BY <1>2, <1>3 DEF Stages
<1>6. Fits(n, V, p + Len(b) + Len(r))
  BY <1>2, <1>3 DEF Stages
<1>7. Fits(o, V, p + Len(b) + Len(r) + Len(n))
  BY <1>2, <1>3 DEF Stages
<1> QED BY <1>4, <1>5, <1>6, <1>7 DEF Stages

(* While the client is there, every step keeps its place in the answer. *)
LEMMA ClientSideStep ==
  ASSUME ExchangeTypes, Quiet, ClientSide, place["client"] \in Alive,
         [ExchangeNext]_exchangeVars
  PROVE  ClientSide'
<1> DEFINE h == Hand
           r == rio["client"]
           n == net["client"]
           o == todo["server"]
<1>0. Ends = {"client", "server"}
  BY DEF Ends
<1>1. /\ h \in Seq(Bytes) /\ r \in Seq(Bytes) /\ n \in Seq(Bytes) /\ o \in Seq(Bytes)
      /\ Len(h) \in Nat /\ Len(r) \in Nat /\ Len(n) \in Nat /\ Len(o) \in Nat
  BY <1>0 DEF ExchangeTypes, Hand
<1>2. answer \in AnswerKinds /\ length \in Nat /\ file \in -1..length /\ HeadLen \in {8, 11}
  BY DEF ExchangeTypes, HeadLen
<1>3. PICK p \in 0..11 :
        /\ IF InBody THEN p = HeadLen
           ELSE p \in {0, 3, 6, 9} /\ p < HeadLen /\ got = <<>> /\ OneLine(h)
        /\ Stages(h, r, n, o, Reply, p)
        /\ p + Left(h, r, n, o) <= Sending
        /\ place["server"] # "dead" => p + Left(h, r, n, o) = Sending
        /\ announced = Known(p) /\ Len(got) <= announced
        /\ place["client"] = "astray" => MaxBuf <= Len(got)
  BY DEF ClientSide, ClientReads, Sent
<1>4. ~shut["server"]
  BY DEF Quiet, Alive, Gone
<1>5. p \in Nat /\ Sending \in Nat
  BY <1>2 DEF Sending
<1>6. CASE UNCHANGED exchangeVars
  <2>1. Onward
    BY <1>5, <1>6 DEF exchangeVars, Onward, Sending, HeadLen
  <2> QED BY <1>6, <2>1, AnswerKept DEF exchangeVars, KeepsAnswer, KeepsFile
<1>7. ASSUME KeepsAnswer, KeepsFile, KeepsPlaces PROVE ClientSide'
  <2>1. Onward
    BY <1>5, <1>7 DEF KeepsFile, KeepsPlaces, Onward, Sending, HeadLen
  <2> QED BY <1>7, <2>1, AnswerKept DEF KeepsPlaces
<1>8. CASE Writen("client")
  <2>1. CASE KeepsPlaces
    BY <1>7, <1>8, <2>1, WritenClient
  <2>2. CASE ClientGoes("dead")
    BY <2>2, AnswerGone DEF ClientGoes, Alive
  <2> QED BY <1>8, <2>1, <2>2, WritenClient
<1>9. CASE Writen("server")
  <2>1. PICK k \in 1..Len(o) : todo'["server"] = SubSeq(o, k + 1, Len(o)) /\ net'["client"] = n \o SubSeq(o, 1, k)
    BY <1>4, <1>9, WritenServer
  <2>2. KeepsPlaces /\ KeepsFile /\ buf'["client"] = buf["client"] /\ rio'["client"] = r
        /\ announced' = announced /\ got' = got
    BY <1>4, <1>9, WritenServer
  <2>3. Sending' = Sending /\ place'["server"] = place["server"]
    BY <2>2 DEF KeepsFile, KeepsPlaces, Sending, HeadLen
  <2>4. h = (IF InBody' THEN got' ELSE buf'["client"]) /\ place'["client"] = place["client"]
        /\ InBody' = InBody
    BY <2>2 DEF KeepsPlaces, Hand, InBody
  <2> DEFINE n1 == n \o SubSeq(o, 1, k)
             o1 == SubSeq(o, k + 1, Len(o))
  <2>5. n1 = net'["client"] /\ o1 = todo'["server"] /\ r = rio'["client"] /\ k \in 0..Len(o)
    BY <2>1, <2>2
  <2> HIDE DEF h, r, n, o
  <2>6. Stages(h, r, n1, o1, Reply, p) /\ Left(h, r, n1, o1) = Left(h, r, n, o)
    BY <1>1, <1>3, <1>5, <2>5, StagesWrite
  <2> HIDE DEF n1, o1
  <2> QED BY <1>3, <2>2, <2>3, <2>4, <2>5, <2>6, AnswerMoves
<1>10. CASE RioFill("client")
  <2>1. PICK k \in 0..Len(n) : rio'["client"] = SubSeq(n, 1, k) /\ net'["client"] = SubSeq(n, k + 1, Len(n))
    BY <1>10, FillClient
  <2>2. KeepsPlaces /\ KeepsFile /\ buf'["client"] = buf["client"] /\ todo'["server"] = o
        /\ announced' = announced /\ got' = got
    BY <1>10, FillClient
  <2>3. Sending' = Sending /\ place'["server"] = place["server"]
    BY <2>2 DEF KeepsFile, KeepsPlaces, Sending, HeadLen
  <2>4. h = (IF InBody' THEN got' ELSE buf'["client"]) /\ place'["client"] = place["client"]
        /\ InBody' = InBody
    BY <2>2 DEF KeepsPlaces, Hand, InBody
  <2> DEFINE r1 == SubSeq(n, 1, k)
             n1 == SubSeq(n, k + 1, Len(n))
  <2>5. r1 = rio'["client"] /\ n1 = net'["client"] /\ o = todo'["server"]
    BY <2>1, <2>2
  <2>6. Stages(h, r, n, o, Reply, p) /\ k \in 0..Len(n) /\ Len(r) = 0
    BY <1>3, <1>10, FillClient DEF InRead
  <2> HIDE DEF h, r, n, o
  <2>7. Stages(h, r1, n1, o, Reply, p)
    BY <1>1, <1>5, <2>6, StagesFill, Zenon
  <2>8. Left(h, r1, n1, o) = Left(h, r, n, o)
    <3>1. Len(r1) = k /\ Len(n1) = Len(n) - k
      BY <1>1, <2>6, CutSeq
    <3> HIDE DEF r1, n1
    <3> QED BY <1>1, <2>6, <3>1 DEF Left
  <2> HIDE DEF r1, n1
  <2> QED BY <1>3, <2>2, <2>3, <2>4, <2>5, <2>7, <2>8, AnswerMoves
<1>11. CASE RioFill("server") \/ RioReadlineb("server")
  BY <1>7, <1>11, FillServer, ByteServer
<1>12. CASE RioReadlineb("client")
  <2>1. place["client"] = "headers" /\ place'["client"] = "headers"
    BY <1>12, ByteClient DEF InLine, Alive, KeepsPlaces
  <2>2. /\ h = buf["client"] /\ r # <<>> /\ KeepsFile /\ KeepsPlaces
        /\ buf'["client"] = Append(h, r[1]) /\ rio'["client"] = Tail(r)
        /\ net'["client"] = n /\ todo'["server"] = o /\ announced' = announced /\ got' = got
    BY <1>12, <2>1, ByteClient DEF Hand, InBody
  <2>3. h = <<>> \/ h[Len(h)] # 10
    BY <1>12, <2>2, ByteClient DEF LineDone, Last, LF
  <2>4. Sending' = Sending /\ place'["server"] = place["server"] /\ ~InBody /\ ~InBody'
    BY <2>1, <2>2 DEF KeepsFile, KeepsPlaces, Sending, HeadLen, InBody
  <2> DEFINE h1 == Append(h, r[1])
             r1 == Tail(r)
  <2>5. /\ h1 = (IF InBody' THEN got' ELSE buf'["client"])
        /\ r1 = rio'["client"] /\ n = net'["client"] /\ o = todo'["server"]
    BY <2>1, <2>2, <2>4
  <2> HIDE DEF h, r, n, o
  <2>6. /\ h1 \in Seq(Bytes) /\ Len(h1) = Len(h) + 1
        /\ Stages(h1, r1, n, o, Reply, p) /\ Left(h1, r1, n, o) = Left(h, r, n, o)
    BY <1>1, <1>3, <1>5, <2>2, StagesByte
  <2>7. OneLine(h1)
    <3>1. ASSUME NEW i \in 1..Len(h1)-1 PROVE h1[i] # 10
      <4>1. i \in 1..Len(h)
        BY <1>1, <2>6, <3>1
      <4>2. h1[i] = h[i]
        BY <1>1, <4>1
      <4>3. i = Len(h) => h[i] # 10
        BY <1>1, <2>3, <4>1
      <4>4. i # Len(h) => h[i] # 10
        BY <1>1, <1>3, <2>4, <4>1 DEF OneLine, LF
      <4> QED BY <4>2, <4>3, <4>4
    <3> QED BY <3>1 DEF OneLine, LF
  <2>8. KeepsFile /\ announced' = announced /\ got' = got
    BY <2>2
  <2> HIDE DEF h1, r1
  <2> QED BY <1>3, <2>1, <2>4, <2>5, <2>6, <2>7, <2>8, AnswerMoves
<1>13. ASSUME ReplyStarts, Receiving PROVE ClientSide'
  <2>1. Sending = 0 /\ Sending' = HeadLen
    BY <1>13 DEF Sending, Receiving, ReplyStarts, ServerGoes, KeepsFile, HeadLen
  <2>2. p = 0 /\ Len(h) = 0 /\ Len(r) = 0 /\ Len(n) = 0 /\ Len(o) = 0
    <3> HIDE DEF h, r, n, o
    <3>1. p + (Len(h) + Len(r) + Len(n) + Len(o)) = 0
      BY <1>3, <1>13, <2>1 DEF Left, Receiving
    <3> QED BY <1>1, <1>5, <3>1
  <2>3. ~InBody /\ ~InBody' /\ place'["client"] = place["client"] /\ place["client"] # "astray"
    BY <1>2, <1>3, <1>13, <2>2 DEF ReplyStarts, ServerGoes, InBody
  <2> DEFINE o1 == ResponseHead(answer, length)
  <2>4. /\ h = (IF InBody' THEN got' ELSE buf'["client"])
        /\ r = rio'["client"] /\ n = net'["client"] /\ o1 = todo'["server"]
        /\ KeepsFile /\ announced' = announced /\ got' = got
    BY <1>13, <2>3 DEF ReplyStarts, Hand
  <2>5. o1 \in Seq(Bytes) /\ Len(o1) = HeadLen
    <3>1. 0 \in {0, 3, 6, 9} /\ 0 < HeadLen
      BY <1>2
    <3> QED BY <1>2, <3>1, HeadLines
  <2>6. Fits(o1, Reply, 0)
    <3>1. ASSUME NEW i \in 1..Len(o1) PROVE o1[i] \in Reply[0 + i]
      <4>1. i \in 1..HeadLen+length /\ i <= HeadLen /\ 0 + i = i
        BY <1>2, <2>5, <3>1
      <4> QED BY <4>1 DEF Reply
    <3> QED BY <3>1 DEF Fits
  <2>7. Stages(h, r, n, o, Reply, 0)
    BY <1>3, <2>2
  <2> HIDE DEF h, r, n, o, o1
  <2>8. Left(h, r, n, o) = 0 /\ 0 + Left(h, r, n, o) = 0
    BY <2>2 DEF Left
  <2>9. h \in Seq(Bytes) /\ r \in Seq(Bytes) /\ n \in Seq(Bytes) /\ o \in Seq(Bytes)
        /\ 0 \in Nat /\ Len(o) = 0
    BY <1>1, <2>2
  <2>10. Stages(h, r, n, o1, Reply, 0)
    BY <2>5, <2>6, <2>7, <2>8, <2>9, StagesPut, Zenon
  <2>11. 0 + Left(h, r, n, o1) = Sending'
    BY <1>1, <1>2, <2>1, <2>2, <2>5 DEF Left
  <2>12. 0 \in 0..11 /\ 0 \in {0, 3, 6, 9} /\ 0 < HeadLen /\ got' = <<>> /\ OneLine(h)
    BY <1>2, <1>3, <2>2, <2>3, <2>4
  <2>13. announced' = Known(0) /\ Len(got') <= announced'
    BY <1>3, <2>2, <2>4
  <2>14. 0 + Left(h, r, n, o1) <= Sending'
    BY <1>2, <2>1, <2>11
  <2> QED BY <2>3, <2>4, <2>10, <2>11, <2>12, <2>13, <2>14, AnswerMoves
<1>14. CASE ServerLine
  <2>1. CASE ReplyStarts
    BY <1>13, <1>14, <2>1, ServerLineEffect DEF Receiving, InLine
  <2>2. CASE KeepsFile /\ KeepsAnswer /\ ServerGoes("headers")
    <3>1. Onward
      BY <1>14, <2>2, ServerLineEffect DEF Onward, Sending, ServerGoes, InLine
    <3> QED BY <2>2, <3>1, AnswerKept DEF ServerGoes
  <2> QED BY <1>14, <2>1, <2>2, ServerLineEffect
<1>15. CASE ServerEof
  BY <1>4, <1>15, ServerEofEffect
<1>16. CASE ServerBody
  <2>1. Sending = HeadLen /\ Len(o) = 0
    BY <1>16, ServerBodyEffect DEF Sending
  <2>2. CASE ServerGoes("dead") /\ todo'["server"] = todo["server"]
    <3>1. Onward
      <4>1. HeadLen' = HeadLen /\ length' = length /\ Sending' = HeadLen + length
        BY <1>16, <2>2, ServerBodyEffect DEF Sending, HeadLen, ServerGoes, KeepsFile
      <4> QED BY <1>2, <2>1, <2>2, <4>1 DEF Onward, ServerGoes
    <3> QED BY <1>16, <2>2, <3>1, ServerBodyEffect, AnswerKept DEF ServerGoes, KeepsAnswer
  <2>3. CASE (ServerGoes("cgi") \/ ServerGoes("body")) /\ todo'["server"] = Body
    <3> DEFINE o1 == Body
    <3>1. Sending' = HeadLen + length /\ place'["client"] = place["client"] /\ InBody' = InBody
      BY <1>16, <2>3, ServerBodyEffect DEF Sending, HeadLen, ServerGoes, KeepsFile, InBody
    <3>2. /\ h = (IF InBody' THEN got' ELSE buf'["client"])
          /\ r = rio'["client"] /\ n = net'["client"] /\ o1 = todo'["server"]
          /\ KeepsFile /\ announced' = announced /\ got' = got
      BY <1>16, <2>3, <3>1, ServerBodyEffect DEF Hand
    <3>3. o1 \in Seq(Bytes) /\ Len(o1) = length /\ Fits(o1, Reply, HeadLen)
      BY <1>2, BodyBytes
    <3>4. p + Left(h, r, n, o) = HeadLen /\ Stages(h, r, n, o, Reply, p)
      BY <1>3, <1>16, <2>1, ServerBodyEffect
    <3> HIDE DEF h, r, n, o, o1
    <3>5. Stages(h, r, n, o1, Reply, p)
      BY <1>1, <1>5, <2>1, <3>3, <3>4, StagesPut, Zenon
    <3>6. p + Left(h, r, n, o1) = Sending'
      <4>1. p + (Len(h) + Len(r) + Len(n) + Len(o)) = HeadLen
        BY <3>4 DEF Left
      <4>2. p + (Len(h) + Len(r) + Len(n) + Len(o1)) = HeadLen + length
        BY <1>1, <1>2, <1>5, <2>1, <3>3, <4>1
      <4> QED BY <3>1, <4>2 DEF Left
    <3>7. p + Left(h, r, n, o1) <= Sending'
      BY <1>2, <3>1, <3>6
    <3> QED BY <1>3, <3>1, <3>2, <3>5, <3>6, <3>7, AnswerMoves
  <2> QED BY <1>16, <2>2, <2>3, ServerBodyEffect
<1>17. CASE ServerClose
  <2>1. Onward
    BY <1>5, <1>17, ServerCloseEffect DEF Onward, Sending, HeadLen, ServerGoes, KeepsFile
  <2> QED BY <1>17, <2>1, ServerCloseEffect, AnswerKept DEF ServerGoes
<1>18. ASSUME ClientGoes(place'["client"]), KeepsFile
       PROVE  Sending' = Sending /\ place'["server"] = place["server"]
  BY <1>18 DEF ClientGoes, KeepsFile, Sending, HeadLen
<1>19. CASE ClientSent
  <2>1. /\ h = buf'["client"] /\ place["client"] = "send" /\ place'["client"] = "headers"
        /\ ~InBody /\ ~InBody'
    BY <1>19, ClientSentEffect DEF Quiet, Hand, ClientGoes, InBody
  <2>2. /\ r = rio'["client"] /\ n = net'["client"] /\ o = todo'["server"]
        /\ KeepsFile /\ announced' = announced /\ got' = got
    BY <1>19, ClientSentEffect
  <2>3. Sending' = Sending /\ place'["server"] = place["server"]
    BY <1>18, <1>19, ClientSentEffect DEF ClientGoes
  <2>4. /\ h = (IF InBody' THEN got' ELSE buf'["client"])
        /\ p \in {0, 3, 6, 9} /\ p < HeadLen /\ got' = <<>> /\ OneLine(h)
    BY <1>3, <2>1, <2>2
  <2> HIDE DEF h, r, n, o
  <2> QED BY <1>3, <2>1, <2>2, <2>3, <2>4, AnswerMoves
<1>20. CASE ClientLine
  <2>1. place["client"] = "headers" /\ h = buf["client"] /\ ~InBody
    BY <1>20, ClientLineEffect DEF Hand, InBody
  <2>2. /\ r = rio'["client"] /\ n = net'["client"] /\ o = todo'["server"]
        /\ KeepsFile /\ got' = got /\ buf'["client"] = <<>>
        /\ place'["client"] = IF h = BlankLine THEN "body" ELSE "headers"
        /\ InBody' <=> h = BlankLine
        /\ announced' = IF h[1] > 100 THEN h[1] - 100 ELSE announced
    BY <1>20, <2>1, ClientLineEffect DEF ClientGoes, InBody
  <2>3. Sending' = Sending /\ place'["server"] = place["server"]
    BY <1>18, <1>20, ClientLineEffect DEF ClientGoes
  <2>4. h # <<>> /\ (h[Len(h)] = 10 \/ Len(h) = MaxBuf - 1)
    BY <1>20, <2>1, ClientLineEffect DEF LineDone, Last, LineLimit, LF
  <2>5. Sending <= HeadLen + length /\ MaxBuf - 1 >= 5
    BY <1>2, ExchangeSizes DEF Sending
  <2> DEFINE q == p + Len(h)
             h1 == <<>>
  <2> HIDE DEF h, r, n, o
  <2>6. q <= HeadLen + length
    <3>1. p + (Len(h) + Len(r) + Len(n) + Len(o)) <= Sending
      BY <1>3 DEF Left
    <3>2. Sending \in Nat
      BY <1>2 DEF Sending
    <3> QED BY <1>1, <1>2, <1>5, <2>5, <3>1, <3>2
  <2>7. /\ p \in {0, 3, 6, 9} /\ p < HeadLen /\ got = <<>> /\ OneLine(h) /\ Fits(h, Reply, p)
        /\ announced = Known(p)
    BY <1>3, <2>1 DEF Stages
  <2>8. /\ Len(h) <= 3
        /\ h[Len(h)] = 10 =>
              /\ h = BlankLine => q = HeadLen
              /\ h # BlankLine => q \in {3, 6, 9} /\ q < HeadLen
              /\ (IF h[1] > 100 THEN h[1] - 100 ELSE Known(p)) = Known(q)
    BY <1>1, <1>2, <2>4, <2>6, <2>7, PieceOfHead
  <2>9. h[Len(h)] = 10
    BY <1>1, <2>4, <2>5, <2>8
  <2>10. Stages(h1, r, n, o, Reply, q) /\ Left(h, r, n, o) = Len(h) + Left(h1, r, n, o)
    BY <1>1, <1>3, <1>5, StagesNext
  <2>11. /\ q + Left(h1, r, n, o) <= Sending'
         /\ place'["server"] # "dead" => q + Left(h1, r, n, o) = Sending'
    <3>1. Left(h1, r, n, o) \in Nat /\ Left(h, r, n, o) \in Nat
      BY <1>1 DEF Left
    <3>2. q + Left(h1, r, n, o) = p + Left(h, r, n, o)
      BY <1>1, <1>5, <2>10, <3>1
    <3> QED BY <1>3, <2>3, <3>2
  <2>12. announced' = Known(q) /\ Len(got') <= announced'
    <3>1. announced' = Known(q)
      BY <2>2, <2>7, <2>8, <2>9
    <3>2. Known(q) \in Nat /\ Len(got') = 0
      BY <1>2, <2>2, <2>7 DEF Known
    <3> QED BY <3>1, <3>2
  <2>13. /\ h1 = (IF InBody' THEN got' ELSE buf'["client"])
         /\ IF InBody' THEN q = HeadLen
            ELSE q \in {0, 3, 6, 9} /\ q < HeadLen /\ got' = <<>> /\ OneLine(h1)
    <3>1. OneLine(h1)
      BY DEF OneLine
    <3> QED BY <2>2, <2>7, <2>8, <2>9, <3>1
  <2>14. q \in 0..11
    BY <1>1, <1>2, <1>5, <2>8, <2>9
  <2>15. place'["client"] # "astray"
    BY <2>2
  <2> HIDE DEF q, h1
  <2> QED BY <2>2, <2>10, <2>11, <2>12, <2>13, <2>14, <2>15, AnswerMoves
<1>21. CASE ClientBody
  <2>1. PICK k \in 0..Len(r) :
          /\ Len(got) + k <= announced /\ got' = got \o SubSeq(r, 1, k)
          /\ rio'["client"] = SubSeq(r, k + 1, Len(r))
          /\ place["client"] = "body" /\ place'["client"] = "astray" => MaxBuf <= Len(got) + k
    BY <1>21, ClientBodyEffect
  <2>2. /\ InBody /\ InBody' /\ h = got /\ place["client"] \in {"body", "astray"}
        /\ net'["client"] = n /\ todo'["server"] = o /\ announced' = announced /\ KeepsFile
        /\ ClientGoes(place'["client"])
    BY <1>21, ClientBodyEffect DEF ClientGoes, Hand, InBody
  <2>3. Sending' = Sending /\ place'["server"] = place["server"]
    BY <1>18, <2>2
  <2> DEFINE h1 == h \o SubSeq(r, 1, k)
             r1 == SubSeq(r, k + 1, Len(r))
  <2>4. /\ h1 = got' /\ r1 = rio'["client"] /\ n = net'["client"] /\ o = todo'["server"]
        /\ k \in 0..Len(r) /\ Len(h) + k <= announced
    BY <2>1, <2>2
  <2>5. place'["client"] = "astray" => MaxBuf <= Len(h) + k
    <3>1. Len(got) \in Nat /\ MaxBuf \in Nat
      BY ExchangeAssumption DEF ExchangeTypes
    <3>2. place["client"] = "astray" => MaxBuf <= Len(got)
      BY <1>3
    <3> QED BY <2>1, <2>2, <3>1, <3>2
  <2> HIDE DEF h, r, n, o
  <2>6. /\ Len(h1) = Len(h) + k
        /\ Stages(h1, r1, n, o, Reply, p) /\ Left(h1, r1, n, o) = Left(h, r, n, o)
    BY <1>1, <1>3, <1>5, <2>4, StagesTake
  <2>7. Len(got') <= announced' /\ (place'["client"] = "astray" => MaxBuf <= Len(got'))
    BY <2>2, <2>4, <2>5, <2>6
  <2>8. h1 = (IF InBody' THEN got' ELSE buf'["client"]) /\ p = HeadLen
    BY <1>3, <2>2, <2>4
  <2> HIDE DEF h1, r1
  <2> QED BY <1>3, <2>2, <2>3, <2>4, <2>6, <2>7, <2>8, AnswerMoves
<1>22. CASE ClientDone \/ ClientKilled \/ ClientAstray \/ ClientReset
  BY <1>22, ClientDoneEffect, ClientKilledEffect, ClientAstrayEffect, ClientResetEffect, AnswerGone
     DEF ClientGoes, Alive
<1>23. CASE FileShrinks
  <2>1. /\ file' = file - 1 /\ answer' = answer /\ length' = length
        /\ KeepsAnswer /\ KeepsPlaces
    BY <1>23, FileShrinksEffect
  <2>2. Sending' = Sending /\ HeadLen' = HeadLen /\ Hand' = h /\ Known(p)' = Known(p)
    BY <2>1 DEF Sending, HeadLen, KeepsPlaces, KeepsAnswer, Hand, InBody, Known
  <2> DEFINE V == Reply'
             d == HeadLen + length
  <2>3. \A i \in 1..d : Reply[i] \subseteq V[i]
    <3> SUFFICES ASSUME NEW i \in 1..d PROVE Reply[i] \subseteq V[i]
      OBVIOUS
    <3>1. i - HeadLen > file => i - HeadLen > file - 1
      BY <1>2
    <3>2. V[i] = (IF i <= HeadLen THEN {ResponseHead(answer, length)[i]}
                  ELSE {20 + (i - HeadLen)} \cup (IF i - HeadLen > file - 1 THEN {Junk} ELSE {}))
      BY <2>1, <2>2 DEF Reply
    <3>3. Reply[i] = (IF i <= HeadLen THEN {ResponseHead(answer, length)[i]}
                  ELSE {20 + (i - HeadLen)} \cup (IF i - HeadLen > file THEN {Junk} ELSE {}))
      BY DEF Reply
    <3> HIDE DEF V, d
    <3> QED BY <3>1, <3>2, <3>3, Zenon
  <2>4. Sending <= d /\ d \in Nat
    BY <1>2 DEF Sending
  <2> HIDE DEF V, d, h, r, n, o
  <2>5. Stages(h, r, n, o, V, p)
    <3>1. Left(h, r, n, o) \in Nat
      BY <1>1 DEF Left
    <3>2. p + Left(h, r, n, o) <= d
      BY <1>3, <1>5, <2>4, <3>1
    <3> QED BY <1>1, <1>3, <1>5, <2>3, <2>4, <3>2, StagesWider
  <2> USE DEF V, h, r, n, o
  <2>6. ClientReads(p)'
    BY <1>3, <2>1, <2>2, <2>5 DEF ClientReads, KeepsAnswer, KeepsPlaces, Sent, InBody
  <2> QED BY <2>6 DEF ClientSide
<1>24. ASSUME NEW e \in Ends, Interrupted(e) PROVE ClientSide'
  BY <1>6, <1>24 DEF Interrupted
<1>25. CASE ServerDies
  <2>1. /\ place'["client"] = place["client"] /\ place'["server"] = "dead" /\ place["server"] # "dead"
        /\ InBody' = InBody /\ KeepsFile /\ announced' = announced /\ got' = got
    BY <1>25, ServerDiesEffect DEF ServerGoes, InBody
  <2> DEFINE o1 == <<>>
  <2>2. /\ h = (IF InBody' THEN got' ELSE buf'["client"])
        /\ r = rio'["client"] /\ n = net'["client"] /\ o1 = todo'["server"]
    BY <1>25, <2>1, ServerDiesEffect DEF Hand
  <2>3. Sending <= Sending' /\ Sending' \in Nat
    <3>1. Sending' = HeadLen + length
      BY <2>1 DEF Sending, HeadLen, KeepsFile
    <3>2. Sending \in {0, HeadLen, HeadLen + length}
      BY DEF Sending
    <3> QED BY <1>2, <3>1, <3>2
  <2> HIDE DEF h, r, n, o
  <2>4. Stages(h, r, n, o1, Reply, p) /\ Left(h, r, n, o1) <= Left(h, r, n, o)
    BY <1>1, <1>3, <1>5, StagesDrop
  <2>5. p + Left(h, r, n, o1) <= Sending'
    <3>1. Left(h, r, n, o) \in Nat /\ Left(h, r, n, o1) \in Nat
      BY <1>1 DEF Left
    <3> QED BY <1>3, <1>5, <2>3, <2>4, <3>1
  <2> HIDE DEF o1
  <2> QED BY <1>3, <2>1, <2>2, <2>4, <2>5, AnswerMoves
<1> QED
  BY <1>6, <1>8, <1>9, <1>10, <1>11, <1>12, <1>14, <1>15, <1>16, <1>17, <1>19, <1>20, <1>21, <1>22, <1>23, <1>24,
     <1>25
     DEF ExchangeNext, ServerStep, ClientStep, RioStep
-----------------------------------------------------------------------------
(* A client that has left stays as it is; only the file may still change.  *)
StaysGone ==
  /\ place'["client"] = place["client"] /\ announced' = announced /\ got' = got
  /\ answer' = answer /\ length' = length /\ (file' = file \/ (file > -1 /\ file' = file - 1))
  /\ place["server"] = "dead" => place'["server"] = "dead"

(* No step brings back a client that has left. *)
LEMMA ClientStaysGone ==
  ASSUME ExchangeTypes, Quiet, place["client"] \notin Alive, [ExchangeNext]_exchangeVars
  PROVE  StaysGone
<1>0. place["client"] \in {"done", "misled", "dead"} /\ todo["client"] = <<>>
  BY DEF Quiet, Alive, Gone
<1> USE DEF StaysGone
<1>1. CASE UNCHANGED exchangeVars
  BY <1>1 DEF exchangeVars
<1>2. CASE Writen("client")
  BY <1>0, <1>2, WritenClient
<1>3. CASE Writen("server")
  BY <1>3, WritenServer DEF Quiet, KeepsFile, KeepsPlaces, ServerGoes
<1>4. CASE RioFill("client") \/ RioFill("server")
  BY <1>4, FillClient, FillServer DEF KeepsFile, KeepsPlaces, KeepsAnswer
<1>5. CASE RioReadlineb("client") \/ RioReadlineb("server")
  BY <1>5, ByteClient, ByteServer DEF KeepsFile, KeepsPlaces, KeepsAnswer
<1>6. CASE ServerLine
  BY <1>6, ServerLineEffect DEF InLine, ReplyStarts, KeepsFile, KeepsAnswer, ServerGoes
<1>7. CASE ServerEof
  BY <1>7, ServerEofEffect DEF InLine, ReplyStarts, KeepsFile, KeepsAnswer, ServerGoes
<1>8. CASE ServerBody
  BY <1>8, ServerBodyEffect DEF KeepsFile, ServerGoes
<1>9. CASE ServerClose
  BY <1>9, ServerCloseEffect DEF KeepsFile, KeepsAnswer, ServerGoes
<1>10. CASE ClientSent \/ ClientLine \/ ClientBody
  BY <1>0, <1>10, ClientSentEffect, ClientLineEffect, ClientBodyEffect
<1>11. CASE ClientDone
  BY <1>0, <1>11, ClientDoneEffect DEF AtEof, InRead, InLine
<1>12. CASE ClientKilled
  BY <1>0, <1>12, ClientKilledEffect DEF Gone
<1>15. CASE ClientAstray \/ ClientReset
  BY <1>0, <1>15, ClientAstrayEffect, ClientResetEffect DEF InRead, InLine
<1>16. CASE ServerDies
  BY <1>16, ServerDiesEffect DEF KeepsFile, ServerGoes
<1>13. CASE FileShrinks
  BY <1>13, FileShrinksEffect DEF KeepsPlaces, KeepsAnswer
<1>14. ASSUME NEW e \in Ends, Interrupted(e) PROVE StaysGone
  BY <1>1, <1>14 DEF Interrupted
<1> QED
  BY <1>1, <1>2, <1>3, <1>4, <1>5, <1>6, <1>7, <1>8, <1>9, <1>10, <1>11, <1>12, <1>13, <1>14, <1>15, <1>16
     DEF ExchangeNext, ServerStep, ClientStep, RioStep

(* Only the steps that end the client make it done or misled. *)
LEMMA ClientGetsDone ==
  ASSUME ExchangeTypes, Quiet, place["client"] \in Alive, [ExchangeNext]_exchangeVars,
         place'["client"] \in {"done", "misled"}
  PROVE  ClientDone \/ ClientAstray
<1>0. place["client"] \notin {"done", "misled"}
  BY DEF Alive
<1>1. CASE UNCHANGED exchangeVars
  BY <1>0, <1>1 DEF exchangeVars
<1>2. CASE Writen("client") \/ Writen("server")
  BY <1>0, <1>2, WritenClient, WritenServer DEF KeepsPlaces, ClientGoes, ServerGoes
<1>3. CASE RioFill("client") \/ RioFill("server")
  BY <1>0, <1>3, FillClient, FillServer DEF KeepsPlaces
<1>4. CASE RioReadlineb("client") \/ RioReadlineb("server")
  BY <1>0, <1>4, ByteClient, ByteServer DEF KeepsPlaces
<1>5. CASE ServerLine \/ ServerEof
  BY <1>0, <1>5, ServerLineEffect, ServerEofEffect DEF ReplyStarts, ServerGoes
<1>6. CASE ServerBody \/ ServerClose \/ ServerDies
  BY <1>0, <1>6, ServerBodyEffect, ServerCloseEffect, ServerDiesEffect DEF ServerGoes
<1>7. CASE ClientSent \/ ClientLine \/ ClientBody \/ ClientKilled \/ ClientReset
  BY <1>0, <1>7, ClientSentEffect, ClientLineEffect, ClientBodyEffect, ClientKilledEffect,
     ClientResetEffect DEF ClientGoes
<1>8. CASE FileShrinks
  BY <1>0, <1>8, FileShrinksEffect DEF KeepsPlaces
<1>9. ASSUME NEW e \in Ends, Interrupted(e) PROVE FALSE
  BY <1>0, <1>9 DEF Interrupted, exchangeVars
<1> QED
  BY <1>1, <1>2, <1>3, <1>4, <1>5, <1>6, <1>7, <1>8, <1>9
     DEF ExchangeNext, ServerStep, ClientStep, RioStep

(* What a client that ends has: its part of the body is right, and whole   *)
(* unless the server is dead. The end of the connection cuts a header or a *)
(* body short only then.                                                   *)
LEMMA ExactWhenDone ==
  ASSUME ExchangeTypes, Quiet, ClientSide, place["client"] \in Alive, ClientDone \/ ClientAstray
  PROVE  ResponseExact'
<1> DEFINE h == Hand
           r == rio["client"]
           n == net["client"]
           o == todo["server"]
           whole == IF answer = "dynamic" THEN 0 ELSE length
<1>0. Ends = {"client", "server"}
  BY DEF Ends
<1>1. /\ h \in Seq(Bytes) /\ r \in Seq(Bytes) /\ n \in Seq(Bytes) /\ o \in Seq(Bytes)
      /\ Len(h) \in Nat /\ Len(r) \in Nat /\ Len(n) \in Nat /\ Len(o) \in Nat
      /\ got \in Seq(Bytes) /\ Len(got) \in Nat /\ announced \in Nat
  BY <1>0 DEF ExchangeTypes, Hand
<1>2. /\ answer \in AnswerKinds /\ length \in Nat /\ file \in -1..length /\ HeadLen \in {8, 11}
      /\ whole \in Nat /\ whole <= length
  BY DEF ExchangeTypes, HeadLen
<1>3. PICK p \in 0..11 :
        /\ IF InBody THEN p = HeadLen
           ELSE p \in {0, 3, 6, 9} /\ p < HeadLen /\ got = <<>> /\ OneLine(h)
        /\ Stages(h, r, n, o, Reply, p)
        /\ p + Left(h, r, n, o) <= Sending
        /\ place["server"] # "dead" => p + Left(h, r, n, o) = Sending
        /\ announced = Known(p) /\ Len(got) <= announced
        /\ place["client"] = "astray" => MaxBuf <= Len(got)
  BY DEF ClientSide, ClientReads, Sent
<1>4. Known(HeadLen) = whole /\ Known(p) <= whole /\ announced <= whole
  BY <1>2, <1>3 DEF Known, HeadLen
<1>5. /\ place'["server"] = place["server"] /\ answer' = answer /\ length' = length /\ file' = file
      /\ got' = got
  BY ClientDoneEffect, ClientAstrayEffect DEF KeepsFile, ClientGoes
<1> HIDE DEF whole
<1>6. ASSUME InBody
      PROVE  announced = whole /\ h = got /\ p = HeadLen /\ Fits(got, Reply, HeadLen)
  BY <1>3, <1>4, <1>6 DEF Hand, Stages
<1>7. ASSUME AtEof("client")
      PROVE  /\ p + Len(h) <= Sending /\ Len(r) = 0 /\ Len(n) = 0 /\ Len(o) = 0
             /\ place["server"] # "dead" => place["server"] = "closed" /\ p + Len(h) = Sending
             /\ \/ place["client"] = "headers" /\ ~LineDone("client") /\ ~InBody
                \/ place["client"] = "body" /\ Len(got) < announced /\ InBody
  <2>1. /\ Len(r) = 0 /\ Len(n) = 0 /\ shut["client"]
        /\ \/ place["client"] = "headers" /\ ~LineDone("client") /\ ~InBody
           \/ place["client"] = "body" /\ Len(got) < announced /\ InBody
    BY <1>7 DEF AtEof, InRead, InLine, InBody, Alive
  <2>2. place["server"] \in {"closed", "dead"} /\ Len(o) = 0
    BY <2>1 DEF Quiet
  <2> HIDE DEF h, r, n, o
  <2>3. Left(h, r, n, o) = Len(h)
    BY <1>1, <2>1, <2>2 DEF Left
  <2> QED BY <1>3, <2>1, <2>2, <2>3
<1>8. ASSUME AtEof("client"), ~InBody
      PROVE  /\ place["server"] = "dead" /\ got = <<>>
             /\ buf["client"] # <<>> /\ buf["client"][1] > 100 => buf["client"][1] - 100 = whole
  <2>1. place["client"] = "headers" /\ ~LineDone("client") /\ h = buf["client"]
    BY <1>7, <1>8 DEF Hand
  <2>2. h = <<>> \/ h[Len(h)] # 10
    BY <2>1 DEF LineDone, Last, LF
  <2>3. p + Len(h) <= Sending /\ Sending <= HeadLen + length /\ Sending \in Nat
    BY <1>2, <1>7, <1>8 DEF Sending
  <2>4. p \in {0, 3, 6, 9} /\ p < HeadLen /\ OneLine(h) /\ Fits(h, Reply, p) /\ got = <<>>
    BY <1>3, <1>8 DEF Stages
  <2>5. place["server"] # "dead" => p + Len(h) = Sending /\ Sending = HeadLen + length
    BY <1>7, <1>8 DEF Sending
  <2> HIDE DEF h, r, n, o
  <2>6. p + Len(h) <= HeadLen + length /\ p + Len(h) \in Nat
    BY <1>1, <1>2, <2>3
  <2>7. p + Len(h) < HeadLen
    BY <1>1, <1>2, <2>2, <2>4, <2>6, PieceOfHead
  <2>8. place["server"] = "dead"
    BY <1>2, <2>5, <2>6, <2>7
  <2>9. ASSUME h # <<>>, h[1] > 100 PROVE h[1] - 100 = whole
    <3>1. p + 1 \in 1..HeadLen /\ p + 1 \in 1..HeadLen+length /\ 1 \in 1..Len(h)
      BY <1>1, <1>2, <2>4, <2>9
    <3>2. Reply[p + 1] = {HeadByte(p + 1)}
      BY <1>2, <3>1 DEF Reply, HeadByte
    <3>3. h[1] = HeadByte(p + 1)
      BY <2>4, <3>1, <3>2 DEF Fits
    <3>4. /\ HeadByte(p + 1) \in Nat
          /\ HeadByte(p + 1) > 100 => HeadByte(p + 1) - 100 = Known(p + HeadWidth(p))
      BY <1>2, <2>4, HeadLines
    <3>5. Known(p + HeadWidth(p)) \in {0, whole}
      BY DEF Known, whole
    <3> QED BY <1>2, <2>9, <3>3, <3>4, <3>5
  <2> QED BY <2>1, <2>4, <2>8, <2>9
<1>9. Len(got) <= announced' /\ announced' <= whole /\ (got # <<>> => announced' = whole)
  <2>1. CASE InBody
    <3>1. announced' = announced
      BY <2>1, ClientDoneEffect, ClientAstrayEffect DEF InBody
    <3> QED BY <1>2, <1>3, <1>6, <2>1, <3>1
  <2>2. CASE ~InBody
    <3>1. ClientDone /\ AtEof("client")
      BY <2>2, ClientDoneEffect, ClientAstrayEffect DEF InBody
    <3>2. got = <<>> /\ Len(got) = 0
      BY <1>8, <2>2, <3>1
    <3>3. CASE announced' = announced
      BY <1>1, <1>4, <3>2, <3>3
    <3>4. CASE buf["client"] # <<>> /\ buf["client"][1] > 100 /\ announced' \in 0..buf["client"][1] - 100
      BY <1>2, <1>8, <2>2, <3>1, <3>2, <3>4
    <3> QED BY <3>1, <3>3, <3>4, ClientDoneEffect
  <2> QED BY <2>1, <2>2
<1>10. ASSUME ClientDone, place["server"] # "dead" PROVE Len(got) = whole
  <2>1. CASE AtEof("client")
    <3>1. InBody /\ Len(got) < announced
      BY <1>7, <1>8, <1>10, <2>1
    <3>2. HeadLen + Len(got) = Sending /\ place["server"] = "closed"
      BY <1>6, <1>7, <1>10, <2>1, <3>1
    <3>3. HeadLen + Len(got) = HeadLen + length
      BY <3>2 DEF Sending
    <3> QED BY <1>1, <1>2, <1>6, <3>1, <3>3
  <2>2. CASE ~AtEof("client")
    <3>1. InBody /\ Len(got) = announced
      BY <1>10, <2>2, ClientDoneEffect DEF InBody
    <3> QED BY <1>6, <3>1
  <2> QED BY <2>1, <2>2
<1>11. ASSUME NEW i \in 1..Len(got)
      PROVE  got[i] = Content(length)[i] \/ (got[i] = Junk /\ i > file)
  <2>0. InBody
    BY <1>3, <1>11
  <2>1. got[i] \in Reply[HeadLen + i]
    BY <1>6, <2>0 DEF Fits
  <2>2. i \in 1..length
    BY <1>1, <1>2, <1>3, <1>6, <2>0
  <2>3. HeadLen + i \in 1..HeadLen+length /\ ~(HeadLen + i <= HeadLen) /\ (HeadLen + i) - HeadLen = i
    BY <1>2, <2>2
  <2>4. Reply[HeadLen + i] = {20 + i} \cup (IF i > file THEN {Junk} ELSE {})
    BY <2>3 DEF Reply
  <2>5. Content(length)[i] = 20 + i
    BY <2>2 DEF Content
  <2> QED BY <2>1, <2>4, <2>5
<1>12. DOMAIN got = 1..Len(got)
  BY <1>1
<1>13. CASE ClientDone
  <2>1. place'["client"] = "done"
    BY <1>13, ClientDoneEffect DEF ClientGoes
  <2> QED BY <1>5, <1>9, <1>10, <1>11, <1>12, <1>13, <2>1 DEF ResponseExact, Content, whole
<1>14. CASE ClientAstray
  <2>1. place'["client"] = "misled" /\ place["client"] = "astray" /\ Len(got) < announced
    BY <1>14, ClientAstrayEffect DEF ClientGoes
  <2>2. MaxBuf < length
    <3>1. MaxBuf \in Nat
      BY ExchangeAssumption
    <3> QED BY <1>1, <1>2, <1>3, <1>4, <2>1, <3>1
  <2> QED BY <1>5, <1>9, <1>11, <1>12, <2>1, <2>2 DEF ResponseExact, Content, whole
<1> QED BY <1>13, <1>14

(* What the client has when it ends, it keeps; a file that shrinks later   *)
(* only allows more, and so does a server that dies.                       *)
LEMMA ResponseExactStep ==
  ASSUME ExchangeTypes, Quiet, ClientSide, ResponseExact, [ExchangeNext]_exchangeVars
  PROVE  ResponseExact'
<1>1. CASE place["client"] \in Alive
  <2>1. CASE place'["client"] \in {"done", "misled"}
    BY <1>1, <2>1, ClientGetsDone, ExactWhenDone
  <2> QED BY <2>1 DEF ResponseExact
<1>2. CASE place["client"] \notin Alive
  <2>1. StaysGone
    BY <1>2, ClientStaysGone
  <2>2. length \in Nat /\ file \in -1..length /\ got \in Seq(Bytes) /\ DOMAIN got = 1..Len(got)
    BY DEF ExchangeTypes
  <2>3. file' <= file
    BY <2>1, <2>2 DEF StaysGone
  <2>4. \A i \in 1..Len(got) : i > file => i > file'
    BY <2>1, <2>2, <2>3 DEF StaysGone
  <2> QED BY <2>1, <2>2, <2>4 DEF StaysGone, ResponseExact, Content
<1> QED BY <1>1, <1>2
-----------------------------------------------------------------------------
(* A new connection: the request is still to be written, the answer not    *)
(* begun.                                                                  *)
LEMMA ExchangeStarts ==
  ASSUME ExchangeInit
  PROVE  ExchangeInv
<1>0. Ends = {"client", "server"} /\ "client" \in Ends /\ "server" \in Ends
  BY DEF Ends
<1>1. PICK t \in TextLens : todo = [client |-> Request(t), server |-> <<>>]
  BY DEF ExchangeInit, Request
<1>2. t \in Nat
  BY ExchangeSizes
<1>3. Request(t) \in Seq(Bytes) /\ Len(Request(t)) = t + 7
  BY <1>2, RequestBytes
<1>4. /\ answer \in AnswerKinds /\ length \in BodyLens /\ length \in Nat /\ file = length
      /\ announced = 0 /\ got = <<>>
  BY ExchangeSizes DEF ExchangeInit
<1>5. place = [client |-> "send", server |-> "request"]
  BY DEF ExchangeInit
<1>6. /\ net = [e \in Ends |-> <<>>] /\ shut = [e \in Ends |-> FALSE]
      /\ rio = [e \in Ends |-> <<>>] /\ buf = [e \in Ends |-> <<>>]
  BY DEF ExchangeInit
<1>7. /\ place["client"] = "send" /\ place["server"] = "request"
      /\ todo["client"] = Request(t) /\ todo["server"] = <<>>
  BY <1>1, <1>5
<1>8. \A e \in {"client", "server"} : /\ net[e] = <<>> /\ shut[e] = FALSE
                                      /\ rio[e] = <<>> /\ buf[e] = <<>>
  BY <1>0, <1>6
<1>9. ExchangeTypes
  <2>1. place \in [Ends -> Positions]
    BY <1>0, <1>5 DEF Positions
  <2>2. todo \in [Ends -> Seq(Bytes)]
    <3>1. ASSUME NEW S, NEW x \in S, NEW y \in S
          PROVE  [client |-> x, server |-> y] \in [{"client", "server"} -> S]
      OBVIOUS
    <3>2. <<>> \in Seq(Bytes)
      OBVIOUS
    <3>3. [client |-> Request(t), server |-> <<>>] \in [{"client", "server"} -> Seq(Bytes)]
      <4>1. Request(t) \in Seq(Bytes)
        BY <1>3
      <4> QED BY <3>1, <3>2, <4>1, Zenon
    <3> QED BY <1>0, <1>1, <3>3, Zenon
  <2>3. /\ net \in [Ends -> Seq(Bytes)] /\ shut \in [Ends -> BOOLEAN]
        /\ rio \in [Ends -> Seq(Bytes)] /\ buf \in [Ends -> Seq(Bytes)]
    BY <1>6
  <2> QED BY <1>4, <2>1, <2>2, <2>3 DEF ExchangeTypes
<1>10. Quiet
  BY <1>7, <1>8 DEF Quiet, Alive, Gone, Positions
<1>11. ResponseExact
  BY <1>7 DEF ResponseExact
<1> DEFINE b == <<>>
           w == Request(t)
<1>12. ServerSide
  <2>1. 0 \in 0..t+5 /\ AtStart(0, t)
    <3>1. Whole(0)
      <4>1. MaxLine - 1 \in Nat /\ MaxLine - 1 >= 3
        BY ExchangeSizes
      <4> QED BY <4>1 DEF Whole
    <3> HIDE DEF w
    <3> QED BY <1>2, <3>1 DEF AtStart
  <2>2. w \in Seq(Bytes) /\ Len(w) = t + 7
    BY <1>3
  <2>3. Fits(w, Asked(t), 0)
    <3>1. ASSUME NEW i \in 1..Len(w) PROVE w[i] \in Asked(t)[0 + i]
      <4>1. i \in 1..t+7 /\ 0 + i = i
        BY <1>2, <2>2, <3>1
      <4> QED BY <4>1 DEF Asked
    <3> QED BY <3>1 DEF Fits
  <2> HIDE DEF w
  <2>4. Stages(b, b, b, w, Asked(t), 0) /\ 0 + Left(b, b, b, w) = t + 7
    <3>1. Len(b) = 0 /\ Fits(b, Asked(t), 0)
      BY DEF Fits
    <3> HIDE DEF b
    <3> QED BY <1>2, <2>2, <2>3, <3>1 DEF Stages, Left
  <2>5. Len(b) < MaxLine /\ OneLine(b)
    BY ExchangeAssumption DEF OneLine
  <2>6. /\ buf["server"] = b /\ rio["server"] = b /\ net["server"] = b /\ todo["client"] = w
    BY <1>7, <1>8 DEF w
  <2> HIDE DEF b
  <2>7. 0 + Left(b, b, b, w) <= t + 7
    BY <1>2, <2>4
  <2>8. ServerReads(t, 0)
    BY <2>1, <2>4, <2>5, <2>6, <2>7 DEF ServerReads
  <2> QED BY <1>7, <2>1, <2>8 DEF ServerSide
<1>13. ClientSide
  <2>1. 0 \in 0..11 /\ 0 \in {0, 3, 6, 9} /\ 0 < HeadLen
    BY DEF HeadLen
  <2>2. Stages(b, b, b, b, Reply, 0) /\ 0 + Left(b, b, b, b) = 0 /\ OneLine(b)
    BY DEF Stages, Left, Fits, OneLine
  <2>3. Sending = 0 /\ Known(0) = 0 /\ Hand = b
    BY <1>7, <1>8 DEF Sending, Known, Hand, InBody
  <2>4. Len(got) <= announced /\ announced = 0 /\ got = b
    BY <1>4
  <2>5. rio["client"] = b /\ net["client"] = b /\ todo["server"] = b /\ ~InBody /\ place["client"] # "astray"
    BY <1>7, <1>8 DEF InBody
  <2> HIDE DEF b
  <2>6. b = <<>>
    BY DEF b
  <2>7. ClientReads(0)
    BY <2>1, <2>2, <2>3, <2>4, <2>5, <2>6 DEF ClientReads, Sent
  <2> QED BY <2>1, <2>7 DEF ClientSide
<1> QED BY <1>9, <1>10, <1>11, <1>12, <1>13 DEF ExchangeInv

(* Every step keeps the invariant of the exchange. *)
LEMMA ExchangeStep ==
  ASSUME ExchangeInv, [ExchangeNext]_exchangeVars
  PROVE  ExchangeInv'
<1> USE DEF ExchangeInv
<1>1. ExchangeTypes'
  BY ExchangeTypesStep
<1>2. Quiet'
  BY QuietStep
<1>3. ServerSide'
  BY ServerSideAfter, ServerSideReceiving
<1>4. ClientSide'
  <2>1. CASE place["client"] \in Alive
    BY <2>1, ClientSideStep
  <2>2. CASE place["client"] \notin Alive
    BY <2>2, ClientStaysGone, AnswerGone DEF StaysGone
  <2> QED BY <2>1, <2>2
<1>5. ResponseExact'
  BY ResponseExactStep
<1> QED BY <1>1, <1>2, <1>3, <1>4, <1>5

(* The invariant of the exchange holds for ever. *)
LEMMA ExchangeHolds == ExchangeSpec => []ExchangeInv
<1>1. ExchangeInit => ExchangeInv
  BY ExchangeStarts
<1>2. ExchangeInv /\ [ExchangeNext]_exchangeVars => ExchangeInv'
  BY ExchangeStep
<1> QED BY <1>1, <1>2, PTL DEF ExchangeSpec

(* However the kernel cuts and interrupts the reads and writes of segel.c, *)
(* and for bodies of any length, a client that reads to the end has the    *)
(* bytes of the body in order from the first on, and no byte of a header;  *)
(* it has all that Content-Length announced unless the server's process    *)
(* ended before, of this connection or of another. A file that shrank      *)
(* shows as bytes of the buffer. Only a body longer than MAXBUF can make   *)
(* print_response read its standard input instead.                         *)
THEOREM ExchangeResponseExact == ExchangeSpec => []ResponseExact
<1>1. ExchangeInv => ResponseExact
  BY DEF ExchangeInv
<1> QED BY <1>1, ExchangeHolds, PTL

(* handle_request has taken the whole request off the socket before it     *)
(* answers or closes, whatever the sizes of the buffers and however long   *)
(* the request line is, within ExchangeAssumption.                         *)
THEOREM ExchangeNothingLeftUnread == ExchangeSpec => []NothingLeftUnread
<1>1. ExchangeInv => NothingLeftUnread
  BY DEF ExchangeInv, ServerSide, NothingLeftUnread
<1> QED BY <1>1, ExchangeHolds, PTL
=============================================================================
