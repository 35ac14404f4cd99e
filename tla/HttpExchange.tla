---------------------------- MODULE HttpExchange ----------------------------
(***************************************************************************)
(* One connection seen byte by byte: client.c sends a request, a worker's  *)
(* handle_request reads it and answers, and both do so through the rio     *)
(* functions of segel.c. The kernel cuts reads and writes where it likes   *)
(* and interrupts them; the client may be killed; the server may die of    *)
(* another connection; a file may shrink or go between the stat that gives *)
(* its length and the read that sends it.                                  *)
(*                                                                         *)
(* Only CR and LF are kept apart from the rest of the text of a line; the  *)
(* text of the Content-Length line is one byte that stands for its number. *)
(***************************************************************************)
EXTENDS Integers, Sequences, SequencesExt

CONSTANTS
  RioBuf,     \* RIO_BUFSIZE
  MaxLine,    \* MAXLINE, of handle_request's buf
  MaxBuf,     \* MAXBUF, of print_response's buf
  SockBuf,    \* the bytes the kernel holds in each direction
  TextLens,   \* lengths of the text of the request line
  BodyLens    \* lengths of bodies

Text == 1
Junk == 2          \* an uninitialised byte
LF == 10
CR == 13
LengthText(n) == 100 + n
Content(n) == [i \in 1..n |-> 20 + i]

(* A text of which rio_readlineb leaves just the line end for the next     *)
(* call would end the headers.                                             *)
ASSUME ExchangeAssumption ==
  /\ RioBuf \in Nat \ {0} /\ SockBuf \in Nat \ {0}
  /\ MaxLine \in Nat /\ MaxLine > 3 /\ MaxBuf \in Nat /\ MaxBuf > 5
  /\ \A t \in TextLens : t \in Nat /\ t % (MaxLine - 1) # 0
  /\ BodyLens \subseteq Nat

VARIABLES
  answer,     \* how the request is answered
  length,     \* the length of the body: st_size, log_len or strlen
  file,       \* how much of the file there is, -1 when it is gone
  place,      \* where client and server are
  todo,       \* what each has yet to write
  net,        \* the bytes on their way to each
  shut,       \* the other side has closed the connection
  rio,        \* the unread part of each rio_buf
  buf,        \* the line each is reading
  announced,  \* the Content-Length the client read
  got         \* the part of the body the client has

exchangeVars == <<answer, length, file, place, todo, net, shut, rio, buf, announced, got>>
fixed == <<answer, length>>

Ends == {"client", "server"}
Peer(e) == IF e = "client" THEN "server" ELSE "client"
AnswerKinds == {"memory", "static", "dynamic"}     \* send_error and serve_post are "memory"

Line(t) == [i \in 1..t |-> Text] \o <<CR, LF>>
BlankLine == <<CR, LF>>

(* The header lines of a response; the stat headers end with a blank line. *)
ResponseHead(k, n) ==
  Line(1) \o (IF k = "dynamic" THEN <<>> ELSE <<LengthText(n), CR, LF>>) \o Line(1) \o BlankLine

(* A variant that sends one byte less of a file than it announced. *)
BodyOffByOne ==
  IF answer = "static" THEN [i \in 1..length-1 |-> IF i <= file THEN Content(length)[i] ELSE Junk]
  ELSE Content(length)

(* What is sent after the header. serve_static sends as many bytes as stat *)
(* said, whatever Rio_readn filled in.                                     *)
Body ==
  IF answer = "static" THEN [i \in 1..length |-> IF i <= file THEN Content(length)[i] ELSE Junk]
  ELSE Content(length)

ExchangeInit ==
  /\ answer \in AnswerKinds /\ length \in BodyLens /\ file = length
  /\ place = [client |-> "send", server |-> "request"]
  /\ \E t \in TextLens :
       todo = [client |-> Line(t) \o Line(1) \o BlankLine, server |-> <<>>]
  /\ net = [e \in Ends |-> <<>>] /\ shut = [e \in Ends |-> FALSE]
  /\ rio = [e \in Ends |-> <<>>] /\ buf = [e \in Ends |-> <<>>]
  /\ announced = 0 /\ got = <<>>

-----------------------------------------------------------------------------
(* rio_writen. A write takes what the socket has room for. When the other  *)
(* side has closed, nobody reads the bytes or it fails: the process exits. *)
Writen(e) ==
  /\ todo[e] # <<>>
  /\ \/ \E n \in 1..Len(todo[e]) :
          /\ shut[e] \/ Len(net[Peer(e)]) + n <= SockBuf
          /\ todo' = [todo EXCEPT ![e] = SubSeq(@, n + 1, Len(@))]
          /\ net' = [net EXCEPT ![Peer(e)] = @ \o SubSeq(todo[e], 1, n)]
          /\ UNCHANGED <<place, shut>>
     \/ /\ shut[e]
        /\ todo' = [todo EXCEPT ![e] = <<>>]
        /\ IF place[e] = "cgi" THEN UNCHANGED <<place, shut>>      \* only the CGI program ends
           ELSE place' = [place EXCEPT ![e] = "dead"] /\ shut' = [shut EXCEPT ![Peer(e)] = TRUE]
        /\ UNCHANGED net
  /\ UNCHANGED <<fixed, file, rio, buf, announced, got>>

InLine(e) == place[e] \in {"request", "headers"}
LineLimit(e) == IF e = "server" THEN MaxLine ELSE MaxBuf

(* rio_readlineb has stored its last byte. *)
LineDone(e) == buf[e] # <<>> /\ (Last(buf[e]) = LF \/ Len(buf[e]) = LineLimit(e) - 1)

(* e is in rio_read with an empty buffer. *)
InRead(e) ==
  /\ rio[e] = <<>>
  /\ \/ InLine(e) /\ ~LineDone(e)
     \/ e = "client" /\ place[e] = "body" /\ Len(got) < announced

(* rio_read: read returns some of what has arrived. *)
RioFill(e) ==
  /\ InRead(e)
  /\ \E n \in 1..RioBuf :
       /\ n <= Len(net[e])
       /\ rio' = [rio EXCEPT ![e] = SubSeq(net[e], 1, n)]
       /\ net' = [net EXCEPT ![e] = SubSeq(@, n + 1, Len(@))]
  /\ UNCHANGED <<fixed, file, place, todo, shut, buf, announced, got>>

(* read or write returns EINTR: the loops of segel.c go round again. *)
Interrupted(e) == (InRead(e) \/ todo[e] # <<>>) /\ UNCHANGED exchangeVars

(* rio_readlineb takes one byte from rio_read. *)
RioReadlineb(e) ==
  /\ InLine(e) /\ ~LineDone(e) /\ rio[e] # <<>>
  /\ buf' = [buf EXCEPT ![e] = Append(@, rio[e][1])]
  /\ rio' = [rio EXCEPT ![e] = Tail(@)]
  /\ UNCHANGED <<fixed, file, place, todo, net, shut, announced, got>>

(* read returns 0. *)
AtEof(e) == InRead(e) /\ net[e] = <<>> /\ shut[e]

MoveTo(e, l) == place' = [place EXCEPT ![e] = l] /\ buf' = [buf EXCEPT ![e] = <<>>]

CloseEnd(e, l) == MoveTo(e, l) /\ shut' = [shut EXCEPT ![Peer(e)] = TRUE]

-----------------------------------------------------------------------------
(* handle_request *)

Respond ==
  /\ MoveTo("server", "head")
  /\ todo' = [todo EXCEPT !.server = ResponseHead(answer, length)]
  /\ UNCHANGED <<fixed, file, net, shut, rio, announced, got>>

(* A variant that answers as soon as it has the request line. *)
ServerLineEager ==
  /\ LineDone("server") /\ InLine("server")
  /\ Respond

(* A variant that reads headers until the client closes. *)
ServerLineToEof ==
  /\ LineDone("server") /\ InLine("server")
  /\ MoveTo("server", "headers")
  /\ UNCHANGED <<fixed, file, todo, net, shut, rio, announced, got>>

(* A line has been read; the first one too is compared with the blank line. *)
ServerLine ==
  /\ LineDone("server") /\ InLine("server")
  /\ \/ buf.server = BlankLine /\ Respond
     \/ /\ buf.server # BlankLine /\ MoveTo("server", "headers")
        /\ UNCHANGED <<fixed, file, todo, net, shut, rio, announced, got>>

(* The client is gone: before any byte of a request there is no answer. A  *)
(* piece of a line counts as one, and the next call returns 0.             *)
ServerEof ==
  /\ AtEof("server")
  /\ \/ /\ place.server = "request" /\ buf.server = <<>>
        /\ CloseEnd("server", "closed")
        /\ UNCHANGED <<fixed, file, todo, net, rio, announced, got>>
     \/ (place.server = "headers" \/ buf.server # <<>>) /\ Respond

(* The header is out: read the file, or let the CGI program answer. A file *)
(* that is gone by now makes Open end the whole server.                    *)
ServerBody ==
  /\ place.server = "head" /\ todo.server = <<>>
  /\ IF file = -1 THEN CloseEnd("server", "dead") /\ UNCHANGED todo
     ELSE /\ MoveTo("server", IF answer = "dynamic" THEN "cgi" ELSE "body")
          /\ todo' = [todo EXCEPT !.server = Body]
          /\ UNCHANGED shut
  /\ UNCHANGED <<fixed, file, net, rio, announced, got>>

(* The worker closes the connection. *)
ServerClose ==
  /\ place.server \in {"body", "cgi"} /\ todo.server = <<>>
  /\ CloseEnd("server", "closed")
  /\ UNCHANGED <<fixed, file, todo, net, rio, announced, got>>

(* A failing wrapper or a SIGPIPE in the thread of another connection ends *)
(* the process. A CGI program it has started goes on.                      *)
ServerDies ==
  /\ place.server \notin {"cgi", "closed", "dead"}
  /\ CloseEnd("server", "dead")
  /\ todo' = [todo EXCEPT !.server = <<>>]
  /\ UNCHANGED <<fixed, file, net, rio, announced, got>>

-----------------------------------------------------------------------------
(* client.c *)

ClientSent ==
  /\ place.client = "send" /\ todo.client = <<>>
  /\ MoveTo("client", "headers")
  /\ UNCHANGED <<fixed, file, todo, net, shut, rio, announced, got>>

(* print_response: headers up to the blank line. *)
ClientLine ==
  /\ LineDone("client") /\ place.client = "headers"
  /\ MoveTo("client", IF buf.client = BlankLine THEN "body" ELSE "headers")
  /\ announced' = IF buf.client[1] > 100 THEN buf.client[1] - 100 ELSE announced
  /\ UNCHANGED <<fixed, file, todo, net, shut, rio, got>>

(* rio_readnb takes what rio_read has of a chunk of MAXBUF bytes. Behind a *)
(* full chunk the terminating 0 is written past buf. Where a build puts    *)
(* rio there it makes rio_fd 0, and the next read is one of standard       *)
(* input: the client is astray.                                            *)
ClientBody ==
  /\ place.client \in {"body", "astray"} /\ Len(got) < announced /\ rio.client # <<>>
  /\ LET left == announced - Len(got)
         chunk == MaxBuf - (Len(got) % MaxBuf)
     IN  \E n \in {Len(rio.client), left, chunk} :
           /\ n <= Len(rio.client) /\ n <= left /\ n <= chunk
           /\ got' = got \o SubSeq(rio.client, 1, n)
           /\ rio' = [rio EXCEPT !.client = SubSeq(@, n + 1, Len(@))]
           /\ \/ UNCHANGED place
              \/ n = chunk /\ place' = [place EXCEPT !.client = "astray"]
  /\ UNCHANGED <<fixed, file, todo, net, shut, buf, announced>>

(* All of the body is there, or the server has closed. A piece of a line   *)
(* counts as a line, and only the first digits of the length may be there. *)
ClientDone ==
  /\ \/ /\ AtEof("client")
        /\ IF place.client = "headers" /\ buf.client # <<>> /\ buf.client[1] > 100
           THEN announced' \in 0..buf.client[1] - 100 ELSE UNCHANGED announced
     \/ /\ place.client \in {"body", "astray"} /\ Len(got) = announced
        /\ UNCHANGED announced
  /\ CloseEnd("client", "done")
  /\ UNCHANGED <<fixed, file, todo, net, rio, got>>

(* Standard input has given the rest of the body's length, or has ended. *)
ClientAstray ==
  /\ place.client = "astray" /\ Len(got) < announced /\ rio.client = <<>>
  /\ CloseEnd("client", "misled")
  /\ UNCHANGED <<fixed, file, todo, net, rio, announced, got>>

(* The server died with some of the request unread, which resets the       *)
(* connection: read fails and the client exits.                            *)
ClientReset ==
  /\ InRead("client") /\ place.server = "dead" /\ net.server # <<>>
  /\ CloseEnd("client", "dead")
  /\ UNCHANGED <<fixed, file, todo, net, rio, announced, got>>

(* The client is killed. *)
ClientKilled ==
  /\ place.client \notin {"done", "misled", "dead"}
  /\ CloseEnd("client", "dead")
  /\ todo' = [todo EXCEPT !.client = <<>>]
  /\ UNCHANGED <<fixed, file, net, rio, announced, got>>

(* Somebody cuts or removes the file. *)
FileShrinks ==
  /\ answer = "static" /\ file > -1
  /\ file' = file - 1
  /\ UNCHANGED <<fixed, place, todo, net, shut, rio, buf, announced, got>>

-----------------------------------------------------------------------------
RioStep(e) == Writen(e) \/ RioFill(e) \/ RioReadlineb(e)
ServerStep == RioStep("server") \/ ServerLine \/ ServerEof \/ ServerBody \/ ServerClose
ClientStep ==
  \/ RioStep("client") \/ ClientSent \/ ClientLine \/ ClientBody
  \/ ClientDone \/ ClientAstray \/ ClientReset

ExchangeNext ==
  \/ ServerStep \/ ClientStep
  \/ \E e \in Ends : Interrupted(e)
  \/ ClientKilled \/ ServerDies \/ FileShrinks

ExchangeSpec == ExchangeInit /\ [][ExchangeNext]_exchangeVars

(* Both processes are scheduled, and the standard input a client strayed   *)
(* to goes on or ends. Nobody has to be killed, die or be interrupted.     *)
FairExchange == ExchangeSpec /\ WF_exchangeVars(ServerStep) /\ WF_exchangeVars(ClientStep)
-----------------------------------------------------------------------------
(* However reads and writes are cut, the client that reads to the end has  *)
(* the first bytes of the body: none of a header and none missing, and the *)
(* bytes of the file unless it shrank. It has them all, as many as the     *)
(* Content-Length says, unless the server's process ended, of its own      *)
(* connection or another; a header that was cut then gives it no body.     *)
(* Only a body of more than MAXBUF bytes can lead a client astray. For a   *)
(* CGI answer, which has no Content-Length, it takes no body.              *)
ResponseExact ==
  /\ place.client \in {"done", "misled"} =>
       LET whole == IF answer = "dynamic" THEN 0 ELSE length
       IN  /\ Len(got) <= announced /\ announced <= whole
           /\ got # <<>> => announced = whole
           /\ place.client = "done" /\ place.server # "dead" => Len(got) = whole
           /\ \A i \in DOMAIN got : got[i] = Content(length)[i] \/ (got[i] = Junk /\ i > file)
  /\ place.client = "misled" => MaxBuf < length

(* The server answers only when it has taken the whole request off the     *)
(* socket: closing with bytes unread would reset the connection and could  *)
(* take the answer with it. This is about lines longer than MAXLINE too,   *)
(* which rio_readlineb delivers in pieces.                                 *)
NothingLeftUnread ==
  place.server \in {"head", "body", "cgi", "closed"} =>
    net.server = <<>> /\ rio.server = <<>> /\ todo.client = <<>>

(* Client and server never wait for one another for good: the worker gets  *)
(* free for the next connection, or its process is gone because the client *)
(* was, and the client ends.                                               *)
ExchangeEnds ==
  /\ <>(place.server \in {"closed", "dead"})
  /\ <>(place.client \in {"done", "misled", "dead"})
=============================================================================
