------------------------------ MODULE HttpConn ------------------------------
(***************************************************************************)
(* The HTTP server's connections: the input buffer and how requests are    *)
(* framed in it, the reply buffer, keep-alive, the idle timeout, the table *)
(* of connections, and the listening socket that a change of configuration *)
(* replaces.                                                               *)
(*                                                                         *)
(* The bytes of a request are a few units <<n, i>>: unit i of the n-th     *)
(* request a client sent.  What a handler does is not modelled (module     *)
(* Devices), only how large its reply is.  read() and write() move any     *)
(* number of units; each call is a step, since the steps of one slice only *)
(* touch its own connection.                                               *)
(***************************************************************************)
EXTENDS Naturals, Sequences

CONSTANTS
    Clients,     \* clients, each of which connects once
    Listeners,   \* listening sockets
    Requests,    \* what each client may send
    Pipeliners,  \* clients that do not wait for a reply before they go on
    Deaf,        \* clients that may stop reading
    MaxConns,    \* MF_MAX_HTTP_CLIENTS
    HdrCap,      \* MF_HTTP_HDR_CAP
    BodyCap,     \* MF_HTTP_BODY_CAP
    OutCap,      \* what fits into MF_HTTP_OUT_CAP
    MaxReq,      \* bound on the requests of one client
    First,       \* the socket the daemon starts with
    None         \* "no such thing"

Slots == 1 .. MaxConns

\* A request: the units of its header and of its body, whether the parser
\* and the checks of its header fields accept it, whether it asks for the
\* connection to be closed (or is HTTP/1.0), and the size of its reply.
RequestType == [hdr : Nat \ {0}, cl : Nat, ok : BOOLEAN, close : BOOLEAN, reply : Nat \ {0}]

ASSUME SizeAssumption == {MaxConns, HdrCap, BodyCap, OutCap, MaxReq} \subseteq Nat \ {0}
ASSUME RequestAssumption == Requests \in [Clients -> SUBSET RequestType]
ASSUME ClientAssumption == Pipeliners \subseteq Clients /\ Deaf \subseteq Clients
ASSUME ListenAssumption == First \in Listeners /\ None \notin Listeners \union Clients

VARIABLES
    phase,    \* "up", "quit" once g_quit is set, "down"
    lopen,    \* listening sockets that are open
    listen_fd, pending_listen_fd,
    backlog,  \* clients that wait on each listening socket
    conns,    \* the table of connections
    link,     \* each client's connection, as the server left it
    gone,     \* clients that closed their end
    sent,     \* the requests each client sent
    wire,     \* the units of them that the server has not read
    handled,  \* what the handlers were given, for each client
    got       \* the replies written in full to each client

listeners == <<lopen, listen_fd, pending_listen_fd>>
vars == <<phase, listeners, backlog, conns, link, gone, sent, wire, handled, got>>

\* A slot that is not in use, and one that accept_one_fd has just filled.
Free == [cli |-> None, state |-> "closed", in |-> <<>>, last_len |-> 0,
         header_len |-> 0, content_length |-> 0, out |-> 0, status |-> "none",
         close_after |-> FALSE, stale |-> FALSE]
NewConn(c) == [Free EXCEPT !.cli = c, !.state = "headers"]

Units(c, n) == [i \in 1 .. sent[c][n].hdr + sent[c][n].cl |-> <<n, i>>]
Smaller(a, b) == IF a <= b THEN a ELSE b

----------------------------------------------------------------------------
(* Requests and replies; x is a connection of client c. *)

\* The request whose header begins the buffer.
Current(c, x) == sent[c][x.in[1][1]]

\* http_reply, or conn_close when the reply does not fit.  stale says that
\* last_progress is more than idle_s ago.
http_reply_or_close(x, status, size, close) ==
    IF size > OutCap THEN Free
    ELSE [x EXCEPT !.state = "send", !.out = size, !.status = status, !.close_after = close]

BadRequest(x) == http_reply_or_close(x, "bad request", 1, TRUE)

handle_request(c, x) ==
    http_reply_or_close(x, "done", Current(c, x).reply, Current(c, x).close)

\* Where the first header ends, as phr_parse_request finds it: bytes before
\* last_len are known to hold no end.
HeaderEnds(c, x) ==
    {i \in x.last_len + 1 .. Len(x.in) : x.in[i][2] = sent[c][x.in[i][1]].hdr}

\* parse_headers.  "dispatch" is the state of a connection whose request is
\* complete and about to be handled.
parse_headers(c, x) ==
    IF HeaderEnds(c, x) = {}
    THEN IF Len(x.in) >= HdrCap THEN BadRequest(x) ELSE [x EXCEPT !.last_len = Len(x.in)]
    ELSE LET end == CHOOSE i \in HeaderEnds(c, x) : \A j \in HeaderEnds(c, x) : i <= j
             y == [x EXCEPT !.last_len = Len(x.in), !.header_len = end,
                            !.content_length = Current(c, x).cl]
         IN  IF x.in[1][2] # 1 \/ ~Current(c, x).ok THEN BadRequest(x)
             ELSE IF Current(c, x).cl > BodyCap
             THEN http_reply_or_close(y, "too large", 1, TRUE)
             ELSE [y EXCEPT !.state = IF Len(x.in) >= end + Current(c, x).cl
                                      THEN "dispatch" ELSE "body"]

\* conn_do_recv waits for all of a body.
BodyRead(x) ==
    IF Len(x.in) >= x.header_len + x.content_length
    THEN [x EXCEPT !.state = "dispatch"] ELSE x

\* Wrong variant of Room: what the buffer already holds is not counted.
RoomUncounted(x) ==
    IF x.state = "headers" THEN HdrCap + BodyCap
    ELSE x.header_len + x.content_length
\* How much conn_do_recv asks for: never more of a body than its own.
Room(x) ==
    IF x.state = "headers" THEN HdrCap - Len(x.in)
    ELSE x.header_len + x.content_length - Len(x.in)

----------------------------------------------------------------------------
(* The slices of a connection, http_conn_pt. *)

Serving(k) == phase = "up" /\ conns[k] # Free

\* Slot k becomes x, and n units have been read.  Free is what conn_close
\* leaves; what has not been read then is lost.
Becomes(k, x, n) ==
    LET c == conns[k].cli
    IN  /\ conns' = [conns EXCEPT ![k] = x]
        /\ link' = IF x = Free THEN [link EXCEPT ![c] = "closed"] ELSE link
        /\ wire' = [wire EXCEPT ![c] = IF x = Free THEN <<>> ELSE SubSeq(@, n + 1, Len(@))]
        /\ gone' = IF x = Free THEN gone \ {c} ELSE gone

conn_close(k) == Becomes(k, Free, 0)

\* conn_do_recv, one read() of it.
conn_do_recv(k) ==
    LET c == conns[k].cli
    IN  /\ Serving(k) /\ ~conns[k].stale
        /\ conns[k].state \in {"headers", "body"}
        /\ \E n \in 1 .. Smaller(Room(conns[k]), Len(wire[c])) :
             LET x == [conns[k] EXCEPT !.in = @ \o SubSeq(wire[c], 1, n)]
                 y == IF x.state = "headers" THEN parse_headers(c, x) ELSE BodyRead(x)
             IN  IF y.state = "dispatch"
                 THEN /\ handled' = [handled EXCEPT ![c] =
                             Append(@, SubSeq(y.in, 1, y.header_len + y.content_length))]
                      /\ Becomes(k, handle_request(c, y), n)
                 ELSE Becomes(k, y, n) /\ UNCHANGED handled
        /\ UNCHANGED <<phase, listeners, backlog, sent, got>>

\* read() reports the end of the stream, or an error, once the client is gone.
RecvEnd(k) ==
    /\ Serving(k) /\ ~conns[k].stale
    /\ conns[k].state \in {"headers", "body"}
    /\ conns[k].cli \in gone
    /\ conn_close(k)
    /\ UNCHANGED <<phase, listeners, backlog, sent, handled, got>>

\* Wrong variant of Rest: the body stays in the buffer.
KeepBody(x) == SubSeq(x.in, x.header_len + 1, Len(x.in))
\* What conn_keep_alive_reset keeps: the bytes after the request.
Rest(x) == SubSeq(x.in, x.header_len + x.content_length + 1, Len(x.in))
\* Wrong variant of conn_reset_req: last_len is kept.
KeepLastLen(x) ==
    [NewConn(x.cli) EXCEPT !.last_len = x.last_len]
conn_reset_req(x) == NewConn(x.cli)
conn_keep_alive_reset(x) == [conn_reset_req(x) EXCEPT !.in = Rest(x)]

\* conn_do_send, one write() of it.
conn_do_send(k) ==
    LET x == conns[k]
    IN  /\ Serving(k) /\ ~x.stale
        /\ x.state = "send"
        /\ \E n \in 1 .. x.out :
             IF n < x.out
             THEN Becomes(k, [x EXCEPT !.out = @ - n], 0) /\ UNCHANGED got
             ELSE /\ got' = [got EXCEPT ![x.cli] = Append(@, x.status)]
                  /\ IF x.close_after THEN conn_close(k)
                     ELSE Becomes(k, conn_keep_alive_reset(x), 0)
        /\ UNCHANGED <<phase, listeners, backlog, sent, handled>>

\* write() fails once the client is gone.
SendFails(k) ==
    /\ Serving(k) /\ ~conns[k].stale
    /\ conns[k].state = "send" /\ conns[k].cli \in gone
    /\ conn_close(k)
    /\ UNCHANGED <<phase, listeners, backlog, sent, handled, got>>

\* idle_s pass without progress.
Idle(k) ==
    /\ Serving(k) /\ ~conns[k].stale
    /\ conns' = [conns EXCEPT ![k].stale = TRUE]
    /\ UNCHANGED <<phase, listeners, backlog, link, gone, sent, wire, handled, got>>

\* Wrong variant of IdleOver: a request that is being read is left alone.
IdleBetween(k) == conns[k].stale /\ conns[k].state # "body"
IdleOver(k) == conns[k].stale
IdleClose(k) ==
    /\ Serving(k) /\ IdleOver(k)
    /\ conn_close(k)
    /\ UNCHANGED <<phase, listeners, backlog, sent, handled, got>>

QuitClose(k) ==
    /\ phase = "quit" /\ conns[k] # Free
    /\ conn_close(k)
    /\ UNCHANGED <<phase, listeners, backlog, sent, handled, got>>

----------------------------------------------------------------------------
(* The acceptor. *)

conn_slot(k) == conns[k] = Free /\ \A j \in 1 .. k - 1 : conns[j] # Free

\* accept_drain, one accept4() of it: the connection is dropped when the
\* table is full.
accept_one_fd ==
    /\ phase = "up" /\ pending_listen_fd = None
    /\ backlog[listen_fd] # <<>>
    /\ LET c == Head(backlog[listen_fd])
       IN  IF \E k \in Slots : conns[k] = Free
           THEN /\ conns' = [k \in Slots |-> IF conn_slot(k) THEN NewConn(c) ELSE conns[k]]
                /\ link' = [link EXCEPT ![c] = "open"]
           ELSE /\ link' = [link EXCEPT ![c] = "closed"]
                /\ UNCHANGED conns
    /\ backlog' = [backlog EXCEPT ![listen_fd] = Tail(@)]
    /\ UNCHANGED <<phase, listeners, gone, sent, wire, handled, got>>

\* close() of a listening socket resets the clients that wait on it.
Reset(l) ==
    /\ backlog' = [backlog EXCEPT ![l] = <<>>]
    /\ link' = [c \in Clients |-> IF \E i \in DOMAIN backlog[l] : backlog[l][i] = c
                                  THEN "closed" ELSE link[c]]

\* http_accept_pt takes over a new listening socket before it accepts.
SwapListen ==
    /\ phase = "up" /\ pending_listen_fd # None
    /\ lopen' = lopen \ {listen_fd}
    /\ Reset(listen_fd)
    /\ listen_fd' = pending_listen_fd
    /\ pending_listen_fd' = None
    /\ UNCHANGED <<phase, conns, gone, sent, wire, handled, got>>

\* Wrong variant of ClosePending: a socket that was still pending stays open.
LeavePending(l) ==
    /\ lopen' = lopen \union {l}
    /\ UNCHANGED <<backlog, link>>
ClosePending(l) ==
    /\ lopen' = (lopen \ {pending_listen_fd}) \union {l}
    /\ IF pending_listen_fd = None THEN UNCHANGED <<backlog, link>>
       ELSE Reset(pending_listen_fd)

\* mf_http_rebind_listen, called by a handler whose reply is under way.  When
\* bind_listen_spec fails nothing changes.
mf_http_rebind_listen(l) ==
    /\ \E k \in Slots : Serving(k) /\ conns[k].state = "send"
    /\ l \notin lopen
    /\ ClosePending(l)
    /\ pending_listen_fd' = l
    /\ UNCHANGED <<phase, listen_fd, conns, gone, sent, wire, handled, got>>

----------------------------------------------------------------------------
(* The clients, the signal, and the end of main. *)

Connect(c) ==
    /\ link[c] = "none"
    /\ \E l \in lopen : backlog' = [backlog EXCEPT ![l] = Append(@, c)]
    /\ link' = [link EXCEPT ![c] = "queued"]
    /\ UNCHANGED <<phase, listeners, conns, gone, sent, wire, handled, got>>

Linked(c) == link[c] \in {"queued", "open"}

\* What a client does while its connection waits to be accepted is as if it
\* did it right after that.
ClientSend(c) ==
    /\ link[c] = "open" /\ c \notin gone
    /\ Len(sent[c]) < MaxReq
    /\ c \in Pipeliners \/ Len(got[c]) = Len(sent[c])
    /\ \E r \in Requests[c] :
         /\ sent' = [sent EXCEPT ![c] = Append(@, r)]
         /\ wire' = [wire EXCEPT ![c] = @ \o [i \in 1 .. r.hdr + r.cl |-> <<Len(sent[c]) + 1, i>>]]
    /\ UNCHANGED <<phase, listeners, backlog, conns, link, gone, handled, got>>

ClientClose(c) ==
    /\ link[c] = "open" /\ c \notin gone
    /\ gone' = gone \union {c}
    /\ UNCHANGED <<phase, listeners, backlog, conns, link, sent, wire, handled, got>>

Signal ==
    /\ phase = "up"
    /\ phase' = "quit"
    /\ UNCHANGED <<listeners, backlog, conns, link, gone, sent, wire, handled, got>>

\* mf_http_close_all after the last slice, and the end of the process.
mf_http_close_all ==
    /\ phase = "quit" /\ \A k \in Slots : conns[k] = Free
    /\ phase' = "down"
    /\ lopen' = {} /\ listen_fd' = None /\ pending_listen_fd' = None
    /\ backlog' = [l \in Listeners |-> <<>>]
    /\ link' = [c \in Clients |-> IF Linked(c) THEN "closed" ELSE link[c]]
    /\ UNCHANGED <<conns, gone, sent, wire, handled, got>>

----------------------------------------------------------------------------
Init ==
    /\ phase = "up"
    /\ lopen = {First} /\ listen_fd = First /\ pending_listen_fd = None
    /\ backlog = [l \in Listeners |-> <<>>]
    /\ conns = [k \in Slots |-> Free]
    /\ link = [c \in Clients |-> "none"]
    /\ gone = {}
    /\ sent = [c \in Clients |-> <<>>]
    /\ wire = [c \in Clients |-> <<>>]
    /\ handled = [c \in Clients |-> <<>>]
    /\ got = [c \in Clients |-> <<>>]

\* A slice that does not depend on what the client reads.
OwnSlice(k) ==
    conn_do_recv(k) \/ RecvEnd(k) \/ SendFails(k) \/ IdleClose(k) \/ QuitClose(k)

AcceptSlice == accept_one_fd \/ SwapListen

Next ==
    \/ \E k \in Slots : OwnSlice(k) \/ conn_do_send(k) \/ Idle(k)
    \/ AcceptSlice
    \/ \E l \in Listeners : mf_http_rebind_listen(l)
    \/ \E c \in Clients : Connect(c) \/ ClientSend(c) \/ ClientClose(c)
    \/ Signal \/ mf_http_close_all

\* Every pass of the main loop gives each thread a slice.  That a reply can be
\* written needs a client that reads.
Fairness ==
    /\ \A k \in Slots :
         /\ WF_vars(OwnSlice(k))
         /\ WF_vars(conn_do_send(k) /\ conns[k].cli \notin Deaf)
    /\ WF_vars(AcceptSlice)
    /\ WF_vars(mf_http_close_all)

Spec == Init /\ [][Next]_vars /\ Fairness

----------------------------------------------------------------------------
(* Properties. *)

\* Every variable keeps its type, and no buffer outgrows its array.
TypeOK ==
    /\ phase \in {"up", "quit", "down"}
    /\ lopen \subseteq Listeners
    /\ listen_fd \in Listeners \union {None}
    /\ pending_listen_fd \in Listeners \union {None}
    /\ DOMAIN backlog = Listeners
    /\ \A k \in Slots :
         /\ conns[k].cli \in Clients \union {None}
         /\ conns[k].state \in {"closed", "headers", "body", "send"}
         /\ Len(conns[k].in) <= HdrCap + BodyCap
         /\ conns[k].out \in 0 .. OutCap
    /\ link \in [Clients -> {"none", "queued", "open", "closed"}]
    /\ gone \subseteq Clients
    /\ \A c \in Clients : Len(sent[c]) <= MaxReq

\* What a client is to hear of its request r.
Expected(r) ==
    IF ~r.ok \/ r.hdr > HdrCap THEN "bad request"
    ELSE IF r.cl > BodyCap THEN "too large" ELSE "done"

\* However requests are cut into reads and run together in the buffer, the
\* n-th thing a handler is given is exactly the client's n-th request, and the
\* n-th reply is the one to it.
ServedInOrder ==
    \A c \in Clients :
        /\ Len(handled[c]) <= Len(sent[c]) /\ Len(got[c]) <= Len(sent[c])
        /\ \A n \in 1 .. Len(handled[c]) : handled[c][n] = Units(c, n)
        /\ \A n \in 1 .. Len(got[c]) : got[c][n] = Expected(sent[c][n])

\* The open listening sockets are the one in use and the one to come: none is
\* left behind by a change of the address, or by two in a row.
ListenersOwned == lopen = {listen_fd, pending_listen_fd} \ {None}

\* When time passes, a connection whose client falls silent, or does not read,
\* ends: its slot is not held for ever.
TimePasses == \A k \in Slots : WF_vars(Idle(k))
ConnectionsEnd == TimePasses => \A c \in Clients : Linked(c) ~> link[c] = "closed"

\* A client that waits for each reply before its next request has every
\* request answered, or its connection closed, without the idle timeout's help.
Owed(c) == Linked(c) /\ Len(got[c]) < Len(sent[c])
Answered ==
    \A c \in Clients \ (Pipeliners \union Deaf) :
        [](\A k \in Slots : conns[k].cli = c => ~conns[k].stale) => (Owed(c) ~> ~Owed(c))
=============================================================================
