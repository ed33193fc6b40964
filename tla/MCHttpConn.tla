----------------------------- MODULE MCHttpConn -----------------------------
(* Instances of HttpConn for TLC. *)
EXTENDS HttpConn, TLC

CONSTANTS c1, c2

Plain == [hdr |-> 1, cl |-> 0, ok |-> TRUE, close |-> FALSE, reply |-> 1]

\* c1 sends plain requests, ones with a body and a reply that takes two writes,
\* ones with a bad header, and ones of which the body or the reply is too large;
\* c2 plain ones, ones with a body that end the connection, and ones of which
\* the header is too large.
SomeRequests ==
    (c1 :> {Plain, [Plain EXCEPT !.hdr = 2, !.cl = 2, !.reply = 2],
            [Plain EXCEPT !.ok = FALSE], [Plain EXCEPT !.cl = 3],
            [Plain EXCEPT !.reply = 3]}) @@
    (c2 :> {Plain, [Plain EXCEPT !.cl = 1, !.close = TRUE], [Plain EXCEPT !.hdr = 4]})
=============================================================================
