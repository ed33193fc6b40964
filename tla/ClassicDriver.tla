---------------------------- MODULE ClassicDriver ----------------------------
(***************************************************************************)
(* The Classic charge controller's driver: one Modbus/TCP connection that  *)
(* is polled, and a list of unit ids that are tried until one answers.     *)
(*                                                                         *)
(* The loop calls classic_step (pump) for ever.  What the network and the  *)
(* controller do is a choice at every step until they settle: from then on *)
(* the controller is reachable, answers at once under one unit id and      *)
(* answers the others with an exception.  Registers are left out; points   *)
(* in time are the ticks until they come.                                  *)
(***************************************************************************)
EXTENDS Integers, Clock, ClassicModbus

CONSTANTS
    RECONNECT_S,    \* a connection without an answer for so long is given up
    Intervals       \* poll_interval_s

ASSUME ClAssumption == RECONNECT_S \in Nat /\ Intervals \subseteq Nat

VARIABLES
    cl,          \* classic_ctx_t; a unit id is its place in the list, 0 for none
    answers,     \* the unit id that the controller answers
    cl_settled   \* nothing changes any more between the driver and the controller

cl_vars == <<cl, answers, cl_settled>>

----------------------------------------------------------------------------
(* Connecting. *)

\* sock_close.
sock_close(c) == [c EXCEPT !.state = "disconnected"]

\* start_connect: a socket on its way, or none.
start_connect(c, ok) ==
    IF ok THEN [c EXCEPT !.state = "connecting", !.deadline = IO_TIMEOUT_S] ELSE sock_close(c)

\* next_unit_or_reconnect: the next unit id on a new connection; after the last
\* one the next step starts over.
next_unit_or_reconnect(c, ok) ==
    IF c.itry = NTry THEN sock_close([c EXCEPT !.itry = 1])
    ELSE start_connect([c EXCEPT !.itry = @ + 1], ok)

\* The first unit id again, on a new connection.
StartOver(c, ok) == start_connect([c EXCEPT !.itry = 1], ok)

\* Wrong variant: without one that has answered, back to the first.
prefer_unit_ok_first(c) == [c EXCEPT !.itry = IF c.unit_ok = 0 THEN 1 ELSE c.unit_ok]

\* prefer_unit_ok: the unit id that has answered before.
prefer_unit_ok(c) == IF c.unit_ok = 0 THEN c ELSE [c EXCEPT !.itry = c.unit_ok]

----------------------------------------------------------------------------
(* Polling. *)

\* build_fc3: the request, to the current unit.
build_fc3(c) == [c EXCEPT !.state = "send", !.deadline = IO_TIMEOUT_S]

\* The request is out.
Sent(c) == [c EXCEPT !.state = "recv", !.deadline = IO_TIMEOUT_S]

\* parse_fc3, on a whole answer that is one: the reading is taken, and the unit
\* it was asked of is remembered.
parse_fc3(c) ==
    [c EXCEPT !.state = "hold", !.unit_ok = c.itry, !.have_data = TRUE,
              !.age = 0, !.next_poll = c.every]

\* How far one step may get with the request: it waits to be sent, for an
\* answer or for the rest of one; or the answer comes; or an error, the end of
\* the connection, an exception or an answer that makes no sense.
ClExchange(c) ==
    (IF c.state = "send" THEN {Sent(c)} ELSE {}) \union {c, parse_fc3(c)}
    \union {next_unit_or_reconnect(c, ok) : ok \in BOOLEAN}

\* The same when all is well with the connection: the unit id decides.
Settled(c) ==
    {IF c.itry = answers THEN parse_fc3(c) ELSE next_unit_or_reconnect(c, TRUE)}

Asked(c) == IF cl_settled THEN Settled(c) ELSE ClExchange(c)

\* connect_ready: still on its way, up, or refused.
Connecting(c) ==
    Asked(build_fc3(prefer_unit_ok(c)))
    \union (IF cl_settled THEN {}
            ELSE {c} \union {next_unit_or_reconnect(c, ok) : ok \in BOOLEAN})

\* pump: what a step may leave.  A connection that is settled connects.
pump(c) ==
    LET Connects == IF cl_settled THEN {TRUE} ELSE BOOLEAN
    IN CASE c.state = "hold" /\ c.next_poll > 0 -> {c}
         [] c.state = "hold" /\ c.next_poll = 0 /\ c.age >= RECONNECT_S ->
                {StartOver(c, ok) : ok \in Connects}
         [] c.state = "hold" /\ c.next_poll = 0 /\ c.age < RECONNECT_S ->
                Asked(build_fc3(prefer_unit_ok(c)))
         [] c.state = "disconnected" -> {StartOver(c, ok) : ok \in Connects}
         [] c.state \in {"connecting", "send", "recv"} /\ c.deadline = 0 ->
                {next_unit_or_reconnect(c, ok) : ok \in Connects}
         [] c.state = "connecting" /\ c.deadline > 0 -> Connecting(c)
         [] c.state \in {"send", "recv"} /\ c.deadline > 0 -> Asked(c)

\* classic_open: the first connect is made at once.
classic_open(every, ok) ==
    start_connect([state |-> "disconnected", itry |-> 1, unit_ok |-> 0, deadline |-> 0,
                   age |-> RECONNECT_S, next_poll |-> 0, have_data |-> FALSE,
                   every |-> every], ok)

----------------------------------------------------------------------------

classic_step == cl' \in pump(cl) /\ UNCHANGED <<answers, cl_settled>>

\* classic_close and classic_open: the module is stopped and started again.
ClReopen ==
    /\ ~cl_settled
    /\ \E ok \in BOOLEAN : cl' = classic_open(cl.every, ok)
    /\ UNCHANGED <<answers, cl_settled>>

\* The controller's unit id is changed, or another controller gets its address.
Readdress ==
    /\ ~cl_settled
    /\ answers' \in Units \ {answers}
    /\ UNCHANGED <<cl, cl_settled>>

\* From now on the connection is good.  An exchange that is under way then may
\* still run into its deadline.
ClSettle == ~cl_settled /\ cl_settled' = TRUE /\ UNCHANGED <<cl, answers>>

\* A tick of the clock.  A step takes no time to speak of, so with a connection
\* that is good it passes between two polls only.
ClTick ==
    /\ cl_settled => cl.state = "hold" /\ cl.next_poll > 0
    /\ cl' = [cl EXCEPT !.deadline = Pass(@), !.next_poll = Pass(@),
                        !.age = IF @ < RECONNECT_S THEN @ + 1 ELSE @]
    /\ UNCHANGED <<answers, cl_settled>>

ClInit ==
    /\ \E every \in Intervals, ok \in BOOLEAN : cl = classic_open(every, ok)
    /\ answers \in Units
    /\ cl_settled = FALSE

ClNext == classic_step \/ ClReopen \/ Readdress \/ ClSettle \/ ClTick

\* The loop steps the driver for ever and time passes.
ClFairness == WF_cl_vars(classic_step) /\ WF_cl_vars(ClTick)
ClSpec == ClInit /\ [][ClNext]_cl_vars /\ ClFairness

----------------------------------------------------------------------------

ClTypeOK ==
    /\ cl \in [state : {"disconnected", "connecting", "hold", "send", "recv"},
               itry : Units, unit_ok : 0 .. NTry, deadline : 0 .. IO_TIMEOUT_S,
               age : 0 .. RECONNECT_S, next_poll : Nat, have_data : BOOLEAN,
               every : Intervals]
    /\ answers \in Units /\ cl_settled \in BOOLEAN

Fresh == cl.state = "hold" /\ cl.age = 0

\* A controller that answers under the unit id it had, or that has not been read
\* before, and one that has just been read.  (Under another unit id than the one
\* that is remembered it is not found: prefer_unit_ok returns to that one with
\* every new connection.)
ClAnswering == cl_settled /\ cl.unit_ok \in {0, answers}
ClRead == Fresh /\ cl.unit_ok = answers
=============================================================================
