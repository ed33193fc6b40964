------------------------------ MODULE PtQueue ------------------------------
(***************************************************************************)
(* What protothread.h promises: threads that are ready run in the order in *)
(* which they became so, those that wait on a channel are woken in the     *)
(* order in which they came, and nobody else is touched.                   *)
(***************************************************************************)

CONSTANTS Threads, Chans, NULL

VARIABLES
    ready,     \* the threads that are ready
    waiting,   \* channel -> the threads that wait on it
    before,    \* <<t, u>>: t came to the queue in which they both are before u
    running,   \* the thread that runs, or NULL
    alive      \* threads that were created and have neither ended nor been killed

vars == <<ready, waiting, before, running, alive>>

\* The order b when S, as they are ordered, have gone from their queue behind Q.
Behind(b, Q, S) == {p \in b : p[1] \in S <=> p[2] \in S} \union (Q \X S)

\* Who came before all others of S.
Oldest(S) == {t \in S : \A u \in S \ {t} : <<t, u>> \in before}

Init ==
    /\ ready = {} /\ waiting = [c \in Chans |-> {}] /\ before = {}
    /\ running = NULL /\ alive = {}

Create(t) ==
    /\ t \notin alive /\ alive' = alive \union {t}
    /\ ready' = ready \union {t} /\ before' = Behind(before, ready, {t})
    /\ UNCHANGED <<running, waiting>>

Run ==
    /\ running = NULL
    /\ \E t \in Oldest(ready) :
          running' = t /\ ready' = ready \ {t} /\ before' = Behind(before, {}, {t})
    /\ UNCHANGED <<alive, waiting>>

Yield ==
    /\ running # NULL /\ running' = NULL
    /\ ready' = ready \union {running} /\ before' = Behind(before, ready, {running})
    /\ UNCHANGED <<alive, waiting>>

Wait(c) ==
    /\ running # NULL /\ running' = NULL
    /\ waiting' = [waiting EXCEPT ![c] = @ \union {running}]
    /\ before' = Behind(before, waiting[c], {running})
    /\ UNCHANGED <<alive, ready>>

\* Those of S that wait on channel c become ready.
Wake(c, S) ==
    /\ ready' = ready \union S /\ waiting' = [waiting EXCEPT ![c] = @ \ S]
    /\ before' = Behind(before, ready, S)

Signal(c) ==
    /\ UNCHANGED <<running, alive>>
    /\ \E t \in Oldest(waiting[c]) : Wake(c, {t})

Broadcast(c) ==
    /\ UNCHANGED <<running, alive>>
    /\ Wake(c, waiting[c])

\* A thread that ends, of itself or killed, wakes those that wait for its end.
Exit ==
    /\ running # NULL /\ running' = NULL /\ alive' = alive \ {running}
    /\ Wake(running, waiting[running])

Kill(t) ==
    /\ t \in alive /\ t # running /\ alive' = alive \ {t} /\ running' = running
    /\ LET joins == waiting[t] \ {t}
       IN /\ ready' = (ready \ {t}) \union joins
          /\ waiting' = [c \in Chans |-> IF c = t THEN {} ELSE waiting[c] \ {t}]
          /\ before' = Behind(Behind(before, {}, {t}), ready \ {t}, joins)

Next ==
    \/ \E c \in Chans : Broadcast(c) \/ Signal(c) \/ Wait(c)
    \/ \E t \in Threads : Create(t) \/ Kill(t)
    \/ Run \/ Yield \/ Exit

Spec == Init /\ [][Next]_vars
=============================================================================
