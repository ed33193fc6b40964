------------------------------- MODULE PtList -------------------------------
(***************************************************************************)
(* The scheduler of protothread.h: its circular lists.                     *)
(*                                                                         *)
(* A list is the pointer to its newest thread, whose next is the oldest.   *)
(* Wait lists are shared by the channels whose hash is the same; a thread  *)
(* is a channel too, on which pt_join waits.  What a thread does in its    *)
(* slice is left open.  No ready function is set, as in moonflared, and    *)
(* PT_DEBUG is 1.                                                          *)
(*                                                                         *)
(* A turn of the loop of pt_i_wake is a step; nothing else happens until   *)
(* the loop has ended.                                                     *)
(***************************************************************************)
EXTENDS Naturals, FiniteSets

CONSTANTS
    Threads,     \* thread descriptors
    Events,      \* channels other than threads
    NULL,        \* no thread, or no channel
    Crowd        \* the channels whose hash is the first of the two wait lists

ASSUME ThreadAssumption == NULL \notin Threads \union Events /\ Threads \cap Events = {}

Chans == Threads \union Events
READY == 0         \* the ready list
PT_NWAIT == 2
PtHeads == READY .. PT_NWAIT

VARIABLE pts       \* protothread_s with its threads; alive: those whose func is not NULL;
                   \* waking, one, prev: the channel that pt_i_wake is called for, if it
                   \* is, wake_one and the thread before the one it looks at

----------------------------------------------------------------------------
(* One list. *)

\* Wrong variant of pt_i_link: the head is not moved on to the new thread.
LinkAsOldest(s, l, n) ==
    LET h == s.head[l]
    IN [s EXCEPT !.next = IF h = NULL THEN [@ EXCEPT ![n] = n]
                          ELSE [@ EXCEPT ![n] = s.next[h], ![h] = n],
                 !.head[l] = IF h = NULL THEN n ELSE h]
\* pt_i_link: n becomes the newest of list l.
pt_i_link(s, l, n) ==
    LET h == s.head[l]
    IN [s EXCEPT !.next = IF h = NULL THEN [@ EXCEPT ![n] = n]
                          ELSE [@ EXCEPT ![n] = s.next[h], ![h] = n],
                 !.head[l] = n]

\* pt_i_unlink: the thread that follows prev leaves list l.
pt_i_unlink(s, l, prev) ==
    LET n == s.next[prev]
    IN [s EXCEPT !.next = [@ EXCEPT ![prev] = s.next[n], ![n] = NULL],
                 !.head[l] = IF n = prev THEN NULL ELSE IF n = @ THEN prev ELSE @]

\* The threads that are on a list; for each of them those that came to it later: from
\* one thread to the next up to the newest.
Listed(s) == {t \in Threads : s.next[t] # NULL}
LaterOnes(s) ==
    LET later[t \in Listed(s)] ==
            IF \E l \in PtHeads : s.head[l] = t THEN {}
            ELSE {s.next[t]} \union later[s.next[t]]
    IN later
OnList(s, l) == {t \in Listed(s) : t = s.head[l] \/ s.head[l] \in LaterOnes(s)[t]}

\* The loop of pt_i_find_and_unlink goes from thread to thread until n follows.
pt_i_find_and_unlink(s, l, n) ==
    pt_i_unlink(s, l, CHOOSE prev \in OnList(s, l) : s.next[prev] = n)

----------------------------------------------------------------------------
(* The scheduler. *)

pt_i_get_wait_list(c) == IF c \in Crowd THEN 1 ELSE 2

\* pt_i_wake is called: its loop, if there is somebody, begins at the oldest.
pt_i_wake(s, c, wake_one) ==
    LET l == pt_i_get_wait_list(c)
    IN IF s.head[l] = NULL THEN s
       ELSE [s EXCEPT !.waking = c, !.one = wake_one, !.prev = s.head[l]]

Return(s) == [s EXCEPT !.waking = NULL, !.one = FALSE, !.prev = NULL]
NotWaking == pts.waking = NULL

\* A turn of its loop: the thread behind prev waits for something else, or is woken.
WakePasses(l, t) ==
    /\ pts.channel[t] # pts.waking
    /\ pts' = IF t = pts.head[l] THEN Return(pts) ELSE [pts EXCEPT !.prev = t]
WakeMoves(l, t) ==
    /\ pts.channel[t] = pts.waking
    /\ LET woken == pt_i_link(pt_i_unlink(pts, l, pts.prev), READY, t)
       IN pts' = IF pts.one \/ woken.head[l] = NULL THEN Return(woken) ELSE woken
WakeTurn ==
    /\ ~NotWaking
    /\ LET l == pt_i_get_wait_list(pts.waking)
           t == pts.next[pts.prev]
       IN WakePasses(l, t) \/ WakeMoves(l, t)

\* A descriptor is used again only when its thread has ended (Devices, HttpConn).
pt_create(t) ==
    /\ NotWaking /\ t \notin pts.alive
    /\ pts' = pt_i_link([pts EXCEPT !.alive = @ \union {t}, !.channel[t] = NULL,
                                    !.next[t] = NULL], READY, t)

\* protothread_run up to the call of the thread's function: the oldest runs.
protothread_run ==
    /\ NotWaking /\ pts.running = NULL /\ pts.head[READY] # NULL
    /\ LET h == pts.head[READY]
       IN pts' = [pt_i_unlink(pts, READY, h) EXCEPT !.running = pts.next[h]]

\* The ways in which the slice of the thread that runs ends.
InSlice == NotWaking /\ pts.running # NULL
pt_yield ==
    /\ InSlice
    /\ pts' = pt_i_link([pts EXCEPT !.running = NULL], READY, pts.running)
pt_wait(c) ==
    /\ InSlice
    /\ pts' = pt_i_link([pts EXCEPT !.channel[pts.running] = c, !.running = NULL],
                        pt_i_get_wait_list(c), pts.running)
pt_join(t) == t # pts.running /\ t \in pts.alive /\ pt_wait(t)
\* PT_DONE: whoever waits for the thread's end is woken.
PtDone ==
    /\ InSlice
    /\ pts' = pt_i_wake([pts EXCEPT !.alive = @ \ {pts.running}, !.running = NULL],
                        pts.running, FALSE)

\* Called from a slice, or between two by the main loop.
pt_signal(c) == NotWaking /\ pts' = pt_i_wake(pts, c, TRUE)
pt_broadcast(c) == NotWaking /\ pts' = pt_i_wake(pts, c, FALSE)

\* The thread is taken from the list on which it is found; on none, all stays.
pt_kill(t) ==
    /\ NotWaking /\ t # pts.running
    /\ LET l == IF t \in OnList(pts, READY) THEN READY ELSE pt_i_get_wait_list(pts.channel[t])
           s == pt_i_find_and_unlink(pts, l, t)
       IN /\ t \in OnList(pts, l)
          /\ pts' = pt_i_wake([s EXCEPT !.alive = @ \ {t}], t, FALSE)

\* protothread_init.
PtInit ==
    pts = [head |-> [l \in PtHeads |-> NULL], running |-> NULL, alive |-> {},
           next |-> [t \in Threads |-> NULL], channel |-> [t \in Threads |-> NULL],
           waking |-> NULL, one |-> FALSE, prev |-> NULL]

SliceEnds == pt_yield \/ (\E c \in Events : pt_wait(c)) \/ (\E t \in Threads : pt_join(t)) \/ PtDone
PtNext ==
    \/ protothread_run \/ SliceEnds \/ WakeTurn
    \/ \E t \in Threads : pt_create(t) \/ pt_kill(t)
    \/ \E c \in Events : pt_signal(c) \/ pt_broadcast(c)

PtSpec == PtInit /\ [][PtNext]_pts

----------------------------------------------------------------------------

\* Who waits on channel c, and who of those that wait on the channel that is woken
\* is going to be moved.
Waiting(s, c) == {t \in OnList(s, pt_i_get_wait_list(c)) : s.channel[t] = c}
ToMove(s) ==
    IF s.waking = NULL THEN {}
    ELSE IF s.one THEN {t \in Waiting(s, s.waking) :
                           \A u \in Waiting(s, s.waking) : t \notin LaterOnes(s)[u]}
    ELSE Waiting(s, s.waking)

\* Who came before whom: on the ready list, or on a wait list for the same channel;
\* those that are moved come behind who is ready.
Earlier(s) ==
    LET ready == OnList(s, READY)
        moved == ToMove(s)
        Came(t, u) ==
            \/ t \in ready /\ u \in moved
            \/ /\ t \in Listed(s) /\ u \in LaterOnes(s)[t]
               /\ t \in ready \/ s.channel[t] = s.channel[u]
               /\ (t \in moved) <=> (u \in moved)
    IN {p \in Threads \X Threads : Came(p[1], p[2])}

Queues == INSTANCE PtQueue WITH
    ready   <- OnList(pts, READY) \union ToMove(pts),
    waiting <- [c \in Chans |-> Waiting(pts, c) \ ToMove(pts)],
    before  <- Earlier(pts),
    running <- pts.running,
    alive   <- pts.alive

\* The circular lists are queues: whatever threads yield, wait, end, are killed
\* and created again, also while the wait list of their channel is walked or
\* shared with other channels, everybody is woken and run in the order of
\* coming, and nobody is lost, woken for another channel or run twice
\* (pt_i_link, pt_i_unlink, pt_i_find_and_unlink, pt_i_wake).
ListsAreQueues == Queues!Spec

PtStates ==
    [head : [PtHeads -> Threads \union {NULL}], running : Threads \union {NULL},
     alive : SUBSET Threads, next : [Threads -> Threads \union {NULL}],
     channel : [Threads -> Chans \union {NULL}],
     waking : Chans \union {NULL}, one : BOOLEAN, prev : Threads \union {NULL}]
PtTypeOK == pts \in PtStates /\ pts.running \in pts.alive \union {NULL}

\* One of the threads is ready.
PtReady == (CHOOSE t \in Threads : TRUE) \in OnList(pts, READY)
=============================================================================
