------------------------------ MODULE Discover ------------------------------
(***************************************************************************)
(* Discovery: one job at a time behind POST /api/v1/discover, and the      *)
(* Classic's probe, which asks the last known address first and then       *)
(* sweeps a list of candidates through a few sockets.                      *)
(*                                                                         *)
(* The daemon steps the job in its loop.  What a peer does (refuse, stay   *)
(* silent, close, answer with an exception, with another device's type or  *)
(* as a Classic) is a choice at every step.  Time is kept in ticks.        *)
(***************************************************************************)
EXTENDS Integers, Sequences, FiniteSets, SequencesExt, Clock, ClassicModbus

CONSTANTS
    Hosts,           \* addresses of the subnet
    NoHost,          \* no last known address
    PROBE_INFLIGHT,  \* sockets
    PROBE_CAP_S      \* longest a job may take

ASSUME DiscAssumption ==
    IsFiniteSet(Hosts) /\ PROBE_INFLIGHT \in Nat \ {0} /\ PROBE_CAP_S \in Nat

VARIABLE disc        \* discover_job_t with the probe's job in it

disc_vars == disc

Slots == 1 .. PROBE_INFLIGHT
SlotFree == [state |-> "free", host |-> NoHost, itry |-> 0, deadline |-> 0]
DiscBusy(s) == s.state # "free"
NoSlots == [i \in Slots |-> SlotFree]

DiscNoJob == [phase |-> "none", auto_net |-> FALSE, cand |-> <<>>, slots |-> NoSlots,
          left |-> 0, hit |-> NoHost]
Idle == [state |-> "idle", job |-> DiscNoJob, wait |-> 0]

----------------------------------------------------------------------------
(* Candidates: skipped, on_candidate, add_cand, fill_subnet. *)

\* An address is taken once, and neither one that is in use by a module nor the
\* last known one, which has been asked already.
add_cand(cand, host, skip, last) ==
    IF host \in skip \/ host = last \/ host \in Range(cand) THEN cand ELSE Append(cand, host)

Candidates(list, skip, last) ==
    LET cand[n \in 0 .. Len(list)] ==
            IF n = 0 THEN <<>> ELSE add_cand(cand[n - 1], list[n], skip, last)
    IN cand[Len(list)]

\* Without a list the whole subnet is swept, if the request allows a sweep.
fill_subnet == SetToSeq(Hosts)

----------------------------------------------------------------------------
(* Sockets. *)

\* slot_connect: a socket on its way, or nothing when connecting fails at once.
slot_connect(host, itry) ==
    {SlotFree, [state |-> "connecting", host |-> host, itry |-> itry, deadline |-> IO_TIMEOUT_S]}

\* The next unit id at the same address, if there is one.
NextUnit(s) == IF s.itry + 1 >= NTry THEN {SlotFree} ELSE slot_connect(s.host, s.itry + 1)

\* What slot_pump may leave of a busy socket: a later stage of the exchange, the
\* next unit id (timeout, error, exception), nothing (not a Classic, or not the
\* one with the MAC address that is sought: mac_ok), or the answer of that one.
InFlight(s) ==
    CASE s.state = "connecting" -> {s} \union {[s EXCEPT !.state = st, !.deadline = IO_TIMEOUT_S]
                                               : st \in {"send", "recv"}}
      [] s.state = "send"       -> {s, [s EXCEPT !.state = "recv", !.deadline = IO_TIMEOUT_S]}
      [] s.state = "recv"       -> {s}

slot_pump(s) ==
    LET Result(slots, pr) == [slot : slots, pr : {pr}]
    IN IF ~DiscBusy(s) THEN Result({s}, "none")
       ELSE IF s.deadline = 0 THEN Result(NextUnit(s), "none")
       ELSE Result(InFlight(s) \union NextUnit(s) \union {SlotFree}, "none")
            \union Result({SlotFree}, "classic")

\* job_finish: every socket is closed.
job_finish(j) == [j EXCEPT !.phase = "done", !.slots = NoSlots]
Found(j, host) == job_finish([j EXCEPT !.hit = host])

\* fill_scan_slots: the next candidates get the free sockets; one whose connect
\* fails at once is passed over.
TakeNext(j) ==
    LET free == {i \in Slots : ~DiscBusy(j.slots[i])}
    IN IF j.cand = <<>> \/ free = {} THEN {j}
       ELSE {[j EXCEPT !.cand = Tail(@), !.slots[Min(free)] = s] :
                s \in slot_connect(Head(j.cand), 0)}

fill_scan_slots(j) ==
    LET jobs[n \in 0 .. Len(j.cand)] ==
            IF n = 0 THEN {j} ELSE UNION {TakeNext(k) : k \in jobs[n - 1]}
    IN jobs[Len(j.cand)]

----------------------------------------------------------------------------
(* The probe's job. *)

\* classic_probe_start: ask the last known address; without one, or if that
\* fails at once, sweep, or be done if a sweep is not allowed.
classic_probe_start(last, auto_net, cand) ==
    LET new == [phase |-> "lastknown", auto_net |-> auto_net, cand |-> cand,
                slots |-> NoSlots, left |-> PROBE_CAP_S, hit |-> NoHost]
        asked == IF last = NoHost THEN {new}
                 ELSE {[new EXCEPT !.slots[1] = s] : s \in slot_connect(last, 0)}
        waiting == {j \in asked : DiscBusy(j.slots[1])}
    IN waiting \union UNION {IF auto_net THEN fill_scan_slots([j EXCEPT !.phase = "scan"])
                             ELSE {[j EXCEPT !.phase = "done"]} : j \in asked \ waiting}

\* The jobs a request may start: last known address, sweep allowed or not,
\* addresses in use, and a list of candidates, the subnet or one with doubles.
NewJobs ==
    UNION {classic_probe_start(last, auto_net, Candidates(list, skip, last)) :
              last \in Hosts \union {NoHost}, auto_net \in BOOLEAN, skip \in SUBSET Hosts,
              list \in {<<>>, fill_subnet, fill_subnet \o fill_subnet}}

\* The last known address is not the Classic that is sought.
ScanOrFinish(j) ==
    IF j.auto_net THEN [job : fill_scan_slots([j EXCEPT !.phase = "scan"]), st : {"scan"}]
    ELSE [job : {job_finish(j)}, st : {"updated"}]

LastKnown(j) ==
    UNION {IF o.pr = "classic" THEN [job : {Found(j, j.slots[1].host)}, st : {"updated"}]
           ELSE IF DiscBusy(o.slot) THEN [job : {[j EXCEPT !.slots[1] = o.slot]}, st : {"idle"}]
           ELSE ScanOrFinish([j EXCEPT !.slots[1] = SlotFree]) : o \in slot_pump(j.slots[1])}

\* Every socket is served in turn; the first Classic ends the job, and so does
\* the last candidate.
Pumped(j) ==
    LET p == [i \in Slots |-> slot_pump(j.slots[i])]
    IN {o \in [Slots -> UNION Range(p)] : \A i \in Slots : o[i] \in p[i]}

Hits(o) == {i \in Slots : o[i].pr = "classic"}

Swept(j) ==
    {IF k.cand = <<>> /\ \A i \in Slots : ~DiscBusy(k.slots[i])
     THEN [job |-> job_finish(k), st |-> "updated"] ELSE [job |-> k, st |-> "idle"] :
        k \in fill_scan_slots(j)}

Scan(j) ==
    LET outcomes == Pumped(j)
    IN {[job |-> Found(j, j.slots[Min(Hits(o))].host), st |-> "updated"] :
            o \in {x \in outcomes : Hits(x) # {}}}
       \union UNION {Swept([j EXCEPT !.slots = slots]) :
            slots \in {[i \in Slots |-> o[i].slot] : o \in {x \in outcomes : Hits(x) = {}}}}

\* classic_probe_step: what it may leave of the job, and what it reports.
classic_probe_step(j) ==
    IF j.phase = "done" THEN {[job |-> j, st |-> "idle"]}
    ELSE IF j.left = 0 THEN {[job |-> job_finish(j), st |-> "updated"]}
    ELSE IF j.phase = "scan" THEN UNION {Scan(k) : k \in fill_scan_slots(j)}
    ELSE UNION {IF r.st = "scan" THEN Scan(r.job) ELSE {r} : r \in LastKnown(j)}

----------------------------------------------------------------------------
(* discover.c: the job behind the REST interface. *)

\* mf_discover_start: refused while a job runs; otherwise the last job and its
\* result are dropped.  A driver without a probe holds the place for a moment.
mf_discover_start ==
    /\ disc.state # "running"
    /\ \/ \E j \in NewJobs : disc' = [state |-> "running", job |-> j, wait |-> 0]
       \/ disc' = [state |-> "running", job |-> DiscNoJob, wait |-> IO_TIMEOUT_S]

\* A request that is not understood, or a probe that cannot start, drops it too.
StartRefused ==
    /\ disc.state # "running"
    /\ disc' \in {Idle, [Idle EXCEPT !.state = "error"]}

\* mf_discover_step: the probe's result ends the job when it is reported.
mf_discover_step ==
    /\ disc.state = "running"
    /\ IF disc.job.phase = "none"
       THEN disc' = IF disc.wait = 0 THEN [disc EXCEPT !.state = "done"] ELSE disc
       ELSE \E r \in classic_probe_step(disc.job) :
                disc' = [disc EXCEPT !.job = r.job,
                                     !.state = IF r.st = "updated" THEN "done" ELSE @]

\* A tick of the clock.
SlotTick(s) == [s EXCEPT !.deadline = Pass(@)]
DiscTick ==
    /\ disc.state = "running"
    /\ disc' = [disc EXCEPT !.wait = Pass(@), !.job.left = Pass(@),
                            !.job.slots = [i \in Slots |-> SlotTick(@[i])]]

DiscInit == disc = Idle
DiscNext == mf_discover_start \/ StartRefused \/ mf_discover_step \/ DiscTick

\* The loop steps the job for ever and time passes.
DiscFairness == WF_disc_vars(mf_discover_step) /\ WF_disc_vars(DiscTick)
DiscSpec == DiscInit /\ [][DiscNext]_disc_vars /\ DiscFairness

----------------------------------------------------------------------------

DiscTypeOK ==
    /\ disc.state \in {"idle", "running", "done", "error"}
    /\ disc.wait \in 0 .. IO_TIMEOUT_S
    /\ disc.job.phase \in {"none", "lastknown", "scan", "done"}
    /\ disc.job.cand \in BoundedSeq(Hosts, Cardinality(Hosts))
    /\ disc.job.left \in 0 .. PROBE_CAP_S
    /\ disc.job.hit \in Hosts \union {NoHost}
    /\ disc.job.slots \in [Slots -> [state : {"free", "connecting", "send", "recv"},
                                    host : Hosts \union {NoHost}, itry : 0 .. NTry - 1,
                                    deadline : 0 .. IO_TIMEOUT_S]]

\* A job that had something to do when it started and has not ended.  One that
\* had nothing to do is done from the start, and its end is never reported.
JobUnderWay == disc.state = "running" /\ disc.job.phase # "done"
=============================================================================
