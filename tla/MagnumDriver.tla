---------------------------- MODULE MagnumDriver ----------------------------
(***************************************************************************)
(* The Magnum inverter's driver: a tap that is only read.  It goes offline *)
(* without the port or without a recent inverter packet, follows one stack *)
(* role, and publishes a reading now and then.                             *)
(*                                                                         *)
(* The adapter may be pulled, plugged in, or opened by another module or   *)
(* process, and the inverters fall silent or come back, until things       *)
(* settle.  How packets are found is MagnumFrame's subject: here a read    *)
(* brings packets of some roles, or none.  Points in time are the ticks    *)
(* until they come, or since.                                              *)
(***************************************************************************)
EXTENDS Integers, FiniteSets, Clock

CONSTANTS
    Roles,           \* stack roles of the inverters on the bus
    NoRole,
    STALE_S,         \* offline after so long without a packet; also the role's
    REOPEN_S,        \* between two tries to open the port
    OWNED_RETRY_S,   \* the same when another module has it
    PUBLISH_S        \* poll_interval_s

\* A port that another module has is looked at less often.
ASSUME MgAssumption ==
    /\ STALE_S \in Nat /\ REOPEN_S \in Nat /\ PUBLISH_S \in Nat
    /\ OWNED_RETRY_S \in Nat /\ REOPEN_S <= OWNED_RETRY_S

VARIABLES
    mg,       \* mag_ctx_t
    port,     \* what the adapter's path leads to: "gone", "free", "owned" by
              \* another module of the daemon, or "locked" by another process
    talking,  \* the roles whose inverters send
    mg_settled   \* adapter and bus change no more

mg_vars == <<mg, port, talking, mg_settled>>

----------------------------------------------------------------------------
(* Decoding. *)

\* decode_inverter: of another role than the one that is followed a packet is
\* counted only, unless that one has been silent for a while.
decode_inverter(c, role) ==
    IF c.seen /\ role # c.role /\ c.age <= STALE_S THEN c
    ELSE [c EXCEPT !.seen = TRUE, !.role = role, !.age = 0]

\* What a read may bring, in any order: nothing yet, or packets.
Read(c) ==
    {c} \union {decode_inverter(c, r) : r \in talking}
        \union {decode_inverter(decode_inverter(c, r), s) : r, s \in talking}

\* Once things have settled, a packet that counts comes between two steps if an
\* inverter sends any.
Heard(c) ==
    LET good == {d \in Read(c) : d.seen /\ d.age = 0}
    IN IF mg_settled /\ good # {} THEN good ELSE Read(c)

----------------------------------------------------------------------------
(* The port. *)

\* resolve_port, open_in_this_process, mag_tty_open: what a try leaves.
try_open(c, ok) ==
    CASE port = "owned" -> [c EXCEPT !.next_open = OWNED_RETRY_S]
      [] port = "free" /\ ok -> [c EXCEPT !.open = TRUE, !.next_open = REOPEN_S]
      [] OTHER -> [c EXCEPT !.next_open = REOPEN_S]

\* drain: what is waiting is read; the end of the file, or an error, means that
\* the adapter is gone.
drain(c) ==
    IF c.alive THEN Heard(c) ELSE {[c EXCEPT !.open = FALSE, !.next_open = REOPEN_S]}

----------------------------------------------------------------------------
(* The calls. *)

\* mag_step, after the port and the bus.
Publish(c) ==
    IF ~c.open \/ ~c.seen \/ c.age > STALE_S
    THEN [c EXCEPT !.online = FALSE, !.reading = FALSE]
    ELSE IF ~c.reading \/ c.next_publish = 0
    THEN [c EXCEPT !.online = TRUE, !.reading = TRUE, !.next_publish = PUBLISH_S]
    ELSE [c EXCEPT !.online = TRUE]

mag_step ==
    /\ \E ok \in IF mg_settled THEN {TRUE} ELSE BOOLEAN :
          LET c == IF ~mg.open /\ mg.next_open = 0
                   THEN [try_open(mg, ok) EXCEPT !.alive = TRUE] ELSE mg
          IN \E d \in IF c.open THEN drain(c) ELSE {c} : mg' = Publish(d)
    /\ UNCHANGED <<port, talking, mg_settled>>

\* mag_open: the port is opened by the first step.
mag_open ==
    [open |-> FALSE, alive |-> TRUE, next_open |-> 0, seen |-> FALSE, role |-> NoRole,
     age |-> 0, online |-> FALSE, reading |-> FALSE, next_publish |-> 0]

MgReopen == ~mg_settled /\ mg' = mag_open /\ UNCHANGED <<port, talking, mg_settled>>

\* mag_put_settings, mag_action: the next step publishes.
mag_put_settings ==
    /\ mg' = [mg EXCEPT !.next_publish = 0]
    /\ UNCHANGED <<port, talking, mg_settled>>

\* The adapter is pulled, plugged in, or taken or given back by somebody else.
Adapter ==
    /\ ~mg_settled
    /\ port' \in {"gone", "free", "owned", "locked"} \ {port}
    /\ mg.open /\ mg.alive => port' = "gone"
    /\ mg' = [mg EXCEPT !.alive = @ /\ port' # "gone"]
    /\ UNCHANGED <<talking, mg_settled>>

Bus == ~mg_settled /\ talking' \in SUBSET Roles /\ UNCHANGED <<mg, port, mg_settled>>

MgSettle == ~mg_settled /\ mg_settled' = TRUE /\ UNCHANGED <<mg, port, talking>>

\* A tick of the clock.
MgTick ==
    /\ mg' = [mg EXCEPT !.next_open = Pass(@), !.next_publish = Pass(@),
                        !.age = IF @ <= STALE_S /\ mg.seen THEN @ + 1 ELSE @]
    /\ UNCHANGED <<port, talking, mg_settled>>

MgInit ==
    /\ mg = mag_open
    /\ port \in {"gone", "free", "owned", "locked"}
    /\ talking \in SUBSET Roles
    /\ mg_settled = FALSE

MgNext == mag_step \/ MgReopen \/ mag_put_settings \/ Adapter \/ Bus \/ MgSettle \/ MgTick

\* The loop steps the driver for ever and time passes.
MgFairness == WF_mg_vars(mag_step) /\ WF_mg_vars(MgTick)
MgSpec == MgInit /\ [][MgNext]_mg_vars /\ MgFairness

----------------------------------------------------------------------------

MgTypeOK ==
    /\ mg \in [open : BOOLEAN, alive : BOOLEAN, next_open : 0 .. OWNED_RETRY_S, seen : BOOLEAN,
               role : Roles \union {NoRole}, age : 0 .. STALE_S + 1, online : BOOLEAN,
               reading : BOOLEAN, next_publish : 0 .. PUBLISH_S]
    /\ port \in {"gone", "free", "owned", "locked"}
    /\ talking \subseteq Roles /\ mg_settled \in BOOLEAN

\* The port is to be had and an inverter sends; and there is a reading of it.
MgAnswering == mg_settled /\ port = "free" /\ talking # {}
MgRead == mg.online /\ mg.reading
=============================================================================
