---------------------------- MODULE MagnumFrame ----------------------------
(***************************************************************************)
(* Finding packets in what a tap on the Magnum bus hears: an inverter      *)
(* packet, the remote's packet, perhaps a peripheral's reply, and so on.   *)
(*                                                                         *)
(* Inverter and remote packets are shortened from 21 bytes to 3 and a      *)
(* reply to 2, keeping the bytes that decide: the first stands for the     *)
(* model and revision of an inverter, the last one is its terminator or    *)
(* the remote's type.  A packet that was found is its type and length.     *)
(* Any byte may come at any time, so every window that only looks like a   *)
(* packet does come.                                                       *)
(***************************************************************************)
EXTENDS Integers, Sequences, FiniteSets

CONSTANTS
    Models,            \* inverter models (with their revisions)
    MAG_RELEARN_BYTES, \* without an inverter packet before it is learned anew
    MAG_HELD_MAX       \* packets held while the inverter is not known

ASSUME FrAssumption == MAG_RELEARN_BYTES \in Nat /\ MAG_HELD_MAX \in Nat

VARIABLE fr            \* mag_frame_t; out is what the call under way delivers

fr_vars == fr

NoModel == "none"
MAG_INV_LEN == 3
MAG_REMOTE_LEN == 3
ReplyLen == 2

\* Bytes: a model, 0x00, another type of the remote, a reply's first byte, what
\* a line that is let go reads as, and anything else.
Bytes == Models \union {"00", "type", "reply", "ff", "other"}

\* mag_reply_len.
mag_reply_len(b) == IF b = "reply" THEN ReplyLen ELSE 0
remote_type_ok(b) == b \in {"00", "type"}
turnaround_byte(b) == b = "ff"

\* mag_frame_is_inverter, of the bytes from p on.
mag_frame_is_inverter(f, p) ==
    /\ f.buf[p + 2] = "00"
    /\ f.buf[p] \in IF f.have_id THEN {f.model} ELSE Models

\* The bytes of packets.
Total(pkts) == Cardinality({p \in (DOMAIN pkts) \X (1 .. MAG_INV_LEN) : p[2] <= pkts[p[1]].len})

----------------------------------------------------------------------------
(* Passing packets on. *)

Packets == [type : {"inverter", "remote", "reply"}, len : 1 .. MAG_INV_LEN]
Unknown == [type |-> "unknown", len |-> 1]

\* deliver: n bytes reach the decoder as packets, or as bytes that are not part of
\* one, which are counted one by one.
deliver(f, pkts, n) == [f EXCEPT !.out = @ \o pkts, !.owed = @ - n]
unknown(f, n) == deliver(f, [i \in 1 .. n |-> Unknown], n)

\* held_flush: what was held, in order.
held_flush(f) == [deliver(f, f.held, Total(f.held)) EXCEPT !.held = <<>>]

\* held_drop: it was not an inverter after all.
held_drop(f) ==
    [unknown(f, Total(f.held)) EXCEPT !.held = <<>>, !.probing = FALSE, !.probe = NoModel]

emit(f, pkt) ==
    IF ~f.probing THEN deliver(f, <<pkt>>, pkt.len)
    ELSE IF Len(f.held) < MAG_HELD_MAX THEN [f EXCEPT !.held = Append(@, pkt)]
    ELSE unknown(held_drop(f), pkt.len)

skip(f, n) == [unknown(IF f.probing THEN held_drop(f) ELSE f, n) EXCEPT !.synced = FALSE]

consume(f, n) == [f EXCEPT !.buf = SubSeq(@, n + 1, Len(@))]

----------------------------------------------------------------------------
(* The three states; each returns f itself when it needs more bytes. *)

\* An inverter packet that fits is taken on probation at first; the inverter is
\* known from a second one that follows in step.
Learn(f) ==
    LET model == f.buf[1]
    IN IF f.have_id THEN f
       ELSE IF f.probing /\ f.synced /\ model = f.probe
       THEN held_flush([f EXCEPT !.probing = FALSE, !.probe = NoModel,
                                 !.have_id = TRUE, !.model = model])
       ELSE [held_drop(f) EXCEPT !.probing = TRUE, !.probe = model]

TakeInverter(f) ==
    LET d == [Learn(f) EXCEPT !.since_inv = 0, !.synced = TRUE]
        pkt == [type |-> "inverter", len |-> MAG_INV_LEN]
    IN consume([emit(d, pkt) EXCEPT !.state = "after_inv"], MAG_INV_LEN)

hunt(f) ==
    LET at == {i \in 1 .. Len(f.buf) - MAG_INV_LEN + 1 : mag_frame_is_inverter(f, i)}
    IN IF Len(f.buf) < MAG_INV_LEN THEN f
       ELSE IF at = {} THEN LET drop == Len(f.buf) - (MAG_INV_LEN - 1)
                            IN consume(skip(f, drop), drop)
       ELSE LET i == CHOOSE x \in at : \A y \in at : x <= y
            IN IF i > 1 THEN consume(skip(f, i - 1), i - 1) ELSE TakeInverter(f)

TakeRemote(f) ==
    LET pkt == [type |-> "remote", len |-> MAG_REMOTE_LEN]
    IN consume([emit(f, pkt) EXCEPT !.state = "after_remote"], MAG_REMOTE_LEN)

\* Wrong variant: what follows a stray byte is not waited for.
after_inv_hasty(f) ==
    IF Len(f.buf) < MAG_REMOTE_LEN THEN f
    ELSE IF turnaround_byte(f.buf[1]) /\ Len(f.buf) > MAG_REMOTE_LEN
            /\ (remote_type_ok(f.buf[MAG_REMOTE_LEN + 1]) \/ mag_frame_is_inverter(f, 2))
    THEN consume([f EXCEPT !.owed = @ - 1], 1)
    ELSE IF remote_type_ok(f.buf[MAG_REMOTE_LEN]) /\ ~mag_frame_is_inverter(f, 1)
    THEN TakeRemote(f) ELSE [f EXCEPT !.state = "hunt"]

\* after_inv: the remote's packet, perhaps behind a stray byte, which is dropped.
after_inv(f) ==
    LET stray == Len(f.buf) > 0 /\ turnaround_byte(f.buf[1])
    IN IF Len(f.buf) < MAG_REMOTE_LEN + (IF stray THEN 1 ELSE 0) THEN f
       ELSE IF stray /\ (remote_type_ok(f.buf[MAG_REMOTE_LEN + 1]) \/ mag_frame_is_inverter(f, 2))
       THEN consume([f EXCEPT !.owed = @ - 1], 1)
       ELSE IF remote_type_ok(f.buf[MAG_REMOTE_LEN]) /\ ~mag_frame_is_inverter(f, 1)
       THEN TakeRemote(f) ELSE [f EXCEPT !.state = "hunt"]

\* after_remote: a reply, if its first byte starts one and its contents make
\* sense (reply_ok).
after_remote(f) ==
    LET n == mag_reply_len(f.buf[1])
        pkt == [type |-> "reply", len |-> n]
    IN IF Len(f.buf) < 1 THEN f
       ELSE IF n = 0 THEN [f EXCEPT !.state = "hunt"]
       ELSE IF Len(f.buf) < n THEN f
       ELSE IF f.buf[2] = "other" THEN [f EXCEPT !.state = "hunt"]
       ELSE consume(emit([f EXCEPT !.state = "hunt"], pkt), n)

\* What a framer may be in a call.
Framers ==
    [state : {"hunt", "after_inv", "after_remote"}, buf : Seq(Bytes),
     have_id : BOOLEAN, model : Models \union {NoModel},
     probing : BOOLEAN, probe : Models \union {NoModel}, held : Seq(Packets),
     synced : BOOLEAN, since_inv : Nat, out : Seq(Packets \union {Unknown}), owed : Int]

Turn(f) ==
    CASE f.state = "hunt"         -> hunt(f)
      [] f.state = "after_inv"    -> after_inv(f)
      [] f.state = "after_remote" -> after_remote(f)

process[f \in Framers] == IF Turn(f) = f THEN f ELSE process[Turn(f)]

----------------------------------------------------------------------------
(* The calls. *)

\* mag_frame_init.
Framer == [state |-> "hunt", buf |-> <<>>, have_id |-> FALSE, model |-> NoModel,
           probing |-> FALSE, probe |-> NoModel, held |-> <<>>, synced |-> FALSE,
           since_inv |-> 0, out |-> <<>>, owed |-> 0]

\* mag_frame_feed of what one read returned.
Feed(f, data) ==
    LET since == f.since_inv + Len(data)
        g == [f EXCEPT !.since_inv = since, !.owed = @ + Len(data),
                       !.have_id = @ /\ since <= MAG_RELEARN_BYTES]
    IN process[[g EXCEPT !.buf = @ \o data, !.model = IF g.have_id THEN @ ELSE NoModel]]

\* What is left of a call between two calls; the count of bytes matters no
\* further than the relearning.
Done(f) == [f EXCEPT !.out = <<>>, !.since_inv = IF f.have_id THEN @ ELSE 0]

mag_frame_feed == \E b \in Bytes : fr' = Done(Feed(fr, <<b>>))

\* mag_frame_idle, when nothing has come for MAG_IDLE_S, or for MAG_PROBE_S too.
Quiet(f, probe) ==
    LET g == IF probe /\ f.probing THEN held_drop(f) ELSE f
    IN IF g.buf = <<>> THEN g
       ELSE [unknown(g, Len(g.buf)) EXCEPT !.buf = <<>>, !.state = "hunt"]
mag_frame_idle == \E probe \in BOOLEAN : fr' = Done(Quiet(fr, probe))

\* mag_frame_reset_stream: the port has been opened anew.
mag_frame_reset_stream ==
    fr' = [fr EXCEPT !.buf = <<>>, !.state = "hunt", !.synced = FALSE, !.since_inv = 0,
                     !.probing = FALSE, !.probe = NoModel, !.held = <<>>, !.owed = 0]

FrInit == fr = Framer
FrNext == mag_frame_feed \/ mag_frame_idle \/ mag_frame_reset_stream
FrSpec == FrInit /\ [][FrNext]_fr_vars

----------------------------------------------------------------------------

FrTypeOK ==
    /\ fr.state \in {"hunt", "after_inv", "after_remote"}
    /\ fr.buf \in Seq(Bytes) /\ Len(fr.buf) <= MAG_REMOTE_LEN
    /\ fr.have_id \in BOOLEAN /\ fr.probing \in BOOLEAN /\ fr.synced \in BOOLEAN
    /\ fr.model \in Models \union {NoModel} /\ fr.probe \in Models \union {NoModel}
    /\ fr.since_inv \in 0 .. MAG_RELEARN_BYTES
    /\ Len(fr.held) <= MAG_HELD_MAX

\* "Anything that does not fit is skipped and counted": every byte that was read
\* is in a packet that was passed on or counted as unknown, once, or waits.
Accounted == fr.owed = Len(fr.buf) + Total(fr.held)

\* What a call leaves and passes on, the bytes since the last inverter packet aside.
Seen(f) == [f EXCEPT !.since_inv = 0]

\* "Parsing never splits received data by time, so a stalled reader changes
\* nothing": what comes out of two bytes, and what is left, does not depend on
\* whether they were read together.
ChunksDoNotMatter ==
    fr.since_inv + 2 <= MAG_RELEARN_BYTES =>
        \A b, c \in Bytes : Seen(Feed(Feed(fr, <<b>>), <<c>>)) = Seen(Feed(fr, <<b, c>>))
=============================================================================
