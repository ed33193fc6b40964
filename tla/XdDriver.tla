------------------------------ MODULE XdDriver ------------------------------
(***************************************************************************)
(* The XD battery's driver: a serial adapter that is opened by its path    *)
(* and recognised by its USB identity, and the exchanges with the battery  *)
(* (firmware, barcode, then polls).                                        *)
(*                                                                         *)
(* Adapters are plugged in, pulled and swapped at any time, but not within *)
(* one step, until things settle; from then on the battery answers.  All   *)
(* are of one make.  An adapter's by-id name is its own and ends in its    *)
(* serial number, which may be one that others have too, or it has         *)
(* neither.  Until things settle any of it may be unreadable at times.     *)
(* Contents of the frames are left out; points in time are the ticks until *)
(* they come.                                                              *)
(***************************************************************************)
EXTENDS Integers, FiniteSets, Clock

CONSTANTS
    Adapters,     \* USB serial adapters, and their by-id names
    Twins,        \* those that have the same serial number
    Blank,        \* those that have no serial number and no by-id name
    Paths,        \* device paths
    FirstPaths,   \* those a module may be configured with
    Nothing,      \* no adapter, no identity
    XD_TIMEOUT,   \* longest an exchange may take
    XD_INTERVAL   \* poll_interval_s, and the time between two opens

ASSUME XdAssumption ==
    /\ XD_TIMEOUT \in Nat /\ XD_INTERVAL \in Nat
    /\ Twins \subseteq Adapters /\ Blank \subseteq Adapters
    /\ FirstPaths \subseteq Paths
    /\ Nothing \notin Adapters /\ Nothing \notin {"0001", "usb-vid:pid"}

VARIABLES
    conf,     \* path and identity in the module's configuration, auto_port
    xd,       \* xd_ctx_t; alive: the adapter that is open was not pulled since
    ports,    \* the adapter at each path
    xd_settled,  \* nothing is plugged or pulled any more, and the battery answers
    wanted    \* history variable: the first serial number the driver knew

xd_vars == <<conf, xd, ports, xd_settled, wanted>>

\* The serial number an adapter is given that shows no more than its make.
WeakKey == "usb-vid:pid"

SerialOf(a) == IF a \in Blank THEN WeakKey ELSE IF a \in Twins THEN "0001" ELSE a
Serials == {SerialOf(a) : a \in Adapters} \union {WeakKey, Nothing}
Plugged == {p \in Paths : ports[p] # Nothing}

\* All there is to know of an adapter, and parts of it.
Id(a) == [serial |-> SerialOf(a), by_id |-> IF a \in Blank THEN Nothing ELSE a]
NoIdentity == [serial |-> Nothing, by_id |-> Nothing]
OnlySerial(s) == [NoIdentity EXCEPT !.serial = s]

----------------------------------------------------------------------------
(* usb_id.c: which adapter is the one that is wanted. *)

\* mf_usb_identify: what may be found out of an adapter.  Without the by-id link
\* there is the serial number, without that the make, if that.
mf_usb_identify(a) ==
    IF xd_settled THEN {Id(a)}
    ELSE {Id(a), OnlySerial(SerialOf(a)), OnlySerial(WeakKey), NoIdentity}

\* The paths that have a by-id link, and those of them that a scan comes across.
Links == {p \in Plugged : ports[p] \notin Blank}
Scans == IF xd_settled THEN {Links} ELSE SUBSET Links

\* mf_usb_find_by_serial: the only one with the serial number; of several, the
\* one with the by-id name.
mf_usb_find_by_serial(seen, serial, hint) ==
    LET hits == {p \in seen : SerialOf(ports[p]) = serial}
    IN IF Cardinality(hits) = 1 THEN hits ELSE {p \in hits : ports[p] = hint}

serial_matches(c, id) ==
    \/ c.serial # Nothing /\ id.serial = c.serial
    \/ c.by_id # Nothing /\ id.by_id = c.by_id

\* mf_usb_resolve: what to do, and the path and identity to do it with, when the
\* adapter at the path shows itself as here and a scan comes across seen.
mf_usb_resolve(c, opened, here, seen) ==
    LET found == mf_usb_find_by_serial(seen, c.serial, c.by_id)
        nothing_wanted == c.serial = Nothing /\ c.by_id = Nothing
    IN IF opened /\ (nothing_wanted \/ serial_matches(c, here))
       THEN [rc |-> "use", path |-> c.path, id |-> here]
       ELSE IF ~c.auto_port \/ c.serial = Nothing \/ found = {} THEN [rc |-> "error"]
       ELSE LET p == CHOOSE p \in found : TRUE
            IN [rc |-> IF p = c.path THEN "use" ELSE "relocate", path |-> p,
                id |-> Id(ports[p])]

----------------------------------------------------------------------------
(* Opening. *)

\* try_open_fd: the adapter at the path; the open may fail.
try_open_fd(c, ok) ==
    [c EXCEPT !.fd = IF ok THEN ports[c.path] ELSE Nothing, !.alive = TRUE]

\* What was found out of the adapter; the rest of the identity stays.
Learned(c, id) ==
    [c EXCEPT !.serial = IF id.serial = Nothing THEN @ ELSE id.serial,
              !.by_id = IF id.by_id = Nothing THEN @ ELSE id.by_id]

\* Wrong variant: an adapter that is not the right one stays open.
apply_usb_policy_any(c, ok, here, seen) ==
    LET r == mf_usb_resolve(c, c.fd # Nothing, here, seen)
    IN IF r.rc = "error" THEN c
       ELSE IF r.rc = "use" THEN Learned(c, r.id)
       ELSE try_open_fd([Learned(c, r.id) EXCEPT !.path = r.path], ok)

\* apply_usb_policy: what is left open is the adapter with the right identity,
\* perhaps at another path, or any when none is known.
apply_usb_policy(c, ok, here, seen) ==
    LET r == mf_usb_resolve(c, c.fd # Nothing, here, seen)
    IN IF r.rc = "error" THEN [c EXCEPT !.fd = Nothing]
       ELSE IF r.rc = "use" THEN Learned(c, r.id)
       ELSE try_open_fd([Learned(c, r.id) EXCEPT !.path = r.path], ok)

\* start_cmd, bms_txrx_init: an exchange begins, with empty buffers.
start_cmd(c, phase) ==
    [c EXCEPT !.cmd = phase, !.io = "write", !.deadline = XD_TIMEOUT, !.fresh = FALSE]

Opens == IF xd_settled THEN {TRUE} ELSE BOOLEAN

\* The first exchange, or another try later.
Started(d) ==
    IF d.fd # Nothing THEN start_cmd(d, "firmware") ELSE [d EXCEPT !.reopen = XD_INTERVAL]

\* The open of xd_open and of xd_step.
Opened(c) ==
    {Started(apply_usb_policy(try_open_fd(c, ok), again, here, seen)) :
        ok \in Opens, again \in Opens, here \in mf_usb_identify(ports[c.path]),
        seen \in Scans}

----------------------------------------------------------------------------
(* Exchanges. *)

\* bms_txrx_step: what comes of an exchange in one step: it gets further, it
\* ends with a reply, or with an error (wrong start, address, command, length,
\* checksum or end; the port fails; the time is up).  The reply is waited for
\* for a while after the command is out.
Later(io) == CASE io = "write"  -> {"write", "settle"}
               [] io = "settle" -> {"settle", "read"}
               [] io = "read"   -> {"read"}

bms_txrx_step(c) ==
    IF c.deadline = 0 THEN {"error"}
    ELSE IF ~c.alive THEN Later(c.io) \union {"error"}
    ELSE IF xd_settled THEN IF c.io = "read" THEN {"done"} ELSE Later(c.io) \ {c.io}
    ELSE Later(c.io) \union (IF c.io = "write" THEN {"error"} ELSE {"done", "error"})

NextCmd(cmd) == IF cmd = "firmware" THEN "barcode" ELSE "poll"

\* xd_step after a reply: the next command at once, or a reading if
\* bms_parse_realtime can make one of it.
Replied(c) ==
    IF c.cmd # "poll" THEN {[c EXCEPT !.io = "idle", !.cmd = NextCmd(@), !.next_poll = 0]}
    ELSE LET d == [c EXCEPT !.io = "idle", !.next_poll = XD_INTERVAL]
         IN {[d EXCEPT !.have_data = TRUE, !.fresh = TRUE]} \union (IF xd_settled THEN {} ELSE {d})

\* xd_step after an error: the next command, later.
XdFailed(c) == [c EXCEPT !.io = "idle", !.cmd = NextCmd(@), !.next_poll = XD_INTERVAL]

After(c, s) ==
    CASE s = "done"  -> Replied(c)
      [] s = "error" -> {XdFailed(c)}
      [] OTHER       -> {[c EXCEPT !.io = s]}

XdExchange(c) == UNION {After(c, s) : s \in bms_txrx_step(c)}

----------------------------------------------------------------------------

\* xd_step: the port is opened, an exchange is begun or goes on.
StepFrom(c) ==
    IF c.fd = Nothing
    THEN IF c.reopen > 0 THEN {c}
         ELSE UNION {IF d.fd = Nothing THEN {d} ELSE XdExchange(d) : d \in Opened(c)}
    ELSE IF c.io # "idle" THEN XdExchange(c)
    ELSE IF c.next_poll > 0 THEN {c} ELSE XdExchange(start_cmd(c, c.cmd))

Becomes(c) == xd' = c /\ wanted' = IF wanted = Nothing THEN c.serial ELSE wanted

xd_step == (\E c \in StepFrom(xd) : Becomes(c)) /\ UNCHANGED <<conf, ports, xd_settled>>

\* xd_close and xd_open, with what is configured: nothing of what the driver
\* has learned is saved (mf_endpoint_enqueue fills a queue that nothing drains).
xd_open(k) ==
    [path |-> k.path, serial |-> k.serial, by_id |-> k.by_id, auto_port |-> k.auto_port,
     fd |-> Nothing, alive |-> TRUE, cmd |-> "firmware", io |-> "idle", deadline |-> 0,
     next_poll |-> 0, reopen |-> 0, have_data |-> FALSE, fresh |-> FALSE]

XdReopen ==
    /\ ~xd_settled
    /\ xd' \in Opened(xd_open(conf))
    /\ wanted' = IF conf.serial = Nothing THEN xd'.serial ELSE conf.serial
    /\ UNCHANGED <<conf, ports, xd_settled>>

\* xd_put_settings; the rest of it does not matter here.
xd_put_settings ==
    /\ ~xd_settled
    /\ xd' = [xd EXCEPT !.auto_port = ~@]
    /\ UNCHANGED <<conf, ports, xd_settled, wanted>>

\* An adapter is plugged in, or pulled: whoever has it open cannot use it again.
Plug ==
    /\ ~xd_settled
    /\ \E p \in Paths, a \in Adapters :
          /\ ports[p] = Nothing /\ \A q \in Paths : ports[q] # a
          /\ ports' = [ports EXCEPT ![p] = a]
    /\ UNCHANGED <<conf, xd, xd_settled, wanted>>

Pull ==
    /\ ~xd_settled
    /\ \E p \in Plugged :
          /\ ports' = [ports EXCEPT ![p] = Nothing]
          /\ xd' = [xd EXCEPT !.alive = @ /\ xd.fd # ports[p]]
    /\ UNCHANGED <<conf, xd_settled, wanted>>

XdSettle == ~xd_settled /\ xd_settled' = TRUE /\ UNCHANGED <<conf, xd, ports, wanted>>

\* A tick of the clock.  It is longer than an exchange with a battery that
\* answers.
XdTick ==
    /\ xd_settled /\ xd.fd # Nothing /\ xd.alive => xd.io = "idle"
    /\ xd' = [xd EXCEPT !.deadline = Pass(@), !.next_poll = Pass(@), !.reopen = Pass(@)]
    /\ UNCHANGED <<conf, ports, xd_settled, wanted>>

\* An adapter's identity, or half of it, may be configured, or is learned from the
\* first adapter that is opened and shows it.
Identities ==
    {NoIdentity} \union UNION {{Id(a), OnlySerial(SerialOf(a)), [Id(a) EXCEPT !.serial = Nothing]} :
                              a \in Adapters}

XdInit ==
    /\ ports = [p \in Paths |-> Nothing]
    /\ xd_settled = FALSE
    /\ \E p \in FirstPaths, id \in Identities, ap \in BOOLEAN :
          conf = [path |-> p, serial |-> id.serial, by_id |-> id.by_id, auto_port |-> ap]
    /\ xd = [xd_open(conf) EXCEPT !.reopen = XD_INTERVAL]
    /\ wanted = conf.serial

XdNext == xd_step \/ XdReopen \/ xd_put_settings \/ Plug \/ Pull \/ XdSettle \/ XdTick

\* The loop steps the driver for ever and time passes.
XdFairness == WF_xd_vars(xd_step) /\ WF_xd_vars(XdTick)
XdSpec == XdInit /\ [][XdNext]_xd_vars /\ XdFairness

----------------------------------------------------------------------------

XdTypeOK ==
    /\ xd \in [path : Paths, serial : Serials, by_id : Adapters \union {Nothing},
               auto_port : BOOLEAN, fd : Adapters \union {Nothing}, alive : BOOLEAN,
               cmd : {"firmware", "barcode", "poll"},
               io : {"idle", "write", "settle", "read"}, deadline : 0 .. XD_TIMEOUT,
               next_poll : 0 .. XD_INTERVAL, reopen : 0 .. XD_INTERVAL,
               have_data : BOOLEAN, fresh : BOOLEAN]
    /\ ports \in [Paths -> Adapters \union {Nothing}]
    /\ xd_settled \in BOOLEAN /\ wanted \in Serials

\* However adapters are pulled, swapped and plugged in elsewhere, the driver
\* reads from none but one with the serial number it was given or knew first, if
\* it knows one and that is more than a make (mf_usb_resolve, apply_usb_policy).
RightSerial == xd.fd # Nothing => wanted \in {SerialOf(xd.fd), WeakKey, Nothing}

\* The adapter would be found if the driver looked for it.
Findable ==
    \/ /\ ports[xd.path] # Nothing
       /\ \/ xd.serial = Nothing /\ xd.by_id = Nothing
          \/ serial_matches(xd, Id(ports[xd.path]))
    \/ xd.auto_port /\ mf_usb_find_by_serial(Links, xd.serial, xd.by_id) # {}

\* An adapter that is open and was not pulled, or one that is to be found while
\* none is open; and a battery that has just been read.  (An adapter that was
\* pulled while it was open is never let go of: no error of an exchange closes it.)
XdAnswering == xd_settled /\ (IF xd.fd = Nothing THEN Findable ELSE xd.alive)
XdRead == xd.fresh
=============================================================================
