------------------------------ MODULE JkHelper ------------------------------
(***************************************************************************)
(* JK battery drivers on one Bluetooth adapter and the helper process      *)
(* mf_gatt they share: the drivers' connection machines, the helper row of *)
(* the plugin with its reference count, the sockets between the two        *)
(* processes, and the helper's sessions with the batteries.                *)
(*                                                                         *)
(* All drivers run in the daemon's one thread, the helper in a process of  *)
(* its own that visits its clients in turn.  Lines on a socket are         *)
(* abstracted to what their reader does with them: answers that only set   *)
(* an error text, and states, are left out.  Frames, registers and         *)
(* settings are data.  Timers may run out at any time; BlueZ may answer    *)
(* anything.  Connecting a Unix socket never is in progress, so there is   *)
(* no ST_CONNECTING here.                                                  *)
(***************************************************************************)
EXTENDS Naturals, Sequences, FiniteSets

CONSTANTS
    Drivers,   \* drivers, each with the battery (MAC) it is for
    Socks,     \* Unix sockets between daemon and helper
    Pids,      \* helper processes
    MaxCli,    \* MAX_CLI, the clients a helper serves
    MaxLines,  \* bound on the lines under way in one direction
    MaxRef,    \* bound on the reference count
    None,      \* "no such thing"
    MayDie     \* TRUE: a helper may crash or fail to start

Clis == 1 .. MaxCli

ASSUME CliAssumption == {MaxCli, MaxLines, MaxRef} \subseteq Nat
ASSUME AbsentAssumption == None \notin Drivers \union Socks \union Pids
ASSUME DieAssumption == MayDie \in BOOLEAN

VARIABLES
    g_help,   \* the adapter's helper row
    drv,      \* the drivers' contexts
    sock,     \* the sockets
    proc,     \* the helper processes
    g_cli,    \* the clients of the listening helper
    g_scan_owner,  \* the client that scans, or None
    turn      \* the client the helper's loop is at, 0 in poll()

helper == <<proc, g_cli, g_scan_owner, turn>>
vars == <<g_help, drv, sock, helper>>

\* A driver context, jk_ctx_t: off, idle, handshake or stream.
Closed == [st |-> "off", sock |-> None, handshake_ok |-> FALSE, have_data |-> FALSE]

\* A socket: whose it is, the lines under way to the helper (connect, write,
\* disconnect, quit) and back (ok, disconnected, notify), and the ends open.
Unused == [drv |-> None, up |-> <<>>, down |-> <<>>, dopen |-> FALSE, hopen |-> FALSE]

\* A client of the helper, its session idle, scan, wait_gatt or ready; reconnect
\* says whether reconnect_at is set, path whether dev_path is.
NoCli == [sock |-> None, bound |-> None, acked |-> FALSE, sess |-> "idle",
          path |-> FALSE, reconnect |-> FALSE]

Listening == \E p \in Pids : proc[p] = "up"

----------------------------------------------------------------------------
(* The plugin's helper row. *)

HelperAlive == g_help.pid # None /\ proc[g_help.pid] # "none"

\* helper_spawn: nothing to do while the helper starts or is up.
helper_spawn ==
    IF g_help.st = "up" \/ (g_help.st = "starting" /\ HelperAlive)
    THEN UNCHANGED <<g_help, proc>>
    ELSE \/ \E p \in Pids \ {g_help.pid} :
                /\ proc[p] = "none"
                /\ proc' = [proc EXCEPT ![p] = "starting"]
                /\ g_help' = [g_help EXCEPT !.st = "starting", !.pid = p]
         \/ /\ MayDie
            /\ g_help' = [g_help EXCEPT !.st = IF @ = "starting" THEN "none" ELSE @]
            /\ UNCHANGED proc

\* Wrong variant of helper_up: a second driver is not counted.
CountOnce == [g_help EXCEPT !.st = "up", !.refcnt = 1]
helper_up == [g_help EXCEPT !.st = "up", !.refcnt = @ + 1]
helper_dead == [g_help EXCEPT !.st = IF g_help.refcnt > 0 THEN "dead" ELSE @]
helper_release ==
    IF g_help.refcnt = 0 THEN g_help
    ELSE [g_help EXCEPT !.refcnt = @ - 1,
                        !.st = IF g_help.refcnt = 1 /\ @ = "up" THEN "none" ELSE @]

----------------------------------------------------------------------------
(* The drivers. *)

Send(s, line) ==
    IF sock[s].hopen THEN [sock EXCEPT ![s].up = Append(@, line)] ELSE sock

\* A socket both ends of which are closed is gone.
Norm(x) == IF x.dopen \/ x.hopen THEN x ELSE Unused
HangUp(socks, s) ==
    [socks EXCEPT ![s] = Norm([@ EXCEPT !.dopen = FALSE, !.down = <<>>])]

\* sock_close
SockClose(d) ==
    /\ sock' = HangUp(sock, drv[d].sock)
    /\ drv' = [drv EXCEPT ![d] = [Closed EXCEPT !.st = "idle"]]

\* start_connect, and the connect line that follows it; jk_open does it at
\* once, pump when it is time to try again.
StartConnect(d) ==
    /\ drv[d].st \in {"off", "idle"}
    /\ IF Listening
       THEN \E s \in Socks :
            /\ ~sock[s].dopen /\ ~sock[s].hopen
            /\ sock' = [sock EXCEPT ![s] = [drv |-> d, up |-> <<"connect">>,
                           down |-> <<>>, dopen |-> TRUE, hopen |-> TRUE]]
            /\ drv' = [drv EXCEPT ![d] = [Closed EXCEPT !.st = "handshake", !.sock = s]]
            /\ UNCHANGED <<g_help, proc>>
       ELSE /\ helper_spawn
            /\ drv' = [drv EXCEPT ![d].st = "idle"]
            /\ UNCHANGED sock
    /\ UNCHANGED <<g_cli, g_scan_owner, turn>>

\* Wrong variant of Dropped: the last reading stays on show.
KeepReading(c) == [c EXCEPT !.handshake_ok = FALSE]
\* mark_dropped
Dropped(c) == [c EXCEPT !.handshake_ok = FALSE, !.have_data = FALSE]

\* drain_in, of one line.
on_line(d) ==
    LET c == drv[d]
        s == c.sock
        rest == [sock EXCEPT ![s].down = Tail(@)]
    IN  /\ s # None /\ sock[s].down # <<>>
        /\ CASE Head(sock[s].down) = "ok" ->
                  /\ c.handshake_ok \/ g_help.refcnt < MaxRef
                  /\ g_help' = IF c.handshake_ok THEN g_help ELSE helper_up
                  /\ drv' = [drv EXCEPT ![d].handshake_ok = TRUE, ![d].st = "stream"]
                  /\ sock' = rest
             [] Head(sock[s].down) = "disconnected" ->
                  /\ drv' = [drv EXCEPT ![d] = Dropped(c)]
                  /\ sock' = IF c.handshake_ok /\ sock[s].hopen
                             THEN [rest EXCEPT ![s].up = Append(@, "connect")]
                             ELSE rest
                  /\ UNCHANGED g_help
             [] Head(sock[s].down) = "notify" ->
                  /\ \E complete \in BOOLEAN :
                        drv' = [drv EXCEPT ![d].have_data =
                                    @ \/ (c.handshake_ok /\ complete)]
                  /\ sock' = rest
                  /\ UNCHANGED g_help
        /\ UNCHANGED helper

\* drain_in at the end of the stream.  read() fails, instead of reporting the
\* end, when the helper died with lines of this driver unread.
ReadEnd(d) ==
    LET s == drv[d].sock
    IN  /\ s # None /\ sock[s].down = <<>> /\ ~sock[s].hopen
        /\ g_help' = IF drv[d].handshake_ok /\ sock[s].up = <<>> THEN helper_dead
                     ELSE g_help
        /\ SockClose(d)
        /\ UNCHANGED helper

\* pump queues a command, or a request does, and flush_out writes it.
Write(d) ==
    LET s == drv[d].sock
    IN  /\ drv[d].handshake_ok /\ s # None
        /\ IF sock[s].hopen
           THEN /\ Len(sock[s].up) < MaxLines
                /\ sock' = Send(s, "write")
                /\ UNCHANGED drv
           ELSE SockClose(d)
        /\ UNCHANGED <<g_help, helper>>

\* pump has had no cell data for CELL_STALE_S.
Stale(d) ==
    /\ drv[d].handshake_ok /\ drv[d].have_data
    /\ drv' = [drv EXCEPT ![d].have_data = FALSE]
    /\ UNCHANGED <<g_help, sock, helper>>

\* jk_get_reading has something to show.
jk_get_reading(d) == drv[d].have_data

\* jk_close.  When the farewell cannot be written flush_out closes the socket,
\* which clears handshake_ok, and the reference is not given back.
Farewell == IF g_help.refcnt <= 1 THEN "quit" ELSE "disconnect"
jk_close(d) ==
    LET s == drv[d].sock
        told == drv[d].handshake_ok /\ sock[s].hopen
    IN  /\ drv[d].st # "off"
        /\ g_help' = IF told THEN helper_release ELSE g_help
        /\ sock' = IF s = None THEN sock
                   ELSE IF told THEN HangUp(Send(s, Farewell), s)
                   ELSE HangUp(sock, s)
        /\ drv' = [drv EXCEPT ![d] = Closed]
        /\ UNCHANGED helper

----------------------------------------------------------------------------
(* The helper process. *)

\* The listening helper is gone, and its ends of all sockets with it.
Exit ==
    /\ proc' = [p \in Pids |-> IF proc[p] = "up" THEN "none" ELSE proc[p]]
    /\ sock' = [s \in Socks |-> Norm([sock[s] EXCEPT !.hopen = FALSE])]
    /\ g_cli' = [k \in Clis |-> NoCli]
    /\ g_scan_owner' = None
    /\ turn' = 0

\* main, up to bind_abs, which fails while another helper listens.
ProcBind(p) ==
    /\ proc[p] = "starting"
    /\ proc' = [proc EXCEPT ![p] = IF Listening THEN "none" ELSE "up"]
    /\ UNCHANGED <<g_help, drv, sock, g_cli, g_scan_owner, turn>>

ProcFails(p) ==
    /\ MayDie /\ proc[p] = "starting"
    /\ proc' = [proc EXCEPT ![p] = "none"]
    /\ UNCHANGED <<g_help, drv, sock, g_cli, g_scan_owner, turn>>

HelperCrash ==
    /\ MayDie /\ Listening
    /\ Exit
    /\ UNCHANGED <<g_help, drv>>

\* queue_line and cli_flush to a client.
Answer(s, line) ==
    IF sock[s].dopen THEN [sock EXCEPT ![s].down = Append(@, line)] ELSE sock

\* Wrong variant of mac_taken: only clients with an open session count.
ReadyTaken(d, k) == \E j \in Clis \ {k} : g_cli[j].bound = d /\ g_cli[j].sess = "ready"
mac_taken(d, k) == \E j \in Clis \ {k} : g_cli[j].bound = d

sess_reset(c) == [c EXCEPT !.sess = "idle", !.path = FALSE]
\* sess_fail of a client, of which c is the new value otherwise.
FailedCli(c) == [sess_reset(c) EXCEPT !.acked = FALSE, !.reconnect = @ \/ c.bound # None]
OwnerWithout(k) == IF g_scan_owner = k THEN None ELSE g_scan_owner

\* What BlueZ may answer to each question the helper asks.
device_in_objects == BOOLEAN
device_connect == BOOLEAN
start_discovery == BOOLEAN
discover_ffe1 == BOOLEAN
start_notify == BOOLEAN

\* begin_connect of client k, of which cl is the value so far.  A client that
\* finds another one scanning waits in the scan state without a device path.
begin_connect(k, cl) ==
    LET c == [cl EXCEPT !.reconnect = FALSE]
        Into(new) == g_cli' = [g_cli EXCEPT ![k] = new]
    IN  IF g_scan_owner \notin {None, k}
        THEN Into([c EXCEPT !.sess = "scan"]) /\ UNCHANGED g_scan_owner
        ELSE \E known \in device_in_objects :
             IF known
             THEN \E done \in device_connect :
                    /\ Into(IF done THEN [c EXCEPT !.sess = "wait_gatt", !.path = TRUE]
                            ELSE FailedCli(c))
                    /\ g_scan_owner' = IF done THEN g_scan_owner ELSE None
             ELSE \E done \in start_discovery :
                    /\ Into(IF done THEN [c EXCEPT !.sess = "scan", !.path = TRUE]
                            ELSE FailedCli(c))
                    /\ g_scan_owner' = IF done THEN k ELSE None

\* One pass of main's loop.  In poll(): signals from BlueZ, then one accept.
Disconnected(k) ==
    /\ Listening /\ turn = 0
    /\ g_cli[k].path /\ g_cli[k].sess \in {"ready", "wait_gatt"}
    /\ Len(sock[g_cli[k].sock].down) < MaxLines
    /\ sock' = Answer(g_cli[k].sock, "disconnected")
    /\ g_cli' = [g_cli EXCEPT ![k] = FailedCli(g_cli[k])]
    /\ g_scan_owner' = OwnerWithout(k)
    /\ UNCHANGED <<g_help, drv, proc, turn>>

on_notify(k) ==
    /\ Listening /\ turn = 0
    /\ g_cli[k].sess = "ready"
    /\ Len(sock[g_cli[k].sock].down) < MaxLines
    /\ sock' = Answer(g_cli[k].sock, "notify")
    /\ UNCHANGED <<g_help, drv, helper>>

\* The loop goes on to its next client, or back to poll().
NextTurn ==
    LET later == {k \in Clis : k > turn /\ g_cli'[k] # NoCli}
    IN  turn' = IF later = {} THEN 0
                ELSE CHOOSE k \in later : \A j \in later : k <= j

Pending == {s \in Socks : sock[s].hopen /\ \A k \in Clis : g_cli[k].sock # s}
FreeCli(k) == g_cli[k] = NoCli /\ \A j \in 1 .. k - 1 : g_cli[j] # NoCli

Accept(s) ==
    /\ Listening /\ turn = 0
    /\ s \in Pending
    /\ IF \A k \in Clis : g_cli[k] # NoCli
       THEN /\ sock' = [sock EXCEPT ![s] = Norm([@ EXCEPT !.hopen = FALSE])]
            /\ UNCHANGED g_cli
       ELSE /\ g_cli' = [k \in Clis |-> IF FreeCli(k) THEN [NoCli EXCEPT !.sock = s]
                                        ELSE g_cli[k]]
            /\ UNCHANGED sock
    /\ NextTurn
    /\ UNCHANGED <<g_help, drv, proc, g_scan_owner>>

NoAccept ==
    /\ Listening /\ turn = 0
    /\ UNCHANGED <<g_help, drv, sock, proc, g_cli, g_scan_owner>>
    /\ NextTurn

\* handle_line, called by cli_read.
HandleConnect(k, d) ==
    /\ IF mac_taken(d, k) THEN UNCHANGED <<g_cli, g_scan_owner>>
       ELSE begin_connect(k, [g_cli[k] EXCEPT !.bound = d, !.acked = FALSE])
    /\ sock' = [sock EXCEPT ![g_cli[k].sock].up = Tail(@)]
    /\ UNCHANGED <<proc, turn>>

\* gatt_write works, or finds that the link is lost.
HandleWrite(k) ==
    LET s == g_cli[k].sock
        rest == [sock EXCEPT ![s].up = Tail(@)]
    IN  /\ \/ /\ sock' = rest
              /\ UNCHANGED <<g_cli, g_scan_owner>>
           \/ /\ g_cli[k].acked /\ g_cli[k].bound # None
              /\ sock' = IF sock[s].dopen
                         THEN [rest EXCEPT ![s].down = Append(@, "disconnected")]
                         ELSE rest
              /\ g_cli' = [g_cli EXCEPT ![k] = FailedCli(g_cli[k])]
              /\ g_scan_owner' = OwnerWithout(k)
        /\ UNCHANGED <<proc, turn>>

HandleDisconnect(k) ==
    /\ g_cli' = [g_cli EXCEPT ![k] = [NoCli EXCEPT !.sock = g_cli[k].sock]]
    /\ sock' = [sock EXCEPT ![g_cli[k].sock].up = Tail(@)]
    /\ UNCHANGED <<g_scan_owner, proc, turn>>

handle_line ==
    /\ turn \in Clis /\ g_cli[turn] # NoCli
    /\ LET s == g_cli[turn].sock
       IN  /\ sock[s].up # <<>>
           /\ CASE Head(sock[s].up) = "connect" -> HandleConnect(turn, sock[s].drv)
                [] Head(sock[s].up) = "write" -> HandleWrite(turn)
                [] Head(sock[s].up) = "disconnect" -> HandleDisconnect(turn)
                [] Head(sock[s].up) = "quit" -> Exit
    /\ UNCHANGED <<g_help, drv>>

\* Wrong variant of OwnerAfterClose: the scan stays with the client's slot.
KeepOwner(k) == g_scan_owner
OwnerAfterClose(k) == OwnerWithout(k)
\* cli_close: at the end of the stream, or when cli_flush cannot write, which
\* may be before the last lines were read.
cli_close ==
    /\ turn \in Clis /\ g_cli[turn] # NoCli
    /\ ~sock[g_cli[turn].sock].dopen
    /\ sock' = [sock EXCEPT ![g_cli[turn].sock] = Unused]
    /\ g_cli' = [g_cli EXCEPT ![turn] = NoCli]
    /\ g_scan_owner' = OwnerAfterClose(turn)
    /\ NextTurn
    /\ UNCHANGED <<g_help, drv, proc>>

\* The rest of a client's turn.  Its reconnect_at has come:
Reconnect(k) ==
    /\ g_cli[k].bound # None /\ g_cli[k].sess = "idle" /\ g_cli[k].reconnect
    /\ begin_connect(k, g_cli[k])
    /\ UNCHANGED sock

\* sess_advance of a client that scans or waits for its turn to: the device
\* has been found, or the deadline is over.
AdvanceScan(k) ==
    /\ g_cli[k].sess = "scan"
    /\ \E known \in device_in_objects, done \in device_connect :
           g_cli' = [g_cli EXCEPT ![k] = IF @.path /\ known /\ done
                                         THEN [@ EXCEPT !.sess = "wait_gatt"]
                                         ELSE FailedCli(@)]
    /\ g_scan_owner' = OwnerWithout(k)
    /\ UNCHANGED sock

\* sess_advance of a client whose services are resolved, or whose deadline is
\* over, which asks for them all the same.
AdvanceGatt(k) ==
    /\ g_cli[k].sess = "wait_gatt"
    /\ Len(sock[g_cli[k].sock].down) < MaxLines
    /\ \E found \in discover_ffe1, done \in start_notify :
           IF found /\ done
           THEN /\ g_cli' = [g_cli EXCEPT ![k].sess = "ready", ![k].acked = TRUE]
                /\ sock' = Answer(g_cli[k].sock, "ok")
                /\ UNCHANGED g_scan_owner
           ELSE /\ g_cli' = [g_cli EXCEPT ![k] = FailedCli(@)]
                /\ g_scan_owner' = OwnerWithout(k)
                /\ UNCHANGED sock

\* Nothing is due yet, or to be done at all.
Idle == UNCHANGED <<sock, g_cli, g_scan_owner>>

CliTurn ==
    /\ turn \in Clis /\ g_cli[turn] # NoCli
    /\ sock[g_cli[turn].sock].up = <<>>
    /\ Reconnect(turn) \/ AdvanceScan(turn) \/ AdvanceGatt(turn) \/ Idle
    /\ NextTurn
    /\ UNCHANGED <<g_help, drv, proc>>

----------------------------------------------------------------------------
Init ==
    /\ g_help = [st |-> "none", pid |-> None, refcnt |-> 0]
    /\ drv = [d \in Drivers |-> Closed]
    /\ sock = [s \in Socks |-> Unused]
    /\ proc = [p \in Pids |-> "none"]
    /\ g_cli = [k \in Clis |-> NoCli]
    /\ g_scan_owner = None
    /\ turn = 0

DriverStep(d) ==
    StartConnect(d) \/ on_line(d) \/ ReadEnd(d) \/ Write(d) \/ Stale(d) \/ jk_close(d)

HelperStep ==
    \/ \E p \in Pids : ProcBind(p) \/ ProcFails(p)
    \/ HelperCrash
    \/ \E k \in Clis : Disconnected(k) \/ on_notify(k)
    \/ \E s \in Socks : Accept(s)
    \/ NoAccept \/ handle_line \/ cli_close \/ CliTurn

Next == (\E d \in Drivers : DriverStep(d)) \/ HelperStep

Spec == Init /\ [][Next]_vars

----------------------------------------------------------------------------
(* Properties. *)

\* No two clients of the helper are bound to the same battery, whatever is
\* left over from drivers that were closed and opened again: a battery takes
\* one connection only.
MacExclusive ==
    \A j, k \in Clis : j # k /\ g_cli[j].bound # None => g_cli[j].bound # g_cli[k].bound

\* The scan belongs to a client that is connected, whose end gives it up:
\* every other client waits for it.
OwnerPresent == g_scan_owner # None => g_cli[g_scan_owner] # NoCli

\* A reading is on show only while its driver is connected to its battery as
\* far as the driver can know.
DataIsLive == \A d \in Drivers : jk_get_reading(d) => drv[d].handshake_ok

\* A driver that is closed tells the helper to quit only when no other driver
\* is connected through it, however often links were lost, helpers died or
\* drivers were opened and closed before.
QuitOnlyByLast ==
    [][\A d, e \in Drivers, s \in Socks :
           /\ d # e /\ drv[d].sock = s /\ drv'[d].st = "off"
           /\ sock'[s].up # <<>> /\ sock'[s].up # sock[s].up
           /\ sock'[s].up[Len(sock'[s].up)] = "quit"
           => ~drv[e].handshake_ok]_vars
=============================================================================
