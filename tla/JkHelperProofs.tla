--------------------------- MODULE JkHelperProofs ---------------------------
(***************************************************************************)
(* Theorems about JkHelper, for any number of drivers, sockets, helper     *)
(* processes and clients: batteries are not shared, the scan has an owner  *)
(* that can give it up, a reading is live, and only the last driver ends   *)
(* the helper.                                                             *)
(***************************************************************************)
EXTENDS JkHelper, FiniteSetTheorems, TLAPS

----------------------------------------------------------------------------
(* What the two processes keep. *)

Up == {"connect", "write", "disconnect", "quit"}
Down == {"ok", "disconnected", "notify"}

Context == [st : {"off", "idle", "handshake", "stream"}, sock : Socks \union {None},
            handshake_ok : BOOLEAN, have_data : BOOLEAN]
Socket == [drv : Drivers \union {None}, up : Seq(Up), down : Seq(Down),
           dopen : BOOLEAN, hopen : BOOLEAN]
Client == [sock : Socks \union {None}, bound : Drivers \union {None},
           acked : BOOLEAN, sess : {"idle", "scan", "wait_gatt", "ready"},
           path : BOOLEAN, reconnect : BOOLEAN]
Row == [st : {"none", "starting", "up", "dead"}, pid : Pids \union {None},
        refcnt : Nat]

TypeInv ==
    /\ g_help \in Row
    /\ drv \in [Drivers -> Context]
    /\ sock \in [Socks -> Socket]
    /\ g_cli \in [Clis -> Client]

(***************************************************************************)
(* A slot of the helper that is in use has a socket, and one without a     *)
(* socket is as NoCli.                                                     *)
(***************************************************************************)
SlotInv == \A k \in Clis : g_cli[k].sock = None => g_cli[k] = NoCli

(***************************************************************************)
(* What the handlers of one client do to the helper's table: slot k gets   *)
(* the value new, for the same socket, and the scan is k's or nobody's or  *)
(* stays whose it is.                                                      *)
(***************************************************************************)
SlotSet(k, new) ==
    /\ new \in Client
    /\ new.sock = g_cli[k].sock
    /\ g_cli' = [g_cli EXCEPT ![k] = new]
    /\ g_scan_owner' \in {g_scan_owner, k, None}

\* Slots, sockets and contexts that are not used are slots, sockets and contexts.
LEMMA Blank == /\ NoCli \in Client
               /\ Unused \in Socket
               /\ Closed \in Context
<1>1. <<>> \in Seq(Up) /\ <<>> \in Seq(Down)
  OBVIOUS
<1>. QED  BY <1>1 DEF NoCli, Unused, Closed, Client, Socket, Context

\* A client whose session failed keeps its socket and its battery.
LEMMA Fails ==
  ASSUME NEW c \in Client
  PROVE  /\ FailedCli(c) \in Client
         /\ FailedCli(c).sock = c.sock
         /\ FailedCli(c).bound = c.bound
<1>1. sess_reset(c) \in Client /\ sess_reset(c).sock = c.sock
                               /\ sess_reset(c).bound = c.bound
  BY DEF sess_reset, Client
<1>. QED  BY <1>1 DEF FailedCli, Client

\* begin_connect changes its client's slot only, and keeps its battery.
LEMMA Begins ==
  ASSUME NEW k \in Clis, NEW cl \in Client, cl.sock = g_cli[k].sock,
         begin_connect(k, cl)
  PROVE  \E new \in Client : SlotSet(k, new) /\ new.bound = cl.bound
<1> DEFINE c == [cl EXCEPT !.reconnect = FALSE]
           waits == [c EXCEPT !.sess = "scan"]
           gatt == [c EXCEPT !.sess = "wait_gatt", !.path = TRUE]
           scans == [c EXCEPT !.sess = "scan", !.path = TRUE]
<1>1. c \in Client /\ c.sock = cl.sock /\ c.bound = cl.bound
  BY DEF Client
<1>2. /\ waits \in Client /\ waits.sock = cl.sock /\ waits.bound = cl.bound
      /\ gatt \in Client /\ gatt.sock = cl.sock /\ gatt.bound = cl.bound
      /\ scans \in Client /\ scans.sock = cl.sock /\ scans.bound = cl.bound
  BY DEF Client
<1>3. /\ FailedCli(c) \in Client /\ FailedCli(c).sock = cl.sock
      /\ FailedCli(c).bound = cl.bound
  BY <1>1, Fails
<1>4. \E new \in {waits, gatt, scans, FailedCli(c)} :
         /\ g_cli' = [g_cli EXCEPT ![k] = new]
         /\ g_scan_owner' \in {g_scan_owner, k, None}
  BY DEF begin_connect
<1>. QED
  <2> HIDE DEF c, waits, gatt, scans
  <2>. QED  BY <1>2, <1>3, <1>4 DEF SlotSet

\* A client in use has a socket.
LEMMA HasSock ==
  ASSUME TypeInv, SlotInv, NEW k \in Clis, g_cli[k] # NoCli
  PROVE  g_cli[k] \in Client /\ g_cli[k].sock \in Socks
BY DEF TypeInv, SlotInv, Client

\* Leaving the table alone sets the slot to what it is.
LEMMA SameSet ==
  ASSUME TypeInv, NEW k \in Clis, g_cli' = g_cli,
         g_scan_owner' \in {g_scan_owner, k, None}
  PROVE  SlotSet(k, g_cli[k])
BY DEF SlotSet, TypeInv

\* A session that failed, with the scan given up or not.
LEMMA FailSet ==
  ASSUME TypeInv, NEW k \in Clis, g_cli' = [g_cli EXCEPT ![k] = FailedCli(g_cli[k])],
         g_scan_owner' \in {g_scan_owner, k, None}
  PROVE  /\ SlotSet(k, FailedCli(g_cli[k]))
         /\ FailedCli(g_cli[k]).bound = g_cli[k].bound
<1>1. g_cli[k] \in Client
  BY DEF TypeInv
<1>. QED  BY <1>1, Fails DEF SlotSet

\* The scan without a client's claim is the owner's, or nobody's.
LEMMA OwnerWithoutIn ==
  ASSUME NEW k PROVE OwnerWithout(k) \in {g_scan_owner, k, None}
BY DEF OwnerWithout

\* Every handler but that of "connect" sets its client's slot, for the same
\* battery or for none.
LEMMA Handled ==
  ASSUME TypeInv, SlotInv, NEW k \in Clis, g_cli[k] # NoCli,
         \/ Disconnected(k) \/ HandleWrite(k) \/ HandleDisconnect(k)
         \/ Reconnect(k) \/ AdvanceScan(k) \/ AdvanceGatt(k) \/ Idle
  PROVE  \E new : SlotSet(k, new) /\ new.bound \in {g_cli[k].bound, None}
<1>1. g_cli[k] \in Client /\ g_cli[k].sock \in Socks
  BY HasSock
<1>2. OwnerWithout(k) \in {g_scan_owner, k, None}
  BY OwnerWithoutIn
<1>3. CASE UNCHANGED <<g_cli, g_scan_owner>>
  BY <1>3, SameSet
<1>4. CASE /\ g_cli' = [g_cli EXCEPT ![k] = FailedCli(g_cli[k])]
           /\ g_scan_owner' = OwnerWithout(k)
  BY <1>2, <1>4, FailSet
<1>5. CASE Disconnected(k)
  BY <1>4, <1>5 DEF Disconnected
<1>6. CASE HandleWrite(k)
  BY <1>3, <1>4, <1>6 DEF HandleWrite
<1>7. CASE HandleDisconnect(k)
  <2> DEFINE new == [NoCli EXCEPT !.sock = g_cli[k].sock]
  <2>1. new \in Client /\ new.sock = g_cli[k].sock /\ new.bound = None
    BY <1>1 DEF NoCli, Client
  <2>2. g_cli' = [g_cli EXCEPT ![k] = new] /\ g_scan_owner' = g_scan_owner
    BY <1>7 DEF HandleDisconnect
  <2> HIDE DEF new
  <2>. QED  BY <2>1, <2>2 DEF SlotSet
<1>8. CASE Reconnect(k)
  <2>1. begin_connect(k, g_cli[k])
    BY <1>8 DEF Reconnect
  <2>. QED  BY <1>1, <2>1, Begins
<1>9. CASE AdvanceScan(k)
  <2> DEFINE found == [g_cli[k] EXCEPT !.sess = "wait_gatt"]
  <2>1. found \in Client /\ found.sock = g_cli[k].sock /\ found.bound = g_cli[k].bound
    BY <1>1 DEF Client
  <2>2. /\ \/ g_cli' = [g_cli EXCEPT ![k] = found]
           \/ g_cli' = [g_cli EXCEPT ![k] = FailedCli(g_cli[k])]
        /\ g_scan_owner' = OwnerWithout(k)
    BY <1>9 DEF AdvanceScan, TypeInv
  <2>3. CASE g_cli' = [g_cli EXCEPT ![k] = found]
    <3> HIDE DEF found
    <3>. QED  BY <1>2, <2>1, <2>2, <2>3 DEF SlotSet
  <2>. QED  BY <1>4, <2>2, <2>3
<1>10. CASE AdvanceGatt(k)
  <2> DEFINE ready == [g_cli[k] EXCEPT !.sess = "ready", !.acked = TRUE]
  <2>1. ready \in Client /\ ready.sock = g_cli[k].sock /\ ready.bound = g_cli[k].bound
    BY <1>1 DEF Client
  <2>2. \/ g_cli' = [g_cli EXCEPT ![k] = ready] /\ g_scan_owner' = g_scan_owner
        \/ /\ g_cli' = [g_cli EXCEPT ![k] = FailedCli(g_cli[k])]
           /\ g_scan_owner' = OwnerWithout(k)
    BY <1>10 DEF AdvanceGatt, TypeInv
  <2>3. CASE g_cli' = [g_cli EXCEPT ![k] = ready] /\ g_scan_owner' = g_scan_owner
    <3> HIDE DEF ready
    <3>. QED  BY <2>1, <2>3 DEF SlotSet
  <2>. QED  BY <1>4, <2>2, <2>3
<1>11. CASE Idle
  BY <1>3, <1>11 DEF Idle
<1>. QED  BY <1>5, <1>6, <1>7, <1>8, <1>9, <1>10, <1>11

\* The handler of "connect" binds the client to a battery no other client has.
LEMMA Connected ==
  ASSUME TypeInv, SlotInv, NEW k \in Clis, g_cli[k] # NoCli,
         HandleConnect(k, sock[g_cli[k].sock].drv)
  PROVE  \E new : /\ SlotSet(k, new)
                  /\ \/ new.bound = g_cli[k].bound
                     \/ \A j \in Clis \ {k} : g_cli[j].bound # new.bound
<1> DEFINE d == sock[g_cli[k].sock].drv
           cl == [g_cli[k] EXCEPT !.bound = d, !.acked = FALSE]
<1>1. g_cli[k] \in Client /\ g_cli[k].sock \in Socks
  BY HasSock
<1>2. d \in Drivers \union {None}
  BY <1>1 DEF TypeInv, Socket
<1>3. cl \in Client /\ cl.sock = g_cli[k].sock /\ cl.bound = d
  BY <1>1, <1>2 DEF Client
<1>5. CASE UNCHANGED <<g_cli, g_scan_owner>>
  BY <1>5, SameSet
<1>6. CASE ~mac_taken(d, k) /\ begin_connect(k, cl)
  <2>1. PICK new \in Client : SlotSet(k, new) /\ new.bound = cl.bound
    <3> HIDE DEF cl
    <3>. QED  BY <1>3, <1>6, Begins
  <2>2. \A j \in Clis \ {k} : g_cli[j].bound # d
    BY <1>6 DEF mac_taken
  <2>. QED  BY <1>3, <2>1, <2>2
<1>. QED  BY <1>5, <1>6 DEF HandleConnect

----------------------------------------------------------------------------
(* The helper's table of clients, whatever the two processes do. *)

\* The helper serves its client k, which is bound as before, to nothing, or to
\* a battery no other client has.
Serves ==
    \E k \in Clis : \E new :
        /\ g_cli[k] # NoCli
        /\ SlotSet(k, new)
        /\ \/ new.bound \in {g_cli[k].bound, None}
           \/ \A j \in Clis \ {k} : g_cli[j].bound # new.bound

\* It accepts a client, closes one, or exits.
Takes ==
    \E s \in Socks :
        /\ g_cli' = [k \in Clis |-> IF FreeCli(k) THEN [NoCli EXCEPT !.sock = s]
                                    ELSE g_cli[k]]
        /\ g_scan_owner' = g_scan_owner
Drops ==
    \E k \in Clis :
        /\ g_cli' = [g_cli EXCEPT ![k] = NoCli]
        /\ g_scan_owner' = OwnerWithout(k)
Empties == g_cli' = [k \in Clis |-> NoCli] /\ g_scan_owner' = None

TableStep == UNCHANGED <<g_cli, g_scan_owner>> \/ Serves \/ Takes \/ Drops \/ Empties

\* The drivers do not touch the helper's table.
LEMMA DriversLeaveTable ==
  ASSUME NEW d \in Drivers, DriverStep(d)
  PROVE  UNCHANGED <<g_cli, g_scan_owner>>
BY DEF DriverStep, StartConnect, on_line, ReadEnd, Write, Stale, jk_close, helper

LEMMA HandledServes ==
  ASSUME TypeInv, SlotInv, NEW k \in Clis, g_cli[k] # NoCli,
         \/ Disconnected(k) \/ HandleWrite(k) \/ HandleDisconnect(k)
         \/ Reconnect(k) \/ AdvanceScan(k) \/ AdvanceGatt(k) \/ Idle
  PROVE  Serves
BY Handled DEF Serves

\* What a step may do to the helper's table: a client is bound to a battery that
\* nobody has, or released, or moves on.
LEMMA TableSteps ==
  ASSUME TypeInv, SlotInv, [Next]_vars
  PROVE  TableStep
<1>1. CASE UNCHANGED vars
  BY <1>1 DEF vars, helper, TableStep
<1>2. CASE \E d \in Drivers : DriverStep(d)
  BY <1>2, DriversLeaveTable DEF TableStep
<1>3. CASE \E p \in Pids : ProcBind(p) \/ ProcFails(p)
  BY <1>3 DEF ProcBind, ProcFails, TableStep
<1>4. CASE HelperCrash
  BY <1>4 DEF HelperCrash, Exit, Empties, TableStep
<1>5. ASSUME NEW k \in Clis, Disconnected(k)
      PROVE  TableStep
  <2>1. g_cli[k] # NoCli
    BY <1>5 DEF Disconnected, NoCli
  <2>. QED  BY <1>5, <2>1, HandledServes DEF TableStep
<1>6. ASSUME NEW k \in Clis, on_notify(k)
      PROVE  TableStep
  BY <1>6 DEF on_notify, helper, TableStep
<1>7. ASSUME NEW s \in Socks, Accept(s)
      PROVE  TableStep
  BY <1>7 DEF Accept, Takes, TableStep
<1>8. CASE NoAccept
  BY <1>8 DEF NoAccept, TableStep
<1>9. CASE handle_line
  <2>1. turn \in Clis /\ g_cli[turn] # NoCli
    BY <1>9 DEF handle_line
  <2>2. \/ HandleConnect(turn, sock[g_cli[turn].sock].drv)
        \/ HandleWrite(turn) \/ HandleDisconnect(turn) \/ Exit
    <3>1. LET s == g_cli[turn].sock
          IN  /\ sock[s].up # <<>>
              /\ CASE Head(sock[s].up) = "connect" -> HandleConnect(turn, sock[s].drv)
                   [] Head(sock[s].up) = "write" -> HandleWrite(turn)
                   [] Head(sock[s].up) = "disconnect" -> HandleDisconnect(turn)
                   [] Head(sock[s].up) = "quit" -> Exit
      BY <1>9 DEF handle_line
    <3>2. sock[g_cli[turn].sock].up \in Seq(Up)
      BY <2>1, HasSock DEF TypeInv, Socket
    <3>3. Head(sock[g_cli[turn].sock].up) \in Up
      BY <3>1, <3>2
    <3>. QED  BY <3>1, <3>3 DEF Up
  <2>3. CASE HandleConnect(turn, sock[g_cli[turn].sock].drv)
    <3>1. PICK new : /\ SlotSet(turn, new)
                     /\ \/ new.bound = g_cli[turn].bound
                        \/ \A j \in Clis \ {turn} : g_cli[j].bound # new.bound
      BY <2>1, <2>3, Connected
    <3>. QED  BY <2>1, <3>1 DEF Serves, TableStep
  <2>4. CASE HandleWrite(turn) \/ HandleDisconnect(turn)
    BY <2>1, <2>4, HandledServes DEF TableStep
  <2>5. CASE Exit
    BY <2>5 DEF Exit, Empties, TableStep
  <2>. QED  BY <2>2, <2>3, <2>4, <2>5
<1>10. CASE cli_close
  <2>1. turn \in Clis /\ g_cli' = [g_cli EXCEPT ![turn] = NoCli]
    BY <1>10 DEF cli_close
  <2>2. g_scan_owner' = OwnerWithout(turn)
    BY <1>10 DEF cli_close, OwnerAfterClose
  <2>. QED  BY <2>1, <2>2 DEF Drops, TableStep
<1>11. CASE CliTurn
  <2>1. /\ turn \in Clis /\ g_cli[turn] # NoCli
        /\ Reconnect(turn) \/ AdvanceScan(turn) \/ AdvanceGatt(turn) \/ Idle
    BY <1>11 DEF CliTurn
  <2>. QED  BY <2>1, HandledServes DEF TableStep
<1>. QED
  BY <1>1, <1>2, <1>3, <1>4, <1>5, <1>6, <1>7, <1>8, <1>9, <1>10, <1>11
     DEF Next, HelperStep

\* The records stay records, and a slot in use keeps its socket.
LEMMA TableTyped ==
  ASSUME TypeInv, SlotInv, TableStep
  PROVE  g_cli' \in [Clis -> Client] /\ SlotInv'
<1>1. CASE UNCHANGED <<g_cli, g_scan_owner>>
  BY <1>1 DEF TypeInv, SlotInv
<1>2. CASE Serves
  BY <1>2 DEF Serves, SlotSet, TypeInv, SlotInv
<1>3. CASE Takes
  <2>1. PICK s \in Socks :
          g_cli' = [k \in Clis |-> IF FreeCli(k) THEN [NoCli EXCEPT !.sock = s]
                                   ELSE g_cli[k]]
    BY <1>3 DEF Takes
  <2> DEFINE new == [NoCli EXCEPT !.sock = s]
  <2>2. new \in Client /\ new.sock = s /\ s # None
    BY AbsentAssumption DEF NoCli, Client
  <2> HIDE DEF new
  <2>. QED  BY <2>1, <2>2 DEF TypeInv, SlotInv, new
<1>4. CASE Drops \/ Empties
  BY <1>4, Blank DEF Drops, Empties, TypeInv, SlotInv
<1>. QED  BY <1>1, <1>2, <1>3, <1>4 DEF TableStep

\* Such a step shares no battery.
LEMMA TableExclusive ==
  ASSUME TypeInv, MacExclusive, TableStep
  PROVE  MacExclusive'
<1>1. CASE UNCHANGED <<g_cli, g_scan_owner>>
  BY <1>1 DEF MacExclusive
<1>2. CASE Serves
  BY <1>2 DEF Serves, SlotSet, TypeInv, MacExclusive
<1>3. CASE Takes
  <2>1. PICK s \in Socks :
          g_cli' = [k \in Clis |-> IF FreeCli(k) THEN [NoCli EXCEPT !.sock = s]
                                   ELSE g_cli[k]]
    BY <1>3 DEF Takes
  <2>2. [NoCli EXCEPT !.sock = s].bound = None
    BY DEF NoCli
  <2>3. \A k \in Clis : g_cli'[k].bound \in {g_cli[k].bound, None}
    BY <2>1, <2>2
  <2>. QED  BY <2>3 DEF MacExclusive
<1>4. CASE Drops \/ Empties
  <2>1. NoCli.bound = None
    BY DEF NoCli
  <2>2. \A k \in Clis : g_cli'[k].bound \in {g_cli[k].bound, None}
    BY <1>4, <2>1 DEF Drops, Empties, TypeInv
  <2>. QED  BY <2>2 DEF MacExclusive
<1>. QED  BY <1>1, <1>2, <1>3, <1>4 DEF TableStep

\* Such a step leaves the scan to a client that is there.
LEMMA TableOwner ==
  ASSUME TypeInv, SlotInv, OwnerPresent, TableStep,
         g_scan_owner \in Clis \union {None}
  PROVE  OwnerPresent' /\ g_scan_owner' \in Clis \union {None}
<1>1. CASE UNCHANGED <<g_cli, g_scan_owner>>
  BY <1>1 DEF OwnerPresent
<1>2. CASE Serves
  <2>1. PICK k \in Clis : \E new : g_cli[k] # NoCli /\ SlotSet(k, new)
    BY <1>2 DEF Serves
  <2>2. PICK new : SlotSet(k, new)
    BY <2>1
  <2>3. new # NoCli
    <3>1. new.sock # None
      BY <2>1, <2>2 DEF SlotSet, SlotInv
    <3>. QED  BY <3>1 DEF NoCli
  <2>. QED  BY <2>2, <2>3 DEF SlotSet, TypeInv, OwnerPresent
<1>3. CASE Takes
  BY <1>3 DEF Takes, OwnerPresent, FreeCli
<1>4. CASE Drops
  BY <1>4 DEF Drops, OwnerWithout, TypeInv, OwnerPresent
<1>5. CASE Empties
  BY <1>5 DEF Empties, OwnerPresent
<1>. QED  BY <1>1, <1>2, <1>3, <1>4, <1>5 DEF TableStep

----------------------------------------------------------------------------
(* The sockets, the helper row and the drivers' contexts stay what they are. *)

LEMMA NormTyped == ASSUME NEW x \in Socket PROVE Norm(x) \in Socket
BY Blank DEF Norm

\* A socket that is hung up is a socket.
LEMMA HangUpTyped ==
  ASSUME NEW socks \in [Socks -> Socket], NEW s
  PROVE  HangUp(socks, s) \in [Socks -> Socket]
<1>1. CASE s \in Socks
  <2> DEFINE x == [socks[s] EXCEPT !.dopen = FALSE, !.down = <<>>]
  <2>1. x \in Socket
    <3>1. socks[s] \in Socket
      BY <1>1
    <3>2. <<>> \in Seq(Down)
      OBVIOUS
    <3>. QED  BY <3>1, <3>2 DEF Socket
  <2>2. Norm(x) \in Socket
    <3> HIDE DEF x
    <3>. QED  BY <2>1, NormTyped
  <2>3. HangUp(socks, s) = [socks EXCEPT ![s] = Norm(x)]
    BY <1>1 DEF HangUp
  <2> HIDE DEF x
  <2>. QED  BY <2>2, <2>3
<1>2. CASE s \notin Socks
  BY <1>2 DEF HangUp
<1>. QED  BY <1>1, <1>2

\* A line less, or one more, on a socket.
LEMMA LinesTyped ==
  ASSUME NEW socks \in [Socks -> Socket], NEW s \in Socks
  PROVE  /\ \A line \in Up : [socks EXCEPT ![s].up = Append(@, line)] \in [Socks -> Socket]
         /\ \A line \in Down : [socks EXCEPT ![s].down = Append(@, line)] \in [Socks -> Socket]
         /\ socks[s].up # <<>> => [socks EXCEPT ![s].up = Tail(@)] \in [Socks -> Socket]
         /\ socks[s].down # <<>> => [socks EXCEPT ![s].down = Tail(@)] \in [Socks -> Socket]
<1>1. socks[s] \in Socket /\ socks[s].up \in Seq(Up) /\ socks[s].down \in Seq(Down)
  BY DEF Socket
<1>2. /\ \A u \in Seq(Up) : [socks EXCEPT ![s].up = u] \in [Socks -> Socket]
      /\ \A u \in Seq(Down) : [socks EXCEPT ![s].down = u] \in [Socks -> Socket]
  BY <1>1 DEF Socket
<1>3. /\ \A line \in Up : Append(socks[s].up, line) \in Seq(Up)
      /\ \A line \in Down : Append(socks[s].down, line) \in Seq(Down)
      /\ socks[s].up # <<>> => Tail(socks[s].up) \in Seq(Up)
      /\ socks[s].down # <<>> => Tail(socks[s].down) \in Seq(Down)
  BY <1>1
<1>. QED  BY <1>2, <1>3

\* A socket with an answer more is a socket.
LEMMA AnswerTyped ==
  ASSUME sock \in [Socks -> Socket], NEW s \in Socks, NEW line \in Down
  PROVE  Answer(s, line) \in [Socks -> Socket]
BY LinesTyped DEF Answer

\* A socket with a command more is a socket.
LEMMA SendTyped ==
  ASSUME sock \in [Socks -> Socket], NEW s \in Socks, NEW line \in Up
  PROVE  Send(s, line) \in [Socks -> Socket]
BY LinesTyped DEF Send

\* helper_spawn, helper_up, helper_dead and helper_release.
LEMMA RowTyped ==
  ASSUME g_help \in Row
  PROVE  /\ helper_spawn => g_help' \in Row /\ g_help'.refcnt = g_help.refcnt
         /\ helper_up \in Row /\ helper_up.refcnt = g_help.refcnt + 1
         /\ helper_dead \in Row /\ helper_dead.refcnt = g_help.refcnt
         /\ helper_release \in Row
         /\ g_help.refcnt # 0 => helper_release.refcnt = g_help.refcnt - 1
<1>1. /\ g_help.st \in {"none", "starting", "up", "dead"}
      /\ g_help.pid \in Pids \union {None}
      /\ g_help.refcnt \in Nat
  BY DEF Row
<1>2. helper_spawn => g_help' \in Row /\ g_help'.refcnt = g_help.refcnt
  BY DEF helper_spawn, Row
<1>3. helper_up \in Row /\ helper_up.refcnt = g_help.refcnt + 1
  <2> DEFINE n == g_help.refcnt + 1
  <2>1. helper_up = [g_help EXCEPT !.st = "up", !.refcnt = n]
    BY DEF helper_up
  <2>2. n \in Nat
    BY <1>1
  <2>3. helper_up \in Row /\ helper_up.refcnt = n
    <3> HIDE DEF n
    <3>. QED  BY <2>1, <2>2 DEF Row
  <2>. QED  BY <2>3
<1>4. helper_dead \in Row /\ helper_dead.refcnt = g_help.refcnt
  BY DEF helper_dead, Row
<1>5. /\ helper_release \in Row
      /\ g_help.refcnt # 0 => helper_release.refcnt = g_help.refcnt - 1
  <2>1. CASE g_help.refcnt = 0
    BY <2>1 DEF helper_release
  <2>2. CASE g_help.refcnt # 0
    <3> DEFINE st == IF g_help.refcnt = 1 /\ g_help.st = "up" THEN "none"
                     ELSE g_help.st
    <3>1. helper_release = [st |-> st, pid |-> g_help.pid, refcnt |-> g_help.refcnt - 1]
      BY <2>2 DEF helper_release, Row
    <3>2. g_help.refcnt - 1 \in Nat
      BY <1>1, <2>2
    <3>3. st \in {"none", "starting", "up", "dead"}
      BY <1>1
    <3> HIDE DEF st
    <3>. QED  BY <1>1, <3>1, <3>2, <3>3 DEF Row
  <2>. QED  BY <2>1, <2>2
<1>. QED  BY <1>2, <1>3, <1>4, <1>5

----------------------------------------------------------------------------
(* The drivers' contexts and the reference count. *)

\* A driver that is closed has no socket.
OffInv == \A d \in Drivers : drv[d].st = "off" => drv[d].sock = None

\* The drivers that have shaken hands with the helper.  There are never more
\* of them than references: one that loses its link keeps its reference, or
\* leaves it behind, but none is connected without one.
Shaken == {d \in Drivers : drv[d].handshake_ok}
CountInv == IsFiniteSet(Shaken) /\ Cardinality(Shaken) <= g_help.refcnt

\* What a step of driver d leaves in its context, and in the count: it stays
\* when no one shakes hands, is one more for a driver that does, and one less
\* only for a driver that had.
ContextSet(d, c) ==
    /\ drv' = [drv EXCEPT ![d] = c]
    /\ c.have_data => c.handshake_ok
    /\ c.st = "off" => c.sock = None
    /\ \/ g_help'.refcnt = g_help.refcnt /\ (c.handshake_ok => drv[d].handshake_ok)
       \/ g_help'.refcnt = g_help.refcnt + 1 /\ ~drv[d].handshake_ok
       \/ /\ g_help.refcnt # 0 /\ g_help'.refcnt = g_help.refcnt - 1
          /\ drv[d].handshake_ok /\ ~c.handshake_ok

DriverInv == TypeInv /\ OffInv /\ DataIsLive /\ CountInv

\* A driver's context that is closed, idle with no socket.
LEMMA ClosedSet ==
  ASSUME DriverInv, NEW d \in Drivers, NEW st \in {"off", "idle"},
         drv' = [drv EXCEPT ![d] = [Closed EXCEPT !.st = st]],
         \/ g_help'.refcnt = g_help.refcnt
         \/ /\ g_help.refcnt # 0 /\ g_help'.refcnt = g_help.refcnt - 1
            /\ drv[d].handshake_ok
  PROVE  \E c \in Context : ContextSet(d, c)
<1> DEFINE c == [Closed EXCEPT !.st = st]
<1>1. c \in Context /\ ~c.have_data /\ ~c.handshake_ok /\ c.sock = None
  BY DEF Closed, Context
<1> HIDE DEF c
<1>2. drv' = [drv EXCEPT ![d] = c]
  BY DEF c
<1>. QED  BY <1>1, <1>2 DEF ContextSet

\* The start of a connection sets the driver's own context.
LEMMA StartConnectSets ==
  ASSUME DriverInv, NEW d \in Drivers, StartConnect(d)
  PROVE  g_help' \in Row /\ \E c \in Context : ContextSet(d, c)
<1>1. drv[d] \in Context /\ (drv[d].have_data => drv[d].handshake_ok)
  BY DEF DriverInv, TypeInv, DataIsLive, jk_get_reading
<1>2. CASE Listening
  <2>1. g_help' = g_help
    BY <1>2 DEF StartConnect
  <2>2. PICK s \in Socks : drv' = [drv EXCEPT ![d] =
                              [Closed EXCEPT !.st = "handshake", !.sock = s]]
    BY <1>2 DEF StartConnect
  <2> DEFINE c == [Closed EXCEPT !.st = "handshake", !.sock = s]
  <2>3. c \in Context /\ ~c.have_data /\ ~c.handshake_ok /\ c.st = "handshake"
    BY DEF Closed, Context
  <2> HIDE DEF c
  <2>4. drv' = [drv EXCEPT ![d] = c]
    BY <2>2 DEF c
  <2>. QED  BY <2>1, <2>3, <2>4 DEF ContextSet, DriverInv, TypeInv
<1>3. CASE ~Listening
  <2>1. g_help' \in Row /\ g_help'.refcnt = g_help.refcnt
    BY <1>3, RowTyped DEF StartConnect, DriverInv, TypeInv
  <2> DEFINE c == [drv[d] EXCEPT !.st = "idle"]
  <2>2. c \in Context /\ c.have_data = drv[d].have_data
                      /\ c.handshake_ok = drv[d].handshake_ok /\ c.st = "idle"
    BY <1>1 DEF Context
  <2>3. drv' = [drv EXCEPT ![d] = c]
    BY <1>3 DEF StartConnect, DriverInv, TypeInv
  <2> HIDE DEF c
  <2>. QED  BY <1>1, <2>1, <2>2, <2>3 DEF ContextSet
<1>. QED  BY <1>2, <1>3

\* So does a line from the helper.
LEMMA on_lineSets ==
  ASSUME DriverInv, NEW d \in Drivers, on_line(d)
  PROVE  g_help' \in Row /\ \E c \in Context : ContextSet(d, c)
<1>1. /\ drv[d] \in Context /\ (drv[d].have_data => drv[d].handshake_ok)
      /\ drv[d].sock \in Socks /\ drv[d].st # "off"
      /\ g_help \in Row
  BY DEF DriverInv, TypeInv, OffInv, DataIsLive, jk_get_reading, on_line, Context
<1>2. sock[drv[d].sock].down \in Seq(Down) /\ sock[drv[d].sock].down # <<>>
  BY <1>1 DEF DriverInv, TypeInv, Socket, on_line
<1>3. Head(sock[drv[d].sock].down) \in Down
  BY <1>2
<1>4. CASE Head(sock[drv[d].sock].down) = "ok"
  <2> DEFINE c == [drv[d] EXCEPT !.handshake_ok = TRUE, !.st = "stream"]
  <2>1. c \in Context /\ c.handshake_ok /\ c.st = "stream"
    BY <1>1 DEF Context
  <2>2. /\ g_help' = IF drv[d].handshake_ok THEN g_help ELSE helper_up
        /\ drv' = [drv EXCEPT ![d].handshake_ok = TRUE, ![d].st = "stream"]
    BY <1>4 DEF on_line
  <2>3. drv' = [drv EXCEPT ![d] = c]
    BY <2>2 DEF DriverInv, TypeInv
  <2>4. \/ g_help' = g_help /\ drv[d].handshake_ok
        \/ g_help' = helper_up /\ ~drv[d].handshake_ok
    BY <2>2
  <2>5. helper_up \in Row /\ helper_up.refcnt = g_help.refcnt + 1
    BY <1>1, RowTyped
  <2> HIDE DEF c
  <2>. QED  BY <1>1, <2>1, <2>3, <2>4, <2>5 DEF ContextSet
<1>5. CASE Head(sock[drv[d].sock].down) = "disconnected"
  <2> DEFINE c == Dropped(drv[d])
  <2>1. c \in Context /\ ~c.handshake_ok /\ ~c.have_data /\ c.st = drv[d].st
    BY <1>1 DEF Context, Dropped
  <2>2. drv' = [drv EXCEPT ![d] = c] /\ g_help' = g_help
    BY <1>5 DEF on_line
  <2> HIDE DEF c
  <2>. QED  BY <1>1, <2>1, <2>2 DEF ContextSet
<1>6. CASE Head(sock[drv[d].sock].down) = "notify"
  <2>1. g_help' = g_help
    BY <1>6 DEF on_line
  <2>2. PICK complete \in BOOLEAN :
          drv' = [drv EXCEPT ![d].have_data = @ \/ (drv[d].handshake_ok /\ complete)]
    BY <1>6 DEF on_line
  <2> DEFINE shows == drv[d].have_data \/ (drv[d].handshake_ok /\ complete)
             c == [drv[d] EXCEPT !.have_data = shows]
  <2>3. shows \in BOOLEAN /\ (shows => drv[d].handshake_ok)
    BY <1>1
  <2>4. drv' = [drv EXCEPT ![d] = c]
    BY <2>2 DEF DriverInv, TypeInv
  <2>5. c \in Context /\ c.handshake_ok = drv[d].handshake_ok /\ c.have_data = shows
                      /\ c.st = drv[d].st
    <3> HIDE DEF shows
    <3>. QED  BY <1>1, <2>3 DEF Context
  <2> HIDE DEF c, shows
  <2>. QED  BY <1>1, <2>1, <2>3, <2>4, <2>5 DEF ContextSet
<1>. QED  BY <1>3, <1>4, <1>5, <1>6 DEF Down

\* So does the end of the helper's lines.
LEMMA ReadEndSets ==
  ASSUME DriverInv, NEW d \in Drivers, ReadEnd(d)
  PROVE  g_help' \in Row /\ \E c \in Context : ContextSet(d, c)
<1>1. g_help' \in {g_help, helper_dead}
  BY DEF ReadEnd
<1>2. g_help' \in Row /\ g_help'.refcnt = g_help.refcnt
  BY <1>1, RowTyped DEF DriverInv, TypeInv
<1>3. drv' = [drv EXCEPT ![d] = [Closed EXCEPT !.st = "idle"]]
  BY DEF ReadEnd, SockClose
<1>. QED  BY <1>2, <1>3, ClosedSet

\* So does a command that cannot be written.
LEMMA WriteSets ==
  ASSUME DriverInv, NEW d \in Drivers, Write(d)
  PROVE  g_help' \in Row /\ \E c \in Context : ContextSet(d, c)
<1>1. g_help' = g_help /\ g_help \in Row
  BY DEF Write, DriverInv, TypeInv
<1>2. CASE drv' = drv
  <2>1. drv[d] \in Context /\ drv' = [drv EXCEPT ![d] = drv[d]]
    BY <1>2 DEF DriverInv, TypeInv
  <2>. QED
    BY <1>1, <2>1 DEF ContextSet, DriverInv, DataIsLive, OffInv, jk_get_reading
<1>3. CASE SockClose(d)
  <2>1. drv' = [drv EXCEPT ![d] = [Closed EXCEPT !.st = "idle"]]
    BY <1>3 DEF SockClose
  <2>. QED  BY <1>1, <2>1, ClosedSet
<1>. QED  BY <1>2, <1>3 DEF Write

\* So does a battery that falls silent.
LEMMA StaleSets ==
  ASSUME DriverInv, NEW d \in Drivers, Stale(d)
  PROVE  g_help' \in Row /\ \E c \in Context : ContextSet(d, c)
<1>1. g_help' = g_help /\ g_help \in Row /\ drv[d] \in Context
  BY DEF Stale, DriverInv, TypeInv
<1> DEFINE c == [drv[d] EXCEPT !.have_data = FALSE]
<1>2. c \in Context /\ ~c.have_data /\ c.handshake_ok = drv[d].handshake_ok
      /\ c.st = drv[d].st /\ c.sock = drv[d].sock
  BY <1>1 DEF Context
<1>3. drv' = [drv EXCEPT ![d] = c]
  BY DEF Stale, DriverInv, TypeInv
<1> HIDE DEF c
<1>. QED  BY <1>1, <1>2, <1>3 DEF ContextSet, DriverInv, OffInv

\* So does closing the driver.
LEMMA jk_closeSets ==
  ASSUME DriverInv, NEW d \in Drivers, jk_close(d)
  PROVE  g_help' \in Row /\ \E c \in Context : ContextSet(d, c)
<1>1. drv' = [drv EXCEPT ![d] = [Closed EXCEPT !.st = "off"]]
  BY DEF jk_close, Closed
<1>2. \/ g_help' = g_help
      \/ g_help' = helper_release /\ drv[d].handshake_ok
  BY DEF jk_close
<1>3. g_help \in Row /\ helper_release \in Row
      /\ (g_help.refcnt # 0 => helper_release.refcnt = g_help.refcnt - 1)
  BY RowTyped DEF DriverInv, TypeInv
<1>4. g_help.refcnt = 0 => helper_release = g_help
  BY DEF helper_release
<1>. QED  BY <1>1, <1>2, <1>3, <1>4, ClosedSet

\* A step of a driver sets its own context and the helper's row.
LEMMA DriverSets ==
  ASSUME DriverInv, NEW d \in Drivers, DriverStep(d)
  PROVE  g_help' \in Row /\ \E c \in Context : ContextSet(d, c)
BY StartConnectSets, on_lineSets, ReadEndSets, WriteSets, StaleSets, jk_closeSets
   DEF DriverStep

\* The count stays right.
LEMMA CountKept ==
  ASSUME DriverInv, NEW d \in Drivers, NEW c \in Context, ContextSet(d, c)
  PROVE  CountInv'
<1>1. /\ g_help.refcnt \in Nat /\ drv[d] \in Context
      /\ drv' = [drv EXCEPT ![d] = c]
      /\ IsFiniteSet(Shaken) /\ Cardinality(Shaken) <= g_help.refcnt
  BY DEF DriverInv, TypeInv, Row, CountInv, ContextSet
<1>2. Shaken' = IF c.handshake_ok THEN Shaken \union {d} ELSE Shaken \ {d}
  BY <1>1 DEF Shaken, DriverInv, TypeInv
<1>3. d \in Shaken <=> drv[d].handshake_ok
  BY DEF Shaken
<1>4. Cardinality(Shaken) \in Nat
  BY <1>1, FS_CardinalityType
<1>5. /\ IsFiniteSet(Shaken \union {d})
      /\ Cardinality(Shaken \union {d}) =
             IF d \in Shaken THEN Cardinality(Shaken) ELSE Cardinality(Shaken) + 1
  BY <1>1, FS_AddElement
<1>6. /\ IsFiniteSet(Shaken \ {d})
      /\ Cardinality(Shaken \ {d}) =
             IF d \in Shaken THEN Cardinality(Shaken) - 1 ELSE Cardinality(Shaken)
  BY <1>1, FS_RemoveElement
<1>7. \/ g_help'.refcnt = g_help.refcnt /\ (c.handshake_ok => drv[d].handshake_ok)
      \/ g_help'.refcnt = g_help.refcnt + 1 /\ ~drv[d].handshake_ok
      \/ /\ g_help.refcnt # 0 /\ g_help'.refcnt = g_help.refcnt - 1
         /\ drv[d].handshake_ok /\ ~c.handshake_ok
  BY DEF ContextSet
<1>8. IsFiniteSet(Shaken')
  BY <1>2, <1>5, <1>6
<1>9. Cardinality(Shaken') <= g_help'.refcnt
  <2>1. CASE c.handshake_ok
    BY <1>1, <1>2, <1>3, <1>4, <1>5, <1>7, <2>1
  <2>2. CASE ~c.handshake_ok
    BY <1>1, <1>2, <1>3, <1>4, <1>6, <1>7, <2>2
  <2>. QED  BY <2>1, <2>2
<1>. QED  BY <1>8, <1>9 DEF CountInv

\* A context that is set as a step sets it keeps the invariant of the contexts.
LEMMA ContextsKept ==
  ASSUME DriverInv, NEW d \in Drivers, NEW c \in Context, ContextSet(d, c)
  PROVE  drv' \in [Drivers -> Context] /\ OffInv' /\ DataIsLive'
BY DEF ContextSet, DriverInv, TypeInv, OffInv, DataIsLive, jk_get_reading

----------------------------------------------------------------------------
(* The sockets, whoever uses them. *)

LEMMA ExitSockets ==
  ASSUME TypeInv, Exit
  PROVE  sock' \in [Socks -> Socket]
<1>1. \A s \in Socks : [sock[s] EXCEPT !.hopen = FALSE] \in Socket
  BY DEF TypeInv, Socket
<1>2. \A s \in Socks : Norm([sock[s] EXCEPT !.hopen = FALSE]) \in Socket
  BY <1>1, NormTyped
<1>. QED  BY <1>2 DEF Exit

\* The sockets keep their type, whatever a driver does.
LEMMA DriverSockets ==
  ASSUME TypeInv, OffInv, NEW d \in Drivers, DriverStep(d)
  PROVE  sock' \in [Socks -> Socket]
<1>1. sock \in [Socks -> Socket] /\ drv[d].sock \in Socks \union {None}
  BY DEF TypeInv, Context
<1>2. CASE StartConnect(d)
  <2>1. CASE sock' = sock
    BY <1>1, <2>1
  <2>2. CASE \E s \in Socks :
               sock' = [sock EXCEPT ![s] = [drv |-> d, up |-> <<"connect">>,
                            down |-> <<>>, dopen |-> TRUE, hopen |-> TRUE]]
    <3>1. <<"connect">> \in Seq(Up) /\ <<>> \in Seq(Down)
      BY DEF Up
    <3>2. [drv |-> d, up |-> <<"connect">>, down |-> <<>>, dopen |-> TRUE,
           hopen |-> TRUE] \in Socket
      BY <3>1 DEF Socket
    <3>. QED  BY <1>1, <2>2, <3>2
  <2>. QED  BY <1>2, <2>1, <2>2 DEF StartConnect
<1>3. CASE on_line(d)
  <2> DEFINE s == drv[d].sock
             rest == [sock EXCEPT ![s].down = Tail(@)]
  <2>1. s \in Socks /\ sock[s].down # <<>>
    BY <1>1, <1>3 DEF on_line
  <2>2. rest \in [Socks -> Socket]
    BY <1>1, <2>1, LinesTyped
  <2>3. [rest EXCEPT ![s].up = Append(@, "connect")] \in [Socks -> Socket]
    <3>1. "connect" \in Up
      BY DEF Up
    <3> HIDE DEF rest
    <3>. QED  BY <2>1, <2>2, <3>1, LinesTyped
  <2>4. sock[s].down \in Seq(Down)
    BY <1>1, <2>1 DEF Socket
  <2>5. Head(sock[s].down) \in Down
    BY <2>1, <2>4
  <2>6. sock' \in {rest, [rest EXCEPT ![s].up = Append(@, "connect")]}
    BY <1>3, <2>5 DEF on_line, Down
  <2>. QED  BY <2>2, <2>3, <2>6
<1>4. ASSUME SockClose(d)
      PROVE  sock' \in [Socks -> Socket]
  BY <1>1, <1>4, HangUpTyped DEF SockClose
<1>5. CASE ReadEnd(d)
  BY <1>4, <1>5 DEF ReadEnd
<1>6. CASE Write(d)
  <2>1. CASE SockClose(d)
    BY <1>4, <2>1
  <2>2. CASE sock' = Send(drv[d].sock, "write")
    <3>1. drv[d].sock \in Socks /\ "write" \in Up
      BY <1>1, <1>6 DEF Write, Up
    <3>. QED  BY <1>1, <2>2, <3>1, SendTyped
  <2>. QED  BY <1>6, <2>1, <2>2 DEF Write
<1>7. CASE Stale(d)
  BY <1>1, <1>7 DEF Stale
<1>8. CASE jk_close(d)
  <2>1. CASE drv[d].sock = None
    BY <1>1, <1>8, <2>1 DEF jk_close
  <2>2. CASE drv[d].sock \in Socks
    <3>1. Farewell \in Up
      BY DEF Farewell, Up
    <3>2. Send(drv[d].sock, Farewell) \in [Socks -> Socket]
      BY <1>1, <2>2, <3>1, SendTyped
    <3>3. sock' \in {HangUp(Send(drv[d].sock, Farewell), drv[d].sock),
                     HangUp(sock, drv[d].sock)}
      BY <1>8, <2>2, AbsentAssumption DEF jk_close
    <3>. QED  BY <1>1, <3>2, <3>3, HangUpTyped
  <2>. QED  BY <1>1, <2>1, <2>2
<1>. QED  BY <1>2, <1>3, <1>5, <1>6, <1>7, <1>8 DEF DriverStep

\* The sockets keep their type, whatever the helper does.
LEMMA HelperSockets ==
  ASSUME TypeInv, SlotInv, HelperStep
  PROVE  sock' \in [Socks -> Socket]
<1>1. sock \in [Socks -> Socket]
  BY DEF TypeInv
<1>2. \A k \in Clis : g_cli[k] # NoCli => g_cli[k].sock \in Socks
  BY HasSock
<1>3. Down = {"ok", "disconnected", "notify"}
  BY DEF Down
<1>4. ASSUME NEW k \in Clis, Disconnected(k) \/ on_notify(k)
      PROVE  sock' \in [Socks -> Socket]
  <2>1. g_cli[k] # NoCli
    BY <1>4 DEF Disconnected, on_notify, NoCli
  <2>2. sock' \in {Answer(g_cli[k].sock, "disconnected"), Answer(g_cli[k].sock, "notify")}
    BY <1>4 DEF Disconnected, on_notify
  <2>. QED  BY <1>1, <1>2, <1>3, <2>1, <2>2, AnswerTyped
<1>5. ASSUME NEW s \in Socks, Accept(s)
      PROVE  sock' \in [Socks -> Socket]
  <2>1. CASE sock' = sock
    BY <1>1, <2>1
  <2>2. CASE sock' = [sock EXCEPT ![s] = Norm([@ EXCEPT !.hopen = FALSE])]
    <3> DEFINE x == [sock[s] EXCEPT !.hopen = FALSE]
    <3>1. x \in Socket
      BY <1>1 DEF Socket
    <3>2. sock' = [sock EXCEPT ![s] = Norm(x)]
      BY <2>2
    <3> HIDE DEF x
    <3>. QED  BY <1>1, <3>1, <3>2, NormTyped
  <2>. QED  BY <1>5, <2>1, <2>2 DEF Accept
<1>6. CASE handle_line
  <2> DEFINE s == g_cli[turn].sock
             rest == [sock EXCEPT ![s].up = Tail(@)]
  <2>1. turn \in Clis /\ s \in Socks /\ sock[s].up # <<>>
    BY <1>2, <1>6 DEF handle_line
  <2>2. sock[s].up \in Seq(Up)
    BY <1>1, <2>1 DEF Socket
  <2>3. Head(sock[s].up) \in Up
    BY <2>1, <2>2
  <2>4. rest \in [Socks -> Socket]
    BY <1>1, <2>1, LinesTyped
  <2>5. [rest EXCEPT ![s].down = Append(@, "disconnected")] \in [Socks -> Socket]
    <3> HIDE DEF rest
    <3>. QED  BY <1>3, <2>1, <2>4, LinesTyped
  <2>6. CASE HandleConnect(turn, sock[s].drv)
    BY <2>4, <2>6 DEF HandleConnect
  <2>7. CASE HandleWrite(turn)
    <3>1. sock' \in {rest, [rest EXCEPT ![s].down = Append(@, "disconnected")]}
      BY <2>7 DEF HandleWrite
    <3>. QED  BY <2>4, <2>5, <3>1
  <2>8. CASE HandleDisconnect(turn)
    BY <2>4, <2>8 DEF HandleDisconnect
  <2>9. CASE Exit
    BY <2>9, ExitSockets
  <2>. QED  BY <1>6, <2>3, <2>6, <2>7, <2>8, <2>9 DEF handle_line, Up
<1>7. CASE cli_close
  BY <1>1, <1>7, Blank DEF cli_close
<1>8. CASE CliTurn
  <2>1. turn \in Clis /\ g_cli[turn].sock \in Socks
    BY <1>2, <1>8 DEF CliTurn
  <2>2. sock' \in {sock, Answer(g_cli[turn].sock, "ok")}
    BY <1>8 DEF CliTurn, Reconnect, AdvanceScan, AdvanceGatt, Idle
  <2>. QED  BY <1>1, <1>3, <2>1, <2>2, AnswerTyped
<1>9. CASE HelperCrash
  BY <1>9, ExitSockets DEF HelperCrash
<1>. QED
  BY <1>1, <1>4, <1>5, <1>6, <1>7, <1>8, <1>9
     DEF HelperStep, ProcBind, ProcFails, NoAccept

----------------------------------------------------------------------------
(* The inductive invariant and the theorems. *)

IInv ==
    /\ TypeInv
    /\ SlotInv
    /\ OffInv
    /\ CountInv
    /\ DataIsLive
    /\ MacExclusive
    /\ OwnerPresent
    /\ g_scan_owner \in Clis \union {None}

\* The invariant holds at first.
LEMMA InitIInv == Init => IInv
<1> SUFFICES ASSUME Init PROVE IInv
  OBVIOUS
<1>1. TypeInv
  <2>1. g_help \in Row
    BY DEF Init, Row
  <2>. QED  BY <2>1, Blank DEF Init, TypeInv
<1>2. SlotInv /\ MacExclusive /\ OwnerPresent /\ g_scan_owner \in Clis \union {None}
  BY DEF Init, SlotInv, MacExclusive, OwnerPresent, NoCli
<1>3. OffInv /\ DataIsLive
  BY DEF Init, OffInv, DataIsLive, jk_get_reading, Closed
<1>4. CountInv
  <2>1. Shaken = {}
    BY DEF Init, Shaken, Closed
  <2>2. g_help.refcnt = 0
    BY DEF Init
  <2>. QED  BY <2>1, <2>2, FS_EmptySet DEF CountInv
<1>. QED  BY <1>1, <1>2, <1>3, <1>4 DEF IInv

\* The helper does not touch the drivers and their row.
LEMMA HelperLeavesDrivers == HelperStep => UNCHANGED <<g_help, drv>>
BY DEF HelperStep, ProcBind, ProcFails, HelperCrash, Disconnected, on_notify, Accept,
       NoAccept, handle_line, cli_close, CliTurn

\* Every step keeps the invariant.
LEMMA NextIInv == IInv /\ [Next]_vars => IInv'
<1> SUFFICES ASSUME IInv, [Next]_vars PROVE IInv'
  OBVIOUS
<1>1. TableStep
  BY TableSteps DEF IInv
<1>2. g_cli' \in [Clis -> Client] /\ SlotInv'
  BY <1>1, TableTyped DEF IInv
<1>3. MacExclusive'
  BY <1>1, TableExclusive DEF IInv
<1>4. OwnerPresent' /\ g_scan_owner' \in Clis \union {None}
  BY <1>1, TableOwner DEF IInv
<1>5. /\ g_help' \in Row /\ drv' \in [Drivers -> Context] /\ sock' \in [Socks -> Socket]
      /\ OffInv' /\ DataIsLive' /\ CountInv'
  <2>1. CASE UNCHANGED <<g_help, drv>> /\ sock' \in [Socks -> Socket]
    BY <2>1 DEF IInv, TypeInv, OffInv, DataIsLive, jk_get_reading, CountInv, Shaken
  <2>2. CASE UNCHANGED vars
    BY <2>1, <2>2 DEF vars, IInv, TypeInv
  <2>3. CASE HelperStep
    BY <2>1, <2>3, HelperSockets, HelperLeavesDrivers DEF IInv
  <2>4. ASSUME NEW d \in Drivers, DriverStep(d)
        PROVE  /\ g_help' \in Row /\ drv' \in [Drivers -> Context]
               /\ sock' \in [Socks -> Socket]
               /\ OffInv' /\ DataIsLive' /\ CountInv'
    <3>1. DriverInv
      BY DEF IInv, DriverInv
    <3>2. PICK c \in Context : ContextSet(d, c)
      BY <2>4, <3>1, DriverSets
    <3>. QED  BY <2>4, <3>1, <3>2, DriverSets, CountKept, ContextsKept, DriverSockets
                DEF DriverInv
  <2>. QED  BY <2>2, <2>3, <2>4 DEF Next
<1>. QED  BY <1>2, <1>3, <1>4, <1>5 DEF IInv, TypeInv

\* The invariant holds in every state.
LEMMA Invariant == Spec => []IInv
BY InitIInv, NextIInv, PTL DEF Spec

(***************************************************************************)
(* mf_gatt.c refuses to bind a client to a battery another client has:     *)
(* however many clients come and go, no two have the same one.             *)
(***************************************************************************)
THEOREM MacExclusiveHolds == Spec => []MacExclusive
<1>1. IInv => MacExclusive
  BY DEF IInv
<1>. QED  BY <1>1, Invariant, PTL

(***************************************************************************)
(* cli_close and the failing paths of a session give up the scan, so its   *)
(* owner is a client that is there, whose turn will come.                  *)
(***************************************************************************)
THEOREM OwnerPresentHolds == Spec => []OwnerPresent
<1>1. IInv => OwnerPresent
  BY DEF IInv
<1>. QED  BY <1>1, Invariant, PTL

(***************************************************************************)
(* mark_dropped, sock_close and jk_close take the reading off together     *)
(* with handshake_ok.                                                      *)
(***************************************************************************)
THEOREM DataIsLiveHolds == Spec => []DataIsLive
<1>1. IInv => DataIsLive
  BY DEF IInv
<1>. QED  BY <1>1, Invariant, PTL

\* The step behind QuitOnlyByLast: a driver that is switched off was closed by
\* jk_close, and the line it adds to its socket is its farewell.
LEMMA ClosedByClose ==
  ASSUME IInv, [Next]_vars, NEW d \in Drivers, NEW s \in Socks,
         drv[d].sock = s, drv'[d].st = "off"
  PROVE  jk_close(d)
<1>1. drv \in [Drivers -> Context] /\ drv[d].st # "off"
  BY AbsentAssumption DEF IInv, TypeInv, OffInv
<1>2. drv' # drv
  BY <1>1
<1>3. PICK e \in Drivers : DriverStep(e)
  BY <1>2, HelperLeavesDrivers DEF Next, vars
<1>4. PICK c \in Context : ContextSet(e, c)
  BY <1>3, DriverSets DEF IInv, DriverInv
<1>5. e = d
  BY <1>1, <1>4 DEF ContextSet
<1>6. ~StartConnect(d)
  <2>1. ASSUME NEW t \in Socks, drv' = [drv EXCEPT ![d] =
                                   [Closed EXCEPT !.st = "handshake", !.sock = t]]
        PROVE  FALSE
    BY <1>1, <2>1 DEF Closed
  <2>2. ASSUME drv' = [drv EXCEPT ![d].st = "idle"]
        PROVE  FALSE
    BY <1>1, <2>2 DEF Context
  <2>. QED  BY <2>1, <2>2 DEF StartConnect
<1>7. ~ReadEnd(d) /\ ~Write(d)
  BY <1>1 DEF ReadEnd, Write, SockClose, Closed
<1>8. ~on_line(d)
  <2> SUFFICES ASSUME on_line(d) PROVE FALSE
    OBVIOUS
  <2>1. sock[s].down \in Seq(Down) /\ sock[s].down # <<>>
    BY DEF IInv, TypeInv, Socket, on_line
  <2>2. Head(sock[s].down) \in Down
    BY <2>1
  <2>3. CASE Head(sock[s].down) = "ok"
    <3> DEFINE streams == [drv[d] EXCEPT !.handshake_ok = TRUE, !.st = "stream"]
    <3>1. drv' = [drv EXCEPT ![d].handshake_ok = TRUE, ![d].st = "stream"]
      BY <2>3 DEF on_line
    <3>2. drv'[d] = streams
      BY <1>1, <3>1
    <3>3. streams.st = "stream"
      BY <1>1 DEF Context
    <3>. QED  BY <3>2, <3>3
  <2>4. CASE Head(sock[s].down) = "disconnected"
    BY <1>1, <2>4 DEF on_line, Dropped, Context
  <2>5. CASE Head(sock[s].down) = "notify"
    <3>1. PICK complete \in BOOLEAN :
            drv' = [drv EXCEPT ![d].have_data = @ \/ (drv[d].handshake_ok /\ complete)]
      BY <2>5 DEF on_line
    <3> DEFINE shows == drv[d].have_data \/ (drv[d].handshake_ok /\ complete)
    <3>2. drv'[d] = [drv[d] EXCEPT !.have_data = shows]
      BY <1>1, <3>1
    <3> HIDE DEF shows
    <3>3. drv'[d].st = drv[d].st
      BY <1>1, <3>2 DEF Context
    <3>. QED  BY <1>1, <3>3
  <2>. QED  BY <2>2, <2>3, <2>4, <2>5 DEF Down
<1>9. ~Stale(d)
  BY <1>1 DEF Stale, Context
<1>. QED  BY <1>3, <1>5, <1>6, <1>7, <1>8, <1>9 DEF DriverStep

\* The driver that says quit is the last that has shaken hands.
LEMMA FarewellAlone ==
  ASSUME IInv, NEW d \in Drivers, NEW e \in Drivers, NEW s \in Socks, d # e,
         drv[d].sock = s, jk_close(d), sock'[s].up # <<>>, sock'[s].up # sock[s].up,
         sock'[s].up[Len(sock'[s].up)] = "quit"
  PROVE  ~drv[e].handshake_ok
<1>1. sock[s] \in Socket /\ sock \in [Socks -> Socket] /\ s # None
  BY AbsentAssumption DEF IInv, TypeInv
<1>2. ASSUME NEW x \in Socket
      PROVE  Norm([x EXCEPT !.dopen = FALSE, !.down = <<>>]).up \in {x.up, <<>>}
  BY <1>2 DEF Norm, Unused, Socket
<1>3. drv[d].handshake_ok /\ sock[s].hopen
  <2> SUFFICES ASSUME ~(drv[d].handshake_ok /\ sock[s].hopen) PROVE FALSE
    OBVIOUS
  <2>1. sock' = HangUp(sock, s)
    BY <1>1 DEF jk_close
  <2>2. sock'[s] = Norm([sock[s] EXCEPT !.dopen = FALSE, !.down = <<>>])
    BY <1>1, <2>1 DEF HangUp
  <2>. QED  BY <1>1, <1>2, <2>2
<1>4. Farewell = "quit"
  <2>1. sock' = HangUp(Send(s, Farewell), s)
    BY <1>1, <1>3 DEF jk_close
  <2>2. Farewell \in Up
    BY DEF Farewell, Up
  <2>3. Send(s, Farewell) \in [Socks -> Socket]
        /\ Send(s, Farewell)[s].up = Append(sock[s].up, Farewell)
    BY <1>1, <1>3, <2>2, SendTyped DEF Send, Socket
  <2>4. sock'[s] = Norm([Send(s, Farewell)[s] EXCEPT !.dopen = FALSE, !.down = <<>>])
    BY <2>1, <2>3 DEF HangUp
  <2>5. sock'[s].up = Append(sock[s].up, Farewell)
    BY <1>2, <2>3, <2>4
  <2>6. sock[s].up \in Seq(Up)
    BY <1>1 DEF Socket
  <2>7. /\ Len(Append(sock[s].up, Farewell)) = Len(sock[s].up) + 1
        /\ Append(sock[s].up, Farewell)[Len(sock[s].up) + 1] = Farewell
    BY <2>2, <2>6
  <2>. QED  BY <2>5, <2>7
<1>5. g_help.refcnt <= 1 /\ g_help.refcnt \in Nat
  BY <1>4 DEF Farewell, IInv, TypeInv, Row
<1>6. SUFFICES ASSUME drv[e].handshake_ok PROVE FALSE
  OBVIOUS
<1>7. {d, e} \subseteq Shaken /\ IsFiniteSet(Shaken) /\ Cardinality(Shaken) <= g_help.refcnt
  BY <1>3, <1>6 DEF Shaken, IInv, CountInv
<1>8. /\ Cardinality({d, e}) \in Nat /\ Cardinality(Shaken) \in Nat
      /\ Cardinality({d, e}) <= Cardinality(Shaken)
  BY <1>7, FS_Subset, FS_CardinalityType
<1>9. Cardinality({d, e}) = 2
  <2>1. IsFiniteSet({d}) /\ Cardinality({d}) = 1
    BY FS_Singleton
  <2>2. Cardinality({d} \union {e}) = 2
    <3>1. e \notin {d}
      OBVIOUS
    <3> DEFINE one == {d}
    <3>2. IsFiniteSet(one) /\ Cardinality(one) = 1 /\ e \notin one
      BY <2>1, <3>1
    <3> HIDE DEF one
    <3>3. Cardinality(one \union {e}) = Cardinality(one) + 1
      BY <3>2, FS_AddElement
    <3>4. Cardinality(one \union {e}) = 2
      BY <3>2, <3>3
    <3>. QED  BY <3>4 DEF one
  <2>3. {d} \union {e} = {d, e}
    OBVIOUS
  <2>. QED  BY <2>2, <2>3
<1>. QED  BY <1>5, <1>7, <1>8, <1>9

(***************************************************************************)
(* jk_close tells the helper to quit when the row's count is at most one;  *)
(* CountInv says that no one else is connected then, whatever links,       *)
(* helpers and drivers came and went before.                               *)
(***************************************************************************)
THEOREM QuitOnlyByLastHolds == Spec => QuitOnlyByLast
<1> DEFINE Quits(d, e, s) ==
             /\ d # e /\ drv[d].sock = s /\ drv'[d].st = "off"
             /\ sock'[s].up # <<>> /\ sock'[s].up # sock[s].up
             /\ sock'[s].up[Len(sock'[s].up)] = "quit"
<1>1. ASSUME IInv, [Next]_vars, NEW d \in Drivers, NEW e \in Drivers, NEW s \in Socks,
             Quits(d, e, s)
      PROVE  ~drv[e].handshake_ok
  BY <1>1, ClosedByClose, FarewellAlone
<1>2. IInv /\ [Next]_vars =>
        [\A d, e \in Drivers, s \in Socks : Quits(d, e, s) => ~drv[e].handshake_ok]_vars
  BY <1>1
<1>. QED  BY <1>2, Invariant, PTL DEF Spec, QuitOnlyByLast
=============================================================================
