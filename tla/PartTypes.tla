----------------------------- MODULE PartTypes ------------------------------
(***************************************************************************)
(* Proofs that the variables of the parts have the types and keep within   *)
(* the bounds that their modules state: part by part, and of them all.     *)
(*                                                                         *)
(* A type is seldom inductive as it stands.  What the other proofs know of *)
(* the Textbelt and weather services, the XD battery, the framers, the     *)
(* terminal interface, the lists of the scheduler and the watermarks is    *)
(* used here; the rest is added.                                           *)
(***************************************************************************)
EXTENDS FramingProofs

----------------------------------------------------------------------------
(* The Classic's driver: its context. *)

ClContext ==
    [state : {"disconnected", "connecting", "hold", "send", "recv"},
     itry : Units, unit_ok : 0 .. NTry, deadline : 0 .. IO_TIMEOUT_S,
     age : 0 .. RECONNECT_S, next_poll : Nat, have_data : BOOLEAN, every : Intervals]

\* A time that is near comes nearer.
LEMMA PassBounded ==
    ASSUME NEW n \in Nat, NEW t \in 0 .. n
    PROVE  Pass(t) \in 0 .. n
BY DEF Pass

\* Connecting, whatever becomes of it.
LEMMA ConnectTypes ==
    ASSUME NEW c \in ClContext, NEW ok \in BOOLEAN
    PROVE  /\ start_connect(c, ok) \in ClContext /\ StartOver(c, ok) \in ClContext
           /\ next_unit_or_reconnect(c, ok) \in ClContext
<1>1. ASSUME NEW d \in ClContext
      PROVE  start_connect(d, ok) \in ClContext /\ sock_close(d) \in ClContext
  <2>1. IO_TIMEOUT_S \in 0 .. IO_TIMEOUT_S
    BY ModbusAssumption
  <2>2. sock_close(d) \in ClContext
    BY DEF ClContext, sock_close
  <2>3. [d EXCEPT !.state = "connecting", !.deadline = IO_TIMEOUT_S] \in ClContext
    BY <2>1 DEF ClContext
  <2> QED
    BY <2>2, <2>3 DEF start_connect
<1>2. 1 \in Units /\ (c.itry # NTry => c.itry + 1 \in Units)
  BY ModbusAssumption DEF ClContext, Units
<1>3. \A u \in Units : [c EXCEPT !.itry = u] \in ClContext
  BY DEF ClContext
<1>4. [c EXCEPT !.itry = 1] \in ClContext
  BY <1>2, <1>3
<1>5. c.itry # NTry => [c EXCEPT !.itry = @ + 1] \in ClContext
  BY <1>2 DEF ClContext
<1> QED
  BY <1>1, <1>4, <1>5 DEF StartOver, next_unit_or_reconnect

\* An exchange.
LEMMA AskedTypes ==
    ASSUME NEW c \in ClContext, cl_settled \in BOOLEAN
    PROVE  Asked(c) \subseteq ClContext
<1>0. IO_TIMEOUT_S \in 0 .. IO_TIMEOUT_S
  BY ModbusAssumption
<1>1. Sent(c) \in ClContext
  BY <1>0 DEF ClContext, Sent
<1>2. parse_fc3(c) \in ClContext
  <2>1. c.itry \in 0 .. NTry /\ c.every \in Nat /\ 0 \in 0 .. RECONNECT_S
    <3>1. c.itry \in 1 .. NTry /\ c.every \in Intervals
      BY DEF ClContext, Units
    <3>2. c.every \in Nat
      BY <3>1, ClAssumption
    <3>3. c.itry \in 0 .. NTry
      BY ONLY <3>1, ModbusAssumption
    <3> QED
      BY <3>2, <3>3, ClAssumption
  <2> QED
    BY <2>1 DEF ClContext, parse_fc3
<1> QED
  BY <1>1, <1>2, ConnectTypes DEF Asked, Settled, ClExchange

\* The unit id that has answered is asked.
LEMMA PreferTypes ==
    ASSUME NEW c \in ClContext
    PROVE  build_fc3(prefer_unit_ok(c)) \in ClContext
<1> DEFINE d == prefer_unit_ok(c)
<1>1. d \in ClContext
  <2>1. c.unit_ok # 0 => c.unit_ok \in Units
    BY ModbusAssumption DEF ClContext, Units
  <2> QED
    BY <2>1 DEF ClContext, prefer_unit_ok
<1> HIDE DEF d
<1>2. IO_TIMEOUT_S \in 0 .. IO_TIMEOUT_S
  BY ModbusAssumption
<1>3. build_fc3(d) \in ClContext
  BY <1>1, <1>2 DEF ClContext, build_fc3
<1> QED
  BY <1>3 DEF d

\* A step of the driver.
LEMMA PumpTypes ==
    ASSUME NEW c \in ClContext, cl_settled \in BOOLEAN
    PROVE  pump(c) \subseteq ClContext
<1>1. Asked(c) \subseteq ClContext /\ Asked(build_fc3(prefer_unit_ok(c))) \subseteq ClContext
  BY AskedTypes, PreferTypes
<1>2. \A ok \in BOOLEAN : /\ StartOver(c, ok) \in ClContext
                          /\ next_unit_or_reconnect(c, ok) \in ClContext
  BY ConnectTypes
<1>3. Connecting(c) \subseteq ClContext
  BY <1>1, <1>2 DEF Connecting
<1>4. c.state \in {"disconnected", "connecting", "hold", "send", "recv"}
      /\ c.age \in Nat /\ c.next_poll \in Nat /\ c.deadline \in Nat
  BY DEF ClContext
<1> DEFINE Connects == IF cl_settled THEN {TRUE} ELSE BOOLEAN
           Stay == {c}
           Again == {StartOver(c, ok) : ok \in Connects}
           Polled == Asked(build_fc3(prefer_unit_ok(c)))
           Next1 == {next_unit_or_reconnect(c, ok) : ok \in Connects}
           Up == Connecting(c)
           On == Asked(c)
<1>5. pump(c) = CASE c.state = "hold" /\ c.next_poll > 0 -> Stay
         [] c.state = "hold" /\ c.next_poll = 0 /\ c.age >= RECONNECT_S -> Again
         [] c.state = "hold" /\ c.next_poll = 0 /\ c.age < RECONNECT_S -> Polled
         [] c.state = "disconnected" -> Again
         [] c.state \in {"connecting", "send", "recv"} /\ c.deadline = 0 -> Next1
         [] c.state = "connecting" /\ c.deadline > 0 -> Up
         [] c.state \in {"send", "recv"} /\ c.deadline > 0 -> On
  BY Zenon DEF pump
<1>6. Connects \subseteq BOOLEAN
  OBVIOUS
<1> HIDE DEF Connects
<1>7. /\ Stay \subseteq ClContext /\ Again \subseteq ClContext /\ Polled \subseteq ClContext
      /\ Next1 \subseteq ClContext /\ Up \subseteq ClContext /\ On \subseteq ClContext
  BY <1>1, <1>2, <1>3, <1>6
<1> HIDE DEF Stay, Again, Polled, Next1, Up, On
<1> QED
  BY ONLY <1>4, <1>5, <1>7, ClAssumption

\* Opening the module.
LEMMA OpenTypes ==
    ASSUME NEW every \in Intervals, NEW ok \in BOOLEAN
    PROVE  classic_open(every, ok) \in ClContext
<1> DEFINE c == [state |-> "disconnected", itry |-> 1, unit_ok |-> 0, deadline |-> 0,
                 age |-> RECONNECT_S, next_poll |-> 0, have_data |-> FALSE, every |-> every]
<1>1. c \in ClContext
  BY ModbusAssumption, ClAssumption DEF ClContext, Units
<1> HIDE DEF c
<1>2. start_connect(c, ok) \in ClContext
  BY <1>1, ConnectTypes
<1> QED
  BY <1>2 DEF c, classic_open

\* The types hold at first.
LEMMA ClTypesStart == ClInit => ClTypeOK
<1> SUFFICES ASSUME ClInit PROVE ClTypeOK
  OBVIOUS
<1>1. PICK every \in Intervals, ok \in BOOLEAN : cl = classic_open(every, ok)
  BY DEF ClInit
<1>2. cl \in ClContext
  BY <1>1, OpenTypes
<1> QED
  BY <1>2 DEF ClInit, ClTypeOK, ClContext

\* Every step keeps them.
LEMMA ClTypesKept == ClTypeOK /\ [ClNext]_cl_vars => ClTypeOK'
<1> SUFFICES ASSUME ClTypeOK, [ClNext]_cl_vars PROVE ClTypeOK'
  OBVIOUS
<1>1. cl \in ClContext /\ answers \in Units /\ cl_settled \in BOOLEAN
  BY DEF ClTypeOK, ClContext
<1>2. cl' \in ClContext
  <2>1. CASE classic_step
    BY <1>1, <2>1, PumpTypes DEF classic_step
  <2>2. CASE ClReopen
    <3>1. cl.every \in Intervals
      BY <1>1 DEF ClContext
    <3> QED
      BY <2>2, <3>1, OpenTypes DEF ClReopen
  <2>3. CASE UNCHANGED cl
    BY <1>1, <2>3
  <2>4. CASE ClTick
    <3> DEFINE age == IF cl.age < RECONNECT_S THEN cl.age + 1 ELSE cl.age
    <3>1. Pass(cl.deadline) \in 0 .. IO_TIMEOUT_S /\ Pass(cl.next_poll) \in Nat
      BY <1>1, ModbusAssumption DEF ClContext, Pass
    <3>2. age \in 0 .. RECONNECT_S
      BY <1>1, ClAssumption DEF ClContext
    <3> HIDE DEF age
    <3>3. cl' = [cl EXCEPT !.deadline = Pass(@), !.next_poll = Pass(@), !.age = age]
      BY <2>4 DEF ClTick, age
    <3> QED
      BY <1>1, <3>1, <3>2, <3>3 DEF ClContext
  <2> QED
    BY <2>1, <2>2, <2>3, <2>4 DEF ClNext, Readdress, ClSettle, cl_vars
<1>3. answers' \in Units /\ cl_settled' \in BOOLEAN
  BY <1>1 DEF ClNext, classic_step, ClReopen, Readdress, ClSettle, ClTick, cl_vars
<1> QED
  BY <1>2, <1>3 DEF ClTypeOK, ClContext

----------------------------------------------------------------------------
(* The Magnum driver: its context. *)

MgContext ==
    [open : BOOLEAN, alive : BOOLEAN, next_open : 0 .. OWNED_RETRY_S, seen : BOOLEAN,
     role : Roles \union {NoRole}, age : 0 .. STALE_S + 1, online : BOOLEAN,
     reading : BOOLEAN, next_publish : 0 .. PUBLISH_S]

\* A try to open the port, what is read from it, and what is shown.
LEMMA MgCallTypes ==
    ASSUME MgTypeOK, NEW c \in MgContext, NEW ok \in BOOLEAN
    PROVE  /\ try_open(c, ok) \in MgContext
           /\ drain(c) \subseteq MgContext
           /\ Publish(c) \in MgContext
<1>1. /\ REOPEN_S \in 0 .. OWNED_RETRY_S /\ OWNED_RETRY_S \in 0 .. OWNED_RETRY_S
      /\ 0 \in 0 .. STALE_S + 1 /\ PUBLISH_S \in 0 .. PUBLISH_S
  BY MgAssumption
<1>2. try_open(c, ok) \in MgContext
  BY <1>1 DEF try_open, MgContext
<1>3. \A d \in MgContext, r \in talking : decode_inverter(d, r) \in MgContext
  BY <1>1 DEF decode_inverter, MgContext, MgTypeOK
<1>4. Read(c) \subseteq MgContext
  BY <1>3 DEF Read
<1>5. drain(c) \subseteq MgContext
  <2>1. [c EXCEPT !.open = FALSE, !.next_open = REOPEN_S] \in MgContext
    BY <1>1 DEF MgContext
  <2> QED
    BY <1>4, <2>1 DEF drain, Heard
<1>6. Publish(c) \in MgContext
  BY <1>1 DEF Publish, MgContext
<1> QED
  BY <1>2, <1>5, <1>6

\* Opening the module.
LEMMA MgOpenTypes == mag_open \in MgContext
BY MgAssumption DEF mag_open, MgContext

\* The types hold at first.
LEMMA MgTypesStart == MgInit => MgTypeOK
BY MgOpenTypes DEF MgInit, MgTypeOK, MgContext

\* Every step keeps them.
LEMMA MgTypesKept == MgTypeOK /\ [MgNext]_mg_vars => MgTypeOK'
<1> SUFFICES ASSUME MgTypeOK, [MgNext]_mg_vars PROVE MgTypeOK'
  OBVIOUS
<1>1. mg \in MgContext
  BY DEF MgTypeOK, MgContext
<1>2. mg' \in MgContext
  <2>1. CASE mag_step
    <3>1. PICK ok \in BOOLEAN :
             LET c == IF ~mg.open /\ mg.next_open = 0
                      THEN [try_open(mg, ok) EXCEPT !.alive = TRUE] ELSE mg
             IN \E d \in IF c.open THEN drain(c) ELSE {c} : mg' = Publish(d)
      BY <2>1 DEF mag_step
    <3> DEFINE opened == [try_open(mg, ok) EXCEPT !.alive = TRUE]
               c == IF ~mg.open /\ mg.next_open = 0 THEN opened ELSE mg
    <3>2. opened \in MgContext
      BY <1>1, MgCallTypes DEF MgContext
    <3>3. PICK d \in IF c.open THEN drain(c) ELSE {c} : mg' = Publish(d)
      BY <3>1
    <3>4. c \in MgContext
      BY <1>1, <3>2
    <3> HIDE DEF c
    <3>5. d \in MgContext
      BY <3>3, <3>4, MgCallTypes
    <3> QED
      BY <3>3, <3>5, MgCallTypes
  <2>2. CASE MgReopen
    BY <2>2, MgOpenTypes DEF MgReopen
  <2>3. CASE mag_put_settings
    BY <1>1, <2>3, MgAssumption DEF mag_put_settings, MgContext
  <2>4. CASE Adapter
    BY <1>1, <2>4 DEF Adapter, MgContext
  <2>5. CASE UNCHANGED mg
    BY <1>1, <2>5
  <2>6. CASE MgTick
    <3> DEFINE age == IF mg.age <= STALE_S /\ mg.seen THEN mg.age + 1 ELSE mg.age
    <3>1. Pass(mg.next_open) \in 0 .. OWNED_RETRY_S /\ Pass(mg.next_publish) \in 0 .. PUBLISH_S
      BY <1>1, MgAssumption DEF MgContext, Pass
    <3>2. age \in 0 .. STALE_S + 1
      BY <1>1, MgAssumption DEF MgContext
    <3> HIDE DEF age
    <3>3. mg' = [mg EXCEPT !.next_open = Pass(@), !.next_publish = Pass(@), !.age = age]
      BY <2>6 DEF MgTick, age
    <3> QED
      BY <1>1, <3>1, <3>2, <3>3 DEF MgContext
  <2> QED
    BY <2>1, <2>2, <2>3, <2>4, <2>5, <2>6 DEF MgNext, Bus, MgSettle, mg_vars
<1>3. /\ port' \in {"gone", "free", "owned", "locked"}
      /\ talking' \subseteq Roles /\ mg_settled' \in BOOLEAN
  BY DEF MgTypeOK, MgNext, mag_step, MgReopen, mag_put_settings, Adapter, Bus, MgSettle, MgTick,
         mg_vars
<1> QED
  BY <1>2, <1>3 DEF MgTypeOK, MgContext

----------------------------------------------------------------------------
(* A phantom module: what it shadows and shows. *)

PhContext == [shadows : Lists, next : 0 .. PH_POLL, reading : SUBSET Real]
PhInv == ph \in PhContext

\* The types hold at first.
LEMMA PhTypesStart == PhInit => PhInv
BY PhAssumption DEF PhInit, PhRests, ph_open, PhInv, PhContext

\* Every step keeps them.
LEMMA PhTypesKept == PhInv /\ [PhNext]_ph_vars => PhInv'
<1> SUFFICES ASSUME PhInv, [PhNext]_ph_vars PROVE PhInv'
  OBVIOUS
<1>1. CASE ph_step
  <2>1. Qualifying \in SUBSET Real /\ PH_POLL \in 0 .. PH_POLL
    BY PhAssumption DEF Qualifying, Qualifies
  <2> QED
    BY <1>1, <2>1 DEF ph_step, PhInv, PhContext
<1>2. CASE ph_put_settings
  <2>1. PICK l \in Lists : ph' = [ph EXCEPT !.shadows = l, !.next = 0]
    BY <1>2 DEF ph_put_settings
  <2>2. 0 \in 0 .. PH_POLL
    BY PhAssumption
  <2> QED
    BY <2>1, <2>2 DEF PhInv, PhContext
<1>3. CASE UNCHANGED ph
  BY <1>3 DEF PhInv
<1>4. CASE PhTick
  <2>1. Pass(ph.next) \in 0 .. PH_POLL
    BY PhAssumption DEF PhInv, PhContext, Pass
  <2> QED
    BY <1>4, <2>1 DEF PhTick, PhInv, PhContext
<1> QED
  BY <1>1, <1>2, <1>3, <1>4 DEF PhNext, ModuleChanges, PhSettle, ph_vars

----------------------------------------------------------------------------
(* The settings of a JK battery: every protection that is on its way or known is *)
(* within its limits.                                                            *)

Ovps == OVP_MIN .. OVP_MAX
Registers == {"rcv", "ovp", "ovpr", "bal"}

\* What may be written: a request for the settings, or a register with a value.
Commands ==
    {CellInfo} \union {w \in [reg : Registers, val : Int] : w.reg = "ovp" => w.val \in Ovps}

JkContext ==
    [up : BOOLEAN, wq : Seq(Commands), wq_i : Nat, wq_left : Int, need_cell_req : BOOLEAN,
     have_settings : BOOLEAN, want_settings : BOOLEAN, settings_left : Int, cell_left : Int,
     shown : [rcv : Int, ovp : Ovps \union {0}, ovpr : Int], shown_bal : Int,
     bal_want : Int, puts : Int]

BmsContext == [rcv : Int, ovp : Ovps, ovpr : Int, bal : Int]
LineContext == [out : Seq(Commands), frame : Seq(BmsContext)]

\* A context whose queue is not longer than there are places, and that writes one of it.
Queued(c) ==
    /\ c \in JkContext
    /\ Len(c.wq) <= WQ_LEN /\ (c.wq_i < Len(c.wq) \/ c.wq_i = 0)

\* A line whose output is not longer than the buffer.
Buffered(l) == l \in LineContext /\ Len(l.out) <= OUT_LEN

JkInv == Queued(jk) /\ bms \in BmsContext /\ Buffered(line) /\ jk_settled \in BOOLEAN

\* A register and a value are a command.
LEMMA CommandTypes ==
    /\ CellInfo \in Commands
    /\ \A r \in Registers \ {"ovp"}, v \in Int : [reg |-> r, val |-> v] \in Commands
    /\ \A v \in Ovps : [reg |-> "ovp", val |-> v] \in Commands
<1>1. \A v \in Ovps : v \in Int
  BY DEF Ovps
<1> QED
  BY <1>1 DEF Commands, Registers

\* queue_hex_write keeps the line's type and its bound.
LEMMA WriteTypes ==
    ASSUME NEW l, Buffered(l), NEW w \in Commands
    PROVE  Buffered(queue_hex_write(l, w))
<1> DEFINE out == Append(l.out, w)
<1>1. l \in LineContext /\ l.out \in Seq(Commands) /\ Len(l.out) <= OUT_LEN
  BY DEF Buffered, LineContext
<1>2. out \in Seq(Commands) /\ Len(out) = Len(l.out) + 1
  BY <1>1
<1> HIDE DEF out
<1>3. Len(l.out) \in Nat
  BY <1>1, LenProperties
<1>4. CASE Len(l.out) >= OUT_LEN
  BY <1>4 DEF queue_hex_write
<1>5. CASE ~(Len(l.out) >= OUT_LEN)
  <2>1. queue_hex_write(l, w) = [l EXCEPT !.out = out]
    BY <1>5 DEF queue_hex_write, out
  <2>2. [l EXCEPT !.out = out] \in LineContext
    BY <1>1, <1>2 DEF LineContext
  <2>3. [l EXCEPT !.out = out].out = out
    BY <1>1 DEF LineContext
  <2>4. Len(out) <= OUT_LEN
    BY <1>2, <1>3, <1>5, JkAssumption
  <2> QED
    BY <2>1, <2>2, <2>3, <2>4 DEF Buffered
<1> QED
  BY <1>4, <1>5

\* wq_push keeps the context's type and the bound of its queue, and what is shown.
LEMMA PushTypes ==
    ASSUME NEW c, Queued(c), NEW r, NEW v, [reg |-> r, val |-> v] \in Commands
    PROVE  Queued(wq_push(c, r, v)) /\ wq_push(c, r, v).shown = c.shown
<1> DEFINE w == [reg |-> r, val |-> v]
           wq == Append(c.wq, w)
           left == IF c.wq = <<>> THEN 0 ELSE c.wq_left
           d == [c EXCEPT !.wq = wq, !.wq_left = left]
<1>1. /\ c \in JkContext /\ c.wq \in Seq(Commands) /\ c.wq_i \in Nat /\ left \in Int
      /\ Len(c.wq) <= WQ_LEN /\ (c.wq_i < Len(c.wq) \/ c.wq_i = 0)
  BY DEF Queued, JkContext
<1>2. wq_push(c, r, v) = IF Len(c.wq) >= WQ_LEN THEN c ELSE d
  BY Zenon DEF wq_push
<1> HIDE DEF w
<1>3. wq \in Seq(Commands) /\ Len(wq) = Len(c.wq) + 1
  BY <1>1 DEF w
<1>4. Len(c.wq) \in Nat
  BY <1>1, LenProperties
<1> HIDE DEF wq, left
<1>5. d \in JkContext /\ d.wq = wq /\ d.wq_i = c.wq_i /\ d.shown = c.shown
  BY <1>1, <1>3 DEF JkContext
<1> HIDE DEF d
<1>6. Len(c.wq) < WQ_LEN => Len(wq) <= WQ_LEN /\ (c.wq_i < Len(wq) \/ c.wq_i = 0)
  BY ONLY <1>1, <1>3, <1>4, JkAssumption
<1>7. CASE Len(c.wq) >= WQ_LEN
  BY <1>2, <1>7
<1>8. CASE ~(Len(c.wq) >= WQ_LEN)
  <2>1. Len(c.wq) < WQ_LEN
    BY ONLY <1>4, <1>8, JkAssumption
  <2> QED
    BY <1>2, <1>5, <1>6, <1>8, <2>1 DEF Queued
<1> QED
  BY <1>7, <1>8

\* What is shown may be anything of its type.
LEMMA ShownTypes ==
    ASSUME NEW c, Queued(c), NEW shown \in [rcv : Int, ovp : Ovps \union {0}, ovpr : Int],
           NEW puts \in Int
    PROVE  /\ Queued([c EXCEPT !.shown = shown, !.have_settings = TRUE])
           /\ Queued([c EXCEPT !.puts = puts])
<1> DEFINE d == [c EXCEPT !.shown = shown, !.have_settings = TRUE]
           e == [c EXCEPT !.puts = puts]
<1>1. d \in JkContext /\ d.wq = c.wq /\ d.wq_i = c.wq_i
  BY DEF Queued, JkContext
<1>2. e \in JkContext /\ e.wq = c.wq /\ e.wq_i = c.wq_i
  BY DEF Queued, JkContext
<1> HIDE DEF d, e
<1>3. Queued(d) /\ Queued(e)
  BY <1>1, <1>2 DEF Queued
<1> QED
  BY <1>3 DEF d, e

LEMMA LowerTypes ==
    ASSUME NEW c, Queued(c), NEW rcv \in Int
    PROVE  Queued([c EXCEPT !.shown.rcv = rcv])
<1> DEFINE shown == [c.shown EXCEPT !.rcv = rcv]
           d == [c EXCEPT !.shown = shown]
<1>1. c \in JkContext
  BY DEF Queued
<1>2. shown \in [rcv : Int, ovp : Ovps \union {0}, ovpr : Int]
  BY <1>1 DEF JkContext
<1>3. [c EXCEPT !.shown.rcv = rcv] = d
  BY <1>1 DEF JkContext
<1> HIDE DEF shown
<1>4. d \in JkContext /\ d.wq = c.wq /\ d.wq_i = c.wq_i
  BY <1>1, <1>2 DEF JkContext
<1> HIDE DEF d
<1>5. Queued(d)
  BY <1>4 DEF Queued
<1> QED
  BY <1>3, <1>5

\* The protection is clamped to its limits, its release to below it.
LEMMA ClampTypes ==
    ASSUME NEW v \in Int
    PROVE  /\ jk_clamp_ovp_v(v) \in Ovps /\ jk_clamp_ovp_v(v) \in Int
           /\ \A ovp \in Int : jk_clamp_ovpr_v(v, ovp) \in Int
BY JkAssumption DEF jk_clamp_ovp_v, jk_clamp_ovpr_v, Ovps, LowerOf

\* The requests tried, and what is taken for a value.
RequestsTried == [rcv : {Absent, OVP_MAX - 1}, ovp : {Absent, OVP_MIN}, ovpr : {Absent, 1}]

LEMMA GivenTypes ==
    ASSUME NEW r \in RequestsTried, NEW c, Queued(c), NEW default \in Int
    PROVE  Given(r, "ovp", c, default) \in Int /\ Given(r, "ovpr", c, default) \in Int
<1>1. /\ r.ovp \in Int /\ r.ovpr \in Int
  BY JkAssumption DEF RequestsTried, Absent
<1>2. c.shown.ovp \in Int /\ c.shown.ovpr \in Int
  BY JkAssumption DEF Queued, JkContext, Ovps
<1> QED
  BY <1>1, <1>2 DEF Given

\* A requested charge voltage.
LEMMA PutRcvTypes ==
    ASSUME NEW r \in RequestsTried, NEW c, Queued(c)
    PROVE  Queued(PutRcv(c, r))
<1>1. CASE r.rcv = Absent
  BY <1>1 DEF PutRcv
<1>2. CASE r.rcv # Absent
  <2> DEFINE ovp == IF c.have_settings THEN c.shown.ovp ELSE Given(r, "ovp", c, OVP_MAX)
             rcv == LowerOf(r.rcv, jk_clamp_ovp_v(ovp) - 1)
             d == wq_push(c, "rcv", rcv)
             shown == [d.shown EXCEPT !.rcv = rcv]
  <2>1. ovp \in Int
    <3>1. c.shown.ovp \in Int
      BY JkAssumption DEF Queued, JkContext, Ovps
    <3> QED
      BY <3>1, GivenTypes, JkAssumption
  <2> HIDE DEF ovp
  <2>2. rcv \in Int
    <3>1. r.rcv \in Int
      BY JkAssumption DEF RequestsTried, Absent
    <3>2. jk_clamp_ovp_v(ovp) \in Int
      BY <2>1, ClampTypes
    <3> QED
      BY <3>1, <3>2 DEF LowerOf
  <2>3. PutRcv(c, r) = [d EXCEPT !.shown.rcv = rcv, !.have_settings = TRUE]
    BY <1>2 DEF PutRcv, ovp
  <2> HIDE DEF rcv
  <2>4. [reg |-> "rcv", val |-> rcv] \in Commands
    BY <2>2, CommandTypes DEF Registers
  <2>5. Queued(d)
    BY <2>4, PushTypes
  <2> HIDE DEF d
  <2>6. shown \in [rcv : Int, ovp : Ovps \union {0}, ovpr : Int]
    BY <2>2, <2>5 DEF Queued, JkContext
  <2>7. [d EXCEPT !.shown.rcv = rcv, !.have_settings = TRUE]
        = [d EXCEPT !.shown = shown, !.have_settings = TRUE]
    BY <2>5 DEF Queued, JkContext
  <2> HIDE DEF shown
  <2>8. Queued([d EXCEPT !.shown = shown, !.have_settings = TRUE])
    BY <2>5, <2>6, ShownTypes
  <2> QED
    BY <2>3, <2>7, <2>8, Zenon
<1> QED
  BY <1>1, <1>2

\* A protection and its release.
LEMMA PutOvpTypes ==
    ASSUME NEW r \in RequestsTried, NEW c, Queued(c)
    PROVE  Queued(PutOvp(c, r))
<1>1. CASE r.ovp = Absent /\ r.ovpr = Absent
  BY <1>1 DEF PutOvp
<1>2. CASE ~(r.ovp = Absent /\ r.ovpr = Absent)
  <2> DEFINE ovp == jk_clamp_ovp_v(Given(r, "ovp", c, OVP_MAX))
             ovpr == jk_clamp_ovpr_v(Given(r, "ovpr", c, ovp - 1), ovp)
             low == wq_push(c, "rcv", ovp - 1)
             lowered == [low EXCEPT !.shown.rcv = ovp - 1]
             d == IF c.have_settings /\ c.shown.rcv >= ovp THEN lowered ELSE c
             e == wq_push(d, "ovp", ovp)
             g == wq_push(e, "ovpr", ovpr)
             shown == [g.shown EXCEPT !.ovp = ovp, !.ovpr = ovpr]
  <2>1. ovp \in Ovps /\ ovp \in Int
    BY GivenTypes, ClampTypes, JkAssumption
  <2>2. PutOvp(c, r) = [g EXCEPT !.shown.ovp = ovp, !.shown.ovpr = ovpr, !.have_settings = TRUE]
    BY <1>2, Zenon DEF PutOvp
  <2> HIDE DEF ovp
  <2>3. ovpr \in Int
    <3>1. ovp - 1 \in Int
      BY <2>1
    <3>2. Given(r, "ovpr", c, ovp - 1) \in Int
      BY <3>1, GivenTypes
    <3> QED
      BY <2>1, <3>2, ClampTypes
  <2> HIDE DEF ovpr
  <2>4. Queued(low)
    <3>1. ovp - 1 \in Int
      BY <2>1
    <3>2. [reg |-> "rcv", val |-> ovp - 1] \in Commands
      BY <3>1, CommandTypes DEF Registers
    <3> QED
      BY <3>2, PushTypes
  <2> HIDE DEF low
  <2>5. Queued(lowered)
    <3> DEFINE rcv == ovp - 1
    <3>1. rcv \in Int
      BY <2>1
    <3>2. lowered = [low EXCEPT !.shown.rcv = rcv]
      OBVIOUS
    <3> HIDE DEF lowered, rcv
    <3> QED
      BY <2>4, <3>1, <3>2, LowerTypes
  <2> HIDE DEF lowered
  <2>6. Queued(d)
    BY <2>5
  <2> HIDE DEF d
  <2>7. Queued(e)
    BY <2>1, <2>6, CommandTypes, PushTypes
  <2> HIDE DEF e
  <2>8. Queued(g)
    <3>1. [reg |-> "ovpr", val |-> ovpr] \in Commands
      BY <2>3, CommandTypes DEF Registers
    <3> QED
      BY <2>7, <3>1, PushTypes
  <2> HIDE DEF g
  <2>9. shown \in [rcv : Int, ovp : Ovps \union {0}, ovpr : Int]
    BY <2>1, <2>3, <2>8 DEF Queued, JkContext
  <2>10. [g EXCEPT !.shown.ovp = ovp, !.shown.ovpr = ovpr, !.have_settings = TRUE]
         = [g EXCEPT !.shown = shown, !.have_settings = TRUE]
    BY <2>8 DEF Queued, JkContext
  <2> HIDE DEF shown
  <2>11. Queued([g EXCEPT !.shown = shown, !.have_settings = TRUE])
    BY <2>8, <2>9, ShownTypes
  <2> QED
    BY <2>2, <2>10, <2>11, Zenon
<1> QED
  BY <1>1, <1>2

\* Whatever a client asks for.
LEMMA AskTypes ==
    ASSUME JkInv, NEW c, Queued(c), NEW l, Buffered(l), Ask(c, l)
    PROVE  JkInv'
<1>1. c.puts + 1 \in Int
  BY DEF Queued, JkContext
<1>2. jk' = [c EXCEPT !.puts = c.puts + 1]
  BY DEF Ask
<1>3. Queued(jk')
  BY <1>1, <1>2, ShownTypes DEF Queued, JkContext
<1> QED
  BY <1>3 DEF Ask, JkInv

\* A frame of settings is shown.
LEMMA TakeTypes ==
    ASSUME NEW c, Queued(c), NEW f \in BmsContext
    PROVE  Queued(TakeSettings(c, f))
<1> DEFINE shown == [rcv |-> f.rcv, ovp |-> f.ovp, ovpr |-> f.ovpr]
           d == [c EXCEPT !.shown = shown, !.shown_bal = f.bal, !.have_settings = TRUE,
                          !.want_settings = FALSE, !.bal_want = Absent]
<1>1. shown \in [rcv : Int, ovp : Ovps \union {0}, ovpr : Int] /\ f.bal \in Int
  BY DEF BmsContext
<1>2. TakeSettings(c, f) = d
  BY Zenon DEF TakeSettings
<1> HIDE DEF shown
<1>0. c \in JkContext /\ Absent \in Int
  BY DEF Queued, Absent
<1>3. d \in JkContext /\ d.wq = c.wq /\ d.wq_i = c.wq_i
  <2> DEFINE bal == f.bal
  <2>1. bal \in Int
    BY <1>1
  <2>2. d = [c EXCEPT !.shown = shown, !.shown_bal = bal, !.have_settings = TRUE,
                      !.want_settings = FALSE, !.bal_want = Absent]
    OBVIOUS
  <2> HIDE DEF bal, d
  <2> QED
    BY <1>0, <1>1, <2>1, <2>2 DEF JkContext
<1> HIDE DEF d
<1>4. Queued(d)
  BY <1>3 DEF Queued
<1> QED
  BY <1>2, <1>4

\* The first of a sequence, and what is left without it.
LEMMA HeadTypes ==
    ASSUME NEW S, NEW s \in Seq(S), s # <<>>
    PROVE  Head(s) \in S /\ Tail(s) \in Seq(S) /\ Len(Tail(s)) <= Len(s)
BY HeadTailProperties, LenProperties

\* The next register is written: what is written is one that waits.
LEMMA WriteNextTypes ==
    ASSUME NEW c, Queued(c), WriteDue(c)
    PROVE  Queued(WriteNext(c)) /\ c.wq[c.wq_i + 1] \in Commands
<1> DEFINE last == c.wq_i + 1 = Len(c.wq)
           wq == IF last THEN <<>> ELSE c.wq
           i == IF last THEN 0 ELSE c.wq_i + 1
           want == c.want_settings \/ last
           left == IF last THEN SETTINGS_RETRY ELSE c.settings_left
           d == [c EXCEPT !.wq = wq, !.wq_i = i, !.wq_left = WRITE_GAP, !.want_settings = want,
                          !.settings_left = left]
<1>1. /\ c \in JkContext /\ c.wq \in Seq(Commands) /\ c.wq_i \in Nat /\ Len(c.wq) <= WQ_LEN
      /\ (c.wq_i < Len(c.wq) \/ c.wq_i = 0)
  BY DEF Queued, JkContext
<1>2. c.wq # <<>>
  BY DEF WriteDue
<1>3. Len(c.wq) \in Nat /\ Len(c.wq) > 0
  BY <1>1, <1>2, EmptySeq, LenProperties
<1>4. c.wq_i + 1 \in 1 .. Len(c.wq)
  BY <1>1, <1>3
<1>5. c.wq[c.wq_i + 1] \in Commands
  BY <1>1, <1>4, ElementOfSeq
<1>6. /\ wq \in Seq(Commands) /\ i \in Nat /\ Len(wq) <= WQ_LEN
      /\ (i < Len(wq) \/ i = 0)
  BY <1>1, <1>3, <1>4, EmptySeq, JkAssumption
<1>7. want \in BOOLEAN /\ left \in Int /\ WRITE_GAP \in Int
  BY <1>1, JkAssumption DEF JkContext
<1>8. WriteNext(c) = d
  BY Zenon DEF WriteNext
<1> HIDE DEF last, wq, i, want, left
<1>9. d \in JkContext /\ d.wq = wq /\ d.wq_i = i
  BY <1>1, <1>6, <1>7 DEF JkContext
<1> HIDE DEF d
<1>10. Queued(d)
  BY <1>6, <1>9 DEF Queued
<1> QED
  BY <1>5, <1>8, <1>10

\* Times and flags of the loop.
LEMMA TimerTypes ==
    ASSUME NEW c, Queued(c), NEW b \in BOOLEAN, NEW x \in Int, NEW y \in Int, NEW z \in Int
    PROVE  Queued([c EXCEPT !.need_cell_req = b, !.cell_left = x, !.settings_left = y])
           /\ Queued([c EXCEPT !.settings_left = y]) /\ Queued([c EXCEPT !.cell_left = x])
           /\ Queued([c EXCEPT !.wq_left = x, !.settings_left = y, !.cell_left = z])
           /\ Queued([c EXCEPT !.up = b, !.need_cell_req = TRUE])
           /\ Queued([c EXCEPT !.up = b, !.wq = <<>>, !.wq_i = 0])
           /\ Queued([c EXCEPT !.bal_want = x])
<1> DEFINE d1 == [c EXCEPT !.need_cell_req = b, !.cell_left = x, !.settings_left = y]
           d2 == [c EXCEPT !.settings_left = y]
           d3 == [c EXCEPT !.cell_left = x]
           d4 == [c EXCEPT !.wq_left = x, !.settings_left = y, !.cell_left = z]
           d5 == [c EXCEPT !.up = b, !.need_cell_req = TRUE]
           d6 == [c EXCEPT !.up = b, !.wq = <<>>, !.wq_i = 0]
           d7 == [c EXCEPT !.bal_want = x]
<1>0. c \in JkContext
  BY DEF Queued
<1>1. d1 \in JkContext /\ d1.wq = c.wq /\ d1.wq_i = c.wq_i
  BY <1>0 DEF JkContext
<1>2. d2 \in JkContext /\ d2.wq = c.wq /\ d2.wq_i = c.wq_i
  BY <1>0 DEF JkContext
<1>3. d3 \in JkContext /\ d3.wq = c.wq /\ d3.wq_i = c.wq_i
  BY <1>0 DEF JkContext
<1>4. d4 \in JkContext /\ d4.wq = c.wq /\ d4.wq_i = c.wq_i
  BY <1>0 DEF JkContext
<1>5. d5 \in JkContext /\ d5.wq = c.wq /\ d5.wq_i = c.wq_i
  BY <1>0 DEF JkContext
<1>6. d6 \in JkContext /\ d6.wq = <<>> /\ d6.wq_i = 0
  <2>1. <<>> \in Seq(Commands)
    BY EmptySeq
  <2> QED
    BY <1>0, <2>1 DEF JkContext
<1>7. d7 \in JkContext /\ d7.wq = c.wq /\ d7.wq_i = c.wq_i
  BY <1>0 DEF JkContext
<1>8. Len(<<>>) = 0
  BY EmptySeq
<1> HIDE DEF d1, d2, d3, d4, d5, d6, d7
<1>9. /\ Queued(d1) /\ Queued(d2) /\ Queued(d3) /\ Queued(d4) /\ Queued(d5) /\ Queued(d7)
  BY <1>1, <1>2, <1>3, <1>4, <1>5, <1>7 DEF Queued
<1>10. Queued(d6)
  BY <1>6, <1>8, JkAssumption DEF Queued
<1> QED
  BY <1>9, <1>10 DEF d1, d2, d3, d4, d5, d6, d7

\* The queue of registers at first.
LEMMA JkStarts == JkInit => JkInv
<1> SUFFICES ASSUME JkInit PROVE JkInv
  OBVIOUS
<1>1. /\ Absent \in Int /\ OVP_MIN - 1 \in Int /\ OVP_MAX \in Ovps
      /\ <<>> \in Seq(Commands) /\ <<>> \in Seq(BmsContext) /\ Len(<<>>) = 0
  BY EmptySeq, JkAssumption DEF Absent, Ovps
<1>2. jk \in JkContext /\ jk.wq = <<>> /\ jk.wq_i = 0
  BY <1>1 DEF JkInit, JkContext
<1>3. bms \in BmsContext
  BY <1>1 DEF JkInit, BmsContext
<1>4. line \in LineContext /\ line.out = <<>>
  BY <1>1 DEF JkInit, LineContext
<1>5. jk_settled \in BOOLEAN
  BY DEF JkInit
<1> QED
  BY <1>1, <1>2, <1>3, <1>4, <1>5, JkAssumption DEF JkInv, Queued, Buffered

\* What a step of the loop sends.
LEMMA PumpSends ==
    ASSUME JkInv, jk_pump
    PROVE  JkInv'
<1> DEFINE c == IF line.frame = <<>> THEN jk ELSE TakeSettings(jk, Head(line.frame))
           l == [line EXCEPT !.frame = <<>>]
<1>1. line.frame \in Seq(BmsContext) /\ line \in LineContext /\ Len(line.out) <= OUT_LEN
  BY DEF JkInv, Buffered, LineContext
<1>2. Queued(c)
  BY <1>1, HeadTypes, TakeTypes DEF JkInv
<1>3. Buffered(l)
  <2>1. <<>> \in Seq(BmsContext)
    BY EmptySeq
  <2>2. l \in LineContext /\ l.out = line.out
    BY <1>1, <2>1 DEF LineContext
  <2> QED
    BY <1>1, <2>2 DEF Buffered
<1>4. \/ /\ WriteDue(c) /\ jk' = WriteNext(c)
         /\ line' = queue_hex_write(l, c.wq[c.wq_i + 1])
      \/ /\ jk' = [c EXCEPT !.need_cell_req = FALSE, !.cell_left = JK_CELL_RETRY,
                            !.settings_left = SETTINGS_RETRY]
         /\ line' = queue_hex_write(l, CellInfo)
      \/ /\ jk' = [c EXCEPT !.settings_left = SETTINGS_RETRY]
         /\ line' = queue_hex_write(l, CellInfo)
      \/ /\ jk' = [c EXCEPT !.cell_left = JK_CELL_RETRY]
         /\ line' = queue_hex_write(l, CellInfo)
      \/ jk' = c /\ line' = l
  BY Zenon DEF jk_pump
<1> HIDE DEF c, l
<1>5. Buffered(queue_hex_write(l, CellInfo))
  BY <1>3, WriteTypes, CommandTypes
<1>6. WriteDue(c) => Queued(WriteNext(c)) /\ Buffered(queue_hex_write(l, c.wq[c.wq_i + 1]))
  BY <1>2, <1>3, WriteNextTypes, WriteTypes
<1>7. /\ Queued([c EXCEPT !.need_cell_req = FALSE, !.cell_left = JK_CELL_RETRY,
                          !.settings_left = SETTINGS_RETRY])
      /\ Queued([c EXCEPT !.settings_left = SETTINGS_RETRY])
      /\ Queued([c EXCEPT !.cell_left = JK_CELL_RETRY])
  <2>1. SETTINGS_RETRY \in Int /\ JK_CELL_RETRY \in Int /\ FALSE \in BOOLEAN
    BY JkAssumption
  <2> QED
    BY <1>2, <2>1, TimerTypes
<1>8. Queued(jk') /\ Buffered(line')
  BY <1>2, <1>3, <1>4, <1>5, <1>6, <1>7
<1> QED
  BY <1>8 DEF jk_pump, JkInv

\* What the battery does with a command.
LEMMA BatteryTypes ==
    ASSUME JkInv, Battery
    PROVE  JkInv'
<1> DEFINE cmd == Head(line.out)
           rest == [line EXCEPT !.out = Tail(line.out)]
<1>1. /\ line \in LineContext /\ line.out \in Seq(Commands) /\ Len(line.out) <= OUT_LEN
      /\ line.out # <<>> /\ bms \in BmsContext
  BY DEF JkInv, Buffered, LineContext, Battery
<1>2. /\ cmd \in Commands /\ Tail(line.out) \in Seq(Commands)
      /\ Len(Tail(line.out)) <= OUT_LEN
  <2>1. Len(line.out) \in Nat /\ Len(Tail(line.out)) = Len(line.out) - 1
    BY <1>1, HeadTailProperties, LenProperties
  <2> QED
    BY <1>1, <2>1, HeadTypes, JkAssumption
<1>3. \/ line' = rest /\ UNCHANGED bms
      \/ line' = [rest EXCEPT !.frame = <<bms>>] /\ UNCHANGED bms
      \/ /\ cmd # CellInfo
         /\ bms' = IF cmd.reg = "ovp" /\ cmd.val <= bms.rcv THEN bms
                   ELSE [bms EXCEPT ![cmd.reg] = cmd.val]
         /\ line' = rest
  BY Zenon DEF Battery
<1>4. rest \in LineContext /\ rest.out = Tail(line.out)
  BY <1>1, <1>2 DEF LineContext
<1> HIDE DEF cmd, rest
<1>5. Buffered(rest)
  BY <1>2, <1>4 DEF Buffered
<1>6. Buffered([rest EXCEPT !.frame = <<bms>>])
  <2> DEFINE one == <<bms>>
             shown == [rest EXCEPT !.frame = one]
  <2>1. one \in Seq(BmsContext)
    BY <1>1
  <2> HIDE DEF one
  <2>2. shown \in LineContext /\ shown.out = rest.out
    BY <1>4, <2>1 DEF LineContext
  <2> HIDE DEF shown
  <2>3. Buffered(shown)
    BY <1>2, <1>4, <2>2 DEF Buffered
  <2> QED
    BY <2>3 DEF shown, one
<1>7. cmd # CellInfo => [bms EXCEPT ![cmd.reg] = cmd.val] \in BmsContext
  <2> SUFFICES ASSUME cmd # CellInfo PROVE [bms EXCEPT ![cmd.reg] = cmd.val] \in BmsContext
    OBVIOUS
  <2> DEFINE v == cmd.val
  <2>1. cmd.reg \in Registers /\ v \in Int /\ (cmd.reg = "ovp" => v \in Ovps)
    BY <1>2 DEF Commands
  <2> HIDE DEF v
  <2>2. cmd.reg = "rcv" => [bms EXCEPT ![cmd.reg] = v] \in BmsContext
    BY <1>1, <2>1 DEF BmsContext
  <2>3. cmd.reg = "ovp" => [bms EXCEPT ![cmd.reg] = v] \in BmsContext
    BY <1>1, <2>1 DEF BmsContext
  <2>4. cmd.reg = "ovpr" => [bms EXCEPT ![cmd.reg] = v] \in BmsContext
    BY <1>1, <2>1 DEF BmsContext
  <2>5. cmd.reg = "bal" => [bms EXCEPT ![cmd.reg] = v] \in BmsContext
    BY <1>1, <2>1 DEF BmsContext
  <2>6. [bms EXCEPT ![cmd.reg] = v] \in BmsContext
    BY <2>1, <2>2, <2>3, <2>4, <2>5 DEF Registers
  <2> QED
    BY <2>6 DEF v
<1>8. Buffered(line') /\ bms' \in BmsContext
  BY <1>1, <1>3, <1>5, <1>6, <1>7
<1> QED
  BY <1>8 DEF Battery, JkInv

\* Every step keeps the queue, the buffer and the limits.
LEMMA JkKeeps == JkInv /\ [JkNext]_jk_vars => JkInv'
<1> SUFFICES ASSUME JkInv, [JkNext]_jk_vars PROVE JkInv'
  OBVIOUS
<1>0. Queued(jk) /\ jk \in JkContext
  BY DEF JkInv, Queued
<1>1. CASE jk_put_settings
  <2>1. PICK r \in RequestsTried : Ask(PutOvp(PutRcv(jk, r), r), line)
    BY <1>1 DEF jk_put_settings, RequestsTried
  <2>2. Queued(PutOvp(PutRcv(jk, r), r)) /\ Buffered(line)
    BY <1>0, PutRcvTypes, PutOvpTypes DEF JkInv
  <2> QED
    BY <2>1, <2>2, AskTypes
<1>2. CASE jk_action
  <2>1. CASE Ask(jk, queue_hex_write(line, CellInfo))
    <3>1. Buffered(queue_hex_write(line, CellInfo))
      BY WriteTypes, CommandTypes DEF JkInv
    <3> QED
      BY <1>0, <2>1, <3>1, AskTypes
  <2>2. ASSUME NEW on \in 0 .. 1,
               Ask([jk EXCEPT !.bal_want = on],
                   queue_hex_write(line, [reg |-> "bal", val |-> on]))
        PROVE  JkInv'
    <3>1. on \in Int /\ "bal" \in Registers \ {"ovp"}
      BY DEF Registers
    <3>2. Buffered(queue_hex_write(line, [reg |-> "bal", val |-> on]))
      BY <3>1, WriteTypes, CommandTypes DEF JkInv
    <3>3. Queued([jk EXCEPT !.bal_want = on])
      BY <1>0, <3>1, TimerTypes
    <3> QED
      BY <2>2, <3>2, <3>3, AskTypes
  <2> QED
    BY <1>2, <2>1, <2>2 DEF jk_action
<1>3. CASE JkConnect
  <2>1. TRUE \in BOOLEAN /\ 0 \in Int
    OBVIOUS
  <2>2. Queued(jk')
    BY <1>0, <1>3, <2>1, TimerTypes DEF JkConnect
  <2> QED
    BY <1>3, <2>2 DEF JkConnect, JkInv
<1>4. CASE JkLost
  <2>1. FALSE \in BOOLEAN /\ 0 \in Int
    OBVIOUS
  <2>2. Queued(jk')
    BY <1>0, <1>4, <2>1, TimerTypes DEF JkLost
  <2>3. line' \in LineContext /\ line'.out = <<>>
    BY <1>4, EmptySeq DEF JkLost, LineContext
  <2>4. Buffered(line')
    BY <2>3, EmptySeq, JkAssumption DEF Buffered
  <2> QED
    BY <1>4, <2>2, <2>4 DEF JkLost, JkInv
<1>5. CASE jk_pump
  BY <1>5, PumpSends
<1>6. CASE Battery
  BY <1>6, BatteryTypes
<1>7. CASE JkSettle
  BY <1>7 DEF JkSettle, JkInv
<1>8. CASE JkTick
  <2>1. \A n \in Int : Pass(n) \in Int
    BY DEF Pass
  <2>2. /\ Pass(jk.wq_left) \in Int /\ Pass(jk.settings_left) \in Int
        /\ Pass(jk.cell_left) \in Int /\ TRUE \in BOOLEAN
    BY <1>0, <2>1 DEF JkContext
  <2>3. Queued(jk')
    BY <1>0, <1>8, <2>2, TimerTypes DEF JkTick
  <2> QED
    BY <1>8, <2>3 DEF JkTick, JkInv
<1>9. CASE UNCHANGED jk_vars
  BY <1>9 DEF jk_vars, JkInv
<1> QED
  BY <1>1, <1>2, <1>3, <1>4, <1>5, <1>6, <1>7, <1>8, <1>9 DEF JkNext

LEMMA JkTyped == JkInv => JkTypeOK
BY DEF JkInv, JkTypeOK, Queued, Buffered, JkContext, Ovps

----------------------------------------------------------------------------
(* The Textbelt service: its types. *)

\* The sequences up to a length are those of that length or less.
LEMMA BoundedSeqIs ==
    ASSUME NEW S, NEW n \in Nat, NEW s
    PROVE  s \in BoundedSeq(S, n) <=> s \in Seq(S) /\ Len(s) <= n
<1>1. BoundedSeq(S, n) = UNION {[1 .. m -> S] : m \in 0 .. n}
  BY DEF BoundedSeq, SeqOf
<1>2. ASSUME s \in BoundedSeq(S, n) PROVE s \in Seq(S) /\ Len(s) <= n
  <2>1. PICK m \in 0 .. n : s \in [1 .. m -> S]
    BY <1>1, <1>2
  <2>2. s \in Seq(S) /\ Len(s) = m
    BY <2>1
  <2> QED
    BY <2>1, <2>2
<1>3. ASSUME s \in Seq(S), Len(s) <= n PROVE s \in BoundedSeq(S, n)
  <2> DEFINE m == Len(s)
  <2>1. s \in [1 .. m -> S] /\ m \in Nat
    BY <1>3, LenProperties
  <2> HIDE DEF m
  <2>2. m \in 0 .. n
    BY <1>3, <2>1 DEF m
  <2> QED
    BY <1>1, <2>1, <2>2
<1> QED
  BY <1>2, <1>3

----------------------------------------------------------------------------
(* The Textbelt service: its context. *)

TextQueues == BoundedSeq(Texts, TB_QUEUE)
CheckWaits == 0 .. Max(Periods \union {TB_RETRY})
SendWaits == 0 .. TB_GAP

\* A context of the module; the acceptance times are TbInv's.
TbShape(c) ==
    /\ c = [f \in TbFields |-> c[f]]
    /\ c.key \in Keys \union {NoKey} /\ c.max_per_hour \in Rates
    /\ c.check_every \in Periods /\ c.req \in {"none", "quota", "send"}
    /\ c.queue \in TextQueues /\ c.cur \in Texts \union {NoText}
    /\ c.next_check \in CheckWaits /\ c.next_send \in SendWaits
    /\ c.key_state \in {-1, 0, 1} /\ c.credits \in {-1} \union Quotas /\ c.net_err \in BOOLEAN

\* What it is, and what happened lately.
TbShapes == TbShape(tb) /\ Len(log) <= MaxRecent

\* The times the module waits.
LEMMA TbDurations ==
    /\ 0 \in CheckWaits /\ TB_RETRY \in CheckWaits /\ Periods \subseteq CheckWaits
    /\ \A n \in CheckWaits : Pass(n) \in CheckWaits
    /\ 0 \in SendWaits /\ TB_GAP \in SendWaits /\ \A n \in SendWaits : Pass(n) \in SendWaits
<1> DEFINE M == Max(Periods \union {TB_RETRY})
<1>1. PICK m \in Periods : \A x \in Periods : m >= x
  BY TbAssumption
<1>2. Periods \subseteq Nat /\ TB_RETRY \in Nat /\ TB_GAP \in Nat
  BY TbAssumption
<1>3. M \in Nat /\ \A x \in Periods \union {TB_RETRY} : x \in 0 .. M
  BY <1>1, <1>2, GreatestOfMore
<1>4. CheckWaits = 0 .. M
  BY DEF CheckWaits
<1> HIDE DEF M
<1>5. \A k \in Nat : 0 \in 0 .. k /\ k \in 0 .. k /\ \A n \in 0 .. k : Pass(n) \in 0 .. k
  BY DEF Pass
<1> QED
  BY <1>2, <1>3, <1>4, <1>5 DEF SendWaits

\* A request gets under way, and ends.
LEMMA StartShape ==
    ASSUME NEW c, TbShape(c), NEW req \in {"none", "quota", "send"}, NEW ok
    PROVE  TbShape(start(c, req, ok)) /\ TbShape(tb_end_request(c))
  BY DEF start, tb_end_request, TbShape, TbFields

\* The credits left.
LEMMA CreditsShape ==
    ASSUME NEW c, TbShape(c), NEW q \in {-1} \union Quotas
    PROVE  TbShape(set_credits(c, q))
  BY DEF set_credits, TbShape, TbFields

LEMMA QuotaIs ==
    ASSUME NEW r \in Replies
    PROVE  r.quota \in {-1} \union Quotas
<1>1. CASE r = TbFailed
  BY <1>1 DEF TbFailed
<1>2. CASE r \in [understood : {TRUE}, success : BOOLEAN, quota : {-1} \union Quotas]
  BY <1>2
<1> QED
  BY <1>1, <1>2 DEF Replies

\* The end of a text.
LEMMA FinishSendShape ==
    ASSUME NEW c, TbShape(c), NEW r \in Replies
    PROVE  TbShape(finish_send(c, r))
<1> DEFINE g == set_credits(c, r.quota)
           d == IF r.understood THEN [g EXCEPT !.net_err = FALSE]
                                ELSE [c EXCEPT !.net_err = TRUE]
           e == [d EXCEPT !.key_state = IF r.success THEN 1 ELSE @, !.cur = NoText]
<1>1. r.quota \in {-1} \union Quotas
  BY QuotaIs
<1>2. TbShape(g)
  BY <1>1, CreditsShape
<1> HIDE DEF g
<1>3. TbShape(d)
  BY <1>2 DEF TbShape, TbFields
<1> HIDE DEF d
<1>4. TbShape(e)
  BY <1>3 DEF TbShape, TbFields
<1> QED
  BY <1>4 DEF finish_send, d, g

\* The end of a request.
LEMMA FinishShape ==
    ASSUME NEW c, TbShape(c), NEW r \in Replies
    PROVE  TbShape(tb_finish(c, r))
<1> DEFINE d == tb_end_request(c)
           g == IF r.success THEN set_credits(d, r.quota) ELSE d
<1>1. r.quota \in {-1} \union Quotas
  BY QuotaIs
<1>2. TbShape(d)
  BY StartShape
<1> HIDE DEF d
<1>3. TbShape(g)
  BY <1>1, <1>2, CreditsShape
<1> HIDE DEF g
<1>4. TbShape(finish_send(d, r))
  BY <1>2, FinishSendShape
<1>5. TbShape([d EXCEPT !.net_err = TRUE, !.next_check = TB_RETRY])
  BY <1>2, TbDurations DEF TbShape, TbFields
<1>6. TbShape([g EXCEPT !.net_err = FALSE, !.key_state = IF r.success THEN 1 ELSE 0,
                        !.next_check = c.check_every])
  <2>1. c.check_every \in CheckWaits
    BY TbDurations DEF TbShape
  <2> QED
    BY <1>3, <2>1 DEF TbShape, TbFields
<1> QED
  BY <1>4, <1>5, <1>6 DEF tb_finish, d, g

\* A check of the key begins.
LEMMA StartCheckShape ==
    ASSUME NEW c, TbShape(c), NEW ok
    PROVE  TbShape(start_check(c, ok))
<1> DEFINE b == [c EXCEPT !.next_check = TB_RETRY]
           d == start(b, "quota", ok)
<1>1. TbShape(b)
  BY TbDurations DEF TbShape, TbFields
<1> HIDE DEF b
<1>2. TbShape(d)
  BY <1>1, StartShape
<1> HIDE DEF d
<1>3. TbShape([d EXCEPT !.net_err = TRUE])
  BY <1>2 DEF TbShape, TbFields
<1> QED
  BY <1>2, <1>3 DEF start_check, d, b

\* A text leaves the queue.
LEMMA StartSendShape ==
    ASSUME NEW c, TbShape(c), c.queue # <<>>, NEW ok
    PROVE  TbShape(start_send(c, ok))
<1> DEFINE first == Head(c.queue)
           left == Tail(c.queue)
           d == [c EXCEPT !.cur = first, !.queue = left, !.next_send = TB_GAP]
<1>1. c.queue \in Seq(Texts) /\ Len(c.queue) <= TB_QUEUE
  BY BoundedSeqIs, TbAssumption DEF TbShape, TextQueues
<1>2. /\ first \in Texts /\ left \in Seq(Texts) /\ Len(left) = Len(c.queue) - 1
      /\ Len(c.queue) \in Nat
  BY <1>1, HeadTailProperties, LenProperties
<1>3. left \in TextQueues
  <2>1. Len(left) <= TB_QUEUE
    BY <1>1, <1>2, TbAssumption
  <2> QED
    BY <1>2, <2>1, BoundedSeqIs, TbAssumption DEF TextQueues
<1> HIDE DEF first, left
<1>4. TbShape(d)
  BY <1>2, <1>3, TbDurations DEF TbShape, TbFields
<1> HIDE DEF d
<1>5. TbFailed \in Replies
  BY DEF Replies
<1>6. TbShape(start(d, "send", TRUE)) /\ TbShape(finish_send(d, TbFailed))
  BY <1>4, <1>5, StartShape, FinishSendShape
<1> QED
  BY <1>6 DEF start_send, d, first, left

\* A step of the loop.
LEMMA StepShape ==
    ASSUME TbShapes, NEW c, TbShape(c), TbStepFrom(c)
    PROVE  TbShapes'
<1>1. PICK ok \in BOOLEAN :
         /\ tb' = IF c.req # "none" \/ c.key = NoKey THEN c
                  ELSE IF c.queue # <<>> /\ c.next_send = 0 THEN start_send(c, ok)
                  ELSE IF c.next_check = 0 THEN start_check(c, ok) ELSE c
         /\ log' = log
  BY DEF TbStepFrom
<1>2. TbShape(start_check(c, ok)) /\ (c.queue # <<>> => TbShape(start_send(c, ok)))
  BY StartSendShape, StartCheckShape
<1>3. TbShape(tb')
  BY <1>1, <1>2
<1> QED
  BY <1>1, <1>3 DEF TbShapes

\* Texts are accepted.
LEMMA AcceptShape ==
    ASSUME TbShapes, TbInv, NEW n \in Nat, Accept(n)
    PROVE  TbShapes'
<1>1. PICK w \in 0 .. n :
         tb' = queue_push(tb, [i \in 1 .. n |-> IF i = w THEN "watched" ELSE "text"])
  BY DEF Accept
<1> DEFINE texts == [i \in 1 .. n |-> IF i = w THEN "watched" ELSE "text"]
           queue == tb.queue \o texts
           times == note_queued(tb.queued_at, Len(texts))
<1>2. texts \in Seq(Texts) /\ Len(texts) = n
  BY DEF Texts
<1>3. tb' = [tb EXCEPT !.queue = queue, !.queued_at = times]
  BY <1>1 DEF queue_push
<1> HIDE DEF texts
<1>4. tb.queue \in Seq(Texts) /\ n <= TB_QUEUE - Len(tb.queue) /\ Len(tb.queue) \in Nat
  <2>1. tb.queue \in Seq(Texts)
    BY BoundedSeqIs, TbAssumption DEF TbShapes, TbShape, TextQueues
  <2> QED
    BY <2>1, LenProperties DEF Accept, admit
<1>5. queue \in TextQueues
  <2>1. queue \in Seq(Texts) /\ Len(queue) = Len(tb.queue) + n
    BY <1>2, <1>4
  <2>2. Len(queue) <= TB_QUEUE
    BY <1>4, <2>1, TbAssumption
  <2> QED
    BY <2>1, <2>2, BoundedSeqIs, TbAssumption DEF TextQueues
<1> HIDE DEF queue, times
<1>6. TbShape(tb')
  BY <1>3, <1>5 DEF TbShapes, TbShape, TbFields
<1>7. Len(log') <= MaxRecent
  BY AcceptKeeps DEF Accept
<1> QED
  BY <1>6, <1>7 DEF TbShapes

\* Every step keeps what the module is.
LEMMA TbShapesKept ==
    ASSUME TbShapes, TbInv, [TbNext]_tb_vars
    PROVE  TbShapes'
<1>0. TbShape(tb) /\ Len(log) <= MaxRecent
  BY DEF TbShapes
<1>1. CASE tb_step
  BY <1>0, <1>1, StepShape DEF tb_step
<1>2. CASE TextRequestEnds
  BY <1>0, <1>2, FinishShape, StepShape DEF TextRequestEnds
<1>3. CASE tb_put_settings
  <2>1. PICK key \in {tb.key, NoKey} \union Keys, rate \in Rates, period \in BOOLEAN,
             every \in Periods :
         LET c == [tb EXCEPT !.check_every = every,
                             !.next_check = IF period THEN every ELSE @]
             d == IF key = tb.key THEN c
                  ELSE [c EXCEPT !.key = key, !.key_state = -1, !.credits = -1,
                                 !.net_err = FALSE, !.next_check = 0]
         IN tb' = [d EXCEPT !.max_per_hour = rate]
    BY <1>3 DEF tb_put_settings
  <2>2. log' = log
    BY <1>3 DEF tb_put_settings
  <2> DEFINE wait == IF period THEN every ELSE tb.next_check
             c == [tb EXCEPT !.check_every = every, !.next_check = wait]
             b == [c EXCEPT !.key = key, !.key_state = -1, !.credits = -1,
                            !.net_err = FALSE, !.next_check = 0]
             d == IF key = tb.key THEN c ELSE b
  <2>3. tb' = [d EXCEPT !.max_per_hour = rate]
    BY <2>1
  <2>4. wait \in CheckWaits
    BY <1>0, TbDurations DEF TbShape
  <2> HIDE DEF wait
  <2>5. TbShape(c)
    BY <1>0, <2>4 DEF TbShape, TbFields
  <2> HIDE DEF c
  <2>6. key \in Keys \union {NoKey}
    BY <1>0 DEF TbShape
  <2>7. TbShape(b)
    BY <2>5, <2>6, TbDurations DEF TbShape, TbFields
  <2> HIDE DEF b
  <2>8. TbShape(d)
    BY <2>5, <2>7
  <2> HIDE DEF d
  <2>9. TbShape(tb')
    BY <2>3, <2>8 DEF TbShape, TbFields
  <2> QED
    BY <1>0, <2>2, <2>9 DEF TbShapes
<1>4. CASE refresh
  <2>1. TbShape(tb') /\ log' = log
    BY <1>0, <1>4, TbDurations DEF refresh, TbShape, TbFields
  <2> QED
    BY <1>0, <2>1 DEF TbShapes
<1>5. CASE test
  BY <1>5, AcceptShape DEF test
<1>6. CASE notify
  <2>1. PICK n \in 1 .. TB_TO_MAX : Accept(n)
    BY <1>6 DEF notify
  <2>2. n \in Nat
    BY TbAssumption
  <2> QED
    BY <2>1, <2>2, AcceptShape
<1>7. CASE TbTick
  <2> DEFINE times == Age(tb.queued_at)
             check == Pass(tb.next_check)
             send == Pass(tb.next_send)
  <2>1. tb' = [tb EXCEPT !.next_check = check, !.next_send = send, !.queued_at = times]
    BY <1>7 DEF TbTick
  <2>2. check \in CheckWaits /\ send \in SendWaits
    BY <1>0, TbDurations DEF TbShape
  <2> HIDE DEF times, check, send
  <2>3. TbShape(tb')
    BY <1>0, <2>1, <2>2 DEF TbShape, TbFields
  <2>4. Len(log') <= Len(log) /\ Len(log) \in Nat /\ Len(log') \in Nat
    BY <1>7, TickKeeps DEF TbInv, InOrder
  <2>5. Len(log') <= MaxRecent
    BY <1>0, <2>4, TbAssumption
  <2> QED
    BY <2>3, <2>5 DEF TbShapes
<1>8. CASE UNCHANGED tb_vars
  BY <1>8 DEF tb_vars, TbShapes, TbShape
<1> QED
  BY <1>1, <1>2, <1>3, <1>4, <1>5, <1>6, <1>7, <1>8 DEF TbNext

\* At first nothing waits and nothing was accepted.
LEMMA TbShapesStart == TbInit => TbShapes
<1> SUFFICES ASSUME TbInit PROVE TbShapes
  OBVIOUS
<1>1. PICK k \in Keys \union {NoKey}, p \in Periods : tb = tb_open(k, TB_RATE_MAX, p)
  BY DEF TbInit
<1>2. log = <<>> /\ Len(<<>>) = 0
  BY EmptySeq DEF TbInit
<1>3. <<>> \in TextQueues /\ TB_RATE_MAX \in Rates
  <2>1. <<>> \in Seq(Texts) /\ Len(<<>>) <= TB_QUEUE
    BY EmptySeq, TbAssumption
  <2>2. TB_RATE_MAX \in Rates
    BY TbAssumption DEF Rates
  <2>3. TB_QUEUE \in Nat
    BY TbAssumption
  <2>4. <<>> \in TextQueues
    BY <2>1, <2>3, BoundedSeqIs, Zenon DEF TextQueues
  <2> QED
    BY <2>2, <2>4
<1>4. TbShape(tb)
  BY <1>1, <1>3, TbDurations DEF tb_open, TbShape, TbFields
<1> QED
  BY <1>2, <1>4, TbAssumption DEF TbShapes

\* The types that TbTypeOK names.
LEMMA TbTyped == TbShapes /\ TbInv => TbTypeOK
<1> SUFFICES ASSUME TbShapes, TbInv PROVE TbTypeOK
  OBVIOUS
<1>1. log \in Seq(1 .. TB_HOUR)
  BY DEF TbInv, InOrder
<1>2. log \in BoundedSeq(1 .. TB_HOUR, MaxRecent)
  BY <1>1, BoundedSeqIs, TbAssumption DEF TbShapes
<1> DEFINE times == Newest(log, TB_RATE_MAX)
<1>3. times \in Seq(1 .. TB_HOUR) /\ Len(times) <= TB_RATE_MAX
  <2> DEFINE T == 1 .. TB_HOUR
  <2>0. log \in Seq(T) /\ TB_RATE_MAX \in Nat
    BY <1>1, TbAssumption
  <2> HIDE DEF T
  <2>1. /\ times \in Seq(1 .. TB_HOUR)
        /\ Len(times) = (IF Len(log) <= TB_RATE_MAX THEN Len(log) ELSE TB_RATE_MAX)
    <3>1. /\ times \in Seq(T)
          /\ Len(times) = (IF Len(log) <= TB_RATE_MAX THEN Len(log) ELSE TB_RATE_MAX)
      BY <2>0, NewestIs
    <3> HIDE DEF times
    <3> QED
      BY <3>1 DEF T
  <2>2. Len(log) \in Nat
    BY <1>1
  <2> DEFINE n == Len(times)
             all == Len(log)
  <2>3. n = (IF all <= TB_RATE_MAX THEN all ELSE TB_RATE_MAX) /\ all \in Nat
    BY <2>1, <2>2
  <2> HIDE DEF n, all, times
  <2>4. n <= TB_RATE_MAX
    BY <2>3, TbAssumption
  <2> QED
    BY <2>1, <2>4 DEF n
<1> HIDE DEF times
<1>4. times \in BoundedSeq(1 .. TB_HOUR, TB_RATE_MAX)
  BY <1>3, BoundedSeqIs, TbAssumption
<1>5. tb.queued_at \in BoundedSeq(1 .. TB_HOUR, TB_RATE_MAX)
  BY <1>4 DEF TbInv, times
<1> QED
  BY <1>2, <1>5 DEF TbShapes, TbShape, TbFields, TbTypeOK, TextQueues, CheckWaits, SendWaits

----------------------------------------------------------------------------
(* Discovery: the job and its candidates. *)

\* What a number of turns makes of b, if turn n makes T[<<n, x>>] of x.
Turns(f, N, R, b, T) ==
    /\ f \in [0 .. N -> R] /\ f[0] = b
    /\ \A n \in 1 .. N : f[n] = T[<<n, f[n - 1]>>]

\* The recursive function that counts turns exists.
LEMMA TurnsExist ==
    ASSUME NEW N \in Nat, NEW R, NEW b \in R, NEW T, T \in [(1 .. N) \X R -> R]
    PROVE  \E f : Turns(f, N, R, b, T)
<1> DEFINE Bad == {n \in 0 .. N : ~\E f : Turns(f, n, R, b, T)}
<1> SUFFICES ASSUME Bad # {} PROVE FALSE
  OBVIOUS
<1>1. Bad \subseteq Nat
  OBVIOUS
<1>2. PICK n \in Bad : \A k \in Bad : n <= k
  <2> HIDE DEF Bad
  <2> QED
    BY <1>1, Least
<1>3. n \in 0 .. N /\ ~\E f : Turns(f, n, R, b, T)
  OBVIOUS
<1>4. CASE n = 0
  <2> DEFINE f == [k \in 0 .. 0 |-> b]
  <2>1. Turns(f, 0, R, b, T)
    BY DEF Turns
  <2> HIDE DEF f
  <2> QED
    BY <1>3, <1>4, <2>1
<1>5. CASE n # 0
  <2>1. n - 1 \in 0 .. N /\ n - 1 \notin Bad
    <3>1. n - 1 \in 0 .. N /\ ~(n <= n - 1)
      BY <1>3, <1>5
    <3> HIDE DEF Bad
    <3> QED
      BY <1>2, <3>1
  <2>2. PICK f : Turns(f, n - 1, R, b, T)
    BY <2>1
  <2> DEFINE g == [k \in 0 .. n |-> IF k = n THEN T[<<n, f[n - 1]>>] ELSE f[k]]
  <2>3. f[n - 1] \in R /\ T[<<n, f[n - 1]>>] \in R
    BY <1>3, <1>5, <2>2 DEF Turns
  <2>4. g \in [0 .. n -> R] /\ g[0] = b
    BY <1>3, <1>5, <2>2, <2>3 DEF Turns
  <2>5. ASSUME NEW k \in 1 .. n PROVE g[k] = T[<<k, g[k - 1]>>]
    <3>1. k - 1 \in 0 .. n /\ k - 1 # n /\ g[k - 1] = f[k - 1]
      BY <1>3, <1>5, <2>5
    <3>2. CASE k = n
      BY <3>1, <3>2
    <3>3. CASE k # n
      <4>1. k \in 1 .. n - 1 /\ g[k] = f[k]
        BY <1>3, <2>5, <3>3
      <4> HIDE DEF g
      <4> QED
        BY <2>2, <3>1, <4>1 DEF Turns
    <3> QED
      BY <3>2, <3>3
  <2> HIDE DEF g
  <2>6. Turns(g, n, R, b, T)
    BY <2>4, <2>5 DEF Turns
  <2> QED
    BY <1>3, <2>6
<1> QED
  BY <1>4, <1>5

\* What holds at first and is kept by every turn holds after all of them.
LEMMA TurnsKeep ==
    ASSUME NEW N \in Nat, NEW f, NEW P, f[0] \in P,
           \A n \in 1 .. N : f[n - 1] \in P => f[n] \in P
    PROVE  f[N] \in P
<1> DEFINE Bad == {n \in 0 .. N : f[n] \notin P}
<1> SUFFICES ASSUME Bad # {} PROVE FALSE
  OBVIOUS
<1>1. Bad \subseteq Nat
  OBVIOUS
<1>2. PICK n \in Bad : \A k \in Bad : n <= k
  <2> HIDE DEF Bad
  <2> QED
    BY <1>1, Least
<1>3. n \in 1 .. N
  OBVIOUS
<1>4. n - 1 \in 0 .. N /\ n - 1 \notin Bad
  <2>1. n - 1 \in 0 .. N /\ ~(n <= n - 1)
    BY <1>3
  <2> HIDE DEF Bad
  <2> QED
    BY <1>2, <2>1
<1> QED
  BY <1>3, <1>4

----------------------------------------------------------------------------

\* The lists without doubles, which have no more entries than there are addresses.
Distinct == {s \in Seq(Hosts) : \A i, k \in 1 .. Len(s) : s[i] = s[k] => i = k}

LEMMA DistinctShort ==
    ASSUME NEW s \in Distinct
    PROVE  s \in Seq(Hosts) /\ Len(s) \in Nat /\ Len(s) <= Cardinality(Hosts)
<1>1. /\ s \in Seq(Hosts) /\ Len(s) \in Nat /\ s \in [1 .. Len(s) -> Hosts]
      /\ \A i, k \in 1 .. Len(s) : s[i] = s[k] => i = k
  BY DEF Distinct
<1> DEFINE n == Len(s)
<1>2. s \in Injection(1 .. n, Hosts)
  BY <1>1 DEF Injection, IsInjective
<1> HIDE DEF n
<1>3. Cardinality(1 .. n) <= Cardinality(Hosts)
  BY <1>2, FS_Injection, DiscAssumption
<1>4. Cardinality(1 .. n) = n
  BY <1>1, FS_Interval DEF n
<1> QED
  BY <1>1, <1>3, <1>4 DEF n

\* An address is added once.
LEMMA AddDistinct ==
    ASSUME NEW cand \in Distinct, NEW host \in Hosts, NEW known, NEW last
    PROVE  add_cand(cand, host, known, last) \in Distinct
<1>1. cand \in Seq(Hosts) /\ \A i, k \in 1 .. Len(cand) : cand[i] = cand[k] => i = k
  BY DEF Distinct
<1>2. CASE host \in known \/ host = last \/ host \in Range(cand)
  BY <1>2 DEF add_cand
<1>3. CASE ~(host \in known \/ host = last \/ host \in Range(cand))
  <2> DEFINE d == Append(cand, host)
             n == Len(cand)
  <2>1. \A i \in 1 .. n : cand[i] # host
    BY <1>1, <1>3 DEF Range
  <2>2. /\ n \in Nat /\ d \in Seq(Hosts) /\ Len(d) = n + 1 /\ d[n + 1] = host
        /\ \A i \in 1 .. n : d[i] = cand[i]
    BY <1>1
  <2>3. add_cand(cand, host, known, last) = d
    BY <1>3 DEF add_cand
  <2> HIDE DEF d, n
  <2>4. ASSUME NEW i \in 1 .. n + 1, NEW k \in 1 .. n + 1, d[i] = d[k] PROVE i = k
    BY <1>1, <2>1, <2>2, <2>4 DEF n
  <2> QED
    BY <2>2, <2>3, <2>4 DEF Distinct
<1> QED
  BY <1>2, <1>3

\* The candidates are addresses of the list, each once.
LEMMA CandidatesDistinct ==
    ASSUME NEW list \in Seq(Hosts), NEW known, NEW last
    PROVE  Candidates(list, known, last) \in Distinct
<1> DEFINE N == Len(list)
           h(n, x) == add_cand(x, list[n], known, last)
           T == [z \in (1 .. N) \X Distinct |-> h(z[1], z[2])]
           Def(g) == g = [n \in 0 .. N |-> IF n = 0 THEN <<>> ELSE h(n, g[n - 1])]
           cand == CHOOSE g : Def(g)
<1>1. N \in Nat /\ \A n \in 1 .. N : list[n] \in Hosts
  OBVIOUS
<1>2. <<>> \in Distinct
  BY DEF Distinct
<1>3. ASSUME NEW n \in 1 .. N, NEW x \in Distinct PROVE h(n, x) \in Distinct
  BY <1>1, AddDistinct
<1>4. Candidates(list, known, last) = cand[N]
  BY Zenon DEF Candidates
<1> HIDE DEF N, h
<1>5. T \in [(1 .. N) \X Distinct -> Distinct]
  BY <1>3
<1>6. \A n \in 1 .. N, x \in Distinct : T[<<n, x>>] = h(n, x)
  OBVIOUS
<1> HIDE DEF T
<1>7. PICK f : Turns(f, N, Distinct, <<>>, T)
  BY <1>1, <1>2, <1>5, TurnsExist
<1>8. Def(f)
  <2>1. ASSUME NEW n \in 0 .. N PROVE f[n] = IF n = 0 THEN <<>> ELSE h(n, f[n - 1])
    <3>1. CASE n = 0
      BY <1>7, <3>1 DEF Turns
    <3>2. CASE n # 0
      <4>1. n \in 1 .. N /\ n - 1 \in 0 .. N
        BY <1>1, <3>2
      <4>2. f[n - 1] \in Distinct /\ f[n] = T[<<n, f[n - 1]>>]
        BY <1>7, <4>1 DEF Turns
      <4> QED
        BY <1>6, <3>2, <4>1, <4>2
    <3> QED
      BY <3>1, <3>2
  <2>2. f = [n \in 0 .. N |-> f[n]]
    BY <1>7 DEF Turns
  <2> QED
    BY <2>1, <2>2
<1>9. Def(cand)
  <2> HIDE DEF Def
  <2> QED
    BY <1>8
<1> HIDE DEF cand
<1>10. cand[0] \in Distinct
  BY <1>1, <1>2, <1>9
<1>11. ASSUME NEW n \in 1 .. N, cand[n - 1] \in Distinct PROVE cand[n] \in Distinct
  <2>1. n \in 0 .. N /\ n # 0
    BY <1>1
  <2>2. cand[n] = h(n, cand[n - 1])
    BY <1>9, <2>1
  <2> QED
    BY <1>3, <1>11, <2>2
<1>12. cand[N] \in Distinct
  BY <1>1, <1>10, <1>11, TurnsKeep
<1> QED
  BY <1>4, <1>12

\* The list that the subnet is swept by.
LEMMA SubnetList == fill_subnet \in Seq(Hosts)
<1> DEFINE n == Cardinality(Hosts)
           Arrays == {f \in [1 .. n -> Hosts] : IsInjective(f)}
<1>1. n \in Nat /\ ExistsBijection(1 .. n, Hosts)
  BY FS_CardinalityType, DiscAssumption
<1>2. PICK f : f \in Bijection(1 .. n, Hosts)
  BY <1>1 DEF ExistsBijection
<1>3. f \in Arrays
  <2>1. f \in [1 .. n -> Hosts] /\ \A i, k \in 1 .. n : f[i] = f[k] => i = k
    BY <1>2 DEF Bijection, Injection, IsInjective
  <2>2. DOMAIN f = 1 .. n
    BY <2>1
  <2> HIDE DEF n
  <2> QED
    BY <2>1, <2>2 DEF IsInjective
<1>4. fill_subnet \in [1 .. n -> Hosts]
  <2>1. fill_subnet = CHOOSE g \in [1 .. n -> Hosts] : IsInjective(g)
    BY DEF fill_subnet, SetToSeq
  <2> HIDE DEF n
  <2> QED
    BY <1>3, <2>1
<1> HIDE DEF n
<1> QED
  BY <1>1, <1>4

----------------------------------------------------------------------------
(* Discovery: its sockets and its job. *)

SlotType ==
    [state : {"free", "connecting", "send", "recv"}, host : Hosts \union {NoHost},
     itry : 0 .. NTry - 1, deadline : 0 .. IO_TIMEOUT_S]
SlotTable == [Slots -> SlotType]
CandLists == {s \in Seq(Hosts) : Len(s) <= Cardinality(Hosts)}
ProbeJobs ==
    [phase : {"none", "lastknown", "scan", "done"}, auto_net : BOOLEAN, cand : CandLists,
     slots : SlotTable, left : 0 .. PROBE_CAP_S, hit : Hosts \union {NoHost}]
DiscStates ==
    [state : {"idle", "running", "done", "error"}, job : ProbeJobs, wait : 0 .. IO_TIMEOUT_S]

\* The constants of the probe.
LEMMA ProbeConstants ==
    /\ NTry \in Nat \ {0} /\ IO_TIMEOUT_S \in Nat /\ PROBE_CAP_S \in Nat
    /\ 0 \in 0 .. NTry - 1 /\ 0 \in 0 .. IO_TIMEOUT_S /\ IO_TIMEOUT_S \in 0 .. IO_TIMEOUT_S
    /\ 0 \in 0 .. PROBE_CAP_S /\ PROBE_CAP_S \in 0 .. PROBE_CAP_S
    /\ Slots \subseteq Nat /\ 1 \in Slots
BY ModbusAssumption, DiscAssumption DEF Slots

\* Free sockets.
LEMMA FreeType == SlotFree \in SlotType /\ NoSlots \in SlotTable
<1>1. SlotFree \in SlotType
  BY ProbeConstants DEF SlotFree, SlotType
<1> QED
  BY <1>1 DEF NoSlots, SlotTable

\* An attempt to connect.
LEMMA ConnectType ==
    ASSUME NEW host \in Hosts \union {NoHost}, NEW itry \in 0 .. NTry - 1,
           NEW s \in slot_connect(host, itry)
    PROVE  s \in SlotType
<1> DEFINE t == [state |-> "connecting", host |-> host, itry |-> itry, deadline |-> IO_TIMEOUT_S]
<1>1. t \in SlotType
  BY ProbeConstants DEF SlotType
<1>2. s \in {SlotFree, t}
  BY DEF slot_connect
<1> QED
  BY <1>1, <1>2, FreeType

\* The next unit id.
LEMMA NextUnitType ==
    ASSUME NEW s \in SlotType, NEW t \in NextUnit(s)
    PROVE  t \in SlotType
<1>1. CASE s.itry + 1 >= NTry
  BY <1>1, FreeType DEF NextUnit
<1>2. CASE ~(s.itry + 1 >= NTry)
  <2> DEFINE n == s.itry + 1
             h == s.host
  <2>1. h \in Hosts \union {NoHost} /\ n \in 0 .. NTry - 1
    BY <1>2, ProbeConstants DEF SlotType
  <2>2. t \in slot_connect(h, n)
    BY <1>2 DEF NextUnit
  <2> HIDE DEF n, h
  <2> QED
    BY <2>1, <2>2, ConnectType
<1> QED
  BY <1>1, <1>2

\* A later stage of the exchange.
LEMMA InFlightType ==
    ASSUME NEW s \in SlotType, s.state # "free", NEW t \in InFlight(s)
    PROVE  t \in SlotType
<1>1. \A st \in {"send", "recv"} : [s EXCEPT !.state = st, !.deadline = IO_TIMEOUT_S] \in SlotType
  BY ProbeConstants DEF SlotType
<1>2. \/ t = s
      \/ \E st \in {"send", "recv"} : t = [s EXCEPT !.state = st, !.deadline = IO_TIMEOUT_S]
  <2>1. s.state \in {"connecting", "send", "recv"}
    BY DEF SlotType
  <2>2. CASE s.state = "connecting"
    BY <2>2 DEF InFlight
  <2>3. CASE s.state = "send"
    BY <2>3 DEF InFlight
  <2>4. CASE s.state = "recv"
    BY <2>4 DEF InFlight
  <2> QED
    BY <2>1, <2>2, <2>3, <2>4
<1> QED
  BY <1>1, <1>2

\* What serving a socket may leave of it.
LEMMA PumpedSlotType ==
    ASSUME NEW s \in SlotType, NEW o \in slot_pump(s)
    PROVE  o.slot \in SlotType
<1> DEFINE Res(slots, pr) == [slot : slots, pr : {pr}]
           rest == InFlight(s) \union NextUnit(s) \union {SlotFree}
<1>1. CASE ~DiscBusy(s)
  <2>1. o \in Res({s}, "none")
    BY <1>1 DEF slot_pump
  <2> QED
    BY <2>1
<1>2. CASE DiscBusy(s) /\ s.deadline = 0
  <2>1. o \in Res(NextUnit(s), "none")
    BY <1>2 DEF slot_pump
  <2>2. o.slot \in NextUnit(s)
    BY <2>1
  <2> QED
    BY <2>2, NextUnitType
<1>3. CASE DiscBusy(s) /\ s.deadline # 0
  <2>1. o \in Res(rest, "none") \union Res({SlotFree}, "classic")
    BY <1>3 DEF slot_pump
  <2>2. o.slot \in rest
    <3> HIDE DEF rest
    <3>1. SlotFree \in rest
      BY DEF rest
    <3> QED
      BY <2>1, <3>1
  <2>3. s.state # "free"
    BY <1>3 DEF DiscBusy
  <2> QED
    BY <2>2, <2>3, NextUnitType, InFlightType, FreeType
<1> QED
  BY <1>1, <1>2, <1>3

\* Job j with socket i as s says.
InSlot(j, i, s) == [j EXCEPT !.slots[i] = s]

\* What a job's fields may become.
LEMMA JobWith ==
    ASSUME NEW j \in ProbeJobs
    PROVE  /\ \A slots \in SlotTable : [j EXCEPT !.slots = slots] \in ProbeJobs
           /\ \A i : \A s \in SlotType : InSlot(j, i, s) \in ProbeJobs
           /\ \A phase \in {"scan", "done"} : [j EXCEPT !.phase = phase] \in ProbeJobs
<1>1. ASSUME NEW slots \in SlotTable PROVE [j EXCEPT !.slots = slots] \in ProbeJobs
  BY DEF ProbeJobs
<1>2. ASSUME NEW i, NEW s \in SlotType PROVE InSlot(j, i, s) \in ProbeJobs
  <2> DEFINE slots == [j.slots EXCEPT ![i] = s]
  <2>1. slots \in SlotTable
    BY DEF ProbeJobs, SlotTable
  <2>2. InSlot(j, i, s) = [j EXCEPT !.slots = slots]
    BY DEF InSlot
  <2> HIDE DEF slots
  <2> QED
    BY <1>1, <2>1, <2>2
<1>3. ASSUME NEW phase \in {"scan", "done"} PROVE [j EXCEPT !.phase = phase] \in ProbeJobs
  BY DEF ProbeJobs
<1> QED
  BY <1>1, <1>2, <1>3

\* A job is over.
LEMMA FinishType ==
    ASSUME NEW j \in ProbeJobs
    PROVE  /\ job_finish(j) \in ProbeJobs
           /\ \A host \in Hosts \union {NoHost} : Found(j, host) \in ProbeJobs
<1>1. \A k \in ProbeJobs : job_finish(k) \in ProbeJobs
  BY FreeType DEF job_finish, ProbeJobs
<1>2. \A host \in Hosts \union {NoHost} : [j EXCEPT !.hit = host] \in ProbeJobs
  BY DEF ProbeJobs
<1> QED
  BY <1>1, <1>2 DEF Found

\* A candidate takes a socket.
LEMMA TakeNextType ==
    ASSUME NEW j \in ProbeJobs, NEW k \in TakeNext(j)
    PROVE  k \in ProbeJobs
<1> DEFINE free == {i \in Slots : ~DiscBusy(j.slots[i])}
           m == Min(free)
           first == Head(j.cand)
           left == Tail(j.cand)
<1>1. CASE j.cand = <<>> \/ free = {}
  BY <1>1 DEF TakeNext
<1>2. CASE ~(j.cand = <<>> \/ free = {})
  <2>1. PICK s \in slot_connect(first, 0) : k = [j EXCEPT !.cand = left, !.slots[m] = s]
    BY <1>2 DEF TakeNext
  <2>2. j.cand \in Seq(Hosts) /\ j.cand # <<>> /\ Len(j.cand) <= Cardinality(Hosts)
    BY <1>2 DEF ProbeJobs, CandLists
  <2>3. /\ first \in Hosts /\ left \in Seq(Hosts) /\ Len(left) = Len(j.cand) - 1
        /\ Len(j.cand) \in Nat /\ Cardinality(Hosts) \in Nat
    BY <2>2, HeadTailProperties, LenProperties, FS_CardinalityType, DiscAssumption
  <2>4. left \in CandLists
    BY <2>2, <2>3 DEF CandLists
  <2> HIDE DEF m, first, left
  <2>5. s \in SlotType
    <3>1. first \in Hosts \union {NoHost} /\ 0 \in 0 .. NTry - 1
      BY <2>3, ProbeConstants
    <3> QED
      BY <2>1, <3>1, ConnectType
  <2>6. [j EXCEPT !.cand = left] \in ProbeJobs
    BY <2>4 DEF ProbeJobs
  <2>7. k = InSlot([j EXCEPT !.cand = left], m, s)
    BY <2>1 DEF InSlot
  <2> QED
    BY <2>5, <2>6, <2>7, JobWith
<1> QED
  BY <1>1, <1>2

\* The next candidates take the free sockets.
LEMMA FillType ==
    ASSUME NEW j \in ProbeJobs
    PROVE  fill_scan_slots(j) \subseteq ProbeJobs
<1> DEFINE N == Len(j.cand)
           R == SUBSET ProbeJobs
           h(x) == UNION {TakeNext(k) : k \in x}
           T == [z \in (1 .. N) \X R |-> h(z[2])]
           Def(g) == g = [n \in 0 .. N |-> IF n = 0 THEN {j} ELSE h(g[n - 1])]
           jobs == CHOOSE g : Def(g)
<1>1. N \in Nat
  BY LenProperties DEF ProbeJobs, CandLists
<1>2. {j} \in R
  OBVIOUS
<1>3. ASSUME NEW x \in R PROVE h(x) \in R
  <2>1. \A k \in x : TakeNext(k) \subseteq ProbeJobs
    BY TakeNextType
  <2> QED
    BY <2>1
<1>4. fill_scan_slots(j) = jobs[N]
  BY Zenon DEF fill_scan_slots
<1> HIDE DEF N, h, R
<1>5. T \in [(1 .. N) \X R -> R]
  BY <1>3
<1>6. \A n \in 1 .. N, x \in R : T[<<n, x>>] = h(x)
  OBVIOUS
<1> HIDE DEF T
<1> DEFINE b == {j}
<1> HIDE DEF b
<1>7. PICK f : Turns(f, N, R, b, T)
  BY <1>1, <1>2, <1>5, TurnsExist DEF b
<1>8. Def(f)
  <2>1. ASSUME NEW n \in 0 .. N PROVE f[n] = IF n = 0 THEN {j} ELSE h(f[n - 1])
    <3>1. CASE n = 0
      BY <1>7, <3>1 DEF Turns, b
    <3>2. CASE n # 0
      <4>1. n \in 1 .. N /\ n - 1 \in 0 .. N
        BY <1>1, <3>2
      <4>2. f[n - 1] \in R /\ f[n] = T[<<n, f[n - 1]>>]
        BY <1>7, <4>1 DEF Turns
      <4> QED
        BY <1>6, <3>2, <4>1, <4>2
    <3> QED
      BY <3>1, <3>2
  <2>2. f = [n \in 0 .. N |-> f[n]]
    BY <1>7 DEF Turns
  <2> QED
    BY <2>1, <2>2
<1>9. Def(jobs)
  <2> HIDE DEF Def
  <2> QED
    BY <1>8
<1> HIDE DEF jobs
<1>10. jobs[0] \in R
  BY <1>1, <1>2, <1>9
<1>11. ASSUME NEW n \in 1 .. N, jobs[n - 1] \in R PROVE jobs[n] \in R
  <2>1. n \in 0 .. N /\ n # 0
    BY <1>1
  <2>2. jobs[n] = h(jobs[n - 1])
    BY <1>9, <2>1
  <2> QED
    BY <1>3, <1>11, <2>2
<1>12. jobs[N] \in R
  BY <1>1, <1>10, <1>11, TurnsKeep
<1> QED
  BY <1>4, <1>12 DEF R

----------------------------------------------------------------------------
(* Discovery: the jobs that start and their steps. *)

\* A job starts.
LEMMA ProbeStartType ==
    ASSUME NEW last \in Hosts \union {NoHost}, NEW auto_net \in BOOLEAN, NEW cand \in CandLists,
           NEW k \in classic_probe_start(last, auto_net, cand)
    PROVE  k \in ProbeJobs
<1> DEFINE new == [phase |-> "lastknown", auto_net |-> auto_net, cand |-> cand,
                   slots |-> NoSlots, left |-> PROBE_CAP_S, hit |-> NoHost]
           asked == IF last = NoHost THEN {new}
                    ELSE {[new EXCEPT !.slots[1] = s] : s \in slot_connect(last, 0)}
           waiting == {j \in asked : DiscBusy(j.slots[1])}
           then(j) == IF auto_net THEN fill_scan_slots([j EXCEPT !.phase = "scan"])
                      ELSE {[j EXCEPT !.phase = "done"]}
<1>1. classic_probe_start(last, auto_net, cand) =
        waiting \union UNION {then(j) : j \in asked \ waiting}
  BY DEF classic_probe_start
<1>2. new \in ProbeJobs
  BY FreeType, ProbeConstants DEF ProbeJobs
<1> HIDE DEF new
<1>3. asked \subseteq ProbeJobs
  <2>1. \A s \in slot_connect(last, 0) : s \in SlotType
    BY ConnectType, ProbeConstants
  <2>2. \A s \in slot_connect(last, 0) : InSlot(new, 1, s) \in ProbeJobs
    BY <1>2, <2>1, JobWith
  <2>3. asked = IF last = NoHost THEN {new} ELSE {InSlot(new, 1, s) : s \in slot_connect(last, 0)}
    BY Zenon DEF InSlot
  <2> HIDE DEF asked
  <2> QED
    BY <1>2, <2>2, <2>3
<1> HIDE DEF asked
<1>4. \A j \in asked : then(j) \subseteq ProbeJobs
  <2> TAKE j \in asked
  <2>1. [j EXCEPT !.phase = "scan"] \in ProbeJobs /\ [j EXCEPT !.phase = "done"] \in ProbeJobs
    BY <1>3, JobWith
  <2> QED
    BY <2>1, FillType
<1> HIDE DEF then
<1> QED
  BY <1>1, <1>3, <1>4

\* The jobs that a request may start.
LEMMA NewJobsType == NewJobs \subseteq ProbeJobs
<1> SUFFICES ASSUME NEW k \in NewJobs PROVE k \in ProbeJobs
  OBVIOUS
<1> DEFINE Arrays == {<<>>, fill_subnet, fill_subnet \o fill_subnet}
<1>1. PICK last \in Hosts \union {NoHost}, auto_net \in BOOLEAN, known \in SUBSET Hosts,
           list \in Arrays :
         k \in classic_probe_start(last, auto_net, Candidates(list, known, last))
  BY DEF NewJobs
<1>2. list \in Seq(Hosts)
  <2>1. fill_subnet \o fill_subnet \in Seq(Hosts) /\ <<>> \in Seq(Hosts)
    BY SubnetList
  <2> QED
    BY <2>1, SubnetList
<1>3. Candidates(list, known, last) \in CandLists
  BY <1>2, CandidatesDistinct, DistinctShort DEF CandLists
<1> QED
  BY <1>1, <1>3, ProbeStartType

\* What becomes of a job whose last known address is not the Classic.
LEMMA ScanOrFinishType ==
    ASSUME NEW j \in ProbeJobs, NEW r \in ScanOrFinish(j)
    PROVE  r.job \in ProbeJobs
<1> DEFINE k == [j EXCEPT !.phase = "scan"]
<1>1. k \in ProbeJobs
  BY JobWith
<1>2. ScanOrFinish(j) = IF j.auto_net THEN [job : fill_scan_slots(k), st : {"scan"}]
                        ELSE [job : {job_finish(j)}, st : {"updated"}]
  BY DEF ScanOrFinish
<1> HIDE DEF k
<1>3. r.job \in fill_scan_slots(k) \/ r.job = job_finish(j)
  BY <1>2
<1> QED
  BY <1>1, <1>3, FillType, FinishType

\* The last known address is asked.
LEMMA LastKnownType ==
    ASSUME NEW j \in ProbeJobs, NEW r \in LastKnown(j)
    PROVE  r.job \in ProbeJobs
<1> DEFINE s == j.slots[1]
           what(o) == IF o.pr = "classic" THEN [job : {Found(j, s.host)}, st : {"updated"}]
                      ELSE IF DiscBusy(o.slot) THEN [job : {InSlot(j, 1, o.slot)}, st : {"idle"}]
                      ELSE ScanOrFinish(InSlot(j, 1, SlotFree))
<1>1. s \in SlotType /\ s.host \in Hosts \union {NoHost}
  BY ProbeConstants DEF ProbeJobs, SlotTable, SlotType
<1>2. LastKnown(j) = UNION {what(o) : o \in slot_pump(s)}
  BY Zenon DEF LastKnown, InSlot
<1> DEFINE host == s.host
<1>3. Found(j, host) \in ProbeJobs /\ InSlot(j, 1, SlotFree) \in ProbeJobs
  <2>1. host \in Hosts \union {NoHost}
    BY <1>1
  <2> HIDE DEF host
  <2> QED
    BY <2>1, FinishType, JobWith, FreeType
<1>4. ASSUME NEW o \in slot_pump(s), NEW x \in what(o) PROVE x.job \in ProbeJobs
  <2>1. o.slot \in SlotType
    BY <1>1, PumpedSlotType
  <2>2. InSlot(j, 1, o.slot) \in ProbeJobs
    BY <2>1, JobWith
  <2>3. CASE o.pr = "classic"
    BY <1>3, <2>3
  <2>4. CASE o.pr # "classic" /\ DiscBusy(o.slot)
    BY <2>2, <2>4
  <2>5. CASE o.pr # "classic" /\ ~DiscBusy(o.slot)
    BY <1>3, <2>5, ScanOrFinishType
  <2> QED
    BY <2>3, <2>4, <2>5
<1> HIDE DEF what
<1> QED
  BY <1>2, <1>4

\* The sockets are served.
LEMMA PumpedType ==
    ASSUME NEW j \in ProbeJobs, NEW o \in Pumped(j)
    PROVE  [i \in Slots |-> o[i].slot] \in SlotTable
<1> DEFINE p == [i \in Slots |-> slot_pump(j.slots[i])]
<1>1. \A i \in Slots : o[i] \in p[i]
  BY DEF Pumped
<1>2. \A i \in Slots : o[i] \in slot_pump(j.slots[i]) /\ j.slots[i] \in SlotType
  BY <1>1 DEF ProbeJobs, SlotTable
<1>3. \A i \in Slots : o[i].slot \in SlotType
  BY <1>2, PumpedSlotType
<1> QED
  BY <1>3 DEF SlotTable

\* A sweep goes on, or the job is done.
LEMMA SweptType ==
    ASSUME NEW j \in ProbeJobs, NEW r \in Swept(j)
    PROVE  r.job \in ProbeJobs
<1>1. PICK k \in fill_scan_slots(j) :
         r = IF k.cand = <<>> /\ \A i \in Slots : ~DiscBusy(k.slots[i])
             THEN [job |-> job_finish(k), st |-> "updated"] ELSE [job |-> k, st |-> "idle"]
  BY DEF Swept
<1>2. k \in ProbeJobs
  BY FillType
<1>3. r.job \in {k, job_finish(k)}
  BY <1>1
<1> QED
  BY <1>2, <1>3, FinishType

\* Every socket of a sweep is served.
LEMMA ScanType ==
    ASSUME NEW j \in ProbeJobs, NEW r \in Scan(j)
    PROVE  r.job \in ProbeJobs
<1> DEFINE outcomes == Pumped(j)
           hit == {x \in outcomes : Hits(x) # {}}
           miss == {x \in outcomes : Hits(x) = {}}
           found(o) == [job |-> Found(j, j.slots[Min(Hits(o))].host), st |-> "updated"]
           tables == {[i \in Slots |-> o[i].slot] : o \in miss}
           with(slots) == [j EXCEPT !.slots = slots]
<1>1. Scan(j) = {found(o) : o \in hit} \union UNION {Swept(with(slots)) : slots \in tables}
  BY Zenon DEF Scan
<1>2. ASSUME NEW o \in hit PROVE found(o).job \in ProbeJobs
  <2> DEFINE m == Min(Hits(o))
             host == j.slots[m].host
  <2>1. Hits(o) \subseteq Slots /\ Hits(o) # {} /\ Hits(o) \subseteq Nat
    BY ProbeConstants DEF Hits
  <2>2. \E x \in Hits(o) : \A y \in Hits(o) : x <= y
    BY <2>1, Least
  <2>3. m \in Hits(o)
    BY <2>2 DEF Min
  <2>4. m \in Slots
    BY <2>1, <2>3
  <2> HIDE DEF m
  <2>5. host \in Hosts \union {NoHost}
    BY <2>4 DEF ProbeJobs, SlotTable, SlotType
  <2>6. found(o).job = Found(j, host)
    BY DEF m
  <2> HIDE DEF host, found
  <2> QED
    BY <2>5, <2>6, FinishType
<1>3. ASSUME NEW slots \in tables, NEW x \in Swept(with(slots)) PROVE x.job \in ProbeJobs
  <2>1. PICK o \in miss : slots = [i \in Slots |-> o[i].slot]
    BY <1>3
  <2>2. slots \in SlotTable
    BY <2>1, PumpedType
  <2>3. with(slots) \in ProbeJobs
    BY <2>2, JobWith
  <2> HIDE DEF with
  <2> QED
    BY <1>3, <2>3, SweptType
<1> HIDE DEF found, hit, tables, with
<1>4. (\E o \in hit : r = found(o)) \/ \E slots \in tables : r \in Swept(with(slots))
  BY <1>1
<1> QED
  BY <1>2, <1>3, <1>4

\* A step of the probe.
LEMMA ProbeStepType ==
    ASSUME NEW j \in ProbeJobs, NEW r \in classic_probe_step(j)
    PROVE  r.job \in ProbeJobs
<1> DEFINE on(x) == IF x.st = "scan" THEN Scan(x.job) ELSE {x}
<1>1. CASE j.phase = "done"
  <2>1. r = [job |-> j, st |-> "idle"]
    BY <1>1 DEF classic_probe_step
  <2> QED
    BY <2>1
<1>2. CASE j.phase # "done" /\ j.left = 0
  <2>1. r = [job |-> job_finish(j), st |-> "updated"]
    BY <1>2 DEF classic_probe_step
  <2> QED
    BY <2>1, FinishType
<1>3. CASE j.phase = "scan" /\ j.left # 0
  <2>1. PICK k \in fill_scan_slots(j) : r \in Scan(k)
    BY <1>3 DEF classic_probe_step
  <2>2. k \in ProbeJobs
    BY FillType
  <2> QED
    BY <2>1, <2>2, ScanType
<1>4. CASE j.phase \notin {"done", "scan"} /\ j.left # 0
  <2>1. r \in UNION {on(x) : x \in LastKnown(j)}
    BY <1>4 DEF classic_probe_step
  <2>2. PICK x \in LastKnown(j) : r \in on(x)
    <3> HIDE DEF on
    <3> QED
      BY <2>1
  <2>3. x.job \in ProbeJobs
    BY LastKnownType
  <2>4. r \in Scan(x.job) \/ r = x
    BY <2>2
  <2> QED
    BY <2>3, <2>4, ScanType
<1> QED
  BY <1>1, <1>2, <1>3, <1>4

----------------------------------------------------------------------------
(* Discovery: the job behind the REST interface. *)

DiscInv == disc \in DiscStates

\* Nothing runs.
LEMMA IdleType == Idle \in DiscStates /\ DiscNoJob \in ProbeJobs
<1>1. <<>> \in CandLists
  <2>1. Len(<<>>) <= Cardinality(Hosts) /\ <<>> \in Seq(Hosts)
    BY FS_CardinalityType, DiscAssumption
  <2> QED
    BY <2>1 DEF CandLists
<1>2. DiscNoJob \in ProbeJobs
  BY <1>1, FreeType, ProbeConstants DEF DiscNoJob, ProbeJobs
<1> QED
  BY <1>2, ProbeConstants DEF Idle, DiscStates

LEMMA DiscTypesStart == DiscInit => DiscInv
BY IdleType DEF DiscInit, DiscInv

\* What is left of a time.
LEMMA PassType ==
    ASSUME NEW n \in Nat, NEW t \in 0 .. n
    PROVE  Pass(t) \in 0 .. n
BY DEF Pass

\* The clock goes on.
LEMMA DiscTickType ==
    ASSUME DiscInv, DiscTick
    PROVE  disc' \in DiscStates
<1> DEFINE j == disc.job
           slots == [i \in Slots |-> SlotTick(j.slots[i])]
           left == Pass(j.left)
           wait == Pass(disc.wait)
           k == [j EXCEPT !.left = left, !.slots = slots]
<1>1. disc' = [disc EXCEPT !.wait = wait, !.job = k]
  <2>1. disc' = [disc EXCEPT !.wait = wait, !.job.left = left, !.job.slots = slots]
    <3>1. disc' = [disc EXCEPT !.wait = Pass(@), !.job.left = Pass(@),
                               !.job.slots = [i \in Slots |-> SlotTick(@[i])]]
      BY DEF DiscTick
    <3>2. disc \in DiscStates
      BY DEF DiscInv
    <3> QED
      BY <3>1, <3>2 DEF DiscStates, ProbeJobs
  <2>2. disc \in DiscStates
    BY DEF DiscInv
  <2> HIDE DEF wait, left, slots
  <2> QED
    BY <2>1, <2>2 DEF DiscStates, ProbeJobs
<1>2. j \in ProbeJobs /\ left \in 0 .. PROBE_CAP_S /\ wait \in 0 .. IO_TIMEOUT_S
  BY PassType, ProbeConstants DEF DiscInv, DiscStates, ProbeJobs
<1>3. slots \in SlotTable
  <2> SUFFICES ASSUME NEW i \in Slots
               PROVE  SlotTick(j.slots[i]) \in SlotType
    BY DEF SlotTable
  <2>1. j.slots[i] \in SlotType
    BY <1>2 DEF ProbeJobs, SlotTable
  <2>2. ASSUME NEW s \in SlotType PROVE SlotTick(s) \in SlotType
    <3> DEFINE d == Pass(s.deadline)
    <3>1. d \in 0 .. IO_TIMEOUT_S
      BY PassType, ProbeConstants DEF SlotType
    <3>2. SlotTick(s) = [s EXCEPT !.deadline = d]
      BY DEF SlotTick
    <3> HIDE DEF d
    <3>3. [s EXCEPT !.deadline = d] \in SlotType
      BY <3>1 DEF SlotType
    <3> QED
      BY <3>2, <3>3
  <2> QED
    BY <2>1, <2>2
<1> HIDE DEF slots, left
<1>4. k \in ProbeJobs
  BY <1>2, <1>3 DEF ProbeJobs
<1> HIDE DEF j, k, wait
<1> QED
  BY <1>1, <1>2, <1>4 DEF DiscInv, DiscStates

LEMMA DiscTypesKept ==
    ASSUME DiscInv, [DiscNext]_disc_vars
    PROVE  DiscInv'
<1>1. CASE mf_discover_start
  <2>1. PICK j, w : /\ j \in NewJobs \/ j = DiscNoJob
                    /\ w \in {0, IO_TIMEOUT_S}
                    /\ disc' = [state |-> "running", job |-> j, wait |-> w]
    BY <1>1 DEF mf_discover_start
  <2>2. j \in ProbeJobs
    BY <2>1, NewJobsType, IdleType
  <2> QED
    BY <2>1, <2>2, ProbeConstants DEF DiscInv, DiscStates
<1>2. CASE StartRefused
  <2>1. disc' \in {Idle, [Idle EXCEPT !.state = "error"]}
    BY <1>2 DEF StartRefused
  <2>2. [Idle EXCEPT !.state = "error"] \in DiscStates
    BY IdleType DEF DiscStates
  <2> QED
    BY <2>1, <2>2, IdleType DEF DiscInv
<1>3. CASE mf_discover_step
  <2>1. disc \in DiscStates /\ disc.job \in ProbeJobs
    BY DEF DiscInv, DiscStates
  <2>2. CASE disc.job.phase = "none"
    <3>1. disc' \in {disc, [disc EXCEPT !.state = "done"]}
      BY <1>3, <2>2 DEF mf_discover_step
    <3>2. [disc EXCEPT !.state = "done"] \in DiscStates
      BY <2>1 DEF DiscStates
    <3> QED
      BY <2>1, <3>1, <3>2 DEF DiscInv
  <2>3. CASE disc.job.phase # "none"
    <3>1. PICK r \in classic_probe_step(disc.job) :
             disc' = [disc EXCEPT !.job = r.job,
                                  !.state = IF r.st = "updated" THEN "done" ELSE @]
      BY <1>3, <2>3 DEF mf_discover_step
    <3> DEFINE job == r.job
               state == IF r.st = "updated" THEN "done" ELSE disc.state
    <3>2. job \in ProbeJobs /\ disc' = [disc EXCEPT !.job = job, !.state = state]
      BY <2>1, <3>1, ProbeStepType
    <3>3. state \in {"idle", "running", "done", "error"}
      BY <2>1 DEF DiscStates
    <3> HIDE DEF job, state
    <3> QED
      BY <2>1, <3>2, <3>3 DEF DiscInv, DiscStates
  <2> QED
    BY <2>2, <2>3
<1>4. CASE DiscTick
  BY <1>4, DiscTickType DEF DiscInv
<1>5. CASE UNCHANGED disc_vars
  BY <1>5 DEF disc_vars, DiscInv
<1> QED
  BY <1>1, <1>2, <1>3, <1>4, <1>5 DEF DiscNext

----------------------------------------------------------------------------
(* The types of every part. *)

\* The XD battery's driver has its types,
LEMMA XdTyped == XdInv /\ xd_settled \in BOOLEAN => XdTypeOK
BY DEF XdInv, XdTypeOK, PortsType, Right, XdContext

\* the terminal interface too,
LEMMA TuiTyped == Once(tui) /\ tui_settled \in BOOLEAN => TuiTypeOK
BY DEF Once, Loop, TuiTypeOK, TuiFields, MayWait

\* and discovery.
LEMMA DiscTyped == DiscInv => DiscTypeOK
<1> SUFFICES ASSUME DiscInv PROVE DiscTypeOK
  OBVIOUS
<1>1. Cardinality(Hosts) \in Nat
  BY DiscAssumption, FS_CardinalityType
<1>2. disc.job \in ProbeJobs
  BY DEF DiscInv, DiscStates
<1>3. disc.job.cand \in CandLists
  BY <1>2 DEF ProbeJobs
<1>4. disc.job.cand \in BoundedSeq(Hosts, Cardinality(Hosts))
  BY <1>1, <1>3, BoundedSeqIs DEF CandLists
<1> QED
  BY <1>2, <1>4 DEF DiscInv, DiscStates, DiscTypeOK, ProbeJobs, SlotTable, SlotType

\* What is known of the part that runs.
PartInv(p) ==
    CASE p = "textbelt"  -> TbInv /\ TbShapes
      [] p = "weather"   -> WxInv
      [] p = "discover"  -> DiscInv
      [] p = "classic"   -> ClTypeOK
      [] p = "xd"        -> XdInv /\ xd_settled \in BOOLEAN
      [] p = "frame"     -> FrInv
      [] p = "magnum"    -> MgTypeOK
      [] p = "tui"       -> Once(tui) /\ tui_settled \in BOOLEAN
      [] p = "jk"        -> JkInv
      [] p = "assembler" -> AsmInv
      [] p = "phantom"   -> PhInv
      [] p = "threads"   -> PtInv
      [] p = "marks"     -> WmInv

\* Two flags that only settling changes.
LEMMA XdSettledType ==
    ASSUME xd_settled \in BOOLEAN, [XdNext]_xd_vars
    PROVE  xd_settled' \in BOOLEAN
BY DEF XdNext, xd_vars, xd_step, XdReopen, xd_put_settings, Plug, Pull, XdSettle, XdTick

LEMMA TuiSettledType ==
    ASSUME tui_settled \in BOOLEAN, [TuiNext]_tui_vars
    PROVE  tui_settled' \in BOOLEAN
<1>1. CASE TuiKeys
  BY <1>1
     DEF TuiKeys, Key, mf_ui_open_device_settings, modify_apply, on_save, action_start, on_close,
         mf_ui_add_module, on_pick, post_new_module, mf_ui_open_device_view, mf_ui_show_dashboard,
         mf_ui_request_history, post_switch, ToggleActive, remove_confirmed
<1>2. CASE mf_tui_run
  BY <1>2 DEF mf_tui_run
<1>3. CASE TuiSettle \/ TuiTick \/ UNCHANGED tui_vars
  BY <1>3 DEF TuiSettle, TuiTick, tui_vars
<1> QED
  BY <1>1, <1>2, <1>3 DEF TuiNext

\* A part runs alone: a step is one of its own, and the part that runs stays the same.
LEMMA RunsAlone ==
    ASSUME [Next]_vars
    PROVE  /\ part' = part
           /\ part = "textbelt" => [TbNext]_tb_vars
           /\ part = "weather" => [WxNext]_wx_vars
           /\ part = "discover" => [DiscNext]_disc_vars
           /\ part = "classic" => [ClNext]_cl_vars
           /\ part = "xd" => [XdNext]_xd_vars
           /\ part = "frame" => [FrNext]_fr_vars
           /\ part = "magnum" => [MgNext]_mg_vars
           /\ part = "tui" => [TuiNext]_tui_vars
           /\ part = "jk" => [JkNext]_jk_vars
           /\ part = "assembler" => [AsmNext]_asm_vars
           /\ part = "phantom" => [PhNext]_ph_vars
           /\ part = "threads" => [PtNext]_pts
           /\ part = "marks" => [WmNext]_wm_vars
<1>1. CASE UNCHANGED vars
  BY <1>1 DEF vars, disc_vars, fr_vars
<1>2. CASE Only("textbelt") /\ TbNext
  BY <1>2 DEF Only
<1>3. CASE Only("weather") /\ WxNext
  BY <1>3 DEF Only
<1>4. CASE Only("discover") /\ DiscNext
  BY <1>4 DEF Only
<1>5. CASE Only("classic") /\ ClNext
  BY <1>5 DEF Only
<1>6. CASE Only("xd") /\ XdNext
  BY <1>6 DEF Only
<1>7. CASE Only("frame") /\ FrNext
  BY <1>7 DEF Only
<1>8. CASE Only("magnum") /\ MgNext
  BY <1>8 DEF Only
<1>9. CASE Only("tui") /\ TuiNext
  BY <1>9 DEF Only
<1>10. CASE Only("jk") /\ JkNext
  BY <1>10 DEF Only
<1>11. CASE Only("assembler") /\ AsmNext
  BY <1>11 DEF Only
<1>12. CASE Only("phantom") /\ PhNext
  BY <1>12 DEF Only
<1>13. CASE Only("threads") /\ PtNext
  BY <1>13 DEF Only
<1>14. CASE Only("marks") /\ WmNext
  BY <1>14 DEF Only
<1> QED
  BY <1>1, <1>2, <1>3, <1>4, <1>5, <1>6, <1>7, <1>8,
     <1>9, <1>10, <1>11, <1>12, <1>13, <1>14 DEF Next

\* Whichever part runs starts so,
LEMMA PartStarts == Init => part \in Running /\ PartInv(part)
<1> SUFFICES ASSUME Init PROVE part \in Running /\ PartInv(part)
  OBVIOUS
<1>1. /\ part \in Running /\ DiscInit /\ FrInit /\ TuiInit /\ JkInit /\ AsmInit /\ PtInit
      /\ part = "textbelt" => TbInit
      /\ part = "weather" => WxInit
      /\ part = "classic" => ClInit
      /\ part = "xd" => XdInit
      /\ part = "magnum" => MgInit
      /\ part = "phantom" => PhInit
      /\ part = "marks" => WmInit
  BY DEF Init
<1>2. /\ part = "textbelt" => TbInv /\ TbShapes
      /\ part = "weather" => WxInv
      /\ part = "classic" => ClTypeOK
      /\ part = "xd" => XdInv /\ xd_settled \in BOOLEAN
      /\ part = "magnum" => MgTypeOK
      /\ part = "phantom" => PhInv
      /\ part = "marks" => WmInv
  <2>1. XdInit => xd_settled \in BOOLEAN
    BY DEF XdInit
  <2> QED
    BY <1>1, <2>1, TbStarts, TbShapesStart, WxStarts, ClTypesStart, XdStarts, MgTypesStart,
       PhTypesStart, WmStartHolds
<1>3. DiscInv /\ FrInv /\ Once(tui) /\ tui_settled \in BOOLEAN /\ JkInv /\ AsmInv /\ PtInv
  BY <1>1, DiscTypesStart, FrStarts, TuiStarts, JkStarts, AsmStarts, InitStep
<1> QED
  BY <1>1, <1>2, <1>3, RunningAssumption DEF PartInv

\* and every step keeps it.
LEMMA PartKeeps ==
    ASSUME part \in Running, PartInv(part), [Next]_vars
    PROVE  part' \in Running /\ PartInv(part)'
<1>0. part' = part
  BY RunsAlone
<1>1. CASE part = "textbelt"
  <2>1. TbInv /\ TbShapes /\ [TbNext]_tb_vars
    BY <1>1, RunsAlone DEF PartInv
  <2>2. TbInv' /\ TbShapes'
    BY <2>1, TbKeeps, TbShapesKept
  <2> QED
    BY <1>0, <1>1, <2>2 DEF PartInv
<1>2. CASE part = "weather"
  <2>1. WxInv /\ [WxNext]_wx_vars
    BY <1>2, RunsAlone DEF PartInv
  <2>2. WxInv'
    BY <2>1, WxKeeps
  <2> QED
    BY <1>0, <1>2, <2>2 DEF PartInv
<1>3. CASE part = "discover"
  <2>1. DiscInv /\ [DiscNext]_disc_vars
    BY <1>3, RunsAlone DEF PartInv
  <2>2. DiscInv'
    BY <2>1, DiscTypesKept
  <2> QED
    BY <1>0, <1>3, <2>2 DEF PartInv
<1>4. CASE part = "classic"
  <2>1. ClTypeOK /\ [ClNext]_cl_vars
    BY <1>4, RunsAlone DEF PartInv
  <2>2. ClTypeOK'
    BY <2>1, ClTypesKept
  <2> QED
    BY <1>0, <1>4, <2>2 DEF PartInv
<1>5. CASE part = "xd"
  <2>1. XdInv /\ xd_settled \in BOOLEAN /\ [XdNext]_xd_vars
    BY <1>5, RunsAlone DEF PartInv
  <2>2. XdInv' /\ xd_settled' \in BOOLEAN
    BY <2>1, XdKeeps, XdSettledType
  <2> QED
    BY <1>0, <1>5, <2>2 DEF PartInv
<1>6. CASE part = "frame"
  <2>1. FrInv /\ [FrNext]_fr_vars
    BY <1>6, RunsAlone DEF PartInv
  <2>2. FrInv'
    BY <2>1, FrKeeps
  <2> QED
    BY <1>0, <1>6, <2>2 DEF PartInv
<1>7. CASE part = "magnum"
  <2>1. MgTypeOK /\ [MgNext]_mg_vars
    BY <1>7, RunsAlone DEF PartInv
  <2>2. MgTypeOK'
    BY <2>1, MgTypesKept
  <2> QED
    BY <1>0, <1>7, <2>2 DEF PartInv
<1>8. CASE part = "tui"
  <2>1. Once(tui) /\ tui_settled \in BOOLEAN /\ [TuiNext]_tui_vars
    BY <1>8, RunsAlone DEF PartInv
  <2>2. Once(tui)' /\ tui_settled' \in BOOLEAN
    BY <2>1, TuiKeeps, TuiSettledType
  <2> QED
    BY <1>0, <1>8, <2>2 DEF PartInv
<1>9. CASE part = "jk"
  <2>1. JkInv /\ [JkNext]_jk_vars
    BY <1>9, RunsAlone DEF PartInv
  <2>2. JkInv'
    BY <2>1, JkKeeps
  <2> QED
    BY <1>0, <1>9, <2>2 DEF PartInv
<1>10. CASE part = "assembler"
  <2>1. AsmInv /\ [AsmNext]_asm_vars
    BY <1>10, RunsAlone DEF PartInv
  <2>2. AsmInv'
    BY <2>1, AsmKeeps
  <2> QED
    BY <1>0, <1>10, <2>2 DEF PartInv
<1>11. CASE part = "phantom"
  <2>1. PhInv /\ [PhNext]_ph_vars
    BY <1>11, RunsAlone DEF PartInv
  <2>2. PhInv'
    BY <2>1, PhTypesKept
  <2> QED
    BY <1>0, <1>11, <2>2 DEF PartInv
<1>12. CASE part = "threads"
  <2>1. PtInv /\ [PtNext]_pts
    BY <1>12, RunsAlone DEF PartInv
  <2>2. PtInv'
    BY <2>1, NextStep
  <2> QED
    BY <1>0, <1>12, <2>2 DEF PartInv
<1>13. CASE part = "marks"
  <2>1. WmInv /\ [WmNext]_wm_vars
    BY <1>13, RunsAlone DEF PartInv
  <2>2. WmInv'
    BY <2>1, WmKeeps
  <2> QED
    BY <1>0, <1>13, <2>2 DEF PartInv
<1> QED
  BY <1>1, <1>2, <1>3, <1>4, <1>5, <1>6, <1>7,
     <1>8, <1>9, <1>10, <1>11, <1>12, <1>13, RunningAssumption

\* What is known of a part that runs gives its variables their types.
LEMMA PartTyped ==
    ASSUME part \in Running, PartInv(part)
    PROVE  TypeOK
<1>1. CASE part = "textbelt"
  <2>1. TbInv /\ TbShapes
    BY <1>1 DEF PartInv
  <2>2. TbTypeOK
    BY <2>1, TbTyped
  <2> QED
    BY <1>1, <2>2 DEF TypeOK
<1>2. CASE part = "weather"
  <2>1. WxInv
    BY <1>2 DEF PartInv
  <2>2. WxTypeOK
    BY <2>1 DEF WxInv, StationListed, WxContext, WxTypeOK, ZctaWaits, PointsWaits, StationWaits, ObsWaits, ForecastWaits
  <2> QED
    BY <1>2, <2>2 DEF TypeOK
<1>3. CASE part = "discover"
  <2>1. DiscInv
    BY <1>3 DEF PartInv
  <2>2. DiscTypeOK
    BY <2>1, DiscTyped
  <2> QED
    BY <1>3, <2>2 DEF TypeOK
<1>4. CASE part = "classic"
  <2>1. ClTypeOK
    BY <1>4 DEF PartInv
  <2>2. ClTypeOK
    BY <2>1
  <2> QED
    BY <1>4, <2>2 DEF TypeOK
<1>5. CASE part = "xd"
  <2>1. XdInv /\ xd_settled \in BOOLEAN
    BY <1>5 DEF PartInv
  <2>2. XdTypeOK
    BY <2>1, XdTyped
  <2> QED
    BY <1>5, <2>2 DEF TypeOK
<1>6. CASE part = "frame"
  <2>1. FrInv
    BY <1>6 DEF PartInv
  <2>2. FrTypeOK
    BY <2>1, FrTyped
  <2> QED
    BY <1>6, <2>2 DEF TypeOK
<1>7. CASE part = "magnum"
  <2>1. MgTypeOK
    BY <1>7 DEF PartInv
  <2>2. MgTypeOK
    BY <2>1
  <2> QED
    BY <1>7, <2>2 DEF TypeOK
<1>8. CASE part = "tui"
  <2>1. Once(tui) /\ tui_settled \in BOOLEAN
    BY <1>8 DEF PartInv
  <2>2. TuiTypeOK
    BY <2>1, TuiTyped
  <2> QED
    BY <1>8, <2>2 DEF TypeOK
<1>9. CASE part = "jk"
  <2>1. JkInv
    BY <1>9 DEF PartInv
  <2>2. JkTypeOK
    BY <2>1, JkTyped
  <2> QED
    BY <1>9, <2>2 DEF TypeOK
<1>10. CASE part = "assembler"
  <2>1. AsmInv
    BY <1>10 DEF PartInv
  <2>2. AsmTypeOK
    BY <2>1 DEF AsmInv, AsmTypeOK, Assemblers, Jammed
  <2> QED
    BY <1>10, <2>2 DEF TypeOK
<1>11. CASE part = "phantom"
  <2>1. PhInv
    BY <1>11 DEF PartInv
  <2>2. PhTypeOK
    BY <2>1 DEF PhInv, PhContext, PhTypeOK
  <2> QED
    BY <1>11, <2>2 DEF TypeOK
<1>12. CASE part = "threads"
  <2>1. PtInv
    BY <1>12 DEF PartInv
  <2>2. PtTypeOK
    BY <2>1 DEF PtInv
  <2> QED
    BY <1>12, <2>2 DEF TypeOK
<1>13. CASE part = "marks"
  <2>1. WmInv
    BY <1>13 DEF PartInv
  <2>2. WmTypeOK
    BY <2>1 DEF WmInv
  <2> QED
    BY <1>13, <2>2 DEF TypeOK
<1> QED
  BY <1>1, <1>2, <1>3, <1>4, <1>5, <1>6, <1>7,
     <1>8, <1>9, <1>10, <1>11, <1>12, <1>13, RunningAssumption

\* Whatever steps they take, in whatever order, all parts keep their variables within the
\* types and bounds that their modules state: no queue, table, buffer, timer or index of
\* the code runs over (TypeOK, of every handler that Next composes).
THEOREM PartsTypesHold == Spec => []TypeOK
<1>1. Init => part \in Running /\ PartInv(part)
  BY PartStarts
<1>2. part \in Running /\ PartInv(part) /\ [Next]_vars => (part \in Running /\ PartInv(part))'
  BY PartKeeps
<1>3. part \in Running /\ PartInv(part) => TypeOK
  BY PartTyped
<1> QED
  BY <1>1, <1>2, <1>3, PTL DEF Spec
=============================================================================
