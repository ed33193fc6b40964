----------------------------- MODULE JkSettings -----------------------------
(***************************************************************************)
(* The settings of a JK battery: what the driver shows, what it writes and *)
(* what it reads back.                                                     *)
(*                                                                         *)
(* A change is shown at once and its registers are written one by one, with *)
(* a pause between two; then the battery is asked for its settings.  The   *)
(* link to the helper, which JkHelper models, is up or down here.  Voltages *)
(* are small numbers: one unit is the least distance that two of them must *)
(* keep.                                                                   *)
(***************************************************************************)
EXTENDS Integers, Sequences, Clock

CONSTANTS
    WQ_LEN,          \* registers that may wait to be written
    OUT_LEN,         \* lines that fit into the output buffer
    OVP_MIN, OVP_MAX,  \* limits of the overvoltage protection
    WRITE_GAP,       \* between two registers, 0.35 s
    SETTINGS_RETRY,  \* between two requests for the settings, 1.5 s
    JK_CELL_RETRY,   \* between two requests for a reading
    MaxPuts          \* bound on what clients ask for

ASSUME JkAssumption ==
    /\ WQ_LEN \in Nat /\ OUT_LEN \in Nat
    /\ OVP_MIN \in Nat /\ OVP_MAX \in Nat /\ OVP_MIN <= OVP_MAX
    /\ WRITE_GAP \in Nat /\ SETTINGS_RETRY \in Nat /\ JK_CELL_RETRY \in Nat

VARIABLES
    jk,         \* what is left of jk_ctx_t; shown: the settings
    bms,        \* the battery's registers
    line,       \* the line to the battery: what is under way to it, and a frame
                \* of settings under way from it
    jk_settled  \* the link stays up, nothing is lost and nobody asks for more

jk_vars == <<jk, bms, line, jk_settled>>

Absent == -1
LowerOf(a, b) == IF a < b THEN a ELSE b

----------------------------------------------------------------------------
(* Writing. *)

\* queue_str, queue_hex_write: what does not fit into the buffer is dropped.
queue_hex_write(l, cmd) == IF Len(l.out) >= OUT_LEN THEN l ELSE [l EXCEPT !.out = Append(@, cmd)]

CellInfo == [reg |-> "none", val |-> 0]   \* asks for the reading and the settings

\* wq_push: what does not fit is dropped.  Places are free again when the last
\* register has been written.
wq_push(c, r, v) ==
    IF Len(c.wq) >= WQ_LEN THEN c
    ELSE [c EXCEPT !.wq = Append(@, [reg |-> r, val |-> v]),
                   !.wq_left = IF c.wq = <<>> THEN 0 ELSE @]

jk_clamp_ovp_v(v) == IF v < OVP_MIN THEN OVP_MIN ELSE LowerOf(v, OVP_MAX)
jk_clamp_ovpr_v(v, ovp) == LowerOf(v, ovp - 1)

\* A value of the request, or the one shown, or a default (3.65 V, a permitted
\* protection).
Given(r, key, c, default) ==
    IF r[key] # Absent THEN r[key] ELSE IF c.have_settings THEN c.shown[key] ELSE default

\* jk_put_settings, the requested charge voltage: below the protection.
PutRcv(c, r) ==
    IF r.rcv = Absent THEN c
    ELSE LET ovp == IF c.have_settings THEN c.shown.ovp ELSE Given(r, "ovp", c, OVP_MAX)
             rcv == LowerOf(r.rcv, jk_clamp_ovp_v(ovp) - 1)
         IN [wq_push(c, "rcv", rcv) EXCEPT !.shown.rcv = rcv, !.have_settings = TRUE]

\* jk_put_settings, the protection and its release.  The battery refuses a
\* protection that is not above the requested voltage, which is lowered first.
PutOvp(c, r) ==
    IF r.ovp = Absent /\ r.ovpr = Absent THEN c
    ELSE LET ovp == jk_clamp_ovp_v(Given(r, "ovp", c, OVP_MAX))
             ovpr == jk_clamp_ovpr_v(Given(r, "ovpr", c, ovp - 1), ovp)
             d == IF c.have_settings /\ c.shown.rcv >= ovp
                  THEN [wq_push(c, "rcv", ovp - 1) EXCEPT !.shown.rcv = ovp - 1] ELSE c
         IN [wq_push(wq_push(d, "ovp", ovp), "ovpr", ovpr) EXCEPT
                !.shown.ovp = ovp, !.shown.ovpr = ovpr, !.have_settings = TRUE]

\* A client's request, refused while the battery is not there.
Ask(c, l) ==
    /\ ~jk_settled /\ jk.up /\ jk.puts < MaxPuts
    /\ jk' = [c EXCEPT !.puts = @ + 1] /\ line' = l
    /\ UNCHANGED <<bms, jk_settled>>

\* jk_put_settings.  The requests tried name one of the two voltages, alone or
\* with the release voltage.
jk_put_settings ==
    \E r \in [rcv : {Absent, OVP_MAX - 1}, ovp : {Absent, OVP_MIN}, ovpr : {Absent, 1}] :
        /\ (r.rcv = Absent) # (r.ovp = Absent)
        /\ Ask(PutOvp(PutRcv(jk, r), r), line)

\* jk_action: a refresh; or the balancer's limits or a switch, which are written
\* at once and shown as wanted until the settings are read.
jk_action ==
    \/ Ask(jk, queue_hex_write(line, CellInfo))
    \/ \E on \in 0 .. 1 :
          Ask([jk EXCEPT !.bal_want = on],
                   queue_hex_write(line, [reg |-> "bal", val |-> on]))

\* jk_get_settings, jk_get_reading: what is shown.
jk_get_settings(c) ==
    IF c.have_settings THEN c.shown ELSE [key \in DOMAIN c.shown |-> Absent]
Balancer(c) == IF c.bal_want # Absent THEN c.bal_want ELSE c.shown_bal

----------------------------------------------------------------------------
(* The link and the loop. *)

\* on_line, the battery is connected.
JkConnect ==
    /\ ~jk.up
    /\ jk' = [jk EXCEPT !.up = TRUE, !.need_cell_req = TRUE]
    /\ UNCHANGED <<bms, line, jk_settled>>

\* sock_close: what was to be written is forgotten; mark_dropped: it is not.
\* What is under way is lost.
JkLost ==
    /\ ~jk_settled /\ jk.up
    /\ \/ jk' = [jk EXCEPT !.up = FALSE, !.wq = <<>>, !.wq_i = 0]
       \/ jk' = [jk EXCEPT !.up = FALSE, !.need_cell_req = TRUE]
    /\ line' = [out |-> <<>>, frame |-> <<>>]
    /\ UNCHANGED <<bms, jk_settled>>

\* on_line, a frame of settings.
TakeSettings(c, f) ==
    [c EXCEPT !.shown = [rcv |-> f.rcv, ovp |-> f.ovp, ovpr |-> f.ovpr], !.shown_bal = f.bal,
              !.have_settings = TRUE, !.want_settings = FALSE, !.bal_want = Absent]

\* pump, what is sent next and when.
WriteDue(c) == c.wq # <<>> /\ c.wq_left = 0
WriteNext(c) ==
    LET last == c.wq_i + 1 = Len(c.wq)
    IN [c EXCEPT !.wq = IF last THEN <<>> ELSE @, !.wq_i = IF last THEN 0 ELSE @ + 1,
                 !.wq_left = WRITE_GAP, !.want_settings = @ \/ last,
                 !.settings_left = IF last THEN SETTINGS_RETRY ELSE @]
CellReqDue(c) == c.wq = <<>> /\ c.need_cell_req
SettingsDue(c) ==
    /\ c.wq = <<>> /\ ~c.need_cell_req
    /\ (~c.have_settings \/ c.want_settings) /\ c.settings_left = 0
CellRetryDue(c) == c.wq = <<>> /\ ~c.need_cell_req /\ ~SettingsDue(c) /\ c.cell_left = 0

jk_pump ==
    /\ jk.up
    /\ LET c == IF line.frame = <<>> THEN jk ELSE TakeSettings(jk, Head(line.frame))
           l == [line EXCEPT !.frame = <<>>]
       IN \/ /\ WriteDue(c) /\ jk' = WriteNext(c)
             /\ line' = queue_hex_write(l, c.wq[c.wq_i + 1])
          \/ /\ CellReqDue(c)
             /\ jk' = [c EXCEPT !.need_cell_req = FALSE, !.cell_left = JK_CELL_RETRY,
                                !.settings_left = SETTINGS_RETRY]
             /\ line' = queue_hex_write(l, CellInfo)
          \/ /\ SettingsDue(c) /\ jk' = [c EXCEPT !.settings_left = SETTINGS_RETRY]
             /\ line' = queue_hex_write(l, CellInfo)
          \/ /\ CellRetryDue(c) /\ jk' = [c EXCEPT !.cell_left = JK_CELL_RETRY]
             /\ line' = queue_hex_write(l, CellInfo)
          \/ /\ ~(WriteDue(c) \/ CellReqDue(c) \/ SettingsDue(c) \/ CellRetryDue(c))
             /\ jk' = c /\ line' = l
    /\ UNCHANGED <<bms, jk_settled>>

\* The battery gets the next command, unless the radio loses it; asked for its
\* settings it sends them.  It keeps its protection above its requested voltage.
Battery ==
    /\ line.out # <<>>
    /\ LET cmd == Head(line.out)
           rest == [line EXCEPT !.out = Tail(@)]
       IN \/ ~jk_settled /\ line' = rest /\ UNCHANGED bms
          \/ /\ cmd = CellInfo /\ line.frame = <<>>
             /\ line' = [rest EXCEPT !.frame = <<bms>>] /\ UNCHANGED bms
          \/ /\ cmd # CellInfo
             /\ bms' = IF cmd.reg = "ovp" /\ cmd.val <= bms.rcv THEN bms
                       ELSE [bms EXCEPT ![cmd.reg] = cmd.val]
             /\ line' = rest
    /\ UNCHANGED <<jk, jk_settled>>

JkSettle == ~jk_settled /\ jk.up /\ jk_settled' = TRUE /\ UNCHANGED <<jk, bms, line>>

\* A tick of the clock; a line that is good is empty by then.
JkTick ==
    /\ jk_settled => line.out = <<>> /\ line.frame = <<>>
    /\ jk' = [jk EXCEPT !.wq_left = Pass(@), !.settings_left = Pass(@), !.cell_left = Pass(@)]
    /\ UNCHANGED <<bms, line, jk_settled>>

\* jk_open.
JkInit ==
    /\ jk = [up |-> FALSE, wq |-> <<>>, wq_i |-> 0, wq_left |-> 0, need_cell_req |-> FALSE,
             have_settings |-> FALSE, want_settings |-> FALSE, settings_left |-> 0,
             cell_left |-> 0, shown |-> [rcv |-> 0, ovp |-> 0, ovpr |-> 0],
             shown_bal |-> 0, bal_want |-> Absent, puts |-> 0]
    /\ bms = [rcv |-> OVP_MIN - 1, ovp |-> OVP_MAX, ovpr |-> 1, bal |-> 0]
    /\ line = [out |-> <<>>, frame |-> <<>>]
    /\ jk_settled = FALSE

JkNext ==
    \/ jk_put_settings \/ jk_action \/ JkConnect \/ JkLost \/ jk_pump \/ Battery
    \/ JkSettle \/ JkTick

----------------------------------------------------------------------------

JkTypeOK ==
    /\ jk_settled \in BOOLEAN
    /\ Len(jk.wq) <= WQ_LEN /\ (jk.wq_i < Len(jk.wq) \/ jk.wq_i = 0)
    /\ Len(line.out) <= OUT_LEN
    /\ jk.have_settings => jk.shown.ovp \in {0} \union OVP_MIN .. OVP_MAX

\* Registers wait to be written, with the battery there.
JkUnderWay == jk.up /\ jk.wq # <<>>

\* A battery that stays, and what it has is what is shown.
JkAnswering == jk_settled
JkRead ==
    /\ jk.wq = <<>> /\ line.out = <<>>
    /\ \A key \in DOMAIN jk.shown : jk_get_settings(jk)[key] = bms[key]
    /\ Balancer(jk) = bms.bal
=============================================================================
