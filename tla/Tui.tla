-------------------------------- MODULE Tui --------------------------------
(***************************************************************************)
(* The terminal interface: one HTTP connection to the daemon, which takes  *)
(* one request at a time and keeps one more waiting, the screen that polls *)
(* over it, and the settings form, whose saves, actions and new modules go *)
(* out over the same connection.  Replies carry no mark of what they       *)
(* answer: the loop tells them apart by their shape and by what it waits   *)
(* for.                                                                    *)
(*                                                                         *)
(* A step is one pass of the loop, one key, or a tick of the clock.  What  *)
(* documents say, how they are drawn and which module a request is about   *)
(* are left out, and so are the pauses of a second between two fetches of  *)
(* a form's settings.                                                      *)
(***************************************************************************)
EXTENDS Integers, Clock

CONSTANTS
    CONNECT_TMO_S,     \* for a connection to be made
    INFLIGHT_TMO_S,    \* for a reply
    BACKOFF_MIN, BACKOFF_MAX,   \* before the next attempt to connect
    DEVSET_PUT_TMO_S,  \* for the answer to a save, or to an action
    DEVSET_ACT_TMO_S,  \* for the result of an action
    REFRESH_S,         \* between two polls
    OVP_TRIES,         \* fetches of a form's settings until they are complete
    MaxKeys            \* bound on what the user does

ASSUME TuiAssumption == BACKOFF_MIN \in Nat /\ BACKOFF_MAX \in Nat /\ BACKOFF_MIN <= BACKOFF_MAX

VARIABLES
    tui,          \* the client (mf_http_cli_t), the loop's flags and the form
    tui_settled   \* history variable: the user waits, and the daemon can be
                  \* reached and answers before the next poll is due

tui_vars == <<tui, tui_settled>>

\* What is asked for: GETs, and what the user does.  A command is a switch that
\* is set, a module that is switched on or off, or one that is removed.
Polls == {"status", "view"}
Gets == Polls \union {"history", "drivers", "settings"}

\* A request; mine marks the last save, action or new module the user asked for.
NoRequest == [op |-> "none", mine |-> FALSE]
Request(c, op) == [op |-> op, mine |-> op = c.asked]

\* The shapes a reply may have.
Shapes(op) ==
    CASE op = "status"             -> {"status"}
      [] op = "view"               -> {"data", "error"}
      [] op = "history"            -> {"values", "error"}
      [] op = "drivers"            -> {"drivers"}
      [] op \in {"settings", "save"} -> {"uuid", "error"}
      [] op = "add"                -> {"id", "error"}
      [] op = "action"             -> {"ok", "error"}
      [] op = "command"            -> {"uuid", "ok", "error"}

----------------------------------------------------------------------------
(* The client, http_client.c. *)

mf_http_cli_close(c) ==
    [c EXCEPT !.inflight = NoRequest, !.left = 0, !.body = "none"]

schedule_retry(c) ==
    [mf_http_cli_close(c) EXCEPT
        !.conn = "WAIT", !.next_try = c.backoff,
        !.backoff = IF 2 * @ > BACKOFF_MAX THEN BACKOFF_MAX ELSE 2 * @]

\* The connection is under way, unless there is no socket or no address.
mf_http_cli_start(c, ok) ==
    IF ok THEN [mf_http_cli_close(c) EXCEPT !.conn = "CONNECTING", !.left = CONNECT_TMO_S]
    ELSE schedule_retry(c)

mark_up(c) == [c EXCEPT !.conn = "UP", !.backoff = BACKOFF_MIN, !.left = 0, !.stale = FALSE]

\* While a reply is awaited a GET is left out and anything else waits its turn,
\* in place of what waited before.  A reply not taken yet is forgotten.
cli_begin(c, r) ==
    IF c.conn # "UP" THEN c
    ELSE IF c.inflight # NoRequest
    THEN IF r.op \in Gets THEN c ELSE [c EXCEPT !.pend = r]
    ELSE [c EXCEPT !.inflight = r, !.left = INFLIGHT_TMO_S, !.body = "none",
                   !.sent = IF r.mine THEN @ + 1 ELSE @]

\* parse_complete: the whole reply is there.
parse_complete(c, shape) ==
    [c EXCEPT !.inflight = NoRequest, !.left = 0, !.body = shape, !.stale = FALSE,
              !.answer = IF c.inflight.mine THEN shape ELSE @]

Pending(c) ==
    IF c.inflight = NoRequest /\ c.pend # NoRequest
    THEN cli_begin([c EXCEPT !.pend = NoRequest], c.pend) ELSE c

\* mf_http_cli_pump: what may have happened to the connection.
mf_http_cli_pump(c) ==
    CASE c.conn = "WAIT" ->
            IF c.next_try > 0 THEN {c} ELSE {mf_http_cli_start(c, ok) : ok \in BOOLEAN}
      [] c.conn = "CONNECTING" ->
            {mark_up(c), schedule_retry(c)} \union (IF c.left > 0 THEN {c} ELSE {})
      [] c.conn = "UP" ->
            IF c.inflight # NoRequest /\ c.left = 0 THEN {schedule_retry(c)}
            ELSE {Pending(c), schedule_retry(Pending(c))} \union
                 (IF c.inflight = NoRequest THEN {}
                  ELSE {parse_complete(c, s) : s \in Shapes(c.inflight.op)})

\* The same once nothing goes wrong any more.
PumpSettled(c) ==
    CASE c.conn = "WAIT" -> {IF c.next_try > 0 THEN c ELSE mf_http_cli_start(c, TRUE)}
      [] c.conn = "CONNECTING" -> {mark_up(c)}
      [] c.conn = "UP" ->
            IF c.inflight = NoRequest THEN {Pending(c)}
            ELSE {parse_complete(c, s) : s \in Shapes(c.inflight.op) \ {"error"}}

----------------------------------------------------------------------------
(* The settings form, device_settings.c. *)

FormOpen(c) == c.form # "closed"

mf_devset_close(c) ==
    [c EXCEPT !.form = "closed", !.filled = FALSE, !.dirty = FALSE, !.saving = FALSE,
              !.act_wait = 0]

\* The answer to a save: what the form shows is now what was saved, or the
\* daemon's error is shown and the changes stay.
mf_devset_put_result(c, shape) ==
    IF ~c.saving THEN c
    ELSE [c EXCEPT !.saving = FALSE, !.dirty = IF shape = "error" THEN @ ELSE FALSE]

\* The answer to an action: it did not start, or its result is waited for.
mf_devset_action_reply(c, shape) ==
    IF c.act_wait # 1 THEN c ELSE [c EXCEPT !.act_wait = IF shape = "error" THEN 0 ELSE 2]

\* A settings reply may show the result that is waited for.
mf_devset_action_poll(c, result) ==
    IF c.act_wait = 2 /\ result THEN [c EXCEPT !.act_wait = 0] ELSE c

mf_devset_action_timeout(c) == [c EXCEPT !.act_wait = 0]

----------------------------------------------------------------------------
(* One pass of the loop, mf_tui_run. *)

\* The poll of the screen, which rests while a form is open.
PollScreen(c) ==
    IF /\ c.conn = "UP" /\ c.inflight = NoRequest /\ c.get_left = 0
       /\ ~c.fetch /\ c.add_fetch = 0 /\ ~FormOpen(c)
    THEN [cli_begin(c, Request(c, IF c.view THEN "view" ELSE "status")) EXCEPT !.get_left = REFRESH_S]
    ELSE c

FetchDrivers(c) ==
    IF c.conn # "UP" THEN [c EXCEPT !.add_fetch = 0]
    ELSE IF c.add_fetch = 1 /\ c.inflight = NoRequest
    THEN [cli_begin(c, Request(c, "drivers")) EXCEPT !.add_fetch = 2]
    ELSE c

Tag(c) ==
    CASE c.conn = "UP"         -> IF c.stale THEN "STALE" ELSE "UP"
      [] c.conn = "CONNECTING" -> "reconnecting"
      [] c.conn = "WAIT"       -> "WAIT"

\* A reply that has come becomes the last one; so does none at all when only the
\* state of the connection has changed, but the last one is then handled again.
TakeBody(c) ==
    [c EXCEPT !.last = IF c.body = "none" THEN @ ELSE c.body, !.body = "none",
              !.tag = Tag(c), !.shown = FALSE]
Dirty(c) == c.body # "none" \/ c.tag # Tag(c)

\* A save that could not be sent goes out when the connection is back.
SendSave(c) ==
    IF c.put_pending /\ c.conn = "UP"
    THEN [cli_begin(c, Request(c, "save")) EXCEPT !.put_pending = FALSE] ELSE c

\* Wrong variant: the save is given up without a word to the form.
SaveOverdue_silent(c) ==
    IF c.put /\ c.put_left = 0 THEN [c EXCEPT !.put = FALSE, !.put_pending = FALSE] ELSE c

SaveOverdue(c) ==
    IF c.put /\ c.put_left = 0
    THEN mf_devset_put_result([c EXCEPT !.put = FALSE, !.put_pending = FALSE], "error")
    ELSE c

ActionOverdue(c) ==
    LET d == IF c.act /\ c.act_left = 0
             THEN mf_devset_action_reply([c EXCEPT !.act = FALSE], "error") ELSE c
    IN IF d.act_wait = 2 /\ d.act_left = 0 THEN mf_devset_action_timeout(d) ELSE d

\* What the form no longer waits for.
Forget(c) ==
    LET open == FormOpen(c)
    IN [c EXCEPT !.fetch = @ /\ open, !.ovp = IF open /\ ~c.dirty THEN @ ELSE 0,
                 !.put = @ /\ c.saving, !.put_pending = @ /\ (c.put => c.saving),
                 !.act = @ /\ open]

CanFetch(c) == FormOpen(c) /\ ~c.fetch /\ c.inflight = NoRequest /\ c.conn = "UP"
FetchSettings(c) == [cli_begin(c, Request(c, "settings")) EXCEPT !.fetch = TRUE]

\* A form's settings are fetched again until they are complete, a number of
\* times, and while the result of an action is waited for; or it is too soon.
FetchMissing(c) ==
    {c} \union IF CanFetch(c) /\ c.ovp > 0 THEN {[FetchSettings(c) EXCEPT !.ovp = @ - 1]} ELSE {}
FetchResult(c) ==
    {c} \union IF CanFetch(c) /\ c.act_wait = 2 THEN {FetchSettings(c)} ELSE {}

\* The answer to a new module: the form is closed, or shows the error.
add_reply(c) ==
    LET d == [c EXCEPT !.add_wait = FALSE]
    IN IF c.last = "error" THEN [d EXCEPT !.saving = FALSE]
       ELSE [mf_devset_close(d) EXCEPT !.get_left = 0]

\* The form is filled; its settings are complete or not.
Filled(c, ovp) == [c EXCEPT !.filled = TRUE, !.ovp = ovp]

\* A settings reply for the form, which shows the result of an action or not,
\* and which is complete or not; or some other reply.
ApplySettings(c) ==
    LET d == [c EXCEPT !.fetch = FALSE]
        e == {mf_devset_action_poll(d, result) : result \in BOOLEAN}
    IN IF c.last # "uuid" THEN {d}
       ELSE IF c.dirty THEN e
       ELSE {Filled(x, ovp) : x \in e, ovp \in {c.ovp, 0}}

\* A reply to a poll is shown; the history of a module in view is asked for.
Show(c, new) ==
    LET d == [c EXCEPT !.shown = new]
    IN IF c.view /\ c.last = "data" THEN cli_begin(d, Request(c, "history"))
       ELSE IF c.last = "status" THEN d ELSE c

\* The drivers there are: the user picks one.
show_driver_picker(c) == [c EXCEPT !.add_fetch = 0, !.picker = TRUE]

\* The last reply goes to the first that waits for something of its shape.  new:
\* it has just come.
Dispatch(c, new) ==
    IF c.add_fetch = 2 /\ c.last = "drivers"
    THEN {show_driver_picker(c)}
    ELSE IF c.add_wait /\ c.form = "add" /\ c.last \in {"error", "id", "data"}
    THEN {add_reply(c)}
    ELSE IF c.put /\ c.saving /\ c.last \in {"uuid", "error"}
    THEN {[mf_devset_put_result([c EXCEPT !.put = FALSE], c.last) EXCEPT !.get_left = 0]}
    ELSE IF c.act /\ FormOpen(c) /\ c.last \in {"ok", "error"}
    THEN {[mf_devset_action_reply([c EXCEPT !.act = FALSE], c.last) EXCEPT
            !.act_left = DEVSET_ACT_TMO_S]}
    ELSE IF c.fetch /\ FormOpen(c)
    THEN ApplySettings(c)
    ELSE {Show(c, new)}

\* A daemon of which nothing was heard for long is marked stale; that takes a
\* form, which keeps the screen from polling.
Silent(c) ==
    {c} \union IF c.conn = "UP" /\ FormOpen(c) /\ c.inflight = NoRequest
               THEN {[c EXCEPT !.stale = TRUE]} ELSE {}

\* mf_tui_run, one pass: the connection, polls, what is waited for, the reply.
mf_tui_run ==
    /\ \E pumped \in IF tui_settled THEN PumpSettled(tui) ELSE mf_http_cli_pump(tui) :
       \E polled \in {FetchDrivers(PollScreen(pumped))} :
       \E kept \in {SaveOverdue(SendSave(Forget(TakeBody(polled))))} :
       \E asked \in FetchMissing(kept) :
       \E ready \in FetchResult(ActionOverdue(asked)) :
       \E done \in IF Dirty(polled) THEN Dispatch(ready, polled.body # "none") ELSE {ready} :
          tui' \in Silent(done)
    /\ UNCHANGED tui_settled

----------------------------------------------------------------------------
(* Keys.  A picker takes them first, then the form, then the screen. *)

Key(c) ==
    /\ ~tui_settled /\ tui.keys < MaxKeys
    /\ tui' = [c EXCEPT !.keys = @ + 1]
    /\ UNCHANGED tui_settled
AtScreen == ~tui.picker /\ tui.form = "closed"
AtForm(kind) == ~tui.picker /\ tui.form = kind

\* The user asks for op, and no longer looks after what was asked before.
Asking(c, op) ==
    [c EXCEPT !.asked = op, !.sent = 0, !.answer = "none",
              !.inflight.mine = FALSE, !.pend.mine = FALSE]

mf_ui_open_device_settings ==
    /\ AtScreen
    /\ Key(cli_begin([tui EXCEPT !.form = "edit", !.fetch = TRUE, !.ovp = OVP_TRIES],
                     Request(tui, "settings")))

\* modify_apply, toggle_bool: a value is changed, or put back.  Some values are
\* there before the module's settings have come (build_rows).
modify_apply == AtForm("edit") /\ Key([tui EXCEPT !.dirty = ~@])

\* Wrong variant: the save waits for the loop even when the client has taken it.
put_devset_again(c) ==
    cli_begin([c EXCEPT !.put = TRUE, !.put_pending = TRUE, !.put_left = DEVSET_PUT_TMO_S],
              Request(c, "save"))

\* put_devset: without a connection the save waits for one.
put_devset(c) ==
    cli_begin([c EXCEPT !.put = TRUE, !.put_pending = (c.conn # "UP"),
                        !.put_left = DEVSET_PUT_TMO_S], Request(c, "save"))

\* on_save, once the user has confirmed.
on_save ==
    /\ AtForm("edit") /\ tui.dirty /\ ~tui.saving
    /\ Key(put_devset(Asking([tui EXCEPT !.saving = TRUE], "save")))

\* post_devset_action: without a connection the action does not start.  The form
\* has actions once it has the module's settings.
post_devset_action(c) ==
    IF c.conn # "UP" THEN mf_devset_action_reply([c EXCEPT !.act = FALSE], "error")
    ELSE cli_begin([c EXCEPT !.act = TRUE], Request(c, "action"))
action_start ==
    /\ AtForm("edit") /\ tui.filled
    /\ Key(post_devset_action(Asking([tui EXCEPT !.act_wait = 1, !.act_left = DEVSET_PUT_TMO_S],
                                     "action")))

\* on_close: unsaved changes are given up.
on_close == ~tui.picker /\ FormOpen(tui) /\ Key(mf_devset_close(tui))

mf_ui_add_module == AtScreen /\ tui.conn = "UP" /\ Key([tui EXCEPT !.add_fetch = 1])

\* on_pick: a form for a new module takes the place of any other.
on_pick ==
    /\ tui.picker
    /\ \/ Key([mf_devset_close(tui) EXCEPT !.picker = FALSE, !.form = "add"])
       \/ Key([tui EXCEPT !.picker = FALSE])

\* post_new_module, with every value that is required.
post_new_module ==
    /\ AtForm("add") /\ ~tui.add_wait
    /\ LET c == Asking(tui, "add")
       IN Key(IF c.conn # "UP" THEN c
              ELSE cli_begin([c EXCEPT !.add_wait = TRUE], Request(c, "add")))

mf_ui_open_device_view ==
    AtScreen /\ Key(cli_begin([tui EXCEPT !.view = TRUE], Request(tui, "view")))
mf_ui_show_dashboard == AtScreen /\ tui.view /\ Key([tui EXCEPT !.view = FALSE])
mf_ui_request_history == AtScreen /\ tui.view /\ Key(cli_begin(tui, Request(tui, "history")))

\* post_switch, the key that switches a module on or off, remove_confirmed.
post_switch == AtScreen /\ tui.view /\ Key(cli_begin(tui, Request(tui, "command")))
ToggleActive ==
    /\ AtScreen /\ ~tui.view
    /\ Key([cli_begin(tui, Request(tui, "command")) EXCEPT !.get_left = 0])
remove_confirmed ==
    /\ AtScreen
    /\ \E leave \in BOOLEAN :
          Key([cli_begin(tui, Request(tui, "command")) EXCEPT
                !.get_left = 0, !.view = @ /\ ~leave])

----------------------------------------------------------------------------

TuiStart ==
    [conn |-> "WAIT", next_try |-> 0, backoff |-> BACKOFF_MIN, left |-> 0,
     stale |-> FALSE, inflight |-> NoRequest, pend |-> NoRequest,
     body |-> "none", last |-> "none", tag |-> "none",
     picker |-> FALSE, form |-> "closed", filled |-> FALSE, dirty |-> FALSE,
     saving |-> FALSE, act_wait |-> 0, fetch |-> FALSE, ovp |-> 0, put |-> FALSE, put_pending |-> FALSE, put_left |-> 0,
     act |-> FALSE, act_left |-> 0, add_fetch |-> 0, add_wait |-> FALSE,
     view |-> FALSE, get_left |-> 0, shown |-> FALSE,
     keys |-> 0, asked |-> "none", sent |-> 0, answer |-> "none"]

TuiSettle == ~tui_settled /\ tui_settled' = TRUE /\ UNCHANGED tui

\* A tick of the clock.  A poll is answered before the next one is due.
TuiTick ==
    /\ tui_settled => tui.inflight.op \notin Polls
    /\ tui' = [tui EXCEPT !.next_try = Pass(@), !.left = Pass(@), !.get_left = Pass(@),
                          !.put_left = Pass(@), !.act_left = Pass(@)]
    /\ UNCHANGED tui_settled

TuiInit == tui = TuiStart /\ tui_settled = FALSE

TuiKeys ==
    \/ mf_ui_open_device_settings \/ modify_apply \/ on_save \/ action_start \/ on_close
    \/ mf_ui_add_module \/ on_pick \/ post_new_module
    \/ mf_ui_open_device_view \/ mf_ui_show_dashboard \/ mf_ui_request_history
    \/ post_switch \/ ToggleActive \/ remove_confirmed

TuiNext == mf_tui_run \/ TuiKeys \/ TuiSettle \/ TuiTick

\* The loop goes round ten times a second whatever happens, and time passes.
TuiFairness == WF_tui_vars(mf_tui_run) /\ WF_tui_vars(TuiTick)

TuiSpec == TuiInit /\ [][TuiNext]_tui_vars /\ TuiFairness

----------------------------------------------------------------------------

TuiTypeOK ==
    /\ tui_settled \in BOOLEAN
    /\ tui.conn \in {"WAIT", "CONNECTING", "UP"} /\ tui.backoff \in BACKOFF_MIN .. BACKOFF_MAX
    /\ tui.conn = "UP" \/ tui.inflight = NoRequest
    /\ tui.pend.op \notin Gets
    /\ tui.form = "edit" \/ ~tui.saving

\* However often the connection is lost and made again, what the user asked for
\* once - a save, an action, a new module - goes out at most once, whether it
\* was sent at once, waited behind another request or waited for a connection
\* (put_devset, cli_begin, mf_tui_run).
SentOnce == tui.sent <= 1

\* The form reports a save as saved only when the daemon has answered that save
\* (mf_devset_put_result, called from mf_tui_run).
TellsTheAnswer ==
    [][tui.saving /\ ~tui'.saving /\ FormOpen(tui') /\ ~tui'.dirty
       => tui'.answer = "uuid"]_tui_vars

\* A save, or an action of a user who waits for it, is under way.
TuiUnderWay == tui.saving \/ (tui_settled /\ tui.act_wait # 0)

\* The screen polls a daemon that answers, and shows what it says.
TuiAnswering == tui_settled /\ tui.form = "closed"
TuiRead == tui.shown
=============================================================================
