------------------------------ MODULE Devices ------------------------------
(***************************************************************************)
(* The life of the modules ("devices") inside moonflared: the slot table   *)
(* g_dev[], the queue g_pending[] of modules waiting to be reopened, the   *)
(* configuration the REST handlers keep (and save after every change), and *)
(* the cooperative threads that act on them.                               *)
(*                                                                         *)
(* The daemon is one process with one stack.  Each pass of its main loop   *)
(* wakes every protothread, runs each once in FIFO order, and then retries *)
(* the pending queue.  Module threads, the acceptor and the connection     *)
(* threads interleave only at that granularity, but the order of a pass    *)
(* depends on the order in which the threads were created, and an HTTP     *)
(* request is served between the slices of two module threads.             *)
(*                                                                         *)
(* The thread at the head of `ready` is the one that is running.  A slot   *)
(* number is also the name of that slot's thread.  An `ident` stands for   *)
(* what identity_changed() compares (kind, driver, bus, endpoint); the     *)
(* intervals, the active flag and the readings are left out.  Saving the   *)
(* configuration always succeeds here.  The calls that device.c makes into *)
(* the history store are modelled by History.                              *)
(***************************************************************************)
EXTENDS Naturals, Sequences, FiniteSets

CONSTANTS
    NSlots,      \* MF_DEVICE_SLOTS
    MaxDevices,  \* MF_MAX_DEVICES, the capacity of the configuration
    Uuids,       \* module uuids
    Names,       \* module names
    Idents,      \* module identities
    Endpoint,    \* the endpoint string of each identity
    NoEndpoint,  \* the empty endpoint of services and phantoms
    Conns,       \* HTTP connection slots
    Acceptor,    \* the accept thread
    None,        \* "no such thing"
    Patient,     \* TRUE: clients wait until no module is stopping or pending
    Distinct,    \* TRUE: clients pick names and endpoints no entry has
    MayFail      \* TRUE: a plugin's open() may fail

Slots == 1 .. NSlots
Threads == Slots \union {Acceptor} \union Conns

ASSUME SizeAssumption == NSlots \in Nat /\ MaxDevices \in Nat
ASSUME ThreadAssumption ==
    /\ Acceptor \notin Slots \union Conns
    /\ Conns \cap Slots = {}
ASSUME ModeAssumption == {Patient, Distinct, MayFail} \subseteq BOOLEAN

\* An element of the configuration's devices[] array.
Entry == [uuid : Uuids, name : Names, ident : Idents, enabled : BOOLEAN]

ASSUME NoneAssumption ==
    None \notin Slots \union Uuids \union Names \union Idents \union Entry

\* A slot; `Free` is the value of one that is not in use.
Free == [in_use |-> FALSE, stop |-> FALSE,
         uuid |-> None, name |-> None, ident |-> None]
Device == [in_use : {TRUE}, stop : BOOLEAN,
           uuid : Uuids, name : Names, ident : Idents]

VARIABLES
    g_dev,      \* the slots
    g_pending,  \* uuid -> the entry waiting to be opened, or None
    cfg,        \* the configuration, live and on disk
    ready,      \* protothreads to run in this pass, oldest first
    waiting,    \* protothreads parked on the tick channel, oldest first
    fresh,      \* threads that have not had their first slice
    pc,         \* where the main thread is
    todo,       \* the part of a document the ADD loop has not reached
    next,       \* the document a PUT is applying
    due,        \* pending uuids this pass has not retried
    g_quit      \* set by SIGINT and SIGTERM

loop == <<ready, waiting, fresh, pc, todo, next, due, g_quit>>
vars == <<g_dev, g_pending, cfg, loop>>

Phases == {"off", "boot", "select", "run", "apply", "pending", "stop",
           "drain", "unload"}

----------------------------------------------------------------------------
(* The slot table. *)

Live(s) == g_dev[s].in_use /\ ~g_dev[s].stop
Dying(s) == g_dev[s].in_use /\ g_dev[s].stop

mf_devices_any_dying == \E s \in Slots : Dying(s)

name_taken(n, skip) ==
    \E s \in Slots \ {skip} : g_dev[s].in_use /\ g_dev[s].name = n

\* Wrong variant of uuid_in_use: a stopping slot has given up its uuid.
LiveUuidInUse(u) == \E s \in Slots : Live(s) /\ g_dev[s].uuid = u
uuid_in_use(u) == \E s \in Slots : g_dev[s].in_use /\ g_dev[s].uuid = u

\* Wrong variant of FirstFree: a stopping slot is taken as free.
AnyStoppedSlot(s) == ~Live(s)
\* The slot mf_devices_add takes.
FirstFree(s) ==
    /\ ~g_dev[s].in_use
    /\ \A r \in 1 .. s - 1 : g_dev[r].in_use

\* What mf_devices_add leaves in a slot whose plugin opened.
Opened(e) == [in_use |-> TRUE, stop |-> FALSE,
              uuid |-> e.uuid, name |-> e.name, ident |-> e.ident]

\* mf_devices_add past its checks and with a successful open: the slot is
\* filled and its thread is created (the caller appends it to `ready`).
OpenIn(s, e) ==
    /\ FirstFree(s)
    /\ g_dev' = [g_dev EXCEPT ![s] = Opened(e)]
    /\ fresh' = fresh \union {s}

\* mf_devices_add past its checks, but no slot is free or open() fails.
OpenFails ==
    /\ MayFail \/ \A s \in Slots : g_dev[s].in_use
    /\ UNCHANGED <<g_dev, ready, fresh>>

----------------------------------------------------------------------------
(* The configuration document. *)

Docs == UNION {[1 .. n -> Entry] : n \in 0 .. MaxDevices}

SameEndpoint(i, j) == Endpoint[i] # NoEndpoint /\ Endpoint[i] = Endpoint[j]

\* validate_apply, the checks within the document.
ValidAlone(doc) ==
    \A i, j \in DOMAIN doc : i < j =>
        /\ doc[i].uuid # doc[j].uuid
        /\ doc[i].name # doc[j].name
        /\ ~SameEndpoint(doc[i].ident, doc[j].ident)

uuid_in_cfg(doc, u) == \E i \in DOMAIN doc : doc[i].uuid = u

\* validate_apply, the "channel still stopping" check against the slots.
Stopping(e, s) ==
    /\ g_dev[s].in_use /\ g_dev[s].uuid # e.uuid
    /\ g_dev[s].name = e.name \/ SameEndpoint(g_dev[s].ident, e.ident)

\* Wrong variant of the validation: every document passes.
AcceptAny(doc) == TRUE
mf_devices_validate_config(doc) ==
    /\ ValidAlone(doc)
    /\ \A i \in DOMAIN doc : doc[i].enabled =>
        \A s \in Slots :
            Stopping(doc[i], s) => uuid_in_cfg(doc, g_dev[s].uuid)

\* The entry of `doc` for uuid u, when there is one.
EntryOf(doc, u) == doc[CHOOSE i \in DOMAIN doc : doc[i].uuid = u]
Wanted(doc, u) == uuid_in_cfg(doc, u) /\ EntryOf(doc, u).enabled

\* Wrong variants of PatchSlot: a free slot is marked, a new identity is taken
\* over by the running thread, a module the document dropped keeps running.
StopEvery(d, doc) ==
    IF ~Wanted(doc, d.uuid) THEN [d EXCEPT !.stop = TRUE] ELSE d
AdoptIdentity(d, doc) ==
    IF ~d.in_use THEN d
    ELSE IF ~Wanted(doc, d.uuid) THEN [d EXCEPT !.stop = TRUE]
    ELSE Opened(EntryOf(doc, d.uuid))
KeepDropped(d, doc) ==
    IF ~d.in_use \/ ~uuid_in_cfg(doc, d.uuid) THEN d
    ELSE IF ~EntryOf(doc, d.uuid).enabled \/ EntryOf(doc, d.uuid).ident # d.ident
         THEN [d EXCEPT !.stop = TRUE]
    ELSE [d EXCEPT !.name = EntryOf(doc, d.uuid).name]
\* The first loop of mf_devices_apply_config: the slot's thread is told to
\* stop when its module is gone, disabled or has another identity; otherwise
\* the slot takes its new name, whether or not it is already stopping.
PatchSlot(d, doc) ==
    IF ~d.in_use THEN d
    ELSE IF ~Wanted(doc, d.uuid) THEN [d EXCEPT !.stop = TRUE]
    ELSE IF EntryOf(doc, d.uuid).ident # d.ident THEN [d EXCEPT !.stop = TRUE]
    ELSE [d EXCEPT !.name = EntryOf(doc, d.uuid).name]

\* Wrong variant of PatchPending: the module is stopped but not queued again.
ForgetReopen(u, doc) == IF uuid_in_use(u) /\ ~Wanted(doc, u) THEN None ELSE g_pending[u]
\* The same loop's pending_cancel and pending_queue.
PatchPending(u, doc) ==
    IF ~uuid_in_use(u) THEN g_pending[u]
    ELSE IF ~Wanted(doc, u) THEN None
    ELSE IF \E s \in Slots : /\ g_dev[s].in_use /\ g_dev[s].uuid = u
                             /\ g_dev[s].ident # EntryOf(doc, u).ident
         THEN EntryOf(doc, u)
    ELSE g_pending[u]

\* cfg_upsert_from_json of a uuid that is new to the configuration.
cfg_upsert_from_json(e) ==
    IF Len(cfg) < MaxDevices THEN Append(cfg, e) ELSE cfg

\* cfg_remove_uuid: the entries behind it move down by one.
cfg_remove_uuid(u) ==
    IF ~uuid_in_cfg(cfg, u) THEN cfg
    ELSE LET at == CHOOSE i \in DOMAIN cfg : cfg[i].uuid = u
         IN  [i \in 1 .. Len(cfg) - 1 |-> IF i < at THEN cfg[i] ELSE cfg[i + 1]]

\* cfg_patch_settings, of the name.
cfg_patch_settings(u, n) ==
    [i \in DOMAIN cfg |-> IF cfg[i].uuid = u THEN [cfg[i] EXCEPT !.name = n]
                          ELSE cfg[i]]

NoPending == [u \in Uuids |-> None]
HasPending == \E u \in Uuids : g_pending[u] # None
Settled == ~mf_devices_any_dying /\ ~HasPending

----------------------------------------------------------------------------
(* Protothread slices.  The running thread is Head(ready); a slice ends by *)
(* parking on the tick channel or by ending the thread.                    *)

Running(t) == pc \in {"run", "drain"} /\ ready # <<>> /\ Head(ready) = t

Park(t) ==
    /\ ready' = Tail(ready)
    /\ waiting' = Append(waiting, t)

End(t) ==
    /\ ready' = Tail(ready)
    /\ fresh' = fresh \ {t}
    /\ UNCHANGED waiting

\* Wrong variant of MustStop: device_pt does not look at its stop flag.
OnlyOnQuit(s) == g_quit
\* The condition under which device_pt leaves its loop.
MustStop(s) == g_quit \/ g_dev[s].stop \/ ~g_dev[s].in_use

\* device_pt: a slice that polls the plugin and waits for the next tick.
DevicePoll(s) ==
    /\ Running(s) /\ ~MustStop(s)
    /\ Park(s)
    /\ fresh' = fresh \ {s}
    /\ UNCHANGED <<g_dev, g_pending, cfg, pc, todo, next, due, g_quit>>

\* device_pt: the last slice closes the plugin and frees the slot.
DeviceExit(s) ==
    /\ Running(s) /\ MustStop(s)
    /\ g_dev' = [g_dev EXCEPT ![s] = Free]
    /\ End(s)
    /\ UNCHANGED <<g_pending, cfg, pc, todo, next, due, g_quit>>

\* http_accept_pt and http_conn_pt: the first slice only parks.
FirstSlice(t) ==
    /\ t \in {Acceptor} \union Conns
    /\ Running(t) /\ ~g_quit /\ t \in fresh
    /\ Park(t)
    /\ fresh' = fresh \ {t}
    /\ UNCHANGED <<g_dev, g_pending, cfg, pc, todo, next, due, g_quit>>

\* Both end when the daemon quits; a connection also ends when its peer
\* closes it, an error does, or it has been idle for too long.
ThreadQuit(t) ==
    /\ t \in {Acceptor} \union Conns
    /\ Running(t) /\ g_quit
    /\ End(t)
    /\ UNCHANGED <<g_dev, g_pending, cfg, pc, todo, next, due, g_quit>>

ConnClose(c) ==
    /\ Running(c) /\ ~g_quit /\ c \notin fresh
    /\ End(c)
    /\ UNCHANGED <<g_dev, g_pending, cfg, pc, todo, next, due, g_quit>>

Queued == {ready[i] : i \in DOMAIN ready} \union {waiting[i] : i \in DOMAIN waiting}

\* accept_drain: one round of its loop.
Accept(c) ==
    /\ Running(Acceptor) /\ ~g_quit /\ Acceptor \notin fresh
    /\ c \notin Queued
    /\ ready' = Append(ready, c)
    /\ fresh' = fresh \union {c}
    /\ UNCHANGED <<g_dev, g_pending, cfg, waiting, pc, todo, next, due,
                   g_quit>>

\* accept_drain has nothing (more) to accept.
AcceptPark ==
    /\ Running(Acceptor) /\ ~g_quit /\ Acceptor \notin fresh
    /\ Park(Acceptor)
    /\ UNCHANGED <<g_dev, g_pending, cfg, fresh, pc, todo, next, due,
                   g_quit>>

----------------------------------------------------------------------------
(* Requests, one per slice of a connection.  (The code may serve a second  *)
(* one whose bytes arrive while the first reply is sent: here that is the  *)
(* request of another connection, queued right behind.)                    *)

Serving(c) ==
    /\ Running(c) /\ ~g_quit /\ c \notin fresh
    /\ Patient => Settled

\* No complete request, one that only reads, or one that is refused.
ConnIdle(c) ==
    /\ Running(c) /\ ~g_quit /\ c \notin fresh
    /\ Park(c)
    /\ UNCHANGED <<g_dev, g_pending, cfg, fresh, pc, todo, next, due,
                   g_quit>>

\* A uuid that uuid_generate can return: one nothing knows.
NewUuid(u) ==
    /\ ~uuid_in_use(u) /\ ~uuid_in_cfg(cfg, u)
    /\ g_pending[u] = None

TakenInCfg(n, i) ==
    \E k \in DOMAIN cfg :
        cfg[k].name = n \/ SameEndpoint(cfg[k].ident, i)

\* handle_devices_create.  Nothing here looks at endpoints, nor at the names
\* of configured modules that are not running.
handle_devices_create(c, u, n, i) ==
    LET e == [uuid |-> u, name |-> n, ident |-> i, enabled |-> TRUE]
    IN  /\ Serving(c)
        /\ NewUuid(u)
        /\ Distinct => ~TakenInCfg(n, i)
        /\ ~name_taken(n, None)
        /\ \E s \in Slots :
            /\ OpenIn(s, e)
            /\ ready' = Append(Tail(ready), s)
        /\ waiting' = Append(waiting, c)
        /\ cfg' = cfg_upsert_from_json(e)
        /\ UNCHANGED <<g_pending, pc, todo, next, due, g_quit>>

\* handle_device_delete of a module that is live or stopping.
handle_device_delete(c, u) ==
    /\ Serving(c)
    /\ uuid_in_use(u)
    /\ g_pending' = [g_pending EXCEPT ![u] = None]
    /\ g_dev' = [s \in Slots |-> IF g_dev[s].in_use /\ g_dev[s].uuid = u
                                 THEN [g_dev[s] EXCEPT !.stop = TRUE]
                                 ELSE g_dev[s]]
    /\ cfg' = cfg_remove_uuid(u)
    /\ Park(c)
    /\ UNCHANGED <<fresh, pc, todo, next, due, g_quit>>

\* handle_device_delete of a module that is only waiting to be reopened: it
\* answers 404 and leaves the configuration alone, but has cancelled the
\* reopening.
DeleteNotFound(c, u) ==
    /\ Serving(c)
    /\ ~uuid_in_use(u) /\ g_pending[u] # None
    /\ g_pending' = [g_pending EXCEPT ![u] = None]
    /\ Park(c)
    /\ UNCHANGED <<g_dev, cfg, fresh, pc, todo, next, due, g_quit>>

\* handle_settings_put with a new name.  mf_devices_put_settings has renamed
\* the slot before it looks at the other keys; when one of those is refused
\* (`ok` is FALSE) the configuration keeps the old name.
handle_settings_put(c, s, n, ok) ==
    /\ Serving(c)
    /\ Live(s)
    /\ ~name_taken(n, s)
    /\ Distinct => \A k \in DOMAIN cfg :
                       cfg[k].name = n => cfg[k].uuid = g_dev[s].uuid
    /\ g_dev' = [g_dev EXCEPT ![s].name = n]
    /\ cfg' = IF ok THEN cfg_patch_settings(g_dev[s].uuid, n) ELSE cfg
    /\ Park(c)
    /\ UNCHANGED <<g_pending, fresh, pc, todo, next, due, g_quit>>

\* handle_config_put of an acceptable document, up to the ADD loop of
\* mf_devices_apply_config.  The connection keeps running until PutDone.
handle_config_put(c, doc) ==
    /\ Serving(c)
    /\ mf_devices_validate_config(doc)
    /\ g_dev' = [s \in Slots |-> PatchSlot(g_dev[s], doc)]
    /\ g_pending' = [u \in Uuids |-> PatchPending(u, doc)]
    /\ pc' = "apply"
    /\ todo' = doc
    /\ next' = doc
    /\ UNCHANGED <<cfg, ready, waiting, fresh, due, g_quit>>

\* handle_config_load applies the document of the state file.
handle_config_load(c) == handle_config_put(c, cfg)

\* handle_config_put after mf_devices_apply_config: the document becomes the
\* configuration and is saved.
PutDone(c) ==
    /\ pc = "apply" /\ todo = <<>> /\ ready # <<>> /\ Head(ready) = c
    /\ cfg' = next
    /\ pc' = "run"
    /\ next' = <<>>
    /\ Park(c)
    /\ UNCHANGED <<g_dev, g_pending, fresh, todo, due, g_quit>>

----------------------------------------------------------------------------
(* The ADD loop of mf_devices_apply_config, one entry per step.            *)

Adding == pc \in {"boot", "apply"} /\ todo # <<>>
Advance == todo' = Tail(todo) /\ UNCHANGED <<cfg, waiting, pc, next, due, g_quit>>

\* A disabled entry, or one whose uuid still has a slot.
AddSkip ==
    /\ Adding
    /\ ~Head(todo).enabled \/ uuid_in_use(Head(todo).uuid)
    /\ UNCHANGED <<g_dev, g_pending, ready, fresh>>
    /\ Advance

AddOpen ==
    /\ Adding
    /\ Head(todo).enabled /\ ~uuid_in_use(Head(todo).uuid)
    /\ ~name_taken(Head(todo).name, None)
    /\ \E s \in Slots : OpenIn(s, Head(todo)) /\ ready' = Append(ready, s)
    /\ UNCHANGED g_pending
    /\ Advance

\* mf_devices_add returned -3.
AddQueue ==
    /\ Adding
    /\ Head(todo).enabled /\ ~uuid_in_use(Head(todo).uuid)
    /\ name_taken(Head(todo).name, None)
    /\ g_pending' = [g_pending EXCEPT ![Head(todo).uuid] = Head(todo)]
    /\ UNCHANGED <<g_dev, ready, fresh>>
    /\ Advance

\* mf_devices_add returned -4 or -5: logged and forgotten.
AddFail ==
    /\ Adding
    /\ Head(todo).enabled /\ ~uuid_in_use(Head(todo).uuid)
    /\ ~name_taken(Head(todo).name, None)
    /\ OpenFails
    /\ UNCHANGED g_pending
    /\ Advance

----------------------------------------------------------------------------
(* The main loop. *)

\* The process starts and applies the saved configuration; one that does not
\* validate is only logged, and no module is opened.
Boot ==
    /\ pc = "off"
    /\ pc' = "boot"
    /\ todo' = IF ValidAlone(cfg) THEN cfg ELSE <<>>
    /\ UNCHANGED <<g_dev, g_pending, cfg, ready, waiting, fresh, next,
                   due, g_quit>>

\* mf_http_start, and the run that parks every new thread.
BootDone ==
    /\ pc = "boot" /\ todo = <<>>
    /\ pc' = "run"
    /\ ready' = Append(ready, Acceptor)
    /\ fresh' = fresh \union {Acceptor}
    /\ UNCHANGED <<g_dev, g_pending, cfg, waiting, todo, next, due,
                   g_quit>>

\* pt_broadcast: every parked thread becomes ready, behind those that are.
pt_broadcast == ready \o waiting

\* select() returns (a descriptor, the 50 ms tick or a signal).
Tick ==
    /\ pc = "select"
    /\ pc' = "run"
    /\ ready' = pt_broadcast
    /\ waiting' = <<>>
    /\ UNCHANGED <<g_dev, g_pending, cfg, fresh, todo, next, due, g_quit>>

\* Every thread has had its slice: mf_devices_apply_pending.
RunDone ==
    /\ pc = "run" /\ ready = <<>>
    /\ pc' = "pending"
    /\ due' = {u \in Uuids : g_pending[u] # None}
    /\ UNCHANGED <<g_dev, g_pending, cfg, ready, waiting, fresh, todo,
                   next, g_quit>>

\* mf_devices_apply_pending of one entry (in whatever order the array has),
\* whose uuid or name is still held: it is tried again after the next pass.
PendingWait(u) ==
    /\ pc = "pending" /\ u \in due
    /\ uuid_in_use(u) \/ name_taken(g_pending[u].name, None)
    /\ due' = due \ {u}
    /\ UNCHANGED <<g_dev, g_pending, cfg, ready, waiting, fresh, pc,
                   todo, next, g_quit>>

CanReopen(u) == ~uuid_in_use(u) /\ ~name_taken(g_pending[u].name, None)

PendingOpen(u) ==
    /\ pc = "pending" /\ u \in due
    /\ CanReopen(u)
    /\ \E s \in Slots : OpenIn(s, g_pending[u]) /\ ready' = Append(ready, s)
    /\ g_pending' = [g_pending EXCEPT ![u] = None]
    /\ due' = due \ {u}
    /\ UNCHANGED <<cfg, waiting, pc, todo, next, g_quit>>

\* mf_devices_add returned -4 or -5: the entry is dropped.
PendingDrop(u) ==
    /\ pc = "pending" /\ u \in due
    /\ CanReopen(u)
    /\ OpenFails
    /\ g_pending' = [g_pending EXCEPT ![u] = None]
    /\ due' = due \ {u}
    /\ UNCHANGED <<cfg, waiting, pc, todo, next, g_quit>>

\* Wrong variant of AfterPass: the loop never ends.
IgnoreQuit == "select"
\* The loop's test of g_quit.
AfterPass == IF g_quit THEN "stop" ELSE "select"
PassDone ==
    /\ pc = "pending" /\ due = {}
    /\ pc' = AfterPass
    /\ UNCHANGED <<g_dev, g_pending, cfg, ready, waiting, fresh, todo,
                   next, due, g_quit>>

\* on_quit: the signal handler, at any point once it is installed.
Signal ==
    /\ pc \notin {"off", "unload"} /\ ~g_quit
    /\ g_quit' = TRUE
    /\ UNCHANGED <<g_dev, g_pending, cfg, ready, waiting, fresh, pc,
                   todo, next, due>>

\* Wrong variant of Shutdown: the threads are not drained.
SkipDrain ==
    /\ pc = "stop"
    /\ pc' = "unload"
    /\ UNCHANGED <<g_dev, g_pending, cfg, ready, waiting, fresh, todo, next, due,
                   g_quit>>
\* mf_devices_request_stop_all and the last broadcast.
Shutdown ==
    /\ pc = "stop"
    /\ pc' = "drain"
    /\ g_dev' = [s \in Slots |-> IF g_dev[s].in_use
                                 THEN [g_dev[s] EXCEPT !.stop = TRUE]
                                 ELSE g_dev[s]]
    /\ ready' = pt_broadcast
    /\ waiting' = <<>>
    /\ UNCHANGED <<g_pending, cfg, fresh, todo, next, due, g_quit>>

\* No thread is left to run: the plugins are about to be unloaded.
Drained ==
    /\ pc = "drain" /\ ready = <<>>
    /\ pc' = "unload"
    /\ UNCHANGED <<g_dev, g_pending, cfg, ready, waiting, fresh, todo,
                   next, due, g_quit>>

\* The process is gone; only the saved configuration is left.
Reset ==
    /\ pc' = "off"
    /\ g_dev' = [s \in Slots |-> Free]
    /\ g_pending' = NoPending
    /\ ready' = <<>> /\ waiting' = <<>> /\ fresh' = {}
    /\ todo' = <<>> /\ next' = <<>> /\ due' = {}
    /\ g_quit' = FALSE
    /\ UNCHANGED cfg

\* mf_plugins_unload and the return from main.
Unload == pc = "unload" /\ Reset

\* A crash, a kill or a power cut.
Crash == pc # "off" /\ Reset

----------------------------------------------------------------------------
Init ==
    /\ g_dev = [s \in Slots |-> Free]
    /\ g_pending = NoPending
    /\ cfg = <<>>
    /\ ready = <<>> /\ waiting = <<>> /\ fresh = {}
    /\ pc = "off"
    /\ todo = <<>> /\ next = <<>> /\ due = {}
    /\ g_quit = FALSE

DeviceSlice(s) == DevicePoll(s) \/ DeviceExit(s)

HttpSlice ==
    \/ \E t \in {Acceptor} \union Conns : FirstSlice(t) \/ ThreadQuit(t)
    \/ AcceptPark
    \/ \E c \in Conns : Accept(c) \/ ConnClose(c) \/ ConnIdle(c)

Request(c) ==
    \/ \E u \in Uuids, n \in Names, i \in Idents : handle_devices_create(c, u, n, i)
    \/ \E u \in Uuids : handle_device_delete(c, u) \/ DeleteNotFound(c, u)
    \/ \E s \in Slots, n \in Names, ok \in BOOLEAN :
           handle_settings_put(c, s, n, ok)
    \/ \E doc \in Docs : handle_config_put(c, doc)
    \/ handle_config_load(c)

AddStep == AddSkip \/ AddOpen \/ AddQueue \/ AddFail

PendingStep == \E u \in Uuids : PendingWait(u) \/ PendingOpen(u) \/ PendingDrop(u)

MainStep ==
    \/ BootDone \/ Tick \/ RunDone \/ PassDone \/ Shutdown \/ Drained \/ Unload
    \/ \E c \in Conns : PutDone(c)

\* Everything the process does by itself once it runs.
Daemon ==
    \/ MainStep \/ AddStep \/ PendingStep \/ HttpSlice
    \/ \E s \in Slots : DeviceSlice(s)
    \/ \E c \in Conns : Request(c)

Next == Daemon \/ Boot \/ Signal \/ Crash

\* select() returns within 50 ms and no slice blocks: the process never stops
\* of itself.  Nothing is assumed of clients, signals, crashes or restarts.
Spec == Init /\ [][Next]_vars /\ WF_vars(Daemon)

----------------------------------------------------------------------------
(* Properties that hold for any clients. *)

\* Every variable keeps its type; the configuration never outgrows the array
\* that cfg_upsert_from_json and mf_config_apply_json fill.
TypeOK ==
    /\ g_dev \in [Slots -> Device \union {Free}]
    /\ g_pending \in [Uuids -> Entry \union {None}]
    /\ cfg \in Seq(Entry) /\ Len(cfg) <= MaxDevices
    /\ ready \in Seq(Threads) /\ waiting \in Seq(Threads)
    /\ fresh \in SUBSET Threads
    /\ pc \in Phases
    /\ todo \in Seq(Entry)
    /\ next \in Seq(Entry) /\ Len(next) <= MaxDevices
    /\ due \in SUBSET Uuids /\ \A u \in due : g_pending[u] # None
    /\ due # {} => pc = "pending"
    /\ g_quit \in BOOLEAN

\* A slot is in use exactly while its one thread is queued: device_pt never
\* runs on a freed or reused slot, and no slot is left without the thread
\* that must close it.  mf_devices_add relies on this when it clears a slot
\* together with the thread descriptor inside it.
ThreadDiscipline ==
    LET all == ready \o waiting
    IN  /\ \A i, j \in DOMAIN all : all[i] = all[j] => i = j
        /\ \A s \in Slots :
            g_dev[s].in_use <=> \E i \in DOMAIN all : all[i] = s

\* No two slots, stopping ones included, belong to the same uuid: the REST
\* handlers look modules up by uuid and take the first hit.
UuidUnique ==
    \A r, s \in Slots :
        g_dev[r].in_use /\ g_dev[s].in_use /\ g_dev[r].uuid = g_dev[s].uuid
            => r = s

\* No two running modules have the same name, although a PUT renames modules
\* one by one and without looking at the others.
LiveNamesUnique ==
    \A r, s \in Slots : Live(r) /\ Live(s) /\ g_dev[r].name = g_dev[s].name => r = s

\* Modules are told apart by what clients and drivers know them by: slots by
\* uuid, stopping ones included, and running modules by name too.
ModulesDistinct == UuidUnique /\ LiveNamesUnique

\* When the plugin libraries are unloaded no plugin context is open and no
\* thread is left, also if modules were added after the signal arrived.
NothingOpenAtUnload ==
    pc = "unload" => ready \o waiting = <<>> /\ \A s \in Slots : ~g_dev[s].in_use

\* While a slot is in use its module keeps its uuid and identity: whatever
\* order requests come in, a new identity only starts in a newly opened slot.
IdentityFixed ==
    [][\A s \in Slots : g_dev[s].in_use /\ g_dev'[s].in_use =>
           /\ g_dev'[s].uuid = g_dev[s].uuid
           /\ g_dev'[s].ident = g_dev[s].ident]_g_dev

\* A module that was told to stop does: its slot is free again at some point.
DyingDies == \A s \in Slots : Dying(s) ~> ~Dying(s)

\* After SIGINT or SIGTERM the daemon drains its threads and exits.
ShutdownCompletes == g_quit ~> pc = "off"

----------------------------------------------------------------------------
(* Properties of the configuration: what is running is what is configured. *)
(* They are about states in which nothing is stopping or pending any more. *)

Quiet == pc = "select" /\ Settled

Runs(s, e) == Live(s) /\ g_dev[s].uuid = e.uuid /\ g_dev[s].ident = e.ident

\* Every enabled module of the configuration runs, with the configured
\* identity (as far as its plugin opens: MayFail is FALSE in these runs).
EnabledModulesRun ==
    Quiet => \A i \in DOMAIN cfg :
                 cfg[i].enabled =>
                     \E s \in Slots : Runs(s, cfg[i])

\* Every running module is an enabled entry of the configuration, so that it
\* is still there after a restart.
RunningIsConfigured ==
    Quiet => \A s \in Slots : Live(s) =>
                 \E i \in DOMAIN cfg : cfg[i].enabled /\ Runs(s, cfg[i])

\* The saved configuration is one that the next start accepts.
ConfigBoots == ValidAlone(cfg)

\* Stopping and pending modules are worked off: no entry waits forever for a
\* name or a uuid that is never given up.
Settles == (pc # "off" /\ ~Settled) ~> (pc = "off" \/ Settled)
=============================================================================
