# Moon-Flare: specifications of the daemon

Moon-Flare watches an off-grid power system. `moonflared` talks to batteries,
chargers, inverters and web services through plugins, keeps a history of their
readings and serves everything over a REST interface; `moonflare` is the
terminal client. This directory specifies them in TLA+: which modules run and
how requests, module threads and the main loop interleave; what the
configuration file and the history store keep across failures and restarts; how
the HTTP server frames and answers requests; how the drivers, the services and
the terminal interface find their way back after losses, late answers and
changed settings. TLC checks the specifications on small instances; TLAPS
proves the safety properties of `Devices`, `History`, `JkHelper`, `HttpConn`,
`ConfigStore` and `Watermarks`, and one each of the XD driver, the weather
service and the terminal, for every size.

Paths below are relative to the repository root.

## 1. Inventory

| component | source | state | operations | what makes it correct |
|---|---|---|---|---|
| device slots | `src/device/device.c` | `g_dev[32]`, `g_pending[32]` | add, delete, settings, apply_config, apply_pending, `device_pt` | one slot per uuid, one thread per slot, what is enabled runs |
| protothread scheduler | `protothread.h` | ready list, wait channels | create, run, yield, wait, join, signal, broadcast, kill | the circular lists are FIFO queues |
| main loop | `src/moonflared.c` | `g_quit` | select, broadcast, run, pending, history slices, shutdown | everything is closed before `dlclose` |
| HTTP server | `src/http/http_pt.c` | 16 connection slots, buffers | accept, read, parse, reply, keep-alive, rebind | every request is answered, a slot is never leaked |
| REST handlers | `src/rest/routes.c` | live configuration, `config_gen` | create, delete, settings, config PUT/LOAD/SAVE | no lost update, saved = running |
| configuration | `src/config/config.c` | state file | load, seed, overlay, validate, save | a saved document boots; a save is atomic |
| history store | `src/history/history.c` | `g_mod[32]`, sample ring, one file per module | register, enqueue, flush, prune, retire, migrate, watermarks, query | nothing is lost, pruned early or copied twice; a watermark is what the file says |
| discovery | `src/rest/discover.c` | one probe job | start, step, report | one job at a time, ends |
| secrets | `src/rest/secret.c` | none | mask, clean, restore | a masked value never overwrites a secret |
| plugin loader | `src/plugin/loader.c` | loaded libraries | load, unload | start-up only |
| phantom modules | `src/phantom/` | list of shadowed modules, last average | step, settings | the average is of the modules that are there now |
| system totals | `src/system/` | none | derive | sums over live modules |
| JK driver and GATT helper | `src/plugins/battery_jk/`, `src/jk/`, `src/gatt/` | connection machine, helper process, reference count; settings, write queue, frame buffer | connect, handshake, drop, respawn, settings, actions | batteries are not shared, what is shown is what the battery has, frames survive any split |
| XD driver, USB identity | `src/plugins/battery_xd/`, `src/xd/`, `src/usb/` | port, identity, exchange | step, settings | the right battery is read, also after adapters were swapped |
| Classic driver and probe | `src/plugins/charger_classic/`, `src/classic/` | connection, unit being tried | step, probe | the unit that answers is found, a probe ends |
| Magnum driver | `src/plugins/inverter_magnum/`, `src/magnum/` | frame buffer, port, stack roles | feed, idle, step | framing does not depend on the reads, timeouts recover |
| Textbelt service | `src/plugins/service_textbelt/`, `src/textbelt/` | queue, acceptance times, request under way | step, settings, test, notify, refresh | the cap holds, what is accepted ends |
| weather service | `src/plugins/service_weathergov/` | place, stations, ZIP table, request under way | step, settings | no place is a dead end |
| terminal interface | `src/tui/` | one HTTP connection with one request waiting, the loop's flags, the settings form | loop, keys | a save is sent once and ends in an answer |
| command line client, demo plugin | `src/cli/`, `src/plugins/demo/` | - | - | not part of the core |

`PROJECT.json` lists each of them with its files and its status.

**How they interact.** The daemon is one process with one stack. Each pass of
the main loop (`moonflared.c`) returns from `select()` after at most 50 ms,
wakes every protothread, runs each once in FIFO order, retries `g_pending[]`,
and gives the history store a flush slice, a prune slice and a watermark slice. A module thread
steps its plugin and queues samples; a connection thread serves a request in
the middle of the pass, by direct calls into `device.c`, `config.c` and
`history.c`. Nothing is preempted, but the order of a pass depends on the
order in which threads were created, and state is carried over every
`pt_wait`.

**What is hard here.** Stopping a module is asynchronous (a flag, noticed in
the thread's next slice), so requests meet modules that are *dying*; reopening
is queued; slots embed their thread descriptor and are reused; a document is
applied before it is saved; a signal may arrive anywhere in a pass; the process
may die at any point, also in the middle of the one-off migration of the old
history file or of a save. Outside the daemon everything may be lost or late:
replies, connections, adapters, notifications, helper processes; most of the
code that copes with it is a machine stepped by the loop, with one request under
way whose reply is used long after it was asked for. `PROJECT.json`, "hazards", lists these at their lines.

## 2. Modules

### Devices

Models `device.c`, the handlers of `routes.c` that change modules or the
configuration, the thread life of the HTTP server and the main loop.

| specification | code |
|---|---|
| `g_dev`, `Live`, `Dying` | slots; `in_use`, `stop` |
| `g_pending` | the array of the same name, indexed by uuid |
| `cfg` | the daemon's configuration, which is also the saved one |
| `ready`, `waiting`, `fresh` | the scheduler's ready list, the tick channel, threads before their first slice |
| `pc`, `todo`, `next`, `due` | position inside `main`, inside `mf_devices_apply_config` and inside `mf_devices_apply_pending` |
| `DevicePoll`, `DeviceExit` | a slice of `device_pt` |
| `Accept`, `AcceptPark`, `FirstSlice`, `ThreadQuit`, `ConnClose`, `ConnIdle` | `http_accept_pt`, `accept_drain`, `http_conn_pt` |
| `handle_devices_create`, `handle_device_delete`, `DeleteNotFound`, `handle_settings_put`, `handle_config_put` ... `PutDone`, `handle_config_load` | the handlers |
| `AddSkip`, `AddOpen`, `AddQueue`, `AddFail` | the ADD loop of `mf_devices_apply_config` |
| `PendingWait`, `PendingOpen`, `PendingDrop` | `mf_devices_apply_pending` |
| `Boot` ... `Unload`, `Signal`, `Crash` | `main` |

Abstractions. An `ident` stands for what `identity_changed()` compares (kind,
driver, bus, endpoint). Readings, intervals and the active flag are data no
property here looks at. Saving always succeeds. A connection serves one
request per slice: where the code serves a second one at once, the model has
another connection queued right behind. `g_pending` is indexed by uuid, so its
capacity of 32 (which equals the number of slots) is not modelled, and entries
are retried in any order. A signal that arrives inside a slice is one that
arrives after it.

`Patient` and `Distinct` restrict the *clients*, never the daemon: patient
clients wait until no module is stopping or pending, distinct ones pick names
and endpoints no configured module has. `MayFail` says whether a plugin's
`open()` may fail.

### History

Models `history.c` (registration, downsampling, the ring, flush, prune,
retire, migration) together with the calls `device.c` makes into it.

| specification | code |
|---|---|
| `g_mod` | open files, with `last_ts`, retention, `next_prune` and whether the INSERT is prepared (`ins`); `missed`: it was a failing DELETE that put pruning off |
| `ring` | the sample ring |
| `rows`, `retired`, `flagged`, `shared` | the files' rows, `retired_ts`, `migrated` flag; the old shared file |
| `copied` | how often all of a module's old rows were copied (history variable) |
| `refused`, `unseen` | modules whose last registration by `device.c` failed, and modules whose migration met a failure that the code passes over (history variables) |
| `dev`, `conf` | what `Devices` says of each uuid |
| `mf_history_register`, `history_register` | the functions of those names: what a registration may leave |
| `mf_devices_add`, `PatchModule`, `RemoveModule`, `ReplaceModule`, `ModuleExit`, `ModuleStep`, `mf_history_set_retention` | calls from `device.c` |
| `mf_history_flush_slice`, `mf_history_prune_slice`, `PruneEnds` | slices of the main loop |
| `Boot`, `BootAdd`, `BootDone`, `migrate_one`, `MigrateCommit`, `MigrateRollback`, `MigrateEnds`, `Stop` | start-up, migration, end |

What SQLite and the file system are asked for may fail, where the code looks at
the result and where it does not; `MayFail` says which kinds do.

| what fails | code | in the model |
|---|---|---|
| a plugin's `open()` | `device.c:529` | `OpenFails`: the slot is given back, the registration stays |
| the table is full, a module's file, a column or its INSERT | `history.c:473`, `479`, `489` | a registration that is not `ok`: no slot, a slot without INSERT, or an older INSERT left in place. `device.c:188` logs it and the module runs (`refused`) |
| a piece of metadata | `history.c:487` to `498`, `516`, `851` to `858` | the mark stays as it was |
| an INSERT or a COMMIT of the flush | `history.c:568`, `579` | the rows are lost, the ring goes on (`Losses`) |
| the DELETE of a prune slice | `history.c:626`, `632` | not prepared: the module stays due; failing when run: put off by an hour with its backlog (`missed`) |
| registration, columns or reads before a module's migration | `history.c:818`, `826`, `828` | the module counts as failed, and its slot may stay open |
| the read of the `migrated` flag | `history.c:824` | the module is copied again (`unseen`) |
| an INSERT of the migration | `history.c:839` | `MigrateRollback` |
| a read of the old file's rows or modules | `history.c:835`, `889` | taken for the last one (`Copies`, `MigrateEnds`, `unseen`) |
| COMMIT and marks of the migration | `history.c:851` to `859` | taken for done (`Copies`, `Marked`, `unseen`) |
| opening the old file, renaming it | `history.c:878`, `924` | `BootDone`, `StillShared` |

Abstractions. A row is its time stamp; the clock never steps back; every
module captures. A flush slice is one atomic step (it does not yield), a
prune slice one step per module. Closing the store leaves queued samples
unwritten, exactly like a crash, so one action `Stop` covers both. A COMMIT that
fails rolls its transaction back: the one failure after which SQLite keeps it open,
`SQLITE_BUSY`, needs another process at the file. BEGIN and ROLLBACK touch no file
and are taken to work. The process may die anywhere, but what SQLite has
committed stays. If the history directory cannot be made (`mf_history_open`) there
is no history and nothing of this runs. Watermarks are in a module of their own
(`Watermarks`, below); columns and queries are left out.

### JkHelper

Models the JK plugin (`battery_jk/plugin.c`) and the helper process
(`gatt/mf_gatt.c`) for the drivers of one Bluetooth adapter. This is the one
place where the program is truly concurrent: two processes and the sockets
between them.

| specification | code |
|---|---|
| `g_help` | the adapter's row of the array of that name: state, pid, `refcnt` |
| `drv` | the drivers' contexts: `st`, socket, `handshake_ok`, `have_data` |
| `sock` | the sockets: the lines under way in each direction and which ends are open |
| `proc` | helper processes before and after they bind their address |
| `g_cli`, `g_scan_owner`, `turn` | the helper's clients, its scan lock, the client its loop is at |
| `StartConnect`, `helper_spawn`, `helper_up`, `helper_dead`, `helper_release` | connecting, and the helper row |
| `on_line`, `ReadEnd`, `Write`, `Stale`, `jk_close` | `drain_in`, `pump`, `flush_out`, `jk_close` |
| `ProcBind`, `ProcFails`, `HelperCrash`, `Exit` | the life of a helper |
| `Accept`, `NoAccept`, `Disconnected`, `on_notify`, `handle_line`, `cli_close`, `CliTurn` | one pass of the helper's `main` |

Abstractions. A line is what its reader does with it; answers that only set an
error text, and progress states, are left out. Deadlines may pass at any time.
BlueZ (external) answers every question either way. A Unix socket connects at
once, so `ST_CONNECTING` does not occur; the scan command, register frames and
settings are left out.

### HttpConn

Models `http/http_pt.c`: the connection table, the buffers, keep-alive, the
idle timeout and the change of the listening socket.

| specification | code |
|---|---|
| `conns` | `h->conns[]`: state, input buffer, `last_len`, `header_len`, `content_length`, what is left to write, `close_after`; `stale` once `last_progress` is too old |
| `listen_fd`, `pending_listen_fd`, `lopen`, `backlog` | the listening sockets, the ones really open, the clients the kernel holds for each |
| `sent`, `wire`, `gone`, `link` | what clients sent, what is unread, who hung up, what became of each connection |
| `handled`, `got` | what handlers were given and replies written (history variables) |
| `conn_do_recv`, `RecvEnd`, `conn_do_send`, `SendFails`, `IdleClose`, `QuitClose` | slices of `http_conn_pt` |
| `accept_one_fd`, `SwapListen`, `mf_http_rebind_listen`, `mf_http_close_all` | the functions of those names, `http_accept_pt` |

Abstractions. Bytes are units `<<n, i>>`, the `i`-th of a client's `n`-th
request; the header fields are reduced to whether they are accepted, the length
of the body and whether the connection is to be closed. A handler is the size
of its reply. Each `read()` or `write()` is a step and moves any number of
units. The order of threads is in `Devices`, not here.

### ConfigStore and ConfigRegister

`ConfigStore` models the configuration: `config.c` (loading, seeding, the
overlay, saving), `secret.c` and the requests of `routes.c` that read or change
the document, with `config_gen`. `Devices` has the same requests with the slots
in place of the file.

| specification | code |
|---|---|
| `live`, `gen` | the running configuration and its `config_gen` |
| `file`, `temp`, `seed`, `overlay` | the state file, its `.tmp`, the configuration it is seeded from and the overlay |
| `saving` | position inside `persist_config`: before the temporary file is written, before the rename |
| `held`, `shown`, `since` | the generation and the masked document a client has read, and what happened since |
| `apart` | a save has failed since the last good one (history variable) |
| `WriteTemp`, `Rename`, `SaveFails` | `write_atomic_mode` |
| `Boot`, `Stop`, `Edit` | `mf_config_load_state` and `main`; an end at any moment; the operator's editor while the daemon is down |
| `ReadConfig`, `handle_config_put`, `handle_config_save`, `handle_config_load`, `handle_devices_create`, `handle_device_delete`, `handle_settings_put` | the handlers |
| `Shown`, `restore_secrets`, `apply_device` | masking, restoring, parsing of an entry |

An entry is a value and a secret. `ConfigRegister` is the abstract
specification: one document that is kept across restarts and replaced in one
step. `KeptAsARegister` says that `ConfigStore` implements it under the mapping
`cur` = the live document (nothing while the daemon is down) and `kept` = what
the next start will come up with: the state file, or what it would be seeded
with. The rename is the step that maps to `Keep`.

### Parts

The components that share no state with one another are specified in a module
each, with their variables, `XInit`, `XNext` and the fairness they justify.
`Parts` extends them all: in a behaviour one of them runs (`part`) and the others
stand still, so that one run checks them all, and properties that several of
them share (`AcceptedEnds`, `ReadsAgain`, `FramingExact`) are stated once. A
point in time is kept as the ticks left until it comes (`Clock`).

| module | models | what is nondeterministic | left out |
|---|---|---|---|
| `Textbelt` | `service_textbelt/plugin.c`, `textbelt/tb.c` | how each request ends, when libcurl cannot start one, requests and settings at any time | text, numbers, credits beyond their order |
| `Weather` | `service_weathergov/plugin.c`, `zcta.c` | replies, the provider's stations, the contents of a new ZIP table, settings at any time | forecasts and their fields |
| `Discover`, `ClassicModbus` | `rest/discover.c`, `charger_classic/probe.c` | which hosts answer, under which unit, when | serial and Bluetooth probes, sub-nets |
| `ClassicDriver` | `charger_classic/plugin.c` | connections and exchanges that fail, a controller that changes its unit until it settles | registers |
| `XdDriver` | `battery_xd/plugin.c`, `xd/bms_proto.c`, `usb/usb_id.c` | adapters that are plugged in, pulled out and swapped, what of their identity can be read, what a scan comes across, opens and replies that fail | fields, write actions, `sysfs` |
| `MagnumFrame` | `magnum/mag_frame.c` | any bytes, silences of both lengths, a port that is opened anew | what is inside a packet |
| `MagnumDriver` | `inverter_magnum/plugin.c`, `mag_tty.c`, parts of `mag_decode.c` | the port, who talks on the bus | fields |
| `JkSettings` | settings, actions and register writes of `battery_jk/plugin.c`, clamps of `jk_proto.c` | lost links and commands, requests in between | decoding; the link itself is in `JkHelper` |
| `JkAssembler` | `jk_assembler_feed`, the notify branch of `on_line` | notifications of any size and contents | decoding |
| `Phantom` | `phantom.c` | modules that come and go, changes of the list | the arithmetic of `average.c` |
| `PtList` | the scheduler in `protothread.h` | what a thread does in its slice, calls of signal, broadcast, kill and create at any time | resume labels and nested calls, the ready function and critical sections, which `moonflared` does not use |
| `Watermarks` | the watermarks of `history.c` | samples and their delay in the ring, queries and COMMITs that fail, renaming | columns that hold Booleans, which the file counts and `feed_marks` does not; a retention shorter than the window |
| `Tui` | `http_client.c`, the loop of `ui_screen.c`, the form's state in `device_settings.c` | keys, replies, lost connections | drawing, graphs, profiles |

`PtQueue` is the abstract specification of the scheduler: the threads that are ready
or wait on a channel, and who of them came before whom (`before`). `ListsAreQueues`
says that `PtList` implements it, where `ready` is the ready list, `waiting[c]` are
the members of `c`'s wait list whose `channel` is `c`, and `before` is read from the
pointers (`LaterOnes`). In `PtList` each turn of the loop of `pt_i_wake` is a step
(`WakeTurn`), between which nothing else happens (`NotWaking`), since the loop is
inside a critical section of the only thread there is; in the queues all that the loop
is going to move goes at once, when it begins (`ToMove`). `Devices` and `HttpConn` use
the scheduler as such queues. Two events and one thread share the first wait list
(`Crowd`), the other threads the second.

In `Watermarks` times are ages. `slipped` says that since the file was last read the
mark has left its window, was declared anew, or took a sample whose COMMIT then failed
(`feed_marks` runs before it, and `history.c:579` does not look at the result), or
that the reading itself failed (`history.c:680`: no mark until the next one); it is the exception that the
comment at `history.c:348` makes ("the minute's re-read from the file settles the
rest"). A sample whose INSERT fails never reaches the mark and is left out.

In `XdDriver` an adapter shows its by-id name and its serial number, or one of them,
or only its make, which `mf_usb_identify` turns into a serial number of its own
(`WeakKey`, `usb_id.c:222`), or nothing. Adapters without a serial number (`Blank`)
never show more than their make, and have no link in `/dev/serial/by-id` for
`mf_usb_find_by_serial` to come across. A driver that knows no identity keeps
whatever it has opened, shown or not (`usb_id.c:332` to `344`). Assumed: all adapters are of one
make; a by-id name is one adapter's own and ends in its serial number; an adapter is
not swapped within one step of the driver; and what is configured is the identity of some
adapter, or half of it.

Some of these have a variable `..._settled`: from then on the surroundings stay as
they are and answer. It is the premise of `ReadsAgain`; everything may have
happened before.

Sizes are scaled down with their proportions kept where they matter: a Magnum
packet has three bytes, a JK header two and a JK frame four in a buffer that
holds less than two frames, and the retries, queues and tables have one to three
places.

### MC modules and proofs

`MCDevices`, `MCHistory`, `MCJkHelper` and `MCHttpConn` only define the constants that a `.cfg` cannot
write (endpoint and old-row functions, the symmetry of names, uuids and
connections). `DevicesProofs`, `HistoryProofs`, `JkHelperProofs`,
`HttpConnProofs` and `ConfigStoreProofs` hold the theorems about the modules of
those names. `PartProofs` has those about `XdDriver`, `Weather`, `Tui`, `Textbelt`,
`Watermarks`, `PtList` and `PtQueue`; `FramingProofs`, which extends it, those about
`MagnumFrame` and `JkAssembler`; and `PartTypes`, which extends both, the types of
all parts.
Definitions commented "Wrong variant ..." are unused by the
specifications: each is a plausible bug that the named property must notice.

## 3. Runs

| run | what is asked | answer |
|---|---|---|
| `devices` | any clients on two connections, opens that fail, signals, crashes: `TypeOK`, `ThreadDiscipline`, `ModulesDistinct`, `NothingOpenAtUnload` | hold |
| `devices_live` | the same clients: `IdentityFixed`, `DyingDies`, `ShutdownCompletes` | hold |
| `devices_patient` | patient, distinct clients: `EnabledModulesRun`, `RunningIsConfigured`, `ConfigBoots`, `Settles` | hold |
| `devices_impatient` | `EnabledModulesRun` without patience | violated |
| `history` | one module with two old rows, all kinds of failures, restarts anywhere: `PruneThorough`, `PruneOnlyOverdue`, `MigratedWhole` | hold |
| `history_ring` | two modules on one ring, plugins, files and INSERTs that do not open, restarts anywhere: `TypeOK`, `CaptureSpacing`, `NothingUnrecorded` | hold |
| `history_resume` | `RemovedAreRetired` after an interrupted migration | violated |
| `jk` | two drivers that open and close, helpers that crash or fail to start, BlueZ that answers anything: `MacExclusive`, `OwnerPresent`, `DataIsLive`, `QuitOnlyByLast` | hold |
| `http` | one client that waits for replies, one that pipelines and may stop reading, reads and writes of any size, changes of the address, idle timeouts, a signal: `TypeOK`, `ServedInOrder`, `ListenersOwned`, `ConnectionsEnd`, `Answered` | hold |
| `config` | two clients, stale documents, saves that fail, crashes in the middle of a save, edits of the file: `SavedIsLive`, `KeptAsARegister`, `PutSeesEveryPut`, `PutBackKeepsSecrets` | hold |
| `parts` | each part by itself: `TypeOK`, `HourlyCap` (Textbelt), `StationInList` (weather), `RightSerial` (XD), `FramingExact` (Magnum, JK), `SentOnce` (terminal), `MarksTrue` (watermarks), `ListsAreQueues` (scheduler), `AcceptedEnds` (Textbelt, discovery, terminal, JK writes, ready threads), `ReadsAgain` (Classic, XD, Magnum, JK, phantom, watermarks, the weather's place, terminal) | hold |
| `tui_saved` | `TellsTheAnswer` | violated |

**Bounds.** Two uuids, two names and two connections are what every
interaction in `device.c` needs: its checks compare one module with one other,
and a race needs a module, a rival for its name or endpoint, and two requests.
`devices` has one identity, which suffices for its properties as a second one
only adds ways to stop (explored by `devices_live` and `devices_patient` with
two). Two slots make the table run full; the patient runs have four, so that a
module and its successor can both be open. In `devices_patient`
there are not enough uuids to exceed `MaxDevices`. The two passing
runs of `History` divide what one could not hold. In `history`, where everything
may fail, one module suffices, since pruning and the move of a module look at no other:
a prune batch of one row against two old rows is both full and not full, and three
points in time (2 to 4, with a period of two between prunings) make a row overdue,
put off and overdue again. In `history_ring` two modules contend for the table and
the ring, which overflows with two samples when both sample at two moments; whatever
may keep a module from being recorded fails there, and there is no old file. Writes
that fail are left to `history`, as they change neither the table nor what is
queued. That the migration, too, leaves other modules recorded is part of
`RecordedHolds`, proved for any number of modules with an old file and all failures
at once. `jk` has two
drivers, so that a reference count above one occurs and two clients contend for
the scan; with two client slots and two sockets a driver that comes back meets
its own previous client. `MaxLines` (one line under way before a sender waits;
two where the code answers a line with a line) and `MaxRef` (three, one more
than there are drivers, for references that are counted twice) bound what is
unbounded in the code. `http` has one slot for two clients, so that the table
is full and a slot is used again; a header of at most three units, a body of at
most two and a reply of at most two, with requests below, at and above each
limit; two requests per client, which is what keep-alive and pipelining need;
three listening sockets, for two changes of the address in a row.

`config` has one module, since no step of the document's path from a request to
the file compares two (`Devices` has the checks that do); two plain values, a
secret, none and the mask distinguish every outcome of a merge, a masking and a
restore; generations go up to `MaxGen` = 3, enough for a PUT or a load between a
client's GET and its own PUT, and another after it. In `parts`: two recipients,
a queue and a cap of two and an hour of two ticks fill both and empty them again,
and `MaxRecent` = 3 texts in an hour exceed the table; two places, one ZIP code
that the table has or has not and one nearby station besides a chosen one; two
hosts and two units tried, so that a scan has a rest; two
adapters, one of them without a serial number, on two paths, so that they can be
swapped, of which one is configured (`FirstPaths`; the other would only be its mirror
image); two adapters with one serial number are left to `RightSerialHolds`;
two models and two stack roles; a write queue of
three places against two requests (`MaxPuts`) of up to three registers; buffers
of five bytes against notifications of up to three (`NOTIFY_MAX`), which
overflow; three threads, the fewest with a first, a middle and a last one in a
list, and two events; a window of three time units, read every two, with samples
that are late by one and three values; three keys of the user (`MaxKeys`): open, change and save, or save
twice.

**Fairness.** `WF_vars(Daemon)`: `select()` has a 50 ms timeout and no slice
blocks, so the process goes on by itself. Nothing is assumed of clients,
signals, crashes or restarts; in particular no request need ever come. FIFO
order in `ready` does the rest, and no fairness per thread is needed.
`HttpConn`, where threads are not queued, has weak fairness for each
connection's slices and the acceptor's, for the same reason; writing a reply is
fair only for clients that read (not in `Deaf`). That time passes
(`TimePasses`) is a premise of `ConnectionsEnd` alone: `Answered` must hold
without the idle timer. It does not hold for clients that pipeline: a second
request that is already in the buffer is parsed only after another successful
`read()` (`conn_keep_alive_reset`), so it waits for more bytes or the timeout;
nothing in the repository promises otherwise. In `Parts` the loop steps the part
that runs and time passes, both weakly fair for the reason above; a request under
way ends (`AnswersCome`), since libcurl's timeout is set for every one; the
weather module can start a request again and again, and the scheduler's loop comes back
to `protothread_run`, and to the end of a slice, from every call of `pt_i_wake` (strong
fairness, `Returns`: starting fails only for want of memory, and a slice that
signals for ever would block the daemon). A device need not answer: that it does is the
premise of `ReadsAgain`, `settled`. For the terminal this includes that a poll is
answered before the next one is due: a slower daemon's replies are dropped, since
the next request forgets a body that was not taken (`http_client.c:299`).
`History`, `JkHelper` and `ConfigStore` state no liveness.

**What the violated runs show.**

- `devices_impatient`. `device.h:47` says a change that must wait for a
  stopping module is left pending. A DELETE followed by a PUT of a document
  that still has the module (read before, and not refused because DELETE does
  not raise `config_gen`) finds the slot stopping: the first loop of
  `mf_devices_apply_config` patches it, the ADD loop skips it since the slot is
  still in use, and the branch that would queue it cannot be reached. The
  module is enabled in the saved configuration and does not run.
- `history_resume`. `README.md:203` says that an interrupted migration resumes
  and that removed modules' files are marked retired. The resumed run registers
  such a module, which clears the mark, and returns at the `migrated` flag
  without setting it again.
- `tui_saved`. `CHANGELOG.md:502` says that Save "shows the daemon's answer". The
  loop takes any reply that looks like settings for it: the form's own GET, which
  was under way when the PUT was queued behind it, or an older body that is
  dispatched again when the connection changes its state. "Settings saved." is
  shown, and the form is marked unchanged, while the daemon may yet refuse.

## 4. Proofs

In `DevicesProofs`, for every number of slots, entries, uuids, names,
identities and connections, and (1 to 4) for every kind of client. Assumptions
(`Devices`): sizes are natural numbers, the acceptor, connections and slots are
distinct threads, `None` is none of the values it stands beside, and the three
mode constants are Booleans.

1. `TypeCorrect`: `Spec => []TypeOK`. One lemma per group of actions
   (`TypeSlices`, `TypePut`, `TypeRequests`, `TypeAdd`, `TypePending`,
   `TypeMain`) above lemmas on the operators that build new values.
2. `ModulesUnique`: `ModulesDistinct`, that is, uuids of slots in use and names
   of running modules are unique. They are not inductive
   alone: a pending entry must be filed under its own uuid (`PendingKeyed`),
   else reopening it could duplicate another module; and a PUT renames slots
   one by one, so the proof needs that the *document* is valid and that every
   slot left running has taken its name from it (`PatchSlotCases`).
3. `DisciplineHolds`, the inductive invariant of the queues: neither queue
   holds a thread twice nor do both hold the same one, a slot is in use exactly
   while its thread is queued, and what the queues may contain depends on the
   phase (nothing when the process is off, no parked thread while draining).
   `ThreadDisciplineHolds` and `UnloadSafe` follow from it.
4. `IdentityFixedHolds`, an action property: no step changes the uuid or the
   identity of a slot that stays in use; opening needs a free slot.
5. `ConfigBootsHolds`: `ConfigBoots`, if clients are `Distinct`: what a handler
   saves passes the checks of the next start. A new module is checked against the
   slots and never against the document, hence the hypothesis (section 5 says what
   happens without it). `BootsInv` also says that a document being applied is
   valid; lemmas on `cfg_remove_uuid`, the upsert and the rename say which entries
   they keep.
6. `EnabledRunHolds` and `RunningConfiguredHolds`: `EnabledModulesRun` and
   `RunningIsConfigured`, if `Careful` (patient, distinct clients and plugins that
   open, as in the run `devices_patient`) and `RoomForAll` (no more uuids than the
   configuration has entries and the table has slots, by the pigeonhole theorem of
   the library). What is to be shown holds only when nothing is stopping or
   pending; `FaithInv` says what holds in between. `Agreed` relates four things:
   the slots, `g_pending`, the document being carried out, and the part of it the
   ADD loop has not reached. Every enabled entry runs, or waits in `g_pending`, or
   is still ahead with no slot of its uuid in the way; nothing else runs or waits.
   It is claimed until a signal has been noticed. TLC checked `FaithInv` on the
   states of `devices_patient` before it was proved. `RoomForAll` is a real
   restriction: the source has 16 entries and 32 slots, and a seventeenth module
   runs without being saved (section 5).

In `HistoryProofs`, for any modules, table, ring and batch sizes, policies, old
rows and times (assumptions of `History`: sizes are positive, policies and times
natural numbers, `None` is none of the values it stands beside):

1. `TypeCorrect`: `TypeOK`, from `TypeInv`, which adds that the queued samples
   are samples and that every entry of `g_mod` is unused or whole.
2. `MigratedHolds`: `MigratedWhole`, whichever kinds of failure there are. `MigInv` says in addition where a migration
   may stand, for every module outside `unseen`: its file is flagged exactly when its rows have been copied, and then once; the
   one being copied is not flagged; and a module that is neither left to do nor being
   copied is flagged, unless something failed that the code was told of. What the
   steps may do to one module is in `MigrateOneFacts` and `CommitFacts`.
3. `PruneOnlyOverdueHolds`: the action property `PruneOnlyOverdue`; only a prune
   slice takes rows away, and the cut it makes (`prune_module`) is compared with the
   policy of that moment.
4. `SpacingHolds`: `CaptureSpacing`. `RingInv` relates the ring to the table
   (`RingTable`: the entry of a queued sample's module has a `last_ts` no earlier
   than it) and orders it (`RingTimes`). An entry is given up with none of its samples
   queued: `mf_history_retire` has written the ring, and a migration closes only
   entries that it has opened itself.
5. `RecordedHolds`: `NothingUnrecorded`, without hypotheses: the table may be too
   small and files may not open. The inductive `LiveInv` follows the modules that need a
   file (`Needs`): those that run and those with queued samples. A registration leaves the others'
   slots alone and keeps a slot that is there (`PlacedFacts`); a retirement has written the whole ring
   before it closes one (`DrainNeeds`); a migration closes only slots that it has opened
   itself, which nobody needs.
6. `PruneThoroughHolds`: `PruneThorough`, for any kinds of failure, under the hypothesis `RingDrains`, that a
   full ring is flushed before the shortest policy is over. `PruneInv` bounds how
   long a sample can have waited by its place in the ring (`Waiting`) and
   extends the property to samples on their way to the file (`Thorough`). The
   hypothesis is needed: with a ring of four, one row a pass and a policy of one unit
   TLC finds a row that reaches the file already overdue. In the source a ring of
   1024 samples is flushed by 32 rows a pass (`history.h:42`, `moonflared.c:422`) and
   policies are in days.

In `JkHelperProofs`, for any drivers, client slots, sockets and processes
(assumptions of `JkHelper`: bounds are natural numbers, `None` is no driver, socket
or process). The inductive invariant `IInv` has the types, `MacExclusive`,
`OwnerPresent`, `DataIsLive`, and three more: a free client slot is blank
(`SlotInv`), a driver that is off has no socket (`OffInv`), and the count of
references is not below the number of drivers that have shaken hands (`CountInv`).

1. `MacExclusiveHolds` and `OwnerPresentHolds`: each of the helper's steps is one of
   five kinds of change of its table (`TableStep`: none, a client is served, taken
   on or dropped, or the table is emptied), and the properties are proved of the kinds.
2. `DataIsLiveHolds`: every way to lose a link clears `have_data` with
   `handshake_ok`.
3. `QuitOnlyByLastHolds`, an action property: who says quit has brought the count
   to zero, and by `CountInv` no other driver is connected. The count may be too high
   (section 5), never too low.

In `HttpConnProofs`, for every number of clients, slots and sockets and all limits
(assumptions of `HttpConn`: limits are positive, requests are requests, `None` is
neither socket nor client):

1. `ListenersHold`: `ListenersOwned`. The inductive invariant adds that the socket in
   use is not also the pending one, else taking it over would close it.
2. `ServedInOrderHolds`: `ServedInOrder`, and `TypeCorrect`: `TypeOK`. The invariant
   `HttpInv` has, besides types, that a client is in one slot (`SlotInv`) or in one
   queue (`QueueInv`), and `Talk` for each connection: what is in its buffer followed
   by what is unread is a `Stream`, the units of the client's requests but for those
   already handled, each whole and in order; in the state `body` the buffer begins
   with a request whose header and length are those that were parsed, and in `send`
   the reply under way is the one to the last request. Lemmas on streams (what a read
   appends, what dropping a request leaves) carry the steps.

In `ConfigStoreProofs`, for any modules, values, secrets and number of
generations (assumptions of `ConfigStore`: the special values are distinct and
`MaxGen` is a positive natural number):

1. `Invariance`: the inductive invariant `IInv` = `TypeOK`, `SavesTheLive` (a
   temporary file that is about to be renamed holds the live document: no request
   is served inside a save), `SavedIsLive` and `HeldIsOld` (a generation that a
   client holds is not above the current one, and below it if there was a PUT
   since). `TypeCorrect` and `SavedHolds` follow.
2. `Refinement`: `Spec => KeptAsARegister`, by `InitRegister` and `NextRegister`.
   `SavesTheLive` is what makes the rename a step of the register; every other step
   leaves both of its variables, or is its step of the same meaning.
3. `PutsHold`: `PutSeesEveryPut`, from `HeldIsOld`: a PUT that is accepted names
   the current generation, so there was no PUT since.
4. `SecretsKept`: `PutBackKeepsSecrets`, from a second invariant, that a document
   a client has read shows no secret but as its mask.

In `PartProofs`, for any threads, events and hash (assumptions of `PtList`: `NULL` is
neither thread nor event, and no thread is an event), about `PtSpec`:

1. `ListsAreRings`: the inductive invariant `PtInv`. It says that there are sets
   `on[l]`, the threads on each list, and `lat[t]`, those that came to `t`'s list after
   it, such that (`Shape`) each `on[l]` is ordered by `lat` and `next` leads round it in
   that order (`Ring`); (`Sound`) who is on a list is alive and not running, and waits,
   if at all, on the list of its channel; (`Walks`) the loop of `pt_i_wake` is on the
   list that it walks and has passed only threads that wait for something else.
   `RingLink` and `RingUnlink` are about one list, `LinkState` and `UnlinkState` about all
   of them, `Determined` says that following the pointers finds `on` and `lat`.
2. `ListsAreQueuesHolds`: `PtSpec => ListsAreQueues`, one lemma per action (`CreateStep`
   to `KillStep`). `Came` is the order in terms of `on` and `lat`; `Comes`, `Leaves` and
   `Starts` are what linking, unlinking and the beginning of a wake do to it. A turn of
   the loop is not seen: `PassesStep`, and `MovesStep`, by `Moves`: who is moved next is
   the oldest of those that are to be moved, also on the second round that the loop
   makes when the newest of the list has been unlinked.

Also in `PartProofs`, about the behaviours of one part by itself (`XdSpec`, `WxSpec`,
`TuiSpec`, `TbSpec`), which is what a behaviour of `Parts` in which that part runs is:

1. `RightSerialHolds`: `RightSerial`, for any adapters (any of them may share a
   serial number, and any have none), paths and configurations, and whatever of an identity can be read (assumption: `Nothing` is no adapter and no
   serial number). What an adapter may show of itself (`Shows`) is its own serial number,
   its make's or none. `XdInv` adds that an open descriptor is an adapter that may have the number the driver knows
   (`Right`, `SerialKeys`), that a by-id name that is known goes with that number (`IdFits`), and that
   the driver never takes up another one (`wanted`).
2. `StationInListHolds`: `StationInList` (assumption: durations and sizes are natural
   numbers, and there is a longest number of days). `StationListed` is inductive with the types
   of the context; each handler is shown to keep it.
3. `SentOnceHolds`: `SentOnce`, for any number of keys, timeouts and retries. The
   invariant `Once`: a change that has not gone out waits in one place, as the pending
   request or as the form's waiting PUT, and one that has gone out in none. A step of
   the loop either sends it, which empties the place, or is `Harmless`: it moves or drops
   what waits.
4. `HourlyCapHolds`: the action property `HourlyCap`, for any sizes, periods and caps
   (assumption: the hour is not empty).
   The invariant `TbInv`: the module's table is the newest `TB_RATE_MAX` of the texts of
   the last hour, oldest first, and the cap is at most `TB_RATE_MAX`. `NewestConcat` says that this remains so when texts are
   noted, `AgeNewest` when time passes: what is too old is at the front of both. So
   a table with room for more has forgotten nothing, and a full one refuses. The lemmas on
   what remains of a sequence that has aged rest on `Least`, that a set of naturals has
   a least member.
5. `MarksHold`: `MarksTrue` for any window, values, lag and reading period
   (assumption: a sample waits in the ring for less than the window). The inductive
   invariant `WmInv` (`WmInvariance`) adds the types, that there is one row of an age,
   and that a mark's age is bounded by the window and the time since the last
   reading, of which the bound in `MarksTrue` is the maximum; one lemma per action.
   The step that needs thought is `WmInsertKeeps`: a sample that beats the mark beats
   what the mark was not beaten by, and one that is lost can only have made the mark better
   than the file, which `slipped` then says.

In `FramingProofs`, about `Parts`, for any models, number of bytes before the inverter is
learned anew, packets that can be held, and sizes of the assembler's buffer and of
notifications (assumptions: the numbers are natural, and the buffer holds more than
a frame): `FramingExactHolds`, that is `FramingExact`.

1. Both framers are loops over a buffer, written as recursive functions over the
   states they may be in (`Framers`, `Assemblers`). That such a function is the loop it is
   written as is proved from a measure that falls in every turn: `LoopInduction` is
   induction over the loop (what holds where it stops, and before a turn when it holds
   behind it, holds wherever it starts), from the least counterexample, and
   `LoopExists` takes for each state the one at which its turns end. The measures are the bytes that wait (`DrainOneLoop`) and `Work`, twice the bytes that wait and one
   more outside of `hunt`, where a turn may only change the state (`TurnIs`).
2. The invariants `FrInv` and `AsmInv`: what was read and neither passed on nor counted is
   what is held or waits (`Balance`), and a known inverter is one of the models
   (`Known`); less than a frame waits in an assembler that has not overflowed. One lemma
   for each thing a turn may do says what it does to the account.
3. That two bytes may come together or one by one is `LateByte`: a byte that comes
   after the loop has stopped makes what it makes when it is there from the start, by
   induction over the loop. A turn that makes progress makes the same with more
   bytes behind the buffer (`TurnLonger`); the exception is a hunt that finds no
   inverter packet (`Starved`): with the late byte it skips the same, to a packet that
   this byte completes, or what it would skip in two turns (`StarvedByte`,
   `SkipTwice`). It is here that a stray byte which is not waited for
   fails (`after_inv_hasty`). For the assembler the same is proved by cases of what the
   few bytes are.

In `PartTypes`, about `Parts`, `PartsTypesHold`: `Spec => []TypeOK`, for all thirteen parts
and every value of their constants.

1. A behaviour of `Parts` is one of the part that runs (`RunsAlone`), so that an invariant
   for each part, `PartInv`, makes one of `Parts` (`PartStarts`, `PartKeeps`), from which
   the part's type follows (`PartTyped`). The proofs before this one have the
   invariants of XD, weather, the terminal, the framers, the scheduler and the watermarks;
   the others are given here, and Textbelt's has its context added to it (`TbShapes`).
2. Where a type is not inductive alone. JK (`JkInv`): a protection shown is within
   its limits because every command that waits, in the queue or in the output, and every
   frame on its way is (`Commands`, `BmsContext`); whatever a client asks
   for is clamped before it is queued (`PutOvpTypes`). Magnum (`FrInv`, in
   `FramingProofs`): at most a packet waits between two calls, and what is held fits in
   its array (`Bounded`), because the loop stops only at a turn that waits, and no turn
   waits with more than a packet there. Discovery (`DiscInv`): no host is a candidate twice, so that
   there are no more candidates than hosts (`CandidatesDistinct`); that filling the
   sockets keeps the table's type is an induction over the candidates (`FillType`,
   by `TurnsKeep`, of recursive functions that count turns).
3. Assumptions on constants, each named in the module that declares them: durations,
   sizes and limits are natural numbers; a lower limit is not above the upper one
   (`OVP_MIN`, `BACKOFF_MIN`); there is at least one unit to try and one socket to try it
   with; there is a longest period that a client can set; hosts and modules are finitely
   many; a Magnum port that another module has is not looked at more often than one that is free
   (`REOPEN_S <= OWNED_RETRY_S`, 2 s and 10 s in the code).

Every safety invariant and action property that a passing run checks is thus also a
theorem. Only model-checked are the liveness properties (`DyingDies`,
`ShutdownCompletes`, `Settles`, `ConnectionsEnd`, `Answered`, `AcceptedEnds`,
`ReadsAgain`), which need fairness and `ENABLED` and are beyond the prover, and the three
violated runs, whose counterexamples are small instances by nature.

## 5. What is not modelled

Never to be modelled: drawing and layout of the terminal client, the command
line client, dynamic loading, reading sysfs, vendored libraries - pure I/O or
not the program's own logic - and the demo plugin. The decoding of fields (JK,
XD, Classic, Magnum), averages and totals are arithmetic over many fields that no
property here distinguishes. Not modelled yet: history columns and queries,
the client's connection profiles, the serial and Bluetooth probes, XD's write
actions.

What the code does that no run states, found while modelling:

- Modules. A failed open leaves its history registration behind
  (`device.c:524`); a module deleted while it stops for a new identity is not
  retired (`device.c:1196`); a PUT may move an endpoint to a module that opens
  it while its former owner is still stopping on it (`device.c:1130`); two POSTs
  may share an endpoint, against `PLUGINS.md:185`, and the saved document is then
  refused at the next start (`device.c:424`); the configuration holds 16 modules
  and the table 32 slots, so that modules beyond the 16th run but are not saved.
  After `MF_STEP_ERROR` the next step that has nothing to do makes the module
  online again with its old reading (`device.c:291`).
- Configuration. GET followed by PUT erases the Bluetooth password, which is not
  among the settings that are restored (`routes.c:1196`); a mask that comes back
  after its secret was cleared is stored as the secret; `config_gen` starts at 1
  again with every start, so that a document read before a restart may be
  accepted after it; nothing is fsynced before the rename (`config.c:798`).
- History. `migrate_one` does not look at the result of its COMMIT
  (`history.c:859`): when it fails, on a full disk for instance, the rows and the mark
  of that module are rolled back, the number of rows is returned all the same, and
  `mf_history_migrate` renames the old file, which no later start looks at, although
  `history.h:115` has "Each module is copied in one transaction and marked, so an
  interrupted run resumes; when all are done the old file is renamed". An error of
  `sqlite3_step` ends the loop over the rows (835) or over the modules (889) like its
  last row, with the same end. All of it is in the model, and `MigratedWhole` says
  what remains true: the code is right about every failure that it is told of. A
  DELETE that fails puts a module's pruning off by an hour with its
  backlog left (`history.c:632`): `PruneThorough` excepts the entry until it is looked at
  again. A module whose registration failed runs unrecorded until it is registered
  again (`device.c:188`); if the old file knows it, the migration registers it as
  one that was removed, and so marks its file retired and closes it while it runs. A module
  whose `migrated` flag cannot be read is copied twice. Sample times come from the settable clock; a watermark that leaves its
  window stays on show until the next sample or reading, where `routes.c:323` has
  "null while no sample in the window counts", and is then replaced by the newest
  sample, also by a lower one than others in the window (`history.c:370`).
- JK. A helper may be left running with nobody to tell it to quit, against
  `PLUGINS.md:378` ("Kill your helper in `close()`"): `on_line` counts the reference
  again when a lost link is found again (`plugin.c:419`), since `mark_dropped` clears
  `handshake_ok` and gives nothing back, so that the last driver writes `disconnect`;
  and a driver that is closed before its helper has answered has no session to say
  `quit` over (`plugin.c:702`). Both are in the model; `QuitOnlyByLast` is about the
  other direction, a helper that is ended under another driver. A PUT of the requested voltage before the first frame of settings shows a
  protection of 0 V and lets a later PUT write the lowest one
  (`plugin.c:978`); a notification that does not fit jams the assembler
  (`jk_proto.c:185`), for good unless an empty one comes; a helper that dies while
  the link is down is not replaced (`plugin.c:147`).
- Classic. Once a unit id has answered every new connection returns to it
  (`prefer_unit_ok`): a controller that gets another id is not found until the module
  is opened again. `ReadsAgain` excludes this case (`ClAnswering`).
- XD. The descriptor stays open after an I/O error; two adapters with the same
  serial number are taken for each other, when the by-id name does not say which is meant, and adapters without one always
  (`RightSerial` speaks of serial numbers, and of none that is only a make).
- Discovery. A job that has nothing to do is never reported as ended
  (`discover.c:210`), and later requests are refused; `AcceptedEnds` is about jobs
  that have something to do.
- Textbelt. `put_settings` reads the check period from a document that has been
  freed; texts stay queued when the key is removed.
- Weather. A place that is set while the address of another is asked for gets that
  one's forecast until the next lookup (`ReadsAgain` shows that it does not stay); a
  document that is refused has already changed the poll interval.
- Terminal. A settings reply of one module may fill the form of another; adding a
  module has no deadline; edits made while a save is under way are marked as saved;
  deleting the default profile, or renaming it, leaves a default that does not exist.

## 6. Plan

Connection profiles of the terminal client; XD's write actions; the serial and
Bluetooth probes, beside the Classic's.
