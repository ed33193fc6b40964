------------------------------ MODULE History ------------------------------
(***************************************************************************)
(* The history store of moonflared: one SQLite file per module, the table  *)
(* g_mod[] of open files, the ring of samples waiting to be written, the   *)
(* slices the main loop gives to writing and pruning, and the move of the  *)
(* old shared history.sqlite into the per-module files at start-up.        *)
(*                                                                         *)
(* device.c drives it: `dev` is what the slot table of module Devices says *)
(* of each uuid.  A row is its time stamp; readings, columns, watermarks   *)
(* and the metadata other than retired_ts and migrated are left out.  A    *)
(* time unit is shorter than every interval, and the clock never steps     *)
(* back.                                                                   *)
(*                                                                         *)
(* What SQLite is asked for may fail, where the code looks at the result   *)
(* and where it does not.  MayFail says which: "open", a plugin, a file or *)
(* its INSERT does not open; "write", a sample, a COMMIT, a DELETE, a      *)
(* piece of metadata or the rename is lost; "read", a read of the old file *)
(* or of a flag ends early.  A COMMIT that fails rolls its transaction     *)
(* back, as SQLite does.  `refused`, `unseen` and the field `missed` are   *)
(* the specification's own: they note which failures have happened.        *)
(***************************************************************************)
EXTENDS Naturals, Sequences, FiniteSets

CONSTANTS
    Uuids,       \* modules; every one of them captures
    MaxModules,  \* MF_HISTORY_MAX_MODULES
    RingCap,     \* MF_HISTORY_RING_CAP
    FlushRows,   \* rows the main loop writes per pass
    PruneRows,   \* rows the main loop deletes per pass
    PruneEvery,  \* MF_HISTORY_PRUNE_EVERY_S
    Interval,    \* capture_interval_s
    Keeps,       \* retention policies, 0 = forever
    KeepDefault, \* the policy of the capture spec
    OldRows,     \* uuid -> its rows in the shared file, {} if it has none
    FirstTime,   \* the clock at the start of the runs
    MaxTime,     \* bound on the clock
    None,        \* "no such thing"
    MayFail      \* what may fail: "open", "write", "read"

Mods == 1 .. MaxModules
Times == 0 .. MaxTime

ASSUME BoundAssumption ==
    /\ {MaxModules, RingCap, FlushRows, PruneRows, PruneEvery} \subseteq Nat \ {0}
    /\ MaxTime \in Nat /\ FirstTime \in Times /\ Interval \in Nat \ {0}
ASSUME KeepAssumption == Keeps \subseteq Nat /\ KeepDefault \in Nat
ASSUME OldAssumption == OldRows \in [Uuids -> SUBSET Times]
ASSUME AbsentAssumption ==
    None \notin Uuids \union Nat \union [uuid : Uuids, was_registered : BOOLEAN]
ASSUME FailAssumption == MayFail \subseteq {"open", "write", "read"}

VARIABLES
    g_mod,    \* the open files
    refused,  \* uuids whose last registration by device.c failed (it warned)
    unseen,   \* uuids whose migration met a failure that the code passes over
    ring,     \* samples waiting to be written, oldest first
    rows,     \* uuid -> the rows of its file
    retired,  \* uuids whose file carries retired_ts
    copied,   \* uuid -> how often all its old rows were copied into its file
    flagged,  \* uuids whose file carries the migrated flag
    shared,   \* the old file is still at its old path
    dev,      \* uuid -> the state of its module
    conf,     \* the uuids of the saved configuration
    pc,       \* where the main thread is
    todo,     \* modules the start-up has not opened, or not yet migrated
    failed,   \* migrating some module failed
    cur,      \* the module whose old rows are being copied, or None
    at,       \* prune_slice: the next slot
    left,     \* prune_slice: rows it may still delete
    now       \* time(NULL)

disk == <<rows, retired, copied, flagged, shared>>
loop == <<pc, todo, failed, cur, at, left, now>>
notes == <<refused, unseen>>
vars == <<g_mod, ring, disk, dev, conf, loop, notes>>

\* A slot of g_mod; Unused is the value of one that is not.  ins: its INSERT is
\* prepared; missed: its next pruning was put off by a DELETE that failed.
Unused == [uuid |-> None, last_ts |-> None, keep |-> 0, next_prune |-> 0,
           ins |-> FALSE, missed |-> FALSE]
Mod == [uuid : Uuids, last_ts : Times \union {None}, keep : Keeps \union {KeepDefault},
        next_prune : Nat, ins : BOOLEAN, missed : BOOLEAN]
Sample == [uuid : Uuids, ts : Times]
Phases == {"off", "boot", "migrate", "run", "flush", "prune"}
Fails(kind) == kind \in MayFail
OldUuids == {u \in Uuids : OldRows[u] # {}}
Often == 2  \* where `copied` stops counting: more than once

----------------------------------------------------------------------------
(* The table of open files. *)

Holds(m, u) == g_mod[m].uuid = u
find_mod(u) == \E m \in Mods : Holds(m, u)
FirstUnused(m) ==
    /\ g_mod[m] = Unused
    /\ \A k \in 1 .. m - 1 : g_mod[k] # Unused
TableFull == \A m \in Mods : g_mod[m] # Unused

CanRegister(u) == find_mod(u) \/ ~TableFull

\* The table in which u has its slot, sync_columns having worked or not.
Placed(u, works) ==
    IF find_mod(u)
    THEN [m \in Mods |->
            IF Holds(m, u)
            THEN [g_mod[m] EXCEPT !.ins = works,
                                  !.next_prune = IF works THEN 0 ELSE @,
                                  !.missed = IF works THEN FALSE ELSE @]
            ELSE g_mod[m]]
    ELSE [m \in Mods |->
            IF FirstUnused(m)
            THEN [uuid |-> u, last_ts |-> None, keep |-> KeepDefault, next_prune |-> 0,
                  ins |-> works, missed |-> FALSE]
            ELSE g_mod[m]]

\* What mf_history_register may leave.  It works: the INSERT is prepared, retention
\* is looked at in the next slice, and the file is no longer marked retired, unless
\* that one write is lost.  It fails: the table is full or the file does not open;
\* a column is not made, which leaves an older INSERT in place; the INSERT is not.
mf_history_register(u) ==
    {[mods |-> Placed(u, TRUE), retired |-> marks, ok |-> TRUE] :
        marks \in IF ~CanRegister(u) THEN {}
                 ELSE {retired \ {u}} \union IF Fails("write") THEN {retired} ELSE {}}
    \union
    {[mods |-> mods, retired |-> retired, ok |-> FALSE] :
        mods \in IF ~CanRegister(u) THEN {g_mod}
                ELSE IF Fails("open") THEN {g_mod, Placed(u, FALSE)} ELSE {}}

\* mf_history_set_retention.
SetKeep(mods, u, k) ==
    [m \in Mods |-> IF mods[m].uuid = u
                    THEN [mods[m] EXCEPT !.keep = k, !.next_prune = 0, !.missed = FALSE]
                    ELSE mods[m]]

\* close_mod
CloseMod(mods, u) == [m \in Mods |-> IF mods[m].uuid = u THEN Unused ELSE mods[m]]

----------------------------------------------------------------------------
(* Capture. *)

\* Wrong variant of Due: no downsampling.
AlwaysDue(mods, m) == TRUE
\* mf_history_enqueue of a sample taken now, as refresh_reading queues it:
\* nothing for a module that is not registered or inside its interval.
Due(mods, m) ==
    mods[m].last_ts = None \/ now - mods[m].last_ts >= Interval
DueMods(mods, u) == {m \in Mods : mods[m].uuid = u /\ Due(mods, m)}

Stamp(mods, u) ==
    [m \in Mods |-> IF m \in DueMods(mods, u) THEN [mods[m] EXCEPT !.last_ts = now]
                    ELSE mods[m]]

\* Wrong variant of Push: the ring grows beyond its array.
PushAlways(s) == Append(ring, s)
\* The ring drops its oldest sample when it is full.
Push(s) ==
    IF Len(ring) = RingCap THEN Append(Tail(ring), s) ELSE Append(ring, s)
Queue(mods, u) ==
    IF DueMods(mods, u) = {} THEN ring ELSE Push([uuid |-> u, ts |-> now])

\* mf_history_flush_slice: the oldest n samples leave the ring; those of a module
\* with an INSERT are written, in one transaction per file, but for those that an
\* INSERT or a COMMIT loses.
Lesser(a, b) == IF a < b THEN a ELSE b
Flushed(n) == Lesser(n, Len(ring))
Losses(n) == IF Fails("write") THEN SUBSET (1 .. Flushed(n)) ELSE {{}}
CanInsert(u) == \E m \in Mods : Holds(m, u) /\ g_mod[m].ins
RowsAfterFlush(n, lost) ==
    [u \in Uuids |->
        rows[u] \union {ring[i].ts : i \in {k \in (1 .. Flushed(n)) \ lost :
                                            ring[k].uuid = u /\ CanInsert(u)}}]
RingAfterFlush(n) == SubSeq(ring, Flushed(n) + 1, Len(ring))

----------------------------------------------------------------------------
(* What device.c does, in a slice of a module or a connection thread.      *)

Serving == pc = "run"

\* history_register of device.c: a failure is logged, and the module goes on.
history_register(u, r) ==
    /\ r \in mf_history_register(u)
    /\ retired' = r.retired
    /\ refused' = IF r.ok THEN refused \ {u} ELSE refused \union {u}

\* mf_devices_add from a POST, a PUT or the pending queue: the module is
\* registered, its plugin opens, and its first reading is queued.
OpenModule(u, k) ==
    /\ \E r \in mf_history_register(u) :
           LET mods == SetKeep(r.mods, u, k)
           IN  /\ history_register(u, r)
               /\ g_mod' = Stamp(mods, u)
               /\ ring' = Queue(mods, u)
    /\ dev' = [dev EXCEPT ![u] = "live"]
    /\ UNCHANGED <<rows, copied, flagged, shared, failed, cur, at, left, now, unseen>>

\* The plugin does not open: the slot is given back, but the module stays
\* registered with the history store.
OpenFails(u, k) ==
    /\ Fails("open")
    /\ \E r \in mf_history_register(u) :
           history_register(u, r) /\ g_mod' = SetKeep(r.mods, u, k)
    /\ UNCHANGED <<ring, rows, copied, flagged, shared, dev, failed, cur, at, left, now, unseen>>

mf_devices_add(u, k) ==
    /\ Serving /\ dev[u] = "off"
    /\ \/ OpenModule(u, k) /\ conf' = conf \union {u}
       \/ OpenFails(u, k) /\ conf' \in {conf, conf \union {u}}
    /\ UNCHANGED <<pc, todo>>

\* A PUT that keeps the module's identity, or a new name: it is registered
\* again, also when its thread is already stopping.
PatchModule(u, k) ==
    /\ Serving /\ dev[u] # "off"
    /\ \E r \in mf_history_register(u) :
           history_register(u, r) /\ g_mod' = SetKeep(r.mods, u, k)
    /\ conf' = conf \union {u}
    /\ UNCHANGED <<ring, rows, copied, flagged, shared, dev, loop, unseen>>

\* Wrong variant of mf_history_retire: the queued samples are not written.
RetireNoFlush(u) ==
    /\ retired' = IF find_mod(u) THEN retired \union {u} ELSE retired
    /\ g_mod' = CloseMod(g_mod, u)
    /\ UNCHANGED <<rows, ring>>
\* mf_history_retire: the whole ring is written, the file is marked, if that write
\* is not lost, and closed.
mf_history_retire(u) ==
    IF ~find_mod(u) THEN UNCHANGED <<g_mod, rows, ring, retired>>
    ELSE /\ \E lost \in Losses(RingCap) : rows' = RowsAfterFlush(RingCap, lost)
         /\ ring' = RingAfterFlush(RingCap)
         /\ \/ retired' = retired \union {u}
            \/ Fails("write") /\ retired' = retired
         /\ g_mod' = CloseMod(g_mod, u)

\* A DELETE, or a PUT that drops or disables the module.
RemoveModule(u) ==
    /\ Serving /\ u \in conf
    /\ IF dev[u] = "live" THEN mf_history_retire(u)
       ELSE UNCHANGED <<g_mod, rows, ring, retired>>
    /\ dev' = IF dev[u] = "off" THEN dev ELSE [dev EXCEPT ![u] = "dying"]
    /\ conf' = conf \ {u}
    /\ UNCHANGED <<copied, flagged, shared, loop, notes>>

\* A PUT that changes the module's identity stops it without retiring it.
ReplaceModule(u) ==
    /\ Serving /\ dev[u] = "live"
    /\ dev' = [dev EXCEPT ![u] = "dying"]
    /\ UNCHANGED <<g_mod, ring, disk, conf, loop, notes>>

\* device_pt: the last slice.
ModuleExit(u) ==
    /\ Serving /\ dev[u] = "dying"
    /\ dev' = [dev EXCEPT ![u] = "off"]
    /\ UNCHANGED <<g_mod, ring, disk, conf, loop, notes>>

\* device_pt: a step with a new reading.
ModuleStep(u) ==
    /\ Serving /\ dev[u] = "live"
    /\ g_mod' = Stamp(g_mod, u)
    /\ ring' = Queue(g_mod, u)
    /\ UNCHANGED <<disk, dev, conf, loop, notes>>

\* handle_settings_put of retention_days.
mf_history_set_retention(u, k) ==
    /\ Serving /\ dev[u] = "live"
    /\ g_mod' = SetKeep(g_mod, u, k)
    /\ UNCHANGED <<ring, disk, dev, conf, loop, notes>>

----------------------------------------------------------------------------
(* The slices of the main loop. *)

PassEnds ==
    /\ pc = "run"
    /\ pc' = "flush"
    /\ UNCHANGED <<g_mod, ring, disk, dev, conf, todo, failed, cur, at, left, now, notes>>

mf_history_flush_slice ==
    /\ pc = "flush"
    /\ \E lost \in Losses(FlushRows) : rows' = RowsAfterFlush(FlushRows, lost)
    /\ ring' = RingAfterFlush(FlushRows)
    /\ pc' = "prune" /\ at' = 1 /\ left' = PruneRows
    /\ UNCHANGED <<g_mod, retired, copied, flagged, shared, dev, conf, todo, failed, cur, now,
                   notes>>

\* The rows of a file that its policy no longer keeps.
Overdue(m) == {t \in rows[g_mod[m].uuid] : t + g_mod[m].keep < now}
\* The n oldest of a set of rows.
Oldest(n, S) == {t \in S : Cardinality({x \in S : x < t}) < n}

\* Wrong variant of PutOff: a full batch is taken for the end of the backlog.
AlwaysPutOff(n) == TRUE
\* After a full batch the module is due again in the next slice.
PutOff(n) == n < left

\* Wrong variant of Gone: "forever" is taken for "no time at all".
GoneAtOnce(m) == Oldest(left, Overdue(m))
\* The rows that prune_module deletes.
Gone(m) == IF g_mod[m].keep = 0 THEN {} ELSE Oldest(left, Overdue(m))

Postponed(m, missed) ==
    [g_mod EXCEPT ![m].next_prune = now + PruneEvery, ![m].missed = missed]

\* prune_module of a module that is due.  If the DELETE is not prepared, the module
\* stays due; if it fails when it is run, that counts as no rows, fewer than a batch.
prune_module(m) ==
    \/ LET gone == Gone(m)
           n == Cardinality(gone)
       IN  /\ rows' = [rows EXCEPT ![g_mod[m].uuid] = @ \ gone]
           /\ left' = left - n
           /\ g_mod' = IF g_mod[m].keep = 0 \/ PutOff(n) THEN Postponed(m, FALSE) ELSE g_mod
    \/ /\ Fails("write") /\ g_mod[m].keep > 0
       /\ g_mod' \in {g_mod, Postponed(m, TRUE)}
       /\ UNCHANGED <<rows, left>>

mf_history_prune_slice ==
    /\ pc = "prune" /\ at <= MaxModules /\ left > 0
    /\ IF g_mod[at] # Unused /\ now >= g_mod[at].next_prune
       THEN prune_module(at)
       ELSE UNCHANGED <<rows, left, g_mod>>
    /\ at' = at + 1
    /\ UNCHANGED <<ring, retired, copied, flagged, shared, dev, conf, pc, todo, failed, cur,
                   now, notes>>

\* The slice is over; select() waits, and the clock may have moved on.
PruneEnds ==
    /\ pc = "prune" /\ (at > MaxModules \/ left = 0)
    /\ pc' = "run" /\ at' = 1 /\ left' = 0
    /\ now' \in {now, now + 1} \cap Times
    /\ UNCHANGED <<g_mod, ring, disk, dev, conf, todo, failed, cur, notes>>

----------------------------------------------------------------------------
(* Start-up, migration and the end of the process. *)

Boot ==
    /\ pc = "off"
    /\ pc' = "boot"
    /\ todo' = conf
    /\ UNCHANGED <<g_mod, ring, disk, dev, conf, failed, cur, at, left, now, notes>>

\* mf_devices_apply_config of the saved configuration.
BootAdd(u, k) ==
    /\ pc = "boot" /\ u \in todo
    /\ OpenModule(u, k) \/ OpenFails(u, k)
    /\ todo' = todo \ {u}
    /\ UNCHANGED <<conf, pc>>

\* mf_history_migrate, when the old file is there and can be read.
BootDone ==
    /\ pc = "boot" /\ todo = {}
    /\ \/ shared /\ pc' = "migrate" /\ todo' = OldUuids
       \/ (shared => Fails("read")) /\ pc' = "run" /\ todo' = {}
    /\ UNCHANGED <<g_mod, ring, disk, dev, conf, failed, cur, at, left, now, notes>>

\* Wrong variant of Done: the migrated flag is not looked at.
NeverDone(u) == FALSE
\* An earlier run has copied this module.
Done(u) == u \in flagged

\* What migrate_one finds or makes of the slot of u.
Opened(u) ==
    IF find_mod(u) THEN {[mods |-> g_mod, retired |-> retired, ok |-> TRUE]}
    ELSE mf_history_register(u)

\* Its sync_columns, when the slot has no INSERT.
Synced(mods, u) ==
    [m \in Mods |-> IF mods[m].uuid = u THEN [mods[m] EXCEPT !.ins = TRUE] ELSE mods[m]]

\* migrate_one up to its BEGIN.  A module that is not registered is, which takes the
\* mark off a file that an earlier run had retired.  A step that fails from there on
\* leaves the slot open; a flag that cannot be read counts as none.
migrate_one(u) ==
    /\ pc = "migrate" /\ u \in todo /\ cur = None
    /\ \E r \in Opened(u) :
           /\ retired' = r.retired
           /\ \/ /\ ~r.ok
                 /\ g_mod' = r.mods /\ cur' = None /\ failed' = TRUE
                 /\ UNCHANGED unseen
              \/ /\ r.ok /\ Done(u)
                 /\ g_mod' = r.mods /\ cur' = None
                 /\ UNCHANGED <<failed, unseen>>
              \/ /\ r.ok /\ (Done(u) => Fails("read"))
                 /\ unseen' = IF Done(u) THEN unseen \union {u} ELSE unseen
                 /\ \/ /\ g_mod' = Synced(r.mods, u)
                       /\ cur' = [uuid |-> u, was_registered |-> find_mod(u)]
                       /\ UNCHANGED failed
                    \/ /\ Fails("open") \/ Fails("read")
                       /\ g_mod' \in {r.mods, Synced(r.mods, u)}
                       /\ cur' = None /\ failed' = TRUE
    /\ todo' = todo \ {u}
    /\ UNCHANGED <<ring, rows, copied, flagged, shared, dev, conf, pc, at, left, now, refused>>

KeepOpen == cur.was_registered

\* The rows that get into the file: an error of a read ends the loop over the old file
\* like its last row, and the COMMIT may have failed.
Copies ==
    LET all == OldRows[cur.uuid]
    IN  {all} \union (IF Fails("read") THEN {Oldest(n, all) : n \in 0 .. Cardinality(all)} ELSE {})
              \union (IF Fails("write") THEN {{}} ELSE {})

\* The set S with u, or as it was, if that write is lost.
Marked(S, u) == {S \union {u}} \union IF Fails("write") THEN {S} ELSE {}

\* Its transaction.  The file of a module that is no longer configured is marked
\* retired and closed again.  Neither the marks nor the COMMIT are looked at: they
\* may be lost together or, when SQLite has given the transaction up, on their own.
MigrateCommit ==
    /\ cur # None
    /\ LET u == cur.uuid
       IN  \E got \in Copies :
           /\ rows' = [rows EXCEPT ![u] = @ \union got]
           /\ copied' = IF got = OldRows[u] THEN [copied EXCEPT ![u] = Lesser(@ + 1, Often)]
                        ELSE copied
           /\ flagged' \in Marked(flagged, u)
           /\ unseen' = IF got = OldRows[u] /\ u \in flagged' THEN unseen ELSE unseen \union {u}
           /\ IF KeepOpen THEN UNCHANGED <<retired, g_mod>>
              ELSE retired' \in Marked(retired, u) /\ g_mod' = CloseMod(g_mod, u)
    /\ cur' = None
    /\ UNCHANGED <<ring, shared, dev, conf, pc, todo, failed, at, left, now, refused>>

\* An insert fails: ROLLBACK.
MigrateRollback ==
    /\ cur # None /\ Fails("write")
    /\ failed' = TRUE
    /\ cur' = None
    /\ UNCHANGED <<g_mod, ring, disk, dev, conf, pc, todo, at, left, now, notes>>

\* The old file is renamed once every module is done, if the rename works.
StillShared == IF failed THEN {TRUE} ELSE {FALSE} \union IF Fails("write") THEN {TRUE} ELSE {}

\* The list of modules has come to its end, or could not be read any further.
MigrateEnds ==
    /\ pc = "migrate" /\ cur = None /\ (todo = {} \/ Fails("read"))
    /\ shared' \in StillShared
    /\ unseen' = unseen \union todo
    /\ failed' = FALSE /\ todo' = {}
    /\ pc' = "run"
    /\ UNCHANGED <<g_mod, ring, rows, retired, copied, flagged, dev, conf, cur, at,
                   left, now, refused>>

\* The process ends: a crash, or mf_history_close, which like a crash leaves
\* the samples that are still queued unwritten.
Stop ==
    /\ pc # "off"
    /\ pc' = "off"
    /\ g_mod' = [m \in Mods |-> Unused]
    /\ ring' = <<>>
    /\ dev' = [u \in Uuids |-> "off"]
    /\ todo' = {} /\ failed' = FALSE /\ cur' = None /\ at' = 1 /\ left' = 0
    /\ refused' = {}
    /\ UNCHANGED <<disk, conf, now, unseen>>

----------------------------------------------------------------------------
Init ==
    /\ g_mod = [m \in Mods |-> Unused]
    /\ ring = <<>>
    /\ rows = [u \in Uuids |-> {}]
    /\ retired = {}
    /\ copied = [u \in Uuids |-> 0]
    /\ flagged = {}
    /\ shared = (OldUuids # {})
    /\ dev = [u \in Uuids |-> "off"]
    /\ conf \in SUBSET Uuids
    /\ pc = "off" /\ todo = {} /\ failed = FALSE /\ cur = None
    /\ at = 1 /\ left = 0
    /\ now = FirstTime
    /\ refused = {} /\ unseen = {}

Next ==
    \/ \E u \in Uuids, k \in Keeps :
           \/ mf_devices_add(u, k) \/ PatchModule(u, k) \/ BootAdd(u, k)
           \/ mf_history_set_retention(u, k)
    \/ \E u \in Uuids :
           \/ RemoveModule(u) \/ ReplaceModule(u) \/ ModuleExit(u) \/ ModuleStep(u)
           \/ migrate_one(u)
    \/ PassEnds \/ mf_history_flush_slice \/ mf_history_prune_slice \/ PruneEnds
    \/ Boot \/ BootDone \/ MigrateCommit \/ MigrateRollback \/ MigrateEnds \/ Stop

Spec == Init /\ [][Next]_vars

----------------------------------------------------------------------------
(* Properties. *)

\* Every variable keeps its type; the ring never outgrows its array, and an
\* open file belongs to one slot only.
TypeOK ==
    /\ g_mod \in [Mods -> Mod \union {Unused}]
    /\ \A m, k \in Mods : g_mod[m].uuid = g_mod[k].uuid /\ g_mod[m] # Unused => m = k
    /\ ring \in Seq(Sample) /\ Len(ring) <= RingCap
    /\ rows \in [Uuids -> SUBSET Times]
    /\ retired \in SUBSET Uuids
    /\ copied \in [Uuids -> 0 .. Often]
    /\ flagged \in SUBSET Uuids
    /\ shared \in BOOLEAN
    /\ dev \in [Uuids -> {"off", "live", "dying"}]
    /\ conf \in SUBSET Uuids
    /\ pc \in Phases
    /\ todo \in SUBSET Uuids
    /\ failed \in BOOLEAN
    /\ cur \in [uuid : Uuids, was_registered : BOOLEAN] \union {None}
    /\ at \in 1 .. MaxModules + 1 /\ left \in 0 .. PruneRows
    /\ now \in Times
    /\ refused \in SUBSET Uuids /\ unseen \in SUBSET Uuids

\* A module that runs has its file open and its INSERT prepared, so that its readings
\* are recorded, unless its last registration failed with a warning in the log
\* (history_register of device.c).  The module of every queued sample has its file
\* open, and on the same terms its INSERT: mf_history_flush_slice passes over the
\* others in silence.
NothingUnrecorded ==
    /\ \A u \in Uuids \ refused : dev[u] = "live" => CanInsert(u)
    /\ \A i \in DOMAIN ring :
           /\ find_mod(ring[i].uuid)
           /\ ring[i].uuid \notin refused => CanInsert(ring[i].uuid)

\* Queued samples of one module are at least its capture interval apart, also
\* when it was removed, added again or renamed in between.
CaptureSpacing ==
    \A i, j \in DOMAIN ring :
        i < j /\ ring[i].uuid = ring[j].uuid => ring[j].ts - ring[i].ts >= Interval

\* When a module puts its next pruning off, its file holds no row that was
\* overdue at that time: a backlog larger than a batch, a changed policy or a
\* migration brings it back before the hour is over.  (A DELETE that fails puts it
\* off with its backlog: prune_module takes the failure for an empty batch.)
PruneThorough ==
    \A m \in Mods :
        g_mod[m] # Unused /\ g_mod[m].keep > 0 /\ g_mod[m].next_prune > 0 /\ ~g_mod[m].missed =>
            \A t \in rows[g_mod[m].uuid] :
                t + g_mod[m].keep + PruneEvery >= g_mod[m].next_prune

\* A row only ever leaves a file when the file's own policy, as it is then,
\* no longer keeps it.
PruneOnlyOverdue ==
    [][\A u \in Uuids : \A t \in rows[u] \ rows'[u] :
           \E m \in Mods : /\ Holds(m, u) /\ g_mod[m].keep > 0
                           /\ t + g_mod[m].keep < now]_rows

\* However often start-up is interrupted, and whatever failure mf_history_migrate is
\* told of, the old rows of a module are copied into its file at most once, and the
\* old file is only moved away when each of its modules has its rows.  (`unseen`
\* holds the modules for which it was not told: their rows may be lost, or copied
\* twice.)
MigratedWhole ==
    /\ \A u \in Uuids \ unseen : copied[u] <= 1
    /\ ~shared => \A u \in OldUuids \ unseen : copied[u] >= 1

\* The move complete, each module of the old file that is not configured any
\* more has a file marked retired.
RemovedAreRetired ==
    pc = "migrate" /\ todo = {} /\ cur = None /\ ~failed =>
        OldUuids \ conf \subseteq retired
=============================================================================
