--------------------------- MODULE DevicesProofs ---------------------------
(***************************************************************************)
(* Proofs about Devices for every number of slots, connections, uuids and  *)
(* names, and for clients of every kind; the last two sections are about   *)
(* clients that are distinct, and patient.                                 *)
(***************************************************************************)
EXTENDS Devices, FiniteSetTheorems, TLAPS

----------------------------------------------------------------------------
(* Types. *)

\* A document of the request set is a sequence of entries that fits the
\* configuration.
LEMMA DocType ==
    ASSUME NEW doc \in Docs
    PROVE  doc \in Seq(Entry) /\ Len(doc) <= MaxDevices
<1>1. PICK n \in 0 .. MaxDevices : doc \in [1 .. n -> Entry]
  BY DEF Docs
<1>. QED BY <1>1, SizeAssumption

\* The entry found for a uuid that a document has is one of its entries.
LEMMA EntryOfType ==
    ASSUME NEW doc \in Seq(Entry), NEW u, uuid_in_cfg(doc, u)
    PROVE  EntryOf(doc, u) \in Entry /\ EntryOf(doc, u).uuid = u
<1>. DEFINE k == CHOOSE i \in DOMAIN doc : doc[i].uuid = u
<1>1. k \in DOMAIN doc /\ doc[k].uuid = u BY DEF uuid_in_cfg
<1>. QED BY <1>1 DEF EntryOf

\* cfg_remove_uuid and cfg_upsert_from_json return configurations.
LEMMA RemoveType ==
    ASSUME NEW u, cfg \in Seq(Entry), Len(cfg) <= MaxDevices
    PROVE  cfg_remove_uuid(u) \in Seq(Entry) /\ Len(cfg_remove_uuid(u)) <= MaxDevices
<1>1. CASE ~uuid_in_cfg(cfg, u) BY <1>1 DEF cfg_remove_uuid
<1>2. CASE uuid_in_cfg(cfg, u)
  <2>. DEFINE at == CHOOSE i \in DOMAIN cfg : cfg[i].uuid = u
              new == [i \in 1 .. Len(cfg) - 1 |-> IF i < at THEN cfg[i] ELSE cfg[i + 1]]
  <2>1. at \in 1 .. Len(cfg) BY <1>2 DEF uuid_in_cfg
  <2>2. Len(cfg) - 1 \in Nat BY <2>1
  <2>3. new \in [1 .. Len(cfg) - 1 -> Entry] BY <2>1
  <2>4. new \in Seq(Entry) /\ Len(new) = Len(cfg) - 1 BY <2>2, <2>3
  <2>5. cfg_remove_uuid(u) = new BY <1>2 DEF cfg_remove_uuid
  <2>. HIDE DEF new
  <2>. QED BY <2>4, <2>5, SizeAssumption
<1>. QED BY <1>1, <1>2

\* cfg_upsert_from_json returns a configuration that still fits the array.
LEMMA UpsertType ==
    ASSUME NEW e \in Entry, cfg \in Seq(Entry), Len(cfg) <= MaxDevices
    PROVE  /\ cfg_upsert_from_json(e) \in Seq(Entry)
           /\ Len(cfg_upsert_from_json(e)) <= MaxDevices
BY SizeAssumption DEF cfg_upsert_from_json

\* A slot in use holds a device, and still does when it is told to stop or is
\* renamed.
LEMMA DeviceType ==
    ASSUME NEW d \in Device \union {Free}, d.in_use
    PROVE  /\ d \in Device
           /\ [d EXCEPT !.stop = TRUE] \in Device
           /\ \A n \in Names : [d EXCEPT !.name = n] \in Device
<1>1. d \in Device BY DEF Free
<1>. QED BY <1>1 DEF Device

\* The empty sequence is a document, a run queue and a short configuration.
LEMMA EmptyType ==
    /\ <<>> \in Seq(Entry) /\ <<>> \in Seq(Threads)
    /\ Len(<<>>) <= MaxDevices
BY SizeAssumption

\* A slot in use holds a device, and the first loop of
\* mf_devices_apply_config keeps it one.
LEMMA PatchSlotType ==
    ASSUME NEW doc \in Seq(Entry), NEW d \in Device \union {Free}
    PROVE  PatchSlot(d, doc) \in Device \union {Free}
<1>1. CASE ~d.in_use BY <1>1 DEF PatchSlot
<1>2. CASE d.in_use
  <2>1. d \in Device BY <1>2 DEF Free
  <2>2. CASE ~Wanted(doc, d.uuid) BY <1>2, <2>1, <2>2 DEF PatchSlot, Device
  <2>3. CASE Wanted(doc, d.uuid)
    <3>1. EntryOf(doc, d.uuid) \in Entry BY <2>3, EntryOfType DEF Wanted
    <3>2. EntryOf(doc, d.uuid).name \in Names BY <3>1 DEF Entry
    <3>. QED BY <1>2, <2>1, <2>3, <3>2 DEF PatchSlot, Device
  <2>. QED BY <2>2, <2>3
<1>. QED BY <1>1, <1>2

\* What the first loop of mf_devices_apply_config leaves in the pending queue.
LEMMA PatchPendingType ==
    ASSUME NEW doc \in Seq(Entry), NEW u \in Uuids,
           g_pending \in [Uuids -> Entry \union {None}]
    PROVE  PatchPending(u, doc) \in Entry \union {None}
BY EntryOfType DEF PatchPending, Wanted

\* A slot that opens gets a device; the rest of mf_devices_add's effects.
LEMMA OpenType ==
    ASSUME TypeOK, NEW s \in Slots, NEW e \in Entry, OpenIn(s, e)
    PROVE  /\ g_dev' \in [Slots -> Device \union {Free}]
           /\ fresh' \in SUBSET Threads
BY DEF TypeOK, OpenIn, Opened, Entry, Device, Threads

\* The head and the tail of the run queue.
LEMMA RunningType ==
    ASSUME TypeOK, ready # <<>>
    PROVE  Head(ready) \in Threads /\ Tail(ready) \in Seq(Threads)
BY DEF TypeOK

----------------------------------------------------------------------------
(* Every step keeps TypeOK: one lemma per group of actions. *)

\* The slices of module, acceptor and idle connection threads keep the types.
LEMMA TypeSlices ==
    ASSUME TypeOK, HttpSlice \/ \E s \in Slots : DeviceSlice(s)
    PROVE  TypeOK'
<1>1. ASSUME NEW s \in Slots, DevicePoll(s) PROVE TypeOK'
  BY <1>1, RunningType DEF TypeOK, DevicePoll, Running, Park, Threads
<1>2. ASSUME NEW s \in Slots, DeviceExit(s) PROVE TypeOK'
  BY <1>2, RunningType DEF TypeOK, DeviceExit, Running, End, Threads
<1>3. ASSUME NEW t \in {Acceptor} \union Conns, FirstSlice(t) PROVE TypeOK'
  BY <1>3, RunningType DEF TypeOK, FirstSlice, Running, Park, Threads
<1>4. ASSUME NEW t \in {Acceptor} \union Conns, ThreadQuit(t) PROVE TypeOK'
  BY <1>4, RunningType DEF TypeOK, ThreadQuit, Running, End, Threads
<1>5. ASSUME AcceptPark PROVE TypeOK'
  BY <1>5, RunningType DEF TypeOK, AcceptPark, Running, Park, Threads
<1>6. ASSUME NEW c \in Conns, Accept(c) PROVE TypeOK'
  BY <1>6, RunningType DEF TypeOK, Accept, Running, Threads
<1>7. ASSUME NEW c \in Conns, ConnClose(c) PROVE TypeOK'
  BY <1>7, RunningType DEF TypeOK, ConnClose, Running, End, Threads
<1>8. ASSUME NEW c \in Conns, ConnIdle(c) PROVE TypeOK'
  BY <1>8, RunningType DEF TypeOK, ConnIdle, Running, Park, Threads
<1>. QED BY <1>1, <1>2, <1>3, <1>4, <1>5, <1>6, <1>7, <1>8
         DEF HttpSlice, DeviceSlice

\* A document that passes is applied: slots, pending queue and ADD list.
LEMMA TypePut ==
    ASSUME TypeOK, NEW c \in Conns, NEW doc \in Seq(Entry),
           Len(doc) <= MaxDevices, handle_config_put(c, doc)
    PROVE  TypeOK'
<1>1. g_dev' \in [Slots -> Device \union {Free}]
  BY PatchSlotType DEF TypeOK, handle_config_put
<1>2. g_pending' \in [Uuids -> Entry \union {None}]
  BY PatchPendingType DEF TypeOK, handle_config_put
<1>3. due = {}
  BY DEF TypeOK, handle_config_put, Serving, Running
<1>. QED BY <1>1, <1>2, <1>3 DEF TypeOK, handle_config_put, Phases

\* Every REST request keeps the types.
LEMMA TypeRequests ==
    ASSUME TypeOK, NEW c \in Conns, Request(c)
    PROVE  TypeOK'
<1>1. ASSUME NEW u \in Uuids, NEW n \in Names, NEW i \in Idents,
             handle_devices_create(c, u, n, i)
      PROVE  TypeOK'
  <2>. DEFINE e == [uuid |-> u, name |-> n, ident |-> i, enabled |-> TRUE]
  <2>1. e \in Entry BY DEF Entry
  <2>. HIDE DEF e
  <2>2. PICK s \in Slots : OpenIn(s, e) /\ ready' = Append(Tail(ready), s)
    BY <1>1 DEF handle_devices_create, e
  <2>3. cfg' \in Seq(Entry) /\ Len(cfg') <= MaxDevices
    BY <1>1, <2>1, UpsertType DEF handle_devices_create, TypeOK, e
  <2>4. g_dev' \in [Slots -> Device \union {Free}] /\ fresh' \in SUBSET Threads
    BY <2>1, <2>2, OpenType
  <2>5. ready' \in Seq(Threads) /\ waiting' \in Seq(Threads)
    BY <1>1, <2>2, RunningType
       DEF handle_devices_create, Serving, Running, TypeOK, Threads
  <2>. QED BY <1>1, <2>3, <2>4, <2>5 DEF handle_devices_create, TypeOK
<1>2. ASSUME NEW u \in Uuids, handle_device_delete(c, u) PROVE TypeOK'
  <2>1. cfg' \in Seq(Entry) /\ Len(cfg') <= MaxDevices
    BY <1>2, RemoveType DEF handle_device_delete, TypeOK
  <2>2. g_dev' \in [Slots -> Device \union {Free}]
    BY <1>2, DeviceType DEF handle_device_delete, TypeOK
  <2>3. due = {}
    BY <1>2 DEF TypeOK, handle_device_delete, Serving, Running
  <2>. QED BY <1>2, <2>1, <2>2, <2>3, RunningType
           DEF handle_device_delete, TypeOK, Serving, Running, Park, Threads
<1>3. ASSUME NEW u \in Uuids, DeleteNotFound(c, u) PROVE TypeOK'
  <2>1. due = {}
    BY <1>3 DEF TypeOK, DeleteNotFound, Serving, Running
  <2>. QED BY <1>3, <2>1, RunningType
           DEF DeleteNotFound, TypeOK, Serving, Running, Park, Threads
<1>4. ASSUME NEW s \in Slots, NEW n \in Names, NEW ok \in BOOLEAN,
             handle_settings_put(c, s, n, ok)
      PROVE  TypeOK'
  <2>1. g_dev' \in [Slots -> Device \union {Free}]
    BY <1>4, DeviceType DEF handle_settings_put, Live, TypeOK
  <2>2. cfg_patch_settings(g_dev[s].uuid, n) \in [1 .. Len(cfg) -> Entry]
    <3>1. cfg \in [1 .. Len(cfg) -> Entry] BY DEF TypeOK
    <3>2. ASSUME NEW k \in 1 .. Len(cfg) PROVE [cfg[k] EXCEPT !.name = n] \in Entry
      BY <3>1 DEF Entry
    <3>. QED BY <3>1, <3>2 DEF cfg_patch_settings
  <2>3. /\ cfg_patch_settings(g_dev[s].uuid, n) \in Seq(Entry)
        /\ Len(cfg_patch_settings(g_dev[s].uuid, n)) = Len(cfg)
    <3>. DEFINE p == cfg_patch_settings(g_dev[s].uuid, n)
    <3>1. p \in [1 .. Len(cfg) -> Entry] /\ Len(cfg) \in Nat BY <2>2 DEF TypeOK
    <3>. HIDE DEF p
    <3>2. p \in Seq(Entry) /\ Len(p) = Len(cfg) BY <3>1
    <3>. QED BY <3>2 DEF p
  <2>4. cfg' \in Seq(Entry) /\ Len(cfg') <= MaxDevices
    BY <1>4, <2>3 DEF handle_settings_put, TypeOK
  <2>. QED BY <1>4, <2>1, <2>4, RunningType
           DEF handle_settings_put, TypeOK, Serving, Running, Park, Threads
<1>5. ASSUME NEW doc \in Docs, handle_config_put(c, doc) PROVE TypeOK'
  BY <1>5, DocType, TypePut
<1>6. ASSUME handle_config_load(c) PROVE TypeOK'
  BY <1>6, TypePut DEF handle_config_load, TypeOK
<1>. QED BY <1>1, <1>2, <1>3, <1>4, <1>5, <1>6 DEF Request

\* The ADD loop of mf_devices_apply_config keeps the types.
LEMMA TypeAdd ==
    ASSUME TypeOK, AddStep
    PROVE  TypeOK'
<1>1. /\ Head(todo) \in Entry /\ todo' \in Seq(Entry) /\ due = {}
      /\ UNCHANGED <<cfg, waiting, pc, next, due, g_quit>>
  <2>1. Adding /\ Advance
    BY DEF AddStep, AddSkip, AddOpen, AddQueue, AddFail
  <2>. QED BY <2>1 DEF Adding, Advance, TypeOK
<1>2. CASE AddSkip BY <1>1, <1>2 DEF AddSkip, TypeOK
<1>3. CASE AddOpen
  <2>1. PICK s \in Slots : OpenIn(s, Head(todo)) /\ ready' = Append(ready, s)
    BY <1>3 DEF AddOpen
  <2>2. g_dev' \in [Slots -> Device \union {Free}] /\ fresh' \in SUBSET Threads
    BY <1>1, <2>1, OpenType
  <2>. QED BY <1>1, <1>3, <2>1, <2>2 DEF AddOpen, TypeOK, Threads
<1>4. CASE AddQueue BY <1>1, <1>4 DEF AddQueue, TypeOK
<1>5. CASE AddFail BY <1>1, <1>5 DEF AddFail, OpenFails, TypeOK
<1>. QED BY <1>2, <1>3, <1>4, <1>5 DEF AddStep

\* mf_devices_apply_pending keeps the types.
LEMMA TypePending ==
    ASSUME TypeOK, PendingStep
    PROVE  TypeOK'
<1>1. ASSUME NEW u \in Uuids, PendingWait(u) PROVE TypeOK'
  BY <1>1 DEF PendingWait, TypeOK
<1>2. ASSUME NEW u \in Uuids, PendingOpen(u) PROVE TypeOK'
  <2>1. g_pending[u] \in Entry BY <1>2 DEF PendingOpen, TypeOK
  <2>2. PICK s \in Slots : OpenIn(s, g_pending[u]) /\ ready' = Append(ready, s)
    BY <1>2 DEF PendingOpen
  <2>3. g_dev' \in [Slots -> Device \union {Free}] /\ fresh' \in SUBSET Threads
    BY <2>1, <2>2, OpenType
  <2>. QED BY <1>2, <2>2, <2>3 DEF PendingOpen, TypeOK, Threads
<1>3. ASSUME NEW u \in Uuids, PendingDrop(u) PROVE TypeOK'
  BY <1>3 DEF PendingDrop, OpenFails, TypeOK
<1>. QED BY <1>1, <1>2, <1>3 DEF PendingStep

\* The main loop, start, shutdown, signals and crashes keep the types.
LEMMA TypeMain ==
    ASSUME TypeOK, MainStep \/ Boot \/ Signal \/ Crash
    PROVE  TypeOK'
<1>1. CASE BootDone BY <1>1 DEF BootDone, TypeOK, Threads, Phases
<1>2. CASE Tick BY <1>2 DEF Tick, pt_broadcast, TypeOK, Phases
<1>3. CASE RunDone BY <1>3 DEF RunDone, TypeOK, Phases
<1>4. CASE PassDone BY <1>4 DEF PassDone, AfterPass, TypeOK, Phases
<1>5. CASE Shutdown
  <2>1. g_dev' \in [Slots -> Device \union {Free}]
    BY <1>5, DeviceType DEF Shutdown, TypeOK
  <2>. QED BY <1>5, <2>1 DEF Shutdown, pt_broadcast, TypeOK, Phases
<1>6. CASE Drained BY <1>6 DEF Drained, TypeOK, Phases
<1>7. CASE Unload \/ Crash
  BY <1>7, EmptyType DEF Unload, Crash, Reset, NoPending, TypeOK, Phases
<1>8. ASSUME NEW c \in Conns, PutDone(c) PROVE TypeOK'
  BY <1>8, RunningType, EmptyType DEF PutDone, Park, TypeOK, Threads, Phases
<1>9. CASE Boot BY <1>9 DEF Boot, TypeOK, Phases
<1>10. CASE Signal BY <1>10 DEF Signal, TypeOK
<1>. QED BY <1>1, <1>2, <1>3, <1>4, <1>5, <1>6, <1>7, <1>8, <1>9, <1>10
         DEF MainStep

\* The daemon's tables, queues and configuration keep their types in every
\* reachable state.
THEOREM TypeCorrect == Spec => []TypeOK
<1>1. Init => TypeOK
  BY EmptyType DEF Init, NoPending, TypeOK, Phases
<1>2. TypeOK /\ [Next]_vars => TypeOK'
  <2>. SUFFICES ASSUME TypeOK, [Next]_vars PROVE TypeOK' OBVIOUS
  <2>1. CASE Next
    BY <2>1, TypeSlices, TypeRequests, TypeAdd, TypePending, TypeMain
       DEF Next, Daemon
  <2>2. CASE UNCHANGED vars BY <2>2 DEF vars, loop, TypeOK
  <2>. QED BY <2>1, <2>2
<1>. QED BY <1>1, <1>2, PTL DEF Spec

----------------------------------------------------------------------------
(* Uniqueness.  A pending entry is kept under its own uuid; with that the  *)
(* two uniqueness invariants are inductive.                                *)

PendingKeyed ==
    \A u \in Uuids : g_pending[u] # None => g_pending[u].uuid = u

Unique == UuidUnique /\ LiveNamesUnique /\ PendingKeyed

\* A step that leaves the slots and the pending queue alone.
LEMMA UniqueStutter ==
    ASSUME Unique, UNCHANGED <<g_dev, g_pending>>
    PROVE  Unique'
BY DEF Unique, UuidUnique, LiveNamesUnique, PendingKeyed, Live

\* mf_devices_add opens a slot for a uuid and a name that no slot holds.
LEMMA UniqueOpen ==
    ASSUME TypeOK, UuidUnique, LiveNamesUnique,
           NEW s \in Slots, NEW e \in Entry, OpenIn(s, e),
           ~uuid_in_use(e.uuid), ~name_taken(e.name, None)
    PROVE  UuidUnique' /\ LiveNamesUnique'
<1>1. /\ g_dev'[s].uuid = e.uuid /\ g_dev'[s].name = e.name
      /\ \A r \in Slots \ {s} : g_dev'[r] = g_dev[r]
  BY DEF OpenIn, Opened, TypeOK
<1>2. \A r \in Slots : g_dev[r].in_use => g_dev[r].uuid # e.uuid /\ g_dev[r].name # e.name
  BY NoneAssumption DEF uuid_in_use, name_taken
<1>3. UuidUnique' BY <1>1, <1>2 DEF UuidUnique
<1>4. LiveNamesUnique' BY <1>1, <1>2 DEF LiveNamesUnique, Live
<1>. QED BY <1>3, <1>4

\* What setting a slot's stop flag changes.
LEMMA StopFields ==
    ASSUME NEW d \in Device \union {Free}
    PROVE  LET d2 == [d EXCEPT !.stop = TRUE]
           IN  d2.stop /\ d2.in_use = d.in_use /\ d2.uuid = d.uuid /\ d2.ident = d.ident
<1>1. "stop" \in DOMAIN d /\ "in_use" \in DOMAIN d /\ "uuid" \in DOMAIN d
      /\ "ident" \in DOMAIN d
  BY DEF Device, Free
<1>. QED BY <1>1

\* Stopping slots makes no module run and gives no slot another uuid.
LEMMA UniqueStop ==
    ASSUME UuidUnique, LiveNamesUnique,
           \A r \in Slots : /\ g_dev'[r].in_use => g_dev[r].in_use
                            /\ g_dev'[r].in_use => g_dev'[r].uuid = g_dev[r].uuid
                            /\ Live(r)' => Live(r) /\ g_dev'[r].name = g_dev[r].name
    PROVE  UuidUnique' /\ LiveNamesUnique'
<1>1. UuidUnique' BY DEF UuidUnique
<1>2. LiveNamesUnique' BY DEF LiveNamesUnique
<1>. QED BY <1>1, <1>2

\* The three outcomes of the first loop of mf_devices_apply_config for a slot:
\* it is free, it stops, or it goes on under the document's name.
LEMMA PatchSlotCases ==
    ASSUME NEW doc, NEW d \in Device \union {Free}
    PROVE  /\ PatchSlot(d, doc).in_use => d.in_use
           /\ d.in_use => /\ PatchSlot(d, doc).uuid = d.uuid
                          /\ PatchSlot(d, doc).ident = d.ident
           /\ PatchSlot(d, doc).in_use /\ ~PatchSlot(d, doc).stop =>
                /\ uuid_in_cfg(doc, d.uuid)
                /\ PatchSlot(d, doc).name = EntryOf(doc, d.uuid).name
<1>1. CASE ~d.in_use BY <1>1 DEF PatchSlot
<1>2. CASE d.in_use
  <2>1. d \in Device BY <1>2, DeviceType
  <2>2. DOMAIN d = {"in_use", "stop", "uuid", "name", "ident"} BY <2>1 DEF Device
  <2>3. CASE ~Wanted(doc, d.uuid) \/ EntryOf(doc, d.uuid).ident # d.ident
    <3>1. PatchSlot(d, doc) = [d EXCEPT !.stop = TRUE] BY <1>2, <2>3 DEF PatchSlot
    <3>. QED BY <1>2, <2>1, <2>2, <3>1 DEF Device
  <2>4. CASE Wanted(doc, d.uuid) /\ EntryOf(doc, d.uuid).ident = d.ident
    <3>1. PatchSlot(d, doc) = [d EXCEPT !.name = EntryOf(doc, d.uuid).name]
      BY <1>2, <2>4 DEF PatchSlot
    <3>. QED BY <1>2, <2>1, <2>2, <2>4, <3>1 DEF Device, Wanted
  <2>. QED BY <2>3, <2>4
<1>. QED BY <1>1, <1>2

\* That loop neither fills nor frees a slot.
LEMMA PatchSlotInUse ==
    ASSUME NEW doc, NEW d \in Device \union {Free}
    PROVE  PatchSlot(d, doc).in_use = d.in_use
<1>1. CASE ~d.in_use BY <1>1 DEF PatchSlot
<1>2. CASE d.in_use
  <2>1. d \in Device BY <1>2, DeviceType
  <2>. QED BY <1>2, <2>1 DEF PatchSlot, Device
<1>. QED BY <1>1, <1>2

\* The first loop of mf_devices_apply_config: what still runs afterwards has
\* the name the document gives it, and the document's names are distinct.
LEMMA UniquePut ==
    ASSUME TypeOK, Unique, NEW c \in Conns, NEW doc \in Seq(Entry),
           handle_config_put(c, doc)
    PROVE  Unique'
<1>1. \A s \in Slots : g_dev'[s] = PatchSlot(g_dev[s], doc)
  BY DEF handle_config_put
<1>2. ASSUME NEW s \in Slots
      PROVE  /\ g_dev'[s].in_use => g_dev[s].in_use
             /\ g_dev'[s].in_use => g_dev'[s].uuid = g_dev[s].uuid
  BY <1>1, PatchSlotCases DEF TypeOK
<1>3. ASSUME NEW s \in Slots, Live(s)'
      PROVE  /\ g_dev[s].in_use
             /\ uuid_in_cfg(doc, g_dev[s].uuid)
             /\ g_dev'[s].name = EntryOf(doc, g_dev[s].uuid).name
  BY <1>1, <1>3, PatchSlotCases DEF Live, TypeOK
<1>4. UuidUnique' BY <1>2 DEF Unique, UuidUnique
<1>5. ASSUME NEW u, NEW v, uuid_in_cfg(doc, u), uuid_in_cfg(doc, v), u # v
      PROVE  EntryOf(doc, u).name # EntryOf(doc, v).name
  <2>. DEFINE i == CHOOSE k \in DOMAIN doc : doc[k].uuid = u
              j == CHOOSE k \in DOMAIN doc : doc[k].uuid = v
  <2>1. i \in DOMAIN doc /\ doc[i].uuid = u BY <1>5 DEF uuid_in_cfg
  <2>2. j \in DOMAIN doc /\ doc[j].uuid = v BY <1>5 DEF uuid_in_cfg
  <2>3. EntryOf(doc, u) = doc[i] /\ EntryOf(doc, v) = doc[j] BY DEF EntryOf
  <2>. HIDE DEF i, j
  <2>4. i # j BY <2>1, <2>2, <1>5
  <2>5. i < j \/ j < i BY <2>1, <2>2, <2>4
  <2>6. ValidAlone(doc) BY DEF handle_config_put, mf_devices_validate_config
  <2>. QED BY <2>1, <2>2, <2>3, <2>5, <2>6 DEF ValidAlone
<1>6. LiveNamesUnique'
  BY <1>3, <1>5 DEF Unique, UuidUnique, LiveNamesUnique
<1>7. PendingKeyed'
  <2>1. ASSUME NEW u \in Uuids, PatchPending(u, doc) # None
        PROVE  PatchPending(u, doc).uuid = u
    BY <2>1, EntryOfType DEF PatchPending, Wanted, Unique, PendingKeyed
  <2>. QED BY <2>1 DEF handle_config_put, PendingKeyed
<1>. QED BY <1>4, <1>6, <1>7 DEF Unique

\* Every step of the daemon keeps the uniqueness invariants.
LEMMA UniqueNext ==
    ASSUME TypeOK, Unique, Next
    PROVE  Unique'
<1>1. ASSUME NEW s \in Slots, DevicePoll(s) PROVE Unique'
  BY <1>1, UniqueStutter DEF DevicePoll
<1>2. ASSUME NEW s \in Slots, DeviceExit(s) PROVE Unique'
  <2>1. \A r \in Slots : g_dev'[r].in_use => g_dev'[r] = g_dev[r]
    BY <1>2 DEF DeviceExit, TypeOK, Free
  <2>2. UuidUnique' /\ LiveNamesUnique' BY <2>1, UniqueStop DEF Unique, Live
  <2>. QED BY <1>2, <2>2 DEF DeviceExit, Unique, PendingKeyed
<1>3. CASE HttpSlice
  BY <1>3, UniqueStutter
     DEF HttpSlice, FirstSlice, ThreadQuit, AcceptPark, Accept, ConnClose, ConnIdle
<1>4. ASSUME NEW c \in Conns, NEW u \in Uuids, NEW n \in Names, NEW i \in Idents,
             handle_devices_create(c, u, n, i)
      PROVE  Unique'
  <2>. DEFINE e == [uuid |-> u, name |-> n, ident |-> i, enabled |-> TRUE]
  <2>1. e \in Entry /\ e.uuid = u /\ e.name = n BY DEF Entry
  <2>2. PICK s \in Slots : OpenIn(s, e) BY <1>4 DEF handle_devices_create
  <2>3. ~uuid_in_use(u) /\ ~name_taken(n, None)
    BY <1>4 DEF handle_devices_create, NewUuid
  <2>. HIDE DEF e
  <2>4. UuidUnique' /\ LiveNamesUnique'
    BY <2>1, <2>2, <2>3, UniqueOpen DEF Unique
  <2>. QED BY <1>4, <2>4 DEF handle_devices_create, Unique, PendingKeyed
<1>5. ASSUME NEW c \in Conns, NEW u \in Uuids, handle_device_delete(c, u)
      PROVE  Unique'
  <2>1. \A r \in Slots : g_dev'[r] \in {g_dev[r], [g_dev[r] EXCEPT !.stop = TRUE]}
    BY <1>5 DEF handle_device_delete
  <2>2. UuidUnique' /\ LiveNamesUnique'
    BY <2>1, StopFields, UniqueStop DEF Unique, Live, TypeOK
  <2>. QED BY <1>5, <2>2 DEF handle_device_delete, Unique, PendingKeyed, TypeOK
<1>6. ASSUME NEW c \in Conns, NEW u \in Uuids, DeleteNotFound(c, u) PROVE Unique'
  BY <1>6 DEF DeleteNotFound, Unique, UuidUnique, LiveNamesUnique, Live,
              PendingKeyed, TypeOK
<1>7. ASSUME NEW c \in Conns, NEW s \in Slots, NEW n \in Names, NEW ok \in BOOLEAN,
             handle_settings_put(c, s, n, ok)
      PROVE  Unique'
  <2>1. /\ g_dev[s] \in Device
        /\ g_dev'[s] = [g_dev[s] EXCEPT !.name = n]
        /\ \A r \in Slots \ {s} : g_dev'[r] = g_dev[r] /\ ~(g_dev[r].in_use /\ g_dev[r].name = n)
    BY <1>7, DeviceType DEF handle_settings_put, TypeOK, Live, name_taken
  <2>2. g_dev'[s].uuid = g_dev[s].uuid /\ g_dev'[s].name = n /\ g_dev[s].in_use
    BY <2>1 DEF Device
  <2>3. UuidUnique'
    <3>1. \A r \in Slots : g_dev'[r].uuid = g_dev[r].uuid BY <2>1, <2>2
    <3>2. \A r \in Slots : g_dev'[r].in_use => g_dev[r].in_use BY <2>1, <2>2
    <3>. QED BY <3>1, <3>2 DEF Unique, UuidUnique
  <2>4. LiveNamesUnique'
    <3>1. \A r \in Slots \ {s} : Live(r)' => Live(r) /\ g_dev'[r].name # n
      BY <2>1 DEF Live
    <3>. QED BY <2>1, <2>2, <3>1 DEF Unique, LiveNamesUnique
  <2>. QED BY <1>7, <2>3, <2>4 DEF handle_settings_put, Unique, PendingKeyed
<1>8. ASSUME NEW c \in Conns, NEW doc \in Docs, handle_config_put(c, doc)
      PROVE  Unique'
  BY <1>8, DocType, UniquePut
<1>9. ASSUME NEW c \in Conns, handle_config_load(c) PROVE Unique'
  BY <1>9, UniquePut DEF handle_config_load, TypeOK
<1>10. CASE AddSkip \/ AddFail
  BY <1>10, UniqueStutter DEF AddSkip, AddFail, OpenFails
<1>11. CASE AddOpen
  <2>1. Head(todo) \in Entry BY <1>11 DEF AddOpen, Adding, TypeOK
  <2>2. PICK s \in Slots : OpenIn(s, Head(todo)) BY <1>11 DEF AddOpen
  <2>3. UuidUnique' /\ LiveNamesUnique'
    BY <1>11, <2>1, <2>2, UniqueOpen DEF AddOpen, Unique
  <2>. QED BY <1>11, <2>3 DEF AddOpen, Unique, PendingKeyed
<1>12. CASE AddQueue
  <2>1. Head(todo) \in Entry BY <1>12 DEF AddQueue, Adding, TypeOK
  <2>2. PendingKeyed' BY <1>12, <2>1 DEF AddQueue, Unique, PendingKeyed, TypeOK, Entry
  <2>. QED BY <1>12, <2>2 DEF AddQueue, Unique, UuidUnique, LiveNamesUnique, Live
<1>13. ASSUME NEW u \in Uuids, PendingWait(u) PROVE Unique'
  BY <1>13, UniqueStutter DEF PendingWait
<1>14. ASSUME NEW u \in Uuids, PendingOpen(u) PROVE Unique'
  <2>1. g_pending[u] \in Entry /\ g_pending[u].uuid = u
    BY <1>14 DEF PendingOpen, TypeOK, Unique, PendingKeyed
  <2>2. PICK s \in Slots : OpenIn(s, g_pending[u]) BY <1>14 DEF PendingOpen
  <2>3. UuidUnique' /\ LiveNamesUnique'
    BY <1>14, <2>1, <2>2, UniqueOpen DEF PendingOpen, CanReopen, Unique
  <2>. QED BY <1>14, <2>3 DEF PendingOpen, Unique, PendingKeyed, TypeOK
<1>15. ASSUME NEW u \in Uuids, PendingDrop(u) PROVE Unique'
  BY <1>15 DEF PendingDrop, OpenFails, Unique, UuidUnique, LiveNamesUnique, Live,
               PendingKeyed, TypeOK
<1>16. CASE BootDone \/ Tick \/ RunDone \/ PassDone \/ Drained \/ Boot \/ Signal
  BY <1>16, UniqueStutter
     DEF BootDone, Tick, RunDone, PassDone, Drained, Boot, Signal
<1>17. ASSUME NEW c \in Conns, PutDone(c) PROVE Unique'
  BY <1>17, UniqueStutter DEF PutDone
<1>18. CASE Shutdown
  <2>1. \A r \in Slots : g_dev'[r] \in {g_dev[r], [g_dev[r] EXCEPT !.stop = TRUE]}
    BY <1>18 DEF Shutdown
  <2>2. UuidUnique' /\ LiveNamesUnique'
    BY <2>1, StopFields, UniqueStop DEF Unique, Live, TypeOK
  <2>. QED BY <1>18, <2>2 DEF Shutdown, Unique, PendingKeyed
<1>19. CASE Unload \/ Crash
  BY <1>19 DEF Unload, Crash, Reset, NoPending, Free, Unique, UuidUnique,
               LiveNamesUnique, Live, PendingKeyed
<1>. QED
  BY <1>1, <1>2, <1>3, <1>4, <1>5, <1>6, <1>7, <1>8, <1>9, <1>10, <1>11, <1>12,
     <1>13, <1>14, <1>15, <1>16, <1>17, <1>18, <1>19
     DEF Next, Daemon, MainStep, AddStep, PendingStep, DeviceSlice, Request

\* Uniqueness is invariant.
LEMMA UniqueHolds == Spec => []Unique
<1>1. Init => Unique
  BY DEF Init, NoPending, Free, Unique, UuidUnique, LiveNamesUnique, Live, PendingKeyed
<1>2. TypeOK /\ Unique /\ [Next]_vars => Unique'
  <2>1. CASE UNCHANGED vars BY <2>1, UniqueStutter DEF vars
  <2>. QED BY <2>1, UniqueNext
<1>. QED BY <1>1, <1>2, TypeCorrect, PTL DEF Spec

\* In every reachable state no two slots in use have the same uuid, and no
\* two running modules the same name.
THEOREM ModulesUnique == Spec => []ModulesDistinct
<1>1. Unique => ModulesDistinct BY DEF Unique, ModulesDistinct
<1>. QED BY <1>1, UniqueHolds, PTL

----------------------------------------------------------------------------
(* Queues.  `Inj` and `In` reduce the run queues to sets of threads.       *)

Inj(q) == \A i, j \in 1 .. Len(q) : q[i] = q[j] => i = j
In(t, q) == \E i \in 1 .. Len(q) : q[i] = t

\* Unlinking the oldest thread.
LEMMA TailQueue ==
    ASSUME NEW q \in Seq(Threads), q # <<>>, Inj(q)
    PROVE  Inj(Tail(q)) /\ \A t : In(t, Tail(q)) <=> In(t, q) /\ t # Head(q)
<1>1. /\ Len(q) \in Nat \ {0} /\ Len(Tail(q)) = Len(q) - 1 /\ Head(q) = q[1]
      /\ \A i \in 1 .. Len(q) - 1 : Tail(q)[i] = q[i + 1]
  OBVIOUS
<1>2. Inj(Tail(q)) BY <1>1 DEF Inj
<1>3. ASSUME NEW t, In(t, Tail(q)) PROVE In(t, q) /\ t # Head(q)
  BY <1>1, <1>3 DEF In, Inj
<1>4. ASSUME NEW t, In(t, q), t # Head(q) PROVE In(t, Tail(q))
  <2>1. PICK i \in 1 .. Len(q) : q[i] = t BY <1>4 DEF In
  <2>2. i - 1 \in 1 .. Len(q) - 1 BY <1>1, <1>4, <2>1
  <2>. QED BY <1>1, <2>1, <2>2 DEF In
<1>. QED BY <1>2, <1>3, <1>4

\* Appending a thread that is not queued.
LEMMA AppendQueue ==
    ASSUME NEW q \in Seq(Threads), NEW x, Inj(q), ~In(x, q)
    PROVE  Inj(Append(q, x)) /\ \A t : In(t, Append(q, x)) <=> In(t, q) \/ t = x
<1>1. /\ Len(q) \in Nat /\ Len(Append(q, x)) = Len(q) + 1
      /\ Append(q, x)[Len(q) + 1] = x
      /\ \A i \in 1 .. Len(q) : Append(q, x)[i] = q[i]
  OBVIOUS
<1>2. Inj(Append(q, x))
  <2>. SUFFICES ASSUME NEW i \in 1 .. Len(q) + 1, NEW j \in 1 .. Len(q) + 1,
                       Append(q, x)[i] = Append(q, x)[j]
                PROVE  i = j
    BY <1>1 DEF Inj
  <2>1. CASE i \in 1 .. Len(q) /\ j \in 1 .. Len(q) BY <1>1, <2>1 DEF Inj
  <2>2. CASE i = Len(q) + 1 \/ j = Len(q) + 1 BY <1>1, <2>2 DEF In
  <2>. QED BY <1>1, <2>1, <2>2
<1>3. \A t : In(t, Append(q, x)) <=> In(t, q) \/ t = x BY <1>1 DEF In
<1>. QED BY <1>2, <1>3

\* One queue behind another that shares no thread with it.
LEMMA ConcatQueue ==
    ASSUME NEW q \in Seq(Threads), NEW r \in Seq(Threads)
    PROVE  /\ Inj(q \o r) <=> Inj(q) /\ Inj(r) /\ \A t : ~(In(t, q) /\ In(t, r))
           /\ \A t : In(t, q \o r) <=> In(t, q) \/ In(t, r)
<1>1. /\ Len(q) \in Nat /\ Len(r) \in Nat /\ Len(q \o r) = Len(q) + Len(r)
      /\ \A i \in 1 .. Len(q) : (q \o r)[i] = q[i]
      /\ \A i \in 1 .. Len(r) : (q \o r)[Len(q) + i] = r[i]
  OBVIOUS
<1>2. \A k \in 1 .. Len(q) + Len(r) :
         k \in 1 .. Len(q) \/ \E i \in 1 .. Len(r) : k = Len(q) + i
  <2>1. ASSUME NEW k \in 1 .. Len(q) + Len(r), k \notin 1 .. Len(q)
        PROVE  k - Len(q) \in 1 .. Len(r) /\ k = Len(q) + (k - Len(q))
    BY <1>1, <2>1
  <2>. QED BY <2>1
<1>3. \A t : In(t, q \o r) <=> In(t, q) \/ In(t, r)
  <2>1. ASSUME NEW t, In(t, q \o r) PROVE In(t, q) \/ In(t, r)
    BY <1>1, <1>2, <2>1 DEF In
  <2>2. ASSUME NEW t, In(t, q) PROVE In(t, q \o r) BY <1>1, <2>2 DEF In
  <2>3. ASSUME NEW t, In(t, r) PROVE In(t, q \o r)
    <3>1. PICK i \in 1 .. Len(r) : r[i] = t BY <2>3 DEF In
    <3>2. Len(q) + i \in 1 .. Len(q \o r) BY <1>1
    <3>. QED BY <1>1, <3>1, <3>2 DEF In
  <2>. QED BY <2>1, <2>2, <2>3
<1>4. ASSUME Inj(q), Inj(r), \A t : ~(In(t, q) /\ In(t, r)) PROVE Inj(q \o r)
  <2>. SUFFICES ASSUME NEW k \in 1 .. Len(q) + Len(r), NEW l \in 1 .. Len(q) + Len(r),
                       (q \o r)[k] = (q \o r)[l]
                PROVE  k = l
    BY <1>1 DEF Inj
  <2>1. CASE k \in 1 .. Len(q) /\ l \in 1 .. Len(q) BY <1>1, <1>4, <2>1 DEF Inj
  <2>2. CASE k \in 1 .. Len(q) /\ l \notin 1 .. Len(q)
    <3>1. PICK i \in 1 .. Len(r) : l = Len(q) + i BY <1>2, <2>2
    <3>2. q[k] = r[i] BY <1>1, <2>2, <3>1
    <3>. QED BY <1>4, <2>2, <3>2 DEF In
  <2>3. CASE k \notin 1 .. Len(q) /\ l \in 1 .. Len(q)
    <3>1. PICK i \in 1 .. Len(r) : k = Len(q) + i BY <1>2, <2>3
    <3>2. q[l] = r[i] BY <1>1, <2>3, <3>1
    <3>. QED BY <1>4, <2>3, <3>2 DEF In
  <2>4. CASE k \notin 1 .. Len(q) /\ l \notin 1 .. Len(q)
    <3>1. PICK i \in 1 .. Len(r) : k = Len(q) + i BY <1>2, <2>4
    <3>2. PICK j \in 1 .. Len(r) : l = Len(q) + j BY <1>2, <2>4
    <3>3. r[i] = r[j] BY <1>1, <3>1, <3>2
    <3>. QED BY <1>4, <3>1, <3>2, <3>3 DEF Inj
  <2>. QED BY <2>1, <2>2, <2>3, <2>4
<1>5. ASSUME Inj(q \o r) PROVE Inj(q) BY <1>1, <1>5 DEF Inj
<1>6. ASSUME Inj(q \o r) PROVE Inj(r)
  <2>. SUFFICES ASSUME NEW i \in 1 .. Len(r), NEW j \in 1 .. Len(r), r[i] = r[j]
                PROVE  i = j
    BY DEF Inj
  <2>1. Len(q) + i \in 1 .. Len(q \o r) /\ Len(q) + j \in 1 .. Len(q \o r) BY <1>1
  <2>2. Len(q) + i = Len(q) + j BY <1>1, <1>6, <2>1 DEF Inj
  <2>. QED BY <1>1, <2>2
<1>7. ASSUME Inj(q \o r), NEW t, In(t, q), In(t, r) PROVE FALSE
  <2>1. PICK i \in 1 .. Len(q) : q[i] = t BY <1>7 DEF In
  <2>2. PICK j \in 1 .. Len(r) : r[j] = t BY <1>7 DEF In
  <2>3. i \in 1 .. Len(q \o r) /\ Len(q) + j \in 1 .. Len(q \o r) BY <1>1
  <2>4. i = Len(q) + j BY <1>1, <1>7, <2>1, <2>2, <2>3 DEF Inj
  <2>. QED BY <1>1, <2>4
<1>. QED BY <1>3, <1>4, <1>5, <1>6, <1>7

----------------------------------------------------------------------------
(* Threads and slots.  The inductive invariant: no thread is queued twice, *)
(* a slot is in use exactly while its thread is queued, and the phases of  *)
(* start and shutdown constrain what can be queued at all.                 *)

QueuesInj ==
    /\ Inj(ready) /\ Inj(waiting)
    /\ \A t : ~(In(t, ready) /\ In(t, waiting))

QueuedSlots ==
    \A s \in Slots : g_dev[s].in_use <=> In(s, ready) \/ In(s, waiting)

PhaseQueues ==
    /\ pc \in {"off", "boot"} => \A t : In(t, ready) \/ In(t, waiting) => t \in Slots
    /\ pc \in {"off", "unload"} => ready = <<>>
    /\ pc \in {"off", "drain", "unload"} => waiting = <<>>
    /\ pc \in {"stop", "drain", "unload"} => g_quit

Discipline == QueuesInj /\ QueuedSlots /\ PhaseQueues

\* A step that moves nothing between the queues and frees or fills no slot.
LEMMA DisciplineSame ==
    ASSUME Discipline, UNCHANGED <<ready, waiting>>,
           \A s \in Slots : g_dev'[s].in_use = g_dev[s].in_use,
           PhaseQueues'
    PROVE  Discipline'
BY DEF Discipline, QueuesInj, QueuedSlots

\* The running thread parks.
LEMMA DisciplinePark ==
    ASSUME TypeOK, Discipline, NEW t \in Threads, ready # <<>>, Head(ready) = t, Park(t),
           \A s \in Slots : g_dev'[s].in_use = g_dev[s].in_use,
           pc \in {"run", "drain", "apply"}, ~g_quit \/ pc = "apply",
           pc' = "run", g_quit' = g_quit
    PROVE  Discipline'
<1>1. Inj(ready) /\ Inj(waiting) /\ \A x : ~(In(x, ready) /\ In(x, waiting))
  BY DEF Discipline, QueuesInj
<1>2. In(t, ready) BY DEF In, TypeOK
<1>3. ready \in Seq(Threads) /\ waiting \in Seq(Threads) BY DEF TypeOK
<1>4. Inj(ready') /\ \A x : In(x, ready') <=> In(x, ready) /\ x # t
  BY <1>1, <1>3, TailQueue DEF Park
<1>5. Inj(waiting') /\ \A x : In(x, waiting') <=> In(x, waiting) \/ x = t
  BY <1>1, <1>2, <1>3, AppendQueue DEF Park
<1>6. QueuesInj' BY <1>1, <1>4, <1>5 DEF QueuesInj
<1>7. QueuedSlots' BY <1>2, <1>4, <1>5 DEF Discipline, QueuedSlots
<1>8. PhaseQueues' BY DEF PhaseQueues
<1>. QED BY <1>6, <1>7, <1>8 DEF Discipline

\* The running thread ends; if it is a module's, the slot is freed.
LEMMA DisciplineEnd ==
    ASSUME TypeOK, Discipline, NEW t \in Threads, Running(t), End(t),
           \A s \in Slots : g_dev'[s].in_use <=> g_dev[s].in_use /\ s # t,
           UNCHANGED <<pc, g_quit>>
    PROVE  Discipline'
<1>1. Inj(ready) /\ Inj(waiting) /\ \A x : ~(In(x, ready) /\ In(x, waiting))
  BY DEF Discipline, QueuesInj
<1>2. ready # <<>> /\ Head(ready) = t /\ pc \in {"run", "drain"} BY DEF Running
<1>3. In(t, ready) BY <1>2 DEF In, TypeOK
<1>4. Inj(ready') /\ \A x : In(x, ready') <=> In(x, ready) /\ x # t
  BY <1>1, <1>2, TailQueue DEF End, TypeOK
<1>5. waiting' = waiting BY DEF End
<1>6. QueuesInj' BY <1>1, <1>4, <1>5 DEF QueuesInj
<1>7. QueuedSlots' BY <1>1, <1>3, <1>4, <1>5 DEF Discipline, QueuedSlots
<1>8. PhaseQueues' BY <1>2, <1>5 DEF Discipline, PhaseQueues
<1>. QED BY <1>6, <1>7, <1>8 DEF Discipline

\* A new thread, not queued so far, is appended behind the others.
LEMMA DisciplineCreate ==
    ASSUME TypeOK, Discipline, NEW t \in Threads, ~In(t, ready), ~In(t, waiting),
           ready' = Append(ready, t), UNCHANGED waiting,
           \A s \in Slots : g_dev'[s].in_use <=> g_dev[s].in_use \/ s = t,
           PhaseQueues'
    PROVE  Discipline'
<1>1. Inj(ready) /\ Inj(waiting) /\ \A x : ~(In(x, ready) /\ In(x, waiting))
  BY DEF Discipline, QueuesInj
<1>2. Inj(ready') /\ \A x : In(x, ready') <=> In(x, ready) \/ x = t
  BY <1>1, AppendQueue DEF TypeOK
<1>3. QueuesInj' BY <1>1, <1>2 DEF QueuesInj
<1>4. QueuedSlots' BY <1>2 DEF Discipline, QueuedSlots
<1>. QED BY <1>3, <1>4 DEF Discipline

\* pt_broadcast wakes every parked thread.
LEMMA DisciplineWake ==
    ASSUME TypeOK, Discipline, ready' = pt_broadcast, waiting' = <<>>,
           \A s \in Slots : g_dev'[s].in_use = g_dev[s].in_use,
           PhaseQueues'
    PROVE  Discipline'
<1>1. Inj(ready) /\ Inj(waiting) /\ \A x : ~(In(x, ready) /\ In(x, waiting))
  BY DEF Discipline, QueuesInj
<1>2. Inj(ready') /\ \A x : In(x, ready') <=> In(x, ready) \/ In(x, waiting)
  BY <1>1, ConcatQueue DEF pt_broadcast, TypeOK
<1>3. Inj(waiting') /\ \A x : ~In(x, waiting') BY DEF Inj, In
<1>4. QueuesInj' BY <1>2, <1>3 DEF QueuesInj
<1>5. QueuedSlots' BY <1>2, <1>3 DEF Discipline, QueuedSlots
<1>. QED BY <1>4, <1>5 DEF Discipline

\* mf_devices_add fills a slot whose thread is not queued.
LEMMA OpenNotQueued ==
    ASSUME TypeOK, Discipline, NEW s \in Slots, NEW e, OpenIn(s, e)
    PROVE  /\ ~In(s, ready) /\ ~In(s, waiting) /\ s \in Threads
           /\ \A r \in Slots : g_dev'[r].in_use <=> g_dev[r].in_use \/ r = s
BY DEF Discipline, QueuedSlots, OpenIn, FirstFree, Opened, TypeOK, Threads

\* The slices of module, acceptor and idle connection threads keep the
\* discipline of the queues.
LEMMA DisciplineSlices ==
    ASSUME TypeOK, Discipline, HttpSlice \/ \E s \in Slots : DeviceSlice(s)
    PROVE  Discipline'
<1>0. pc = "drain" => g_quit BY DEF Discipline, PhaseQueues
<1>1. ASSUME NEW s \in Slots, DevicePoll(s) PROVE Discipline'
  <2>1. ~g_quit /\ s \in Threads BY <1>1 DEF DevicePoll, MustStop, Threads
  <2>. QED BY <1>0, <1>1, <2>1, DisciplinePark DEF DevicePoll, Running
<1>2. ASSUME NEW s \in Slots, DeviceExit(s) PROVE Discipline'
  <2>1. \A r \in Slots : g_dev'[r].in_use <=> g_dev[r].in_use /\ r # s
    BY <1>2 DEF DeviceExit, TypeOK, Free
  <2>2. s \in Threads BY DEF Threads
  <2>. QED BY <1>2, <2>1, <2>2, DisciplineEnd DEF DeviceExit
<1>3. ASSUME NEW t \in {Acceptor} \union Conns
      PROVE  t \in Threads /\ t \notin Slots
  BY ThreadAssumption DEF Threads
<1>4. ASSUME NEW t \in {Acceptor} \union Conns, FirstSlice(t) PROVE Discipline'
  BY <1>0, <1>3, <1>4, DisciplinePark DEF FirstSlice, Running
<1>5. ASSUME NEW t \in {Acceptor} \union Conns, ThreadQuit(t) PROVE Discipline'
  BY <1>3, <1>5, DisciplineEnd DEF ThreadQuit
<1>6. ASSUME AcceptPark PROVE Discipline'
  BY <1>0, <1>3, <1>6, DisciplinePark DEF AcceptPark, Running
<1>7. ASSUME NEW c \in Conns, Accept(c) PROVE Discipline'
  <2>1. ~In(c, ready) /\ ~In(c, waiting)
    BY <1>7 DEF Accept, Queued, In, TypeOK
  <2>2. PhaseQueues' BY <1>0, <1>7 DEF Accept, Running, PhaseQueues
  <2>. QED BY <1>3, <1>7, <2>1, <2>2, DisciplineCreate DEF Accept
<1>8. ASSUME NEW c \in Conns, ConnClose(c) PROVE Discipline'
  BY <1>3, <1>8, DisciplineEnd DEF ConnClose
<1>9. ASSUME NEW c \in Conns, ConnIdle(c) PROVE Discipline'
  BY <1>0, <1>3, <1>9, DisciplinePark DEF ConnIdle, Running
<1>. QED BY <1>1, <1>2, <1>4, <1>5, <1>6, <1>7, <1>8, <1>9
         DEF HttpSlice, DeviceSlice

\* Every REST request keeps it.
LEMMA DisciplineRequests ==
    ASSUME TypeOK, Discipline, NEW c \in Conns, Request(c)
    PROVE  Discipline'
<1>0. c \in Threads /\ c \notin Slots BY ThreadAssumption DEF Threads
<1>1. pc = "run" /\ ~g_quit /\ ready # <<>> /\ Head(ready) = c
  BY DEF Request, handle_devices_create, handle_device_delete, DeleteNotFound,
         handle_settings_put, handle_config_load, handle_config_put, Serving,
         Running, Discipline, PhaseQueues
<1>2. ASSUME NEW u \in Uuids, NEW n \in Names, NEW i \in Idents,
             handle_devices_create(c, u, n, i)
      PROVE  Discipline'
  <2>1. PICK s \in Slots :
           /\ OpenIn(s, [uuid |-> u, name |-> n, ident |-> i, enabled |-> TRUE])
           /\ ready' = Append(Tail(ready), s)
    BY <1>2 DEF handle_devices_create
  <2>2. /\ ~In(s, ready) /\ ~In(s, waiting) /\ s \in Threads
        /\ \A r \in Slots : g_dev'[r].in_use <=> g_dev[r].in_use \/ r = s
    BY <2>1, OpenNotQueued
  <2>3. Inj(ready) /\ Inj(waiting) /\ \A x : ~(In(x, ready) /\ In(x, waiting))
    BY DEF Discipline, QueuesInj
  <2>4. In(c, ready) BY <1>1 DEF In, TypeOK
  <2>5. /\ Tail(ready) \in Seq(Threads) /\ Inj(Tail(ready))
        /\ \A x : In(x, Tail(ready)) <=> In(x, ready) /\ x # c
    BY <1>1, <2>3, TailQueue, RunningType DEF TypeOK
  <2>6. Inj(ready') /\ \A x : In(x, ready') <=> (In(x, ready) /\ x # c) \/ x = s
    BY <2>1, <2>2, <2>5, AppendQueue
  <2>7. Inj(waiting') /\ \A x : In(x, waiting') <=> In(x, waiting) \/ x = c
    BY <1>2, <2>3, <2>4, AppendQueue DEF handle_devices_create, TypeOK
  <2>8. s # c BY <1>0
  <2>9. QueuesInj' BY <2>2, <2>3, <2>6, <2>7, <2>8 DEF QueuesInj
  <2>10. QueuedSlots'
    BY <1>0, <2>2, <2>6, <2>7 DEF Discipline, QueuedSlots
  <2>11. PhaseQueues' BY <1>1, <1>2 DEF handle_devices_create, PhaseQueues
  <2>. QED BY <2>9, <2>10, <2>11 DEF Discipline
<1>3. ASSUME NEW u \in Uuids, handle_device_delete(c, u) PROVE Discipline'
  <2>1. \A r \in Slots : g_dev'[r].in_use = g_dev[r].in_use
    BY <1>3, StopFields DEF handle_device_delete, TypeOK
  <2>. QED BY <1>0, <1>1, <1>3, <2>1, DisciplinePark DEF handle_device_delete
<1>4. ASSUME NEW u \in Uuids, DeleteNotFound(c, u) PROVE Discipline'
  BY <1>0, <1>1, <1>4, DisciplinePark DEF DeleteNotFound
<1>5. ASSUME NEW s \in Slots, NEW n \in Names, NEW ok \in BOOLEAN,
             handle_settings_put(c, s, n, ok)
      PROVE  Discipline'
  <2>1. g_dev[s] \in Device BY <1>5, DeviceType DEF handle_settings_put, Live, TypeOK
  <2>2. \A r \in Slots : g_dev'[r].in_use = g_dev[r].in_use
    BY <1>5, <2>1 DEF handle_settings_put, TypeOK, Device
  <2>. QED BY <1>0, <1>1, <1>5, <2>2, DisciplinePark DEF handle_settings_put
<1>6. ASSUME NEW doc, handle_config_put(c, doc) PROVE Discipline'
  <2>1. \A r \in Slots : g_dev'[r].in_use = g_dev[r].in_use
    BY <1>6, PatchSlotInUse DEF handle_config_put, TypeOK
  <2>2. PhaseQueues' BY <1>6 DEF handle_config_put, PhaseQueues
  <2>. QED BY <1>6, <2>1, <2>2, DisciplineSame DEF handle_config_put
<1>. QED BY <1>2, <1>3, <1>4, <1>5, <1>6 DEF Request, handle_config_load

\* So do opening modules, the main loop, signals and crashes.
LEMMA DisciplineRest ==
    ASSUME TypeOK, Discipline,
           AddStep \/ PendingStep \/ MainStep \/ Boot \/ Signal \/ Crash
    PROVE  Discipline'
<1>1. CASE AddSkip \/ AddQueue \/ AddFail
  <2>1. UNCHANGED <<g_dev, ready, waiting, pc, g_quit>>
    BY <1>1 DEF AddSkip, AddQueue, AddFail, OpenFails, Advance
  <2>2. PhaseQueues' BY <2>1 DEF Discipline, PhaseQueues
  <2>. QED BY <2>1, <2>2, DisciplineSame
<1>2. CASE AddOpen
  <2>1. PICK s \in Slots : OpenIn(s, Head(todo)) /\ ready' = Append(ready, s)
    BY <1>2 DEF AddOpen
  <2>2. /\ ~In(s, ready) /\ ~In(s, waiting) /\ s \in Threads
        /\ \A r \in Slots : g_dev'[r].in_use <=> g_dev[r].in_use \/ r = s
    BY <2>1, OpenNotQueued
  <2>3. UNCHANGED <<waiting, pc, g_quit>> /\ pc \in {"boot", "apply"}
    BY <1>2 DEF AddOpen, Adding, Advance
  <2>4. \A t : In(t, ready') => In(t, ready) \/ t = s
    BY <2>1, <2>2, AppendQueue DEF TypeOK, Discipline, QueuesInj
  <2>5. PhaseQueues' BY <2>3, <2>4 DEF Discipline, PhaseQueues
  <2>. QED BY <2>1, <2>2, <2>3, <2>5, DisciplineCreate
<1>3. ASSUME NEW u \in Uuids, PendingWait(u) \/ PendingDrop(u) PROVE Discipline'
  <2>1. UNCHANGED <<g_dev, ready, waiting, pc, g_quit>>
    BY <1>3 DEF PendingWait, PendingDrop, OpenFails
  <2>2. PhaseQueues' BY <2>1 DEF Discipline, PhaseQueues
  <2>. QED BY <2>1, <2>2, DisciplineSame
<1>4. ASSUME NEW u \in Uuids, PendingOpen(u) PROVE Discipline'
  <2>1. PICK s \in Slots : OpenIn(s, g_pending[u]) /\ ready' = Append(ready, s)
    BY <1>4 DEF PendingOpen
  <2>2. /\ ~In(s, ready) /\ ~In(s, waiting) /\ s \in Threads
        /\ \A r \in Slots : g_dev'[r].in_use <=> g_dev[r].in_use \/ r = s
    BY <2>1, OpenNotQueued
  <2>3. PhaseQueues' BY <1>4 DEF PendingOpen, PhaseQueues
  <2>. QED BY <1>4, <2>1, <2>2, <2>3, DisciplineCreate DEF PendingOpen
<1>5. CASE BootDone
  <2>1. ~In(Acceptor, ready) /\ ~In(Acceptor, waiting)
    BY <1>5, ThreadAssumption DEF BootDone, Discipline, PhaseQueues
  <2>2. PhaseQueues' BY <1>5 DEF BootDone, PhaseQueues
  <2>3. Acceptor \in Threads /\ Acceptor \notin Slots BY ThreadAssumption DEF Threads
  <2>. QED BY <1>5, <2>1, <2>2, <2>3, DisciplineCreate DEF BootDone
<1>6. CASE Tick
  <2>1. PhaseQueues' BY <1>6 DEF Tick, PhaseQueues
  <2>. QED BY <1>6, <2>1, DisciplineWake DEF Tick
<1>7. CASE RunDone \/ PassDone
  <2>1. PhaseQueues' BY <1>7 DEF RunDone, PassDone, AfterPass, Discipline, PhaseQueues
  <2>. QED BY <1>7, <2>1, DisciplineSame DEF RunDone, PassDone
<1>8. CASE Shutdown
  <2>1. \A r \in Slots : g_dev'[r].in_use = g_dev[r].in_use
    BY <1>8, StopFields DEF Shutdown, TypeOK
  <2>2. PhaseQueues' BY <1>8 DEF Shutdown, Discipline, PhaseQueues
  <2>. QED BY <1>8, <2>1, <2>2, DisciplineWake DEF Shutdown
<1>9. CASE Drained
  <2>1. PhaseQueues' BY <1>9 DEF Drained, Discipline, PhaseQueues
  <2>. QED BY <1>9, <2>1, DisciplineSame DEF Drained
<1>10. ASSUME NEW c \in Conns, PutDone(c) PROVE Discipline'
  <2>1. c \in Threads BY DEF Threads
  <2>. QED BY <1>10, <2>1, DisciplinePark DEF PutDone
<1>11. CASE Boot \/ Signal
  <2>1. PhaseQueues' BY <1>11 DEF Boot, Signal, Discipline, PhaseQueues
  <2>. QED BY <1>11, <2>1, DisciplineSame DEF Boot, Signal
<1>12. CASE Unload \/ Crash
  BY <1>12 DEF Unload, Crash, Reset, Free, Discipline, QueuesInj, QueuedSlots,
               PhaseQueues, Inj, In
<1>. QED BY <1>1, <1>2, <1>3, <1>4, <1>5, <1>6, <1>7, <1>8, <1>9, <1>10, <1>11, <1>12
         DEF AddStep, PendingStep, MainStep

\* The inductive invariant holds in every reachable state.
THEOREM DisciplineHolds == Spec => []Discipline
<1>1. Init => Discipline
  BY DEF Init, Free, Discipline, QueuesInj, QueuedSlots, PhaseQueues, Inj, In
<1>2. TypeOK /\ Discipline /\ [Next]_vars => Discipline'
  <2>. SUFFICES ASSUME TypeOK, Discipline, [Next]_vars PROVE Discipline' OBVIOUS
  <2>1. CASE Next
    BY <2>1, DisciplineSlices, DisciplineRequests, DisciplineRest DEF Next, Daemon
  <2>2. CASE UNCHANGED vars
    BY <2>2 DEF vars, loop, Discipline, QueuesInj, QueuedSlots, PhaseQueues
  <2>. QED BY <2>1, <2>2
<1>. QED BY <1>1, <1>2, TypeCorrect, PTL DEF Spec

\* A slot is in use exactly while its one thread is queued.
THEOREM ThreadDisciplineHolds == Spec => []ThreadDiscipline
<1>1. TypeOK /\ Discipline => ThreadDiscipline
  <2>. SUFFICES ASSUME TypeOK, Discipline PROVE ThreadDiscipline OBVIOUS
  <2>. DEFINE all == ready \o waiting
  <2>1. all \in Seq(Threads) BY DEF TypeOK
  <2>2. Inj(all) /\ \A t : In(t, all) <=> In(t, ready) \/ In(t, waiting)
    BY ConcatQueue DEF TypeOK, Discipline, QueuesInj
  <2>. HIDE DEF all
  <2>3. DOMAIN all = 1 .. Len(all) BY <2>1
  <2>4. \A i, j \in DOMAIN all : all[i] = all[j] => i = j BY <2>2, <2>3 DEF Inj
  <2>5. \A s \in Slots : g_dev[s].in_use <=> \E i \in DOMAIN all : all[i] = s
    BY <2>2, <2>3 DEF In, Discipline, QueuedSlots
  <2>. QED BY <2>4, <2>5 DEF ThreadDiscipline, all
<1>. QED BY <1>1, TypeCorrect, DisciplineHolds, PTL

\* When the plugins are unloaded every slot has been closed by its thread.
THEOREM UnloadSafe == Spec => []NothingOpenAtUnload
<1>1. TypeOK /\ Discipline => NothingOpenAtUnload
  BY DEF TypeOK, Discipline, QueuedSlots, PhaseQueues, NothingOpenAtUnload, In
<1>. QED BY <1>1, TypeCorrect, DisciplineHolds, PTL

----------------------------------------------------------------------------
(* A slot changes hands only by being freed. *)

SlotKept ==
    \A s \in Slots : g_dev[s].in_use /\ g_dev'[s].in_use =>
        /\ g_dev'[s].uuid = g_dev[s].uuid
        /\ g_dev'[s].ident = g_dev[s].ident

\* No step gives a slot in use another uuid or another identity.
THEOREM IdentityFixedHolds == Spec => IdentityFixed
<1>1. TypeOK /\ [Next]_vars => SlotKept
  <2>. SUFFICES ASSUME TypeOK, Next, g_dev' # g_dev PROVE SlotKept
    BY DEF SlotKept, vars
  <2>1. ASSUME NEW s \in Slots, NEW e, OpenIn(s, e) PROVE SlotKept
    BY <2>1 DEF OpenIn, FirstFree, SlotKept, TypeOK
  <2>2. ASSUME NEW s \in Slots, DeviceExit(s) PROVE SlotKept
    BY <2>2 DEF DeviceExit, SlotKept, TypeOK, Free
  <2>3. ASSUME \A r \in Slots : g_dev'[r] \in {g_dev[r], [g_dev[r] EXCEPT !.stop = TRUE]}
        PROVE  SlotKept
    BY <2>3, StopFields DEF SlotKept, TypeOK
  <2>4. ASSUME NEW c, NEW s \in Slots, NEW n \in Names, NEW ok,
               handle_settings_put(c, s, n, ok)
        PROVE  SlotKept
    <3>1. g_dev[s] \in Device
      BY <2>4, DeviceType DEF handle_settings_put, Live, TypeOK
    <3>. QED BY <2>4, <3>1 DEF handle_settings_put, SlotKept, TypeOK, Device
  <2>5. ASSUME NEW c, NEW doc, handle_config_put(c, doc) PROVE SlotKept
    BY <2>5, PatchSlotCases DEF handle_config_put, SlotKept, TypeOK
  <2>6. CASE Unload \/ Crash BY <2>6 DEF Unload, Crash, Reset, Free, SlotKept
  <2>7. CASE Shutdown
    <3>1. \A r \in Slots : g_dev'[r] \in {g_dev[r], [g_dev[r] EXCEPT !.stop = TRUE]}
      BY <2>7 DEF Shutdown
    <3>. QED BY <2>3, <3>1
  <2>8. ASSUME NEW c \in Conns, Request(c) PROVE SlotKept
    <3>1. ASSUME NEW u \in Uuids, handle_device_delete(c, u) PROVE SlotKept
      <4>1. \A r \in Slots :
               g_dev'[r] \in {g_dev[r], [g_dev[r] EXCEPT !.stop = TRUE]}
        BY <3>1 DEF handle_device_delete
      <4>. QED BY <2>3, <4>1
    <3>2. ASSUME NEW u \in Uuids, DeleteNotFound(c, u) PROVE FALSE
      BY <3>2 DEF DeleteNotFound
    <3>3. ASSUME NEW u \in Uuids, NEW n \in Names, NEW i \in Idents,
                 handle_devices_create(c, u, n, i)
          PROVE  SlotKept
      BY <2>1, <3>3 DEF handle_devices_create
    <3>. QED BY <2>4, <2>5, <2>8, <3>1, <3>2, <3>3 DEF Request, handle_config_load
  <2>9. CASE AddStep
    <3>1. AddOpen BY <2>9 DEF AddStep, AddSkip, AddQueue, AddFail, OpenFails
    <3>. QED BY <2>1, <3>1 DEF AddOpen
  <2>10. CASE PendingStep
    <3>1. PICK u \in Uuids : PendingOpen(u)
      BY <2>10 DEF PendingStep, PendingWait, PendingDrop, OpenFails
    <3>. QED BY <2>1, <3>1 DEF PendingOpen
  <2>11. ~(BootDone \/ Tick \/ RunDone \/ PassDone \/ Drained \/ Boot \/ Signal)
    BY DEF BootDone, Tick, RunDone, PassDone, Drained, Boot, Signal
  <2>12. ~HttpSlice /\ (\A s \in Slots : ~DevicePoll(s)) /\ (\A c \in Conns : ~PutDone(c))
    BY DEF HttpSlice, FirstSlice, ThreadQuit, AcceptPark, Accept, ConnClose,
           ConnIdle, DevicePoll, PutDone
  <2>. QED BY <2>2, <2>6, <2>7, <2>8, <2>9, <2>10, <2>11, <2>12
           DEF Next, Daemon, MainStep, DeviceSlice
<1>2. TypeOK /\ [Next]_vars => [SlotKept]_g_dev BY <1>1
<1>. QED BY <1>2, TypeCorrect, PTL DEF Spec, IdentityFixed, SlotKept

----------------------------------------------------------------------------
(* The saved configuration is one that the next start accepts.             *)

\* An entry stands in a document.
Has(doc, e) == \E i \in DOMAIN doc : doc[i] = e

\* In an acceptable document a uuid has one entry.
LEMMA UuidOnce ==
    ASSUME NEW doc \in Seq(Entry), ValidAlone(doc),
           NEW i \in DOMAIN doc, NEW j \in DOMAIN doc, doc[i].uuid = doc[j].uuid
    PROVE  i = j
<1>1. i \in Nat /\ j \in Nat
  OBVIOUS
<1>2. ~(i < j) /\ ~(j < i)
  BY DEF ValidAlone
<1>. QED BY <1>1, <1>2

\* EntryOf finds it.
LEMMA EntryOfOnce ==
    ASSUME NEW doc \in Seq(Entry), ValidAlone(doc), NEW e, Has(doc, e)
    PROVE  uuid_in_cfg(doc, e.uuid) /\ EntryOf(doc, e.uuid) = e
<1>1. PICK i \in DOMAIN doc : doc[i] = e
  BY DEF Has
<1>. DEFINE k == CHOOSE j \in DOMAIN doc : doc[j].uuid = e.uuid
<1>2. k \in DOMAIN doc /\ doc[k].uuid = e.uuid
  BY <1>1
<1>3. EntryOf(doc, e.uuid) = doc[k]
  BY DEF EntryOf
<1>. HIDE DEF k
<1>4. k = i
  BY <1>1, <1>2, UuidOnce
<1>. QED BY <1>1, <1>3, <1>4 DEF uuid_in_cfg

\* cfg_remove_uuid takes the module's entry out and leaves the others.
LEMMA RemoveEntries ==
    ASSUME NEW u, cfg \in Seq(Entry), ValidAlone(cfg)
    PROVE  /\ ValidAlone(cfg_remove_uuid(u))
           /\ \A e : Has(cfg_remove_uuid(u), e) <=> Has(cfg, e) /\ e.uuid # u
<1>1. CASE ~uuid_in_cfg(cfg, u)
  BY <1>1 DEF cfg_remove_uuid, uuid_in_cfg, Has
<1>2. CASE uuid_in_cfg(cfg, u)
  <2>. DEFINE at == CHOOSE i \in DOMAIN cfg : cfg[i].uuid = u
              new == [i \in 1 .. Len(cfg) - 1 |-> IF i < at THEN cfg[i] ELSE cfg[i + 1]]
  <2>1. at \in DOMAIN cfg /\ cfg[at].uuid = u
    BY <1>2 DEF uuid_in_cfg
  <2>2. cfg_remove_uuid(u) = new
    BY <1>2 DEF cfg_remove_uuid
  <2>. HIDE DEF at
  <2>3. at \in 1 .. Len(cfg) /\ Len(cfg) \in Nat /\ DOMAIN cfg = 1 .. Len(cfg)
    BY <2>1
  <2>4. \A i \in DOMAIN cfg : cfg[i].uuid = u => i = at
    BY <2>1, UuidOnce
  <2>5. ASSUME NEW i \in DOMAIN new
        PROVE  \E k \in DOMAIN cfg : k # at /\ new[i] = cfg[k] /\ k = IF i < at THEN i ELSE i + 1
    BY <2>3
  <2>6. ASSUME NEW k \in DOMAIN cfg, k # at
        PROVE  \E i \in DOMAIN new : new[i] = cfg[k]
    <3>1. CASE k < at
      BY <2>3, <2>6, <3>1
    <3>2. CASE k > at
      <4>1. k - 1 \in 1 .. Len(cfg) - 1 /\ ~(k - 1 < at) /\ k - 1 + 1 = k
        BY <2>3, <3>2
      <4>. QED BY <4>1
    <3>. QED BY <2>3, <2>6, <3>1, <3>2
  <2>7. ValidAlone(new)
    <3>1. ASSUME NEW i \in DOMAIN new, NEW j \in DOMAIN new, i < j
          PROVE  \E k, l \in DOMAIN cfg : k < l /\ new[i] = cfg[k] /\ new[j] = cfg[l]
      BY <2>3, <2>5, <3>1
    <3>. HIDE DEF new
    <3>. QED BY <3>1 DEF ValidAlone
  <2>8. ASSUME NEW e PROVE Has(new, e) <=> Has(cfg, e) /\ e.uuid # u
    <3>1. ASSUME Has(new, e) PROVE Has(cfg, e) /\ e.uuid # u
      BY <2>4, <2>5, <3>1 DEF Has
    <3>2. ASSUME Has(cfg, e), e.uuid # u PROVE Has(new, e)
      <4>1. PICK k \in DOMAIN cfg : cfg[k] = e
        BY <3>2 DEF Has
      <4>2. k # at
        BY <2>1, <3>2, <4>1
      <4>. QED BY <2>6, <4>1, <4>2 DEF Has
    <3>. QED BY <3>1, <3>2
  <2>. QED BY <2>2, <2>7, <2>8
<1>. QED BY <1>1, <1>2

\* cfg_upsert_from_json of a module whose uuid, name and endpoint are new.
LEMMA UpsertEntries ==
    ASSUME NEW e \in Entry, cfg \in Seq(Entry), ValidAlone(cfg),
           ~uuid_in_cfg(cfg, e.uuid), ~TakenInCfg(e.name, e.ident)
    PROVE  /\ ValidAlone(cfg_upsert_from_json(e))
           /\ Len(cfg) < MaxDevices =>
                \A x : Has(cfg_upsert_from_json(e), x) <=> Has(cfg, x) \/ x = e
<1>1. CASE ~(Len(cfg) < MaxDevices)
  BY <1>1 DEF cfg_upsert_from_json
<1>2. CASE Len(cfg) < MaxDevices
  <2>. DEFINE new == Append(cfg, e)
  <2>1. cfg_upsert_from_json(e) = new
    BY <1>2 DEF cfg_upsert_from_json
  <2>2. /\ Len(cfg) \in Nat /\ DOMAIN cfg = 1 .. Len(cfg) /\ DOMAIN new = 1 .. Len(cfg) + 1
        /\ new[Len(cfg) + 1] = e /\ \A i \in 1 .. Len(cfg) : new[i] = cfg[i]
    OBVIOUS
  <2>. HIDE DEF new
  <2>3. \A i \in DOMAIN cfg : /\ cfg[i].uuid # e.uuid /\ cfg[i].name # e.name
                              /\ ~SameEndpoint(cfg[i].ident, e.ident)
    BY DEF uuid_in_cfg, TakenInCfg
  <2>4. ValidAlone(new)
    <3>1. ASSUME NEW i \in DOMAIN new, NEW j \in DOMAIN new, i < j
          PROVE  /\ new[i].uuid # new[j].uuid /\ new[i].name # new[j].name
                 /\ ~SameEndpoint(new[i].ident, new[j].ident)
      <4>1. i \in DOMAIN cfg /\ new[i] = cfg[i]
        BY <2>2, <3>1
      <4>2. CASE j = Len(cfg) + 1
        BY <2>2, <2>3, <4>1, <4>2
      <4>3. CASE j # Len(cfg) + 1
        <5>1. j \in DOMAIN cfg /\ new[j] = cfg[j]
          BY <2>2, <4>3
        <5>. QED BY <3>1, <4>1, <5>1 DEF ValidAlone
      <4>. QED BY <4>2, <4>3
    <3>. QED BY <3>1 DEF ValidAlone
  <2>5. ASSUME NEW x PROVE Has(new, x) <=> Has(cfg, x) \/ x = e
    <3>1. \A i \in DOMAIN new : i \in DOMAIN cfg \/ i = Len(cfg) + 1
      BY <2>2
    <3>2. \A i \in DOMAIN cfg : i \in DOMAIN new
      BY <2>2
    <3>3. Len(cfg) + 1 \in DOMAIN new
      BY <2>2
    <3>. QED BY <2>2, <3>1, <3>2, <3>3 DEF Has
  <2>. QED BY <2>1, <2>4, <2>5
<1>. QED BY <1>1, <1>2

\* cfg_patch_settings with a name that no other module has.
LEMMA RenameEntries ==
    ASSUME NEW u, NEW n \in Names, cfg \in Seq(Entry), ValidAlone(cfg),
           \A k \in DOMAIN cfg : cfg[k].name = n => cfg[k].uuid = u
    PROVE  LET new == cfg_patch_settings(u, n)
           IN  /\ ValidAlone(new) /\ DOMAIN new = DOMAIN cfg
               /\ \A i \in DOMAIN cfg : /\ new[i].uuid = cfg[i].uuid
                                        /\ new[i].ident = cfg[i].ident
                                        /\ new[i].enabled = cfg[i].enabled
<1>. DEFINE new == cfg_patch_settings(u, n)
<1>1. DOMAIN new = DOMAIN cfg
  BY DEF cfg_patch_settings
<1>2. ASSUME NEW i \in DOMAIN cfg
      PROVE  /\ new[i].uuid = cfg[i].uuid /\ new[i].ident = cfg[i].ident
             /\ new[i].enabled = cfg[i].enabled
             /\ new[i].name = IF cfg[i].uuid = u THEN n ELSE cfg[i].name
  <2>1. cfg[i] \in Entry
    OBVIOUS
  <2>2. new[i] = IF cfg[i].uuid = u THEN [cfg[i] EXCEPT !.name = n] ELSE cfg[i]
    BY DEF cfg_patch_settings
  <2>. QED BY <2>1, <2>2 DEF Entry
<1>. HIDE DEF new
<1>3. ValidAlone(new)
  <2>1. ASSUME NEW i \in DOMAIN cfg, NEW j \in DOMAIN cfg, i < j
        PROVE  /\ new[i].uuid # new[j].uuid /\ new[i].name # new[j].name
               /\ ~SameEndpoint(new[i].ident, new[j].ident)
    <3>1. /\ cfg[i].uuid # cfg[j].uuid /\ cfg[i].name # cfg[j].name
          /\ ~SameEndpoint(cfg[i].ident, cfg[j].ident)
      BY <2>1 DEF ValidAlone
    <3>. QED BY <1>2, <3>1
  <2>. QED BY <1>1, <2>1 DEF ValidAlone
<1>. QED BY <1>1, <1>2, <1>3 DEF new

\* The configuration, and the document about to take its place.
BootsInv == ValidAlone(cfg) /\ (pc = "apply" => ValidAlone(next))

\* Every step keeps it, when clients give new names and endpoints.
LEMMA BootsStep ==
    ASSUME Distinct, TypeOK, BootsInv, [Next]_vars
    PROVE  BootsInv'
<1>0. cfg \in Seq(Entry) /\ ValidAlone(cfg)
  BY DEF TypeOK, BootsInv
<1>1. ASSUME NEW c \in Conns, NEW u \in Uuids, NEW n \in Names, NEW i \in Idents,
             handle_devices_create(c, u, n, i)
      PROVE  BootsInv'
  <2>. DEFINE e == [uuid |-> u, name |-> n, ident |-> i, enabled |-> TRUE]
  <2>1. e \in Entry /\ e.uuid = u /\ e.name = n /\ e.ident = i
    BY DEF Entry
  <2>2. /\ ~uuid_in_cfg(cfg, u) /\ ~TakenInCfg(n, i) /\ cfg' = cfg_upsert_from_json(e)
        /\ pc' = pc /\ pc # "apply"
    BY <1>1 DEF handle_devices_create, NewUuid, Serving, Running
  <2>. HIDE DEF e
  <2>3. ValidAlone(cfg_upsert_from_json(e))
    BY <1>0, <2>1, <2>2, UpsertEntries
  <2>. QED BY <2>2, <2>3 DEF BootsInv
<1>2. ASSUME NEW c \in Conns, NEW u \in Uuids, handle_device_delete(c, u)
      PROVE  BootsInv'
  <2>1. cfg' = cfg_remove_uuid(u) /\ pc' = pc /\ pc # "apply"
    BY <1>2 DEF handle_device_delete, Serving, Running
  <2>. QED BY <1>0, <2>1, RemoveEntries DEF BootsInv
<1>3. ASSUME NEW c \in Conns, NEW s \in Slots, NEW n \in Names, NEW ok \in BOOLEAN,
             handle_settings_put(c, s, n, ok)
      PROVE  BootsInv'
  <2>1. /\ cfg' \in {cfg, cfg_patch_settings(g_dev[s].uuid, n)} /\ pc' = pc /\ pc # "apply"
        /\ \A k \in DOMAIN cfg : cfg[k].name = n => cfg[k].uuid = g_dev[s].uuid
    BY <1>3 DEF handle_settings_put, Serving, Running
  <2>2. ValidAlone(cfg_patch_settings(g_dev[s].uuid, n))
    BY <1>0, <2>1, RenameEntries
  <2>. QED BY <1>0, <2>1, <2>2 DEF BootsInv
<1>4. ASSUME NEW c \in Conns, NEW doc, handle_config_put(c, doc)
      PROVE  BootsInv'
  BY <1>0, <1>4 DEF handle_config_put, mf_devices_validate_config, BootsInv
<1>5. ASSUME NEW c \in Conns, PutDone(c)
      PROVE  BootsInv'
  BY <1>5 DEF PutDone, BootsInv
<1>6. CASE AddStep
  BY <1>6 DEF AddStep, AddSkip, AddOpen, AddQueue, AddFail, Advance, BootsInv
<1>7. CASE UNCHANGED vars
  BY <1>7 DEF vars, loop, BootsInv
<1>8. CASE HttpSlice
  BY <1>8 DEF HttpSlice, FirstSlice, ThreadQuit, AcceptPark, Accept, ConnClose, ConnIdle,
              BootsInv
<1>9. CASE PendingStep
  BY <1>9 DEF PendingStep, PendingWait, PendingOpen, PendingDrop, BootsInv
<1>10. ASSUME NEW s \in Slots, DeviceSlice(s)
       PROVE  BootsInv'
  BY <1>10 DEF DeviceSlice, DevicePoll, DeviceExit, BootsInv
<1>11. CASE BootDone \/ Tick \/ RunDone \/ PassDone \/ Shutdown \/ Drained \/ Signal
  BY <1>11 DEF BootDone, Tick, RunDone, PassDone, AfterPass, Shutdown, Drained, Signal, BootsInv
<1>12. CASE Unload \/ Crash \/ Boot
  BY <1>12 DEF Unload, Crash, Reset, Boot, BootsInv
<1>13. ASSUME NEW c \in Conns, NEW u \in Uuids, DeleteNotFound(c, u)
       PROVE  BootsInv'
  BY <1>13 DEF DeleteNotFound, BootsInv
<1>. QED
  BY <1>1, <1>2, <1>3, <1>4, <1>5, <1>6, <1>7, <1>8, <1>9, <1>10, <1>11, <1>12, <1>13
     DEF Next, Daemon, MainStep, Request, handle_config_load

\* It is invariant.
LEMMA BootsHolds ==
    ASSUME Distinct
    PROVE  Spec => []BootsInv
<1>1. Init => BootsInv
  BY EmptyType DEF Init, BootsInv, ValidAlone
<1>2. TypeOK /\ BootsInv /\ [Next]_vars => BootsInv'
  BY BootsStep
<1>. QED BY <1>1, <1>2, TypeCorrect, PTL DEF Spec

\* If clients give a module a name and an endpoint that no other has (nothing in
\* handle_devices_create and mf_devices_put_settings makes them), the saved
\* configuration is always one that validate_apply accepts at the next start.
THEOREM ConfigBootsHolds ==
    ASSUME Distinct
    PROVE  Spec => []ConfigBoots
<1>1. BootsInv => ConfigBoots
  BY DEF BootsInv, ConfigBoots
<1>. QED BY <1>1, BootsHolds, PTL

----------------------------------------------------------------------------
(* What runs is what is configured, with patient clients.                  *)

\* Clients wait until nothing is stopping or pending, and pick new names and
\* endpoints; every plugin opens.
Careful == Patient /\ Distinct /\ ~MayFail

\* There are no more modules than the configuration and the slot table can hold.
RoomForAll ==
    /\ IsFiniteSet(Uuids)
    /\ Cardinality(Uuids) <= MaxDevices /\ Cardinality(Uuids) <= NSlots

\* A module that has no slot finds one.
LEMMA SlotLeft ==
    ASSUME RoomForAll, TypeOK, UuidUnique, NEW u \in Uuids, ~uuid_in_use(u)
    PROVE  ~ \A s \in Slots : g_dev[s].in_use
<1>. SUFFICES ASSUME \A s \in Slots : g_dev[s].in_use
              PROVE  FALSE
  OBVIOUS
<1>. DEFINE T == Uuids \ {u}
            f == [s \in Slots |-> g_dev[s].uuid]
<1>1. IsFiniteSet(Slots) /\ Cardinality(Slots) = NSlots
  BY SizeAssumption, FS_Interval DEF Slots
<1>2. IsFiniteSet(T) /\ Cardinality(T) = Cardinality(Uuids) - 1
  BY FS_RemoveElement DEF RoomForAll
<1>3. Cardinality(Uuids) \in Nat
  BY FS_CardinalityType DEF RoomForAll
<1>4. \A s \in Slots : g_dev[s].uuid \in T
  <2>1. \A s \in Slots : g_dev[s] \in Device
    BY DEF TypeOK, Free
  <2>. QED BY <2>1 DEF uuid_in_use, Device
<1>5. f \in [Slots -> T]
  BY <1>4
<1>6. Cardinality(T) < Cardinality(Slots)
  BY SizeAssumption, <1>1, <1>2, <1>3 DEF RoomForAll
<1>. HIDE DEF f, T
<1>7. \E r, s \in Slots : r # s /\ f[r] = f[s]
  BY <1>1, <1>2, <1>5, <1>6, FS_PigeonHole
<1>. QED BY <1>7 DEF f, UuidUnique

\* A module that has no entry finds room for one.
LEMMA EntryLeft ==
    ASSUME RoomForAll, cfg \in Seq(Entry), ValidAlone(cfg),
           NEW u \in Uuids, ~uuid_in_cfg(cfg, u)
    PROVE  Len(cfg) < MaxDevices
<1>. SUFFICES ASSUME ~(Len(cfg) < MaxDevices)
              PROVE  FALSE
  OBVIOUS
<1>. DEFINE T == Uuids \ {u}
            f == [i \in 1 .. Len(cfg) |-> cfg[i].uuid]
<1>1. IsFiniteSet(1 .. Len(cfg)) /\ Cardinality(1 .. Len(cfg)) = Len(cfg) /\ Len(cfg) \in Nat
  BY FS_Interval
<1>2. IsFiniteSet(T) /\ Cardinality(T) = Cardinality(Uuids) - 1
  BY FS_RemoveElement DEF RoomForAll
<1>3. Cardinality(Uuids) \in Nat
  BY FS_CardinalityType DEF RoomForAll
<1>4. ASSUME NEW i \in 1 .. Len(cfg) PROVE cfg[i].uuid \in T
  <2>1. cfg[i] \in Entry /\ i \in DOMAIN cfg
    OBVIOUS
  <2>2. cfg[i].uuid \in Uuids
    BY <2>1 DEF Entry
  <2>. QED BY <2>1, <2>2 DEF uuid_in_cfg
<1>5. f \in [1 .. Len(cfg) -> T]
  BY <1>4
<1>6. Cardinality(T) < Cardinality(1 .. Len(cfg))
  BY SizeAssumption, <1>1, <1>2, <1>3 DEF RoomForAll
<1>. HIDE DEF f, T
<1>7. \E i, j \in 1 .. Len(cfg) : i # j /\ f[i] = f[j]
  BY <1>1, <1>2, <1>5, <1>6, FS_PigeonHole
<1>8. PICK i \in 1 .. Len(cfg), j \in 1 .. Len(cfg) : i # j /\ f[i] = f[j]
  BY <1>7
<1>9. cfg[i].uuid = cfg[j].uuid
  BY <1>8 DEF f
<1>. QED BY <1>8, <1>9, UuidOnce

\* A slot whose thread runs the module of an entry.
RunsIn(d, e) == d.in_use /\ ~d.stop /\ d.uuid = e.uuid /\ d.ident = e.ident
Enabled(doc, e) == Has(doc, e) /\ e.enabled

\* The slots and the pending queue carry out the document, of which the ADD loop
\* has not reached rest: every enabled entry runs, or waits to be reopened, or is
\* still ahead with no slot of its uuid in the way; and nothing else runs or waits.
Agreed(dev, pend, doc, rest) ==
    /\ \A e \in Entry : Enabled(doc, e) =>
           \/ \E s \in Slots : RunsIn(dev[s], e)
           \/ pend[e.uuid] = e
           \/ Has(rest, e) /\ \A s \in Slots : ~(dev[s].in_use /\ dev[s].uuid = e.uuid)
    /\ \A s \in Slots : dev[s].in_use /\ ~dev[s].stop =>
           \E e \in Entry : Enabled(doc, e) /\ RunsIn(dev[s], e)
    /\ \A u \in Uuids : pend[u] # None => Enabled(doc, pend[u]) /\ pend[u].uuid = u
    /\ \A e \in Entry : Has(rest, e) => Has(doc, e)

\* The document that is being carried out, and when it is: until a signal has
\* been noticed, which is at the end of a pass.
Target == IF pc = "apply" THEN next ELSE cfg
Steady == \/ pc \in {"boot", "run", "apply", "pending"} /\ ~g_quit
          \/ pc = "select"

FaithInv ==
    /\ pc \notin {"boot", "apply"} => todo = <<>>
    /\ pc = "off" => /\ \A s \in Slots : ~g_dev[s].in_use
                     /\ \A u \in Uuids : g_pending[u] = None
    /\ Steady => Agreed(g_dev, g_pending, Target, todo)

\* A slot is freed whose thread was told to stop.
LEMMA AgreedFree ==
    ASSUME NEW dev, NEW pend, NEW doc, NEW rest, Agreed(dev, pend, doc, rest),
           NEW new, \A s \in Slots : new[s] = dev[s] \/ (~new[s].in_use /\ (dev[s].stop \/ ~dev[s].in_use))
    PROVE  Agreed(new, pend, doc, rest)
<1>1. ASSUME NEW e, NEW s \in Slots, RunsIn(dev[s], e) PROVE RunsIn(new[s], e)
  BY <1>1 DEF RunsIn
<1>2. \A s \in Slots : new[s].in_use => new[s] = dev[s]
  OBVIOUS
<1>3. ASSUME NEW e \in Entry, Enabled(doc, e)
      PROVE  \/ \E s \in Slots : RunsIn(new[s], e)
             \/ pend[e.uuid] = e
             \/ Has(rest, e) /\ \A s \in Slots : ~(new[s].in_use /\ new[s].uuid = e.uuid)
  <2>1. \/ \E s \in Slots : RunsIn(dev[s], e)
        \/ pend[e.uuid] = e
        \/ Has(rest, e) /\ \A s \in Slots : ~(dev[s].in_use /\ dev[s].uuid = e.uuid)
    BY <1>3 DEF Agreed
  <2>2. ASSUME NEW s \in Slots, RunsIn(dev[s], e) PROVE RunsIn(new[s], e)
    BY <1>1, <2>2
  <2>. QED BY <1>2, <2>1, <2>2
<1>4. ASSUME NEW s \in Slots, new[s].in_use, ~new[s].stop
      PROVE  \E e \in Entry : Enabled(doc, e) /\ RunsIn(new[s], e)
  <2>1. new[s] = dev[s]
    BY <1>2, <1>4
  <2>2. \E e \in Entry : Enabled(doc, e) /\ RunsIn(dev[s], e)
    BY <1>4, <2>1 DEF Agreed
  <2>. QED BY <2>1, <2>2
<1>5. /\ \A u \in Uuids : pend[u] # None => Enabled(doc, pend[u]) /\ pend[u].uuid = u
      /\ \A e \in Entry : Has(rest, e) => Has(doc, e)
  BY DEF Agreed
<1>. QED BY <1>3, <1>4, <1>5 DEF Agreed

\* mf_devices_add opens a slot for an entry of the document, or for one that is
\* added to it.
LEMMA AgreedOpen ==
    ASSUME NEW dev, NEW pend, NEW doc \in Seq(Entry), NEW rest, Agreed(dev, pend, doc, rest),
           NEW new, NEW pend2, NEW doc2 \in Seq(Entry), NEW rest2,
           NEW e \in Entry, NEW s \in Slots, e.enabled, ~dev[s].in_use,
           new[s] = Opened(e), \A r \in Slots \ {s} : new[r] = dev[r],
           ValidAlone(doc2), \A x : Has(doc2, x) <=> Has(doc, x) \/ x = e,
           pend2[e.uuid] \in {None, pend[e.uuid]},
           \A u \in Uuids \ {e.uuid} : pend2[u] = pend[u],
           \A x : Has(rest2, x) => Has(rest, x),
           \A x : Has(rest, x) => Has(rest2, x) \/ x = e
    PROVE  Agreed(new, pend2, doc2, rest2)
<1>1. RunsIn(new[s], e) /\ new[s].uuid = e.uuid
  BY DEF Opened, RunsIn
<1>2. Has(doc2, e)
  OBVIOUS
<1>3. \A x \in Entry : Has(doc2, x) /\ x.uuid = e.uuid => x = e
  BY <1>2, EntryOfOnce
<1>4. ASSUME NEW x \in Entry, Enabled(doc2, x)
      PROVE  \/ \E r \in Slots : RunsIn(new[r], x)
             \/ pend2[x.uuid] = x
             \/ Has(rest2, x) /\ \A r \in Slots : ~(new[r].in_use /\ new[r].uuid = x.uuid)
  <2>1. CASE x = e
    BY <1>1, <2>1
  <2>2. CASE x # e
    <3>1. x.uuid # e.uuid /\ x.uuid \in Uuids /\ Enabled(doc, x)
      BY <1>3, <1>4, <2>2 DEF Enabled, Entry
    <3>2. \/ \E r \in Slots : RunsIn(dev[r], x)
          \/ pend[x.uuid] = x
          \/ Has(rest, x) /\ \A r \in Slots : ~(dev[r].in_use /\ dev[r].uuid = x.uuid)
      BY <3>1 DEF Agreed
    <3>3. ASSUME NEW r \in Slots, RunsIn(dev[r], x) PROVE RunsIn(new[r], x)
      BY <3>3 DEF RunsIn
    <3>4. ASSUME Has(rest, x), \A r \in Slots : ~(dev[r].in_use /\ dev[r].uuid = x.uuid)
          PROVE  Has(rest2, x) /\ \A r \in Slots : ~(new[r].in_use /\ new[r].uuid = x.uuid)
      BY <1>1, <2>2, <3>1, <3>4
    <3>. QED BY <3>1, <3>2, <3>3, <3>4
  <2>. QED BY <2>1, <2>2
<1>5. ASSUME NEW r \in Slots, new[r].in_use, ~new[r].stop
      PROVE  \E x \in Entry : Enabled(doc2, x) /\ RunsIn(new[r], x)
  BY <1>1, <1>2, <1>5 DEF Agreed, Enabled
<1>6. ASSUME NEW u \in Uuids, pend2[u] # None
      PROVE  Enabled(doc2, pend2[u]) /\ pend2[u].uuid = u
  BY <1>6 DEF Agreed, Enabled
<1>7. \A x \in Entry : Has(rest2, x) => Has(doc2, x)
  BY DEF Agreed
<1>. QED BY <1>4, <1>5, <1>6, <1>7 DEF Agreed

\* The ADD loop queues an entry.
LEMMA AgreedQueue ==
    ASSUME NEW dev, NEW pend, NEW doc \in Seq(Entry), NEW rest, Agreed(dev, pend, doc, rest),
           NEW pend2, NEW rest2, NEW e \in Entry, e.enabled, Has(doc, e), ValidAlone(doc),
           pend2[e.uuid] = e, \A u \in Uuids \ {e.uuid} : pend2[u] = pend[u],
           \A x : Has(rest2, x) => Has(rest, x),
           \A x : Has(rest, x) => Has(rest2, x) \/ x = e
    PROVE  Agreed(dev, pend2, doc, rest2)
<1>1. ASSUME NEW x \in Entry, Enabled(doc, x), x # e
      PROVE  x.uuid \in Uuids \ {e.uuid}
  <2>1. Has(doc, x) /\ x.uuid \in Uuids
    BY <1>1 DEF Enabled, Entry
  <2>. QED BY <1>1, <2>1, EntryOfOnce
<1>2. \A u \in Uuids : pend2[u] # None => Enabled(doc, pend2[u]) /\ pend2[u].uuid = u
  BY DEF Agreed, Enabled
<1>. QED BY <1>1, <1>2 DEF Agreed

\* The ADD loop passes over an entry that is disabled or has a slot.
LEMMA AgreedSkip ==
    ASSUME NEW dev, NEW pend, NEW doc, NEW rest, Agreed(dev, pend, doc, rest),
           NEW rest2, NEW e, ~e.enabled \/ \E s \in Slots : dev[s].in_use /\ dev[s].uuid = e.uuid,
           \A x : Has(rest2, x) => Has(rest, x),
           \A x : Has(rest, x) => Has(rest2, x) \/ x = e
    PROVE  Agreed(dev, pend, doc, rest2)
BY DEF Agreed, Enabled

\* The first loop of mf_devices_apply_config, with nothing stopping or pending.
LEMMA AgreedPut ==
    ASSUME TypeOK, UuidUnique, Settled, NEW doc \in Seq(Entry), ValidAlone(doc)
    PROVE  Agreed([s \in Slots |-> PatchSlot(g_dev[s], doc)],
                  [u \in Uuids |-> PatchPending(u, doc)], doc, doc)
<1>. DEFINE dev == [s \in Slots |-> PatchSlot(g_dev[s], doc)]
            pend == [u \in Uuids |-> PatchPending(u, doc)]
<1>0. /\ \A s \in Slots : ~(g_dev[s].in_use /\ g_dev[s].stop)
      /\ \A u \in Uuids : g_pending[u] = None
  BY DEF Settled, mf_devices_any_dying, HasPending, Dying
<1>1. ASSUME NEW e \in Entry, Enabled(doc, e)
      PROVE  \/ \E s \in Slots : RunsIn(dev[s], e)
             \/ pend[e.uuid] = e
             \/ Has(doc, e) /\ \A s \in Slots : ~(dev[s].in_use /\ dev[s].uuid = e.uuid)
  <2>1. /\ uuid_in_cfg(doc, e.uuid) /\ EntryOf(doc, e.uuid) = e /\ Wanted(doc, e.uuid)
        /\ Has(doc, e) /\ e.uuid \in Uuids
    BY <1>1, EntryOfOnce DEF Enabled, Wanted, Entry
  <2>2. CASE ~uuid_in_use(e.uuid)
    <3>1. ASSUME NEW s \in Slots PROVE ~(dev[s].in_use /\ dev[s].uuid = e.uuid)
      BY <2>2, PatchSlotCases DEF uuid_in_use, TypeOK
    <3>. QED BY <2>1, <3>1
  <2>3. CASE uuid_in_use(e.uuid)
    <3>1. PICK s \in Slots : g_dev[s].in_use /\ g_dev[s].uuid = e.uuid
      BY <2>3 DEF uuid_in_use
    <3>2. CASE g_dev[s].ident = e.ident
      <4>1. /\ g_dev[s] \in Device /\ ~g_dev[s].stop
            /\ dev[s] = [g_dev[s] EXCEPT !.name = e.name]
        BY <1>0, <2>1, <3>1, <3>2, DeviceType DEF TypeOK, PatchSlot
      <4>2. RunsIn(dev[s], e)
        BY <3>1, <3>2, <4>1 DEF RunsIn, Device
      <4>. QED BY <4>2
    <3>3. CASE g_dev[s].ident # e.ident
      BY <2>1, <2>3, <3>1, <3>3 DEF PatchPending
    <3>. QED BY <3>2, <3>3
  <2>. QED BY <2>2, <2>3
<1>2. ASSUME NEW s \in Slots, dev[s].in_use, ~dev[s].stop
      PROVE  \E e \in Entry : Enabled(doc, e) /\ RunsIn(dev[s], e)
  <2>1. g_dev[s] \in Device /\ g_dev[s].in_use /\ dev[s] = PatchSlot(g_dev[s], doc)
    BY <1>2, PatchSlotCases, DeviceType DEF TypeOK
  <2>. DEFINE u == g_dev[s].uuid
              e == EntryOf(doc, u)
  <2>2. Wanted(doc, u) /\ e.ident = g_dev[s].ident
    <3>1. CASE ~Wanted(doc, u) \/ e.ident # g_dev[s].ident
      <4>1. dev[s] = [g_dev[s] EXCEPT !.stop = TRUE]
        BY <2>1, <3>1 DEF PatchSlot
      <4>. QED BY <1>2, <2>1, <4>1 DEF Device
    <3>. QED BY <3>1
  <2>3. e \in Entry /\ e.uuid = u
    BY <2>2, EntryOfType DEF Wanted
  <2>4. Has(doc, e)
    <3>. DEFINE k == CHOOSE i \in DOMAIN doc : doc[i].uuid = u
    <3>1. k \in DOMAIN doc
      BY <2>2 DEF Wanted, uuid_in_cfg
    <3>2. e = doc[k]
      BY DEF EntryOf
    <3>. QED BY <3>1, <3>2 DEF Has
  <2>5. dev[s].uuid = u /\ dev[s].ident = g_dev[s].ident
    BY <2>1, PatchSlotCases
  <2>. QED BY <1>2, <2>2, <2>3, <2>4, <2>5 DEF RunsIn, Enabled, Wanted
<1>3. ASSUME NEW u \in Uuids, pend[u] # None
      PROVE  Enabled(doc, pend[u]) /\ pend[u].uuid = u
  <2>1. Wanted(doc, u) /\ pend[u] = EntryOf(doc, u)
    BY <1>0, <1>3 DEF PatchPending
  <2>2. EntryOf(doc, u).uuid = u
    BY <2>1, EntryOfType DEF Wanted
  <2>3. Has(doc, EntryOf(doc, u))
    <3>. DEFINE k == CHOOSE i \in DOMAIN doc : doc[i].uuid = u
    <3>1. k \in DOMAIN doc
      BY <2>1 DEF Wanted, uuid_in_cfg
    <3>2. EntryOf(doc, u) = doc[k]
      BY DEF EntryOf
    <3>. QED BY <3>1, <3>2 DEF Has
  <2>. QED BY <2>1, <2>2, <2>3 DEF Enabled, Wanted
<1>. HIDE DEF dev, pend
<1>4. Agreed(dev, pend, doc, doc)
  BY <1>1, <1>2, <1>3 DEF Agreed
<1>. QED BY <1>4 DEF dev, pend

\* A module is told to stop and its entry taken out, with nothing pending.
LEMMA AgreedDelete ==
    ASSUME TypeOK, ValidAlone(cfg), NEW u \in Uuids, Agreed(g_dev, NoPending, cfg, <<>>),
           NEW new, \A s \in Slots : new[s] = IF g_dev[s].in_use /\ g_dev[s].uuid = u
                                              THEN [g_dev[s] EXCEPT !.stop = TRUE]
                                              ELSE g_dev[s]
    PROVE  Agreed(new, NoPending, cfg_remove_uuid(u), <<>>)
<1>1. /\ \A e : ~Has(<<>>, e)
      /\ \A e \in Entry : e.uuid \in Uuids /\ NoPending[e.uuid] # e
      /\ \A v \in Uuids : NoPending[v] = None
  <2>1. \A e \in Entry : e # None
    BY NoneAssumption
  <2>2. \A e \in Entry : e.uuid \in Uuids
    BY DEF Entry
  <2>. QED BY <2>1, <2>2 DEF Has, NoPending
<1>2. \A e : Has(cfg_remove_uuid(u), e) <=> Has(cfg, e) /\ e.uuid # u
  BY RemoveEntries DEF TypeOK
<1>3. ASSUME NEW e \in Entry, Enabled(cfg_remove_uuid(u), e)
      PROVE  \E s \in Slots : RunsIn(new[s], e)
  <2>1. Enabled(cfg, e) /\ e.uuid # u
    BY <1>2, <1>3 DEF Enabled
  <2>2. PICK s \in Slots : RunsIn(g_dev[s], e)
    BY <1>1, <2>1 DEF Agreed
  <2>. QED BY <2>1, <2>2 DEF RunsIn
<1>4. ASSUME NEW s \in Slots, new[s].in_use, ~new[s].stop
      PROVE  \E e \in Entry : Enabled(cfg_remove_uuid(u), e) /\ RunsIn(new[s], e)
  <2>1. new[s] = g_dev[s] /\ g_dev[s].uuid # u
    <3>1. CASE g_dev[s].in_use /\ g_dev[s].uuid = u
      <4>1. g_dev[s] \in Device \union {Free} /\ new[s] = [g_dev[s] EXCEPT !.stop = TRUE]
        BY <3>1 DEF TypeOK
      <4>. QED BY <1>4, <4>1, StopFields
    <3>2. CASE ~(g_dev[s].in_use /\ g_dev[s].uuid = u)
      <4>1. new[s] = g_dev[s]
        BY <3>2
      <4>. QED BY <1>4, <3>2, <4>1
    <3>. QED BY <3>1, <3>2
  <2>2. PICK e \in Entry : Enabled(cfg, e) /\ RunsIn(g_dev[s], e)
    BY <1>4, <2>1 DEF Agreed
  <2>. QED BY <1>2, <2>1, <2>2 DEF Enabled, RunsIn
<1>. QED BY <1>1, <1>3, <1>4 DEF Agreed

\* A running module gets another name, in the configuration too or not.
LEMMA AgreedRename ==
    ASSUME TypeOK, Agreed(g_dev, NoPending, cfg, <<>>),
           NEW r \in Slots, g_dev[r].in_use, NEW n \in Names,
           NEW doc \in Seq(Entry), DOMAIN doc = DOMAIN cfg,
           \A i \in DOMAIN cfg : /\ doc[i].uuid = cfg[i].uuid /\ doc[i].ident = cfg[i].ident
                                 /\ doc[i].enabled = cfg[i].enabled
    PROVE  Agreed([g_dev EXCEPT ![r].name = n], NoPending, doc, <<>>)
<1>. DEFINE new == [g_dev EXCEPT ![r].name = n]
<1>1. /\ \A e : ~Has(<<>>, e)
      /\ \A e \in Entry : e.uuid \in Uuids /\ NoPending[e.uuid] # e
      /\ \A v \in Uuids : NoPending[v] = None
  <2>1. \A e \in Entry : e # None
    BY NoneAssumption
  <2>2. \A e \in Entry : e.uuid \in Uuids
    BY DEF Entry
  <2>. QED BY <2>1, <2>2 DEF Has, NoPending
<1>2. ASSUME NEW s \in Slots, NEW e, NEW x, x.uuid = e.uuid, x.ident = e.ident
      PROVE  RunsIn(g_dev[s], e) <=> RunsIn(new[s], x)
  <2>1. g_dev[r] \in Device
    BY DeviceType DEF TypeOK
  <2>2. /\ new[s].in_use = g_dev[s].in_use /\ new[s].stop = g_dev[s].stop
        /\ new[s].uuid = g_dev[s].uuid /\ new[s].ident = g_dev[s].ident
    <3>1. CASE s = r
      <4>1. new[s] = [g_dev[r] EXCEPT !.name = n]
        BY <3>1 DEF TypeOK
      <4>. QED BY <2>1, <3>1, <4>1 DEF Device
    <3>2. CASE s # r
      BY <3>2 DEF TypeOK
    <3>. QED BY <3>1, <3>2
  <2>. HIDE DEF new
  <2>. QED BY <1>2, <2>2 DEF RunsIn
<1>3. \A s \in Slots : new[s].in_use = g_dev[s].in_use /\ new[s].stop = g_dev[s].stop
  <2>1. g_dev[r] \in Device
    BY DeviceType DEF TypeOK
  <2>. QED BY <2>1 DEF Device, TypeOK
<1>. HIDE DEF new
<1>4. ASSUME NEW e \in Entry, Enabled(doc, e)
      PROVE  \E s \in Slots : RunsIn(new[s], e)
  <2>1. PICK i \in DOMAIN cfg : doc[i] = e
    BY <1>4 DEF Enabled, Has
  <2>2. cfg[i] \in Entry /\ Enabled(cfg, cfg[i])
    BY <1>4, <2>1 DEF Enabled, Has, TypeOK
  <2>3. PICK s \in Slots : RunsIn(g_dev[s], cfg[i])
    BY <1>1, <2>2 DEF Agreed
  <2>. QED BY <1>2, <2>1, <2>3
<1>5. ASSUME NEW s \in Slots, new[s].in_use, ~new[s].stop
      PROVE  \E e \in Entry : Enabled(doc, e) /\ RunsIn(new[s], e)
  <2>1. PICK x \in Entry : Enabled(cfg, x) /\ RunsIn(g_dev[s], x)
    BY <1>3, <1>5 DEF Agreed
  <2>2. PICK i \in DOMAIN cfg : cfg[i] = x
    BY <2>1 DEF Enabled, Has
  <2>3. doc[i] \in Entry /\ Enabled(doc, doc[i])
    BY <2>1, <2>2 DEF Enabled, Has
  <2>. QED BY <1>2, <2>1, <2>2, <2>3
<1>6. Agreed(new, NoPending, doc, <<>>)
  BY <1>1, <1>4, <1>5 DEF Agreed
<1>. QED BY <1>6 DEF new

\* A step that moves nothing of all this.
LEMMA FaithSame ==
    ASSUME FaithInv, UNCHANGED <<g_dev, g_pending, cfg, todo>>, Target' = Target,
           Steady' => Steady, pc' \notin {"boot", "apply"} => todo = <<>>, pc' # "off"
    PROVE  FaithInv'
<1>1. Steady' => Agreed(g_dev', g_pending', Target', todo')
  BY DEF FaithInv
<1>. QED BY <1>1 DEF FaithInv

\* A request finds nothing stopping, pending or to be added.
LEMMA FaithCalm ==
    ASSUME Careful, TypeOK, Discipline, FaithInv, NEW c \in Conns, Serving(c)
    PROVE  /\ Settled /\ g_pending = NoPending /\ todo = <<>> /\ pc = "run" /\ ~g_quit
           /\ Agreed(g_dev, NoPending, cfg, <<>>)
<1>1. Settled /\ pc \in {"run", "drain"} /\ ~g_quit
  BY DEF Serving, Running, Careful
<1>2. pc = "run"
  BY <1>1 DEF Discipline, PhaseQueues
<1>3. g_pending = NoPending
  BY <1>1 DEF Settled, HasPending, NoPending, TypeOK
<1>4. todo = <<>> /\ Agreed(g_dev, g_pending, cfg, todo)
  BY <1>1, <1>2 DEF FaithInv, Steady, Target
<1>. QED BY <1>1, <1>2, <1>3, <1>4

\* The phase of a step that leaves it, with everything else that FaithInv is about
\* but what it is told.
LEMMA FaithRun ==
    ASSUME FaithInv, pc = "run", pc' = "run", todo' = <<>>,
           Agreed(g_dev', g_pending', cfg', <<>>)
    PROVE  FaithInv'
BY DEF FaithInv, Target

\* The requests keep it.
LEMMA FaithRequests ==
    ASSUME Careful, RoomForAll, TypeOK, TypeOK', Unique, Discipline, BootsInv, BootsInv',
           FaithInv, NEW c \in Conns, Request(c)
    PROVE  FaithInv'
<1>0. cfg \in Seq(Entry) /\ ValidAlone(cfg) /\ cfg' \in Seq(Entry) /\ ValidAlone(cfg')
  BY DEF TypeOK, BootsInv
<1>1. ASSUME NEW u \in Uuids, NEW n \in Names, NEW i \in Idents,
             handle_devices_create(c, u, n, i)
      PROVE  FaithInv'
  <2>. DEFINE e == [uuid |-> u, name |-> n, ident |-> i, enabled |-> TRUE]
  <2>1. e \in Entry /\ e.uuid = u /\ e.name = n /\ e.ident = i /\ e.enabled
    BY DEF Entry
  <2>2. Serving(c) /\ UNCHANGED <<g_pending, todo, pc>>
    BY <1>1 DEF handle_devices_create
  <2>3. /\ g_pending = NoPending /\ todo = <<>> /\ pc = "run"
        /\ Agreed(g_dev, NoPending, cfg, <<>>)
    BY <2>2, FaithCalm
  <2>4. PICK s \in Slots : OpenIn(s, e)
    BY <1>1 DEF handle_devices_create
  <2>5. ~uuid_in_cfg(cfg, u) /\ ~TakenInCfg(n, i) /\ cfg' = cfg_upsert_from_json(e)
    BY <1>1 DEF handle_devices_create, NewUuid, Careful
  <2>. HIDE DEF e
  <2>6. \A x : Has(cfg', x) <=> Has(cfg, x) \/ x = e
    <3>1. Len(cfg) < MaxDevices
      BY <1>0, <2>5, EntryLeft
    <3>. QED BY <1>0, <2>1, <2>5, <3>1, UpsertEntries
  <2>7. /\ ~g_dev[s].in_use /\ g_dev'[s] = Opened(e)
        /\ \A r \in Slots \ {s} : g_dev'[r] = g_dev[r]
    BY <2>4 DEF OpenIn, FirstFree, TypeOK
  <2>8. \A x : ~Has(<<>>, x)
    BY DEF Has
  <2>9. NoPending[e.uuid] \in {None, NoPending[e.uuid]}
    OBVIOUS
  <2>10. Agreed(g_dev', NoPending, cfg', <<>>)
    BY <1>0, <2>1, <2>3, <2>6, <2>7, <2>8, <2>9, AgreedOpen
  <2>. QED BY <2>2, <2>3, <2>10, FaithRun
<1>2. ASSUME NEW u \in Uuids, handle_device_delete(c, u)
      PROVE  FaithInv'
  <2>1. /\ Serving(c) /\ UNCHANGED <<todo, pc>> /\ cfg' = cfg_remove_uuid(u)
        /\ g_pending' = [g_pending EXCEPT ![u] = None]
        /\ \A s \in Slots : g_dev'[s] = IF g_dev[s].in_use /\ g_dev[s].uuid = u
                                        THEN [g_dev[s] EXCEPT !.stop = TRUE] ELSE g_dev[s]
    BY <1>2 DEF handle_device_delete
  <2>2. /\ g_pending = NoPending /\ todo = <<>> /\ pc = "run"
        /\ Agreed(g_dev, NoPending, cfg, <<>>)
    BY <2>1, FaithCalm
  <2>3. g_pending' = NoPending
    BY <2>1, <2>2 DEF NoPending
  <2>4. Agreed(g_dev', NoPending, cfg', <<>>)
    BY <1>0, <2>1, <2>2, AgreedDelete
  <2>. QED BY <2>1, <2>2, <2>3, <2>4, FaithRun
<1>3. ASSUME NEW u \in Uuids, DeleteNotFound(c, u)
      PROVE  FALSE
  <2>1. Serving(c) /\ g_pending[u] # None
    BY <1>3 DEF DeleteNotFound
  <2>. QED BY <2>1, FaithCalm DEF NoPending
<1>4. ASSUME NEW s \in Slots, NEW n \in Names, NEW ok \in BOOLEAN,
             handle_settings_put(c, s, n, ok)
      PROVE  FaithInv'
  <2>1. /\ Serving(c) /\ UNCHANGED <<g_pending, todo, pc>> /\ g_dev[s].in_use
        /\ g_dev' = [g_dev EXCEPT ![s].name = n]
        /\ cfg' = IF ok THEN cfg_patch_settings(g_dev[s].uuid, n) ELSE cfg
        /\ \A k \in DOMAIN cfg : cfg[k].name = n => cfg[k].uuid = g_dev[s].uuid
    BY <1>4 DEF handle_settings_put, Live, Careful
  <2>2. /\ g_pending = NoPending /\ todo = <<>> /\ pc = "run"
        /\ Agreed(g_dev, NoPending, cfg, <<>>)
    BY <2>1, FaithCalm
  <2>3. /\ DOMAIN cfg' = DOMAIN cfg
        /\ \A i \in DOMAIN cfg : /\ cfg'[i].uuid = cfg[i].uuid /\ cfg'[i].ident = cfg[i].ident
                                 /\ cfg'[i].enabled = cfg[i].enabled
    BY <1>0, <2>1, RenameEntries
  <2>4. Agreed(g_dev', NoPending, cfg', <<>>)
    BY <1>0, <2>1, <2>2, <2>3, AgreedRename
  <2>. QED BY <2>1, <2>2, <2>4, FaithRun
<1>5. ASSUME NEW doc \in Seq(Entry), handle_config_put(c, doc)
      PROVE  FaithInv'
  <2>1. /\ Serving(c) /\ ValidAlone(doc) /\ pc' = "apply" /\ todo' = doc /\ next' = doc
        /\ g_dev' = [s \in Slots |-> PatchSlot(g_dev[s], doc)]
        /\ g_pending' = [u \in Uuids |-> PatchPending(u, doc)]
    BY <1>5 DEF handle_config_put, mf_devices_validate_config
  <2>2. Settled
    BY <2>1, FaithCalm
  <2>3. Agreed(g_dev', g_pending', doc, doc)
    BY <2>1, <2>2, AgreedPut DEF Unique
  <2>. QED BY <2>1, <2>3 DEF FaithInv, Target
<1>6. ASSUME NEW doc \in Docs, handle_config_put(c, doc)
      PROVE  FaithInv'
  BY <1>5, <1>6, DocType
<1>. QED BY <1>0, <1>1, <1>2, <1>3, <1>4, <1>5, <1>6 DEF Request, handle_config_load
\* The head of a document and the rest of it.
LEMMA HasTail ==
    ASSUME NEW doc \in Seq(Entry), doc # <<>>
    PROVE  /\ Head(doc) \in Entry /\ Has(doc, Head(doc))
           /\ \A x : Has(Tail(doc), x) => Has(doc, x)
           /\ \A x : Has(doc, x) => Has(Tail(doc), x) \/ x = Head(doc)
<1>1. /\ Len(doc) \in Nat \ {0} /\ DOMAIN doc = 1 .. Len(doc) /\ Head(doc) = doc[1]
      /\ DOMAIN Tail(doc) = 1 .. Len(doc) - 1
      /\ \A i \in 1 .. Len(doc) - 1 : Tail(doc)[i] = doc[i + 1]
  OBVIOUS
<1>2. 1 \in DOMAIN doc /\ doc[1] \in Entry
  BY <1>1
<1>3. ASSUME NEW x, Has(Tail(doc), x) PROVE Has(doc, x)
  <2>1. PICK i \in 1 .. Len(doc) - 1 : doc[i + 1] = x
    BY <1>1, <1>3 DEF Has
  <2>2. i + 1 \in DOMAIN doc
    BY <1>1
  <2>. QED BY <2>1, <2>2 DEF Has
<1>4. ASSUME NEW x, Has(doc, x), x # Head(doc) PROVE Has(Tail(doc), x)
  <2>1. PICK i \in DOMAIN doc : doc[i] = x
    BY <1>4 DEF Has
  <2>2. i - 1 \in 1 .. Len(doc) - 1 /\ i - 1 + 1 = i
    BY <1>1, <1>4, <2>1
  <2>. QED BY <1>1, <2>1, <2>2 DEF Has
<1>. QED BY <1>1, <1>2, <1>3, <1>4 DEF Has

\* So does the ADD loop.
LEMMA FaithAdd ==
    ASSUME Careful, RoomForAll, TypeOK, Unique, BootsInv, FaithInv, AddStep
    PROVE  FaithInv'
<1> DEFINE e == Head(todo)
<1>1. /\ pc \in {"boot", "apply"} /\ todo # <<>> /\ todo' = Tail(todo)
      /\ UNCHANGED <<cfg, pc, next, g_quit>>
  BY DEF AddStep, AddSkip, AddOpen, AddQueue, AddFail, Adding, Advance
<1>2. SUFFICES ASSUME Steady
               PROVE  Agreed(g_dev', g_pending', Target, Tail(todo))
  BY <1>1 DEF FaithInv, Steady, Target
<1>3. Agreed(g_dev, g_pending, Target, todo)
  BY <1>2 DEF FaithInv
<1>4. Target \in Seq(Entry) /\ ValidAlone(Target)
  BY DEF TypeOK, BootsInv, Target
<1>5. /\ e \in Entry /\ Has(todo, e) /\ e.uuid \in Uuids
      /\ \A x : Has(Tail(todo), x) => Has(todo, x)
      /\ \A x : Has(todo, x) => Has(Tail(todo), x) \/ x = e
  BY <1>1, HasTail DEF TypeOK, Entry
<1>6. Has(Target, e)
  BY <1>3, <1>5 DEF Agreed
<1>. HIDE DEF e
<1>7. CASE AddSkip
  <2>1. /\ ~e.enabled \/ \E s \in Slots : g_dev[s].in_use /\ g_dev[s].uuid = e.uuid
        /\ UNCHANGED <<g_dev, g_pending>>
    BY <1>7 DEF AddSkip, uuid_in_use, e
  <2>. QED BY <1>3, <1>5, <2>1, AgreedSkip
<1>8. CASE AddOpen
  <2>1. PICK s \in Slots : OpenIn(s, e)
    BY <1>8 DEF AddOpen, e
  <2>2. e.enabled /\ UNCHANGED g_pending
    BY <1>8 DEF AddOpen, e
  <2>3. /\ ~g_dev[s].in_use /\ g_dev'[s] = Opened(e)
        /\ \A r \in Slots \ {s} : g_dev'[r] = g_dev[r]
    BY <2>1 DEF OpenIn, FirstFree, TypeOK
  <2>4. \A x : Has(Target, x) <=> Has(Target, x) \/ x = e
    BY <1>6
  <2>5. /\ g_pending'[e.uuid] \in {None, g_pending[e.uuid]}
        /\ \A u \in Uuids \ {e.uuid} : g_pending'[u] = g_pending[u]
    BY <2>2
  <2>. QED BY <1>3, <1>4, <1>5, <2>2, <2>3, <2>4, <2>5, AgreedOpen
<1>9. CASE AddQueue
  <2>1. e.enabled /\ UNCHANGED g_dev /\ g_pending' = [g_pending EXCEPT ![e.uuid] = e]
    BY <1>9 DEF AddQueue, e
  <2>2. /\ g_pending'[e.uuid] = e
        /\ \A u \in Uuids \ {e.uuid} : g_pending'[u] = g_pending[u]
    BY <1>5, <2>1 DEF TypeOK
  <2>3. e \in Entry /\ e.enabled
    BY <1>5, <2>1
  <2>. DEFINE pend == g_pending'
  <2>. HIDE DEF pend
  <2>4. Agreed(g_dev, pend, Target, Tail(todo))
    <3>1. pend[e.uuid] = e /\ \A u \in Uuids \ {e.uuid} : pend[u] = g_pending[u]
      BY <2>2 DEF pend
    <3>. QED BY <1>3, <1>4, <1>5, <1>6, <2>3, <3>1, AgreedQueue
  <2>. QED BY <2>1, <2>4 DEF pend
<1>10. CASE AddFail
  <2>1. ~uuid_in_use(e.uuid) /\ \A s \in Slots : g_dev[s].in_use
    BY <1>10 DEF AddFail, OpenFails, Careful, e
  <2>. QED BY <1>5, <2>1, SlotLeft DEF Unique
<1>. QED BY <1>7, <1>8, <1>9, <1>10 DEF AddStep

\* So does the retry of the pending queue.
LEMMA FaithPending ==
    ASSUME Careful, RoomForAll, TypeOK, Unique, BootsInv, FaithInv,
           NEW u \in Uuids, PendingWait(u) \/ PendingOpen(u) \/ PendingDrop(u)
    PROVE  FaithInv'
<1>1. /\ pc = "pending" /\ u \in due /\ UNCHANGED <<cfg, pc, next, todo, g_quit>>
  BY DEF PendingWait, PendingOpen, PendingDrop
<1>2. todo = <<>> /\ g_pending[u] # None /\ g_pending[u] \in Entry
  BY <1>1 DEF FaithInv, TypeOK
<1>3. SUFFICES ASSUME Steady
               PROVE  Agreed(g_dev', g_pending', cfg, <<>>)
  BY <1>1, <1>2 DEF FaithInv, Steady, Target
<1>4. Agreed(g_dev, g_pending, cfg, <<>>) /\ cfg \in Seq(Entry) /\ ValidAlone(cfg)
  BY <1>1, <1>2, <1>3 DEF FaithInv, Target, TypeOK, BootsInv
<1>5. Enabled(cfg, g_pending[u]) /\ g_pending[u].uuid = u
  BY <1>2, <1>4 DEF Agreed
<1>6. CASE PendingWait(u)
  BY <1>4, <1>6 DEF PendingWait
<1>7. CASE PendingOpen(u)
  <2>. DEFINE e == g_pending[u]
  <2>1. PICK s \in Slots : OpenIn(s, e)
    BY <1>7 DEF PendingOpen
  <2>2. g_pending' = [g_pending EXCEPT ![u] = None]
    BY <1>7 DEF PendingOpen
  <2>3. /\ ~g_dev[s].in_use /\ g_dev'[s] = Opened(e)
        /\ \A r \in Slots \ {s} : g_dev'[r] = g_dev[r]
    BY <2>1 DEF OpenIn, FirstFree, TypeOK
  <2>4. /\ g_pending'[e.uuid] \in {None, g_pending[e.uuid]}
        /\ \A v \in Uuids \ {e.uuid} : g_pending'[v] = g_pending[v]
    BY <1>5, <2>2 DEF TypeOK
  <2>5. \A x : Has(cfg, x) <=> Has(cfg, x) \/ x = e
    BY <1>5 DEF Enabled
  <2>6. \A x : ~Has(<<>>, x)
    BY DEF Has
  <2>7. e \in Entry /\ e.enabled
    BY <1>2, <1>5 DEF Enabled
  <2>. HIDE DEF e
  <2>. QED BY <1>4, <2>3, <2>4, <2>5, <2>6, <2>7, AgreedOpen
<1>8. CASE PendingDrop(u)
  <2>1. ~uuid_in_use(u) /\ \A s \in Slots : g_dev[s].in_use
    BY <1>8 DEF PendingDrop, CanReopen, OpenFails, Careful
  <2>. QED BY <2>1, SlotLeft DEF Unique
<1>. QED BY <1>6, <1>7, <1>8

\* And everything else.
LEMMA FaithRest ==
    ASSUME TypeOK, Discipline, BootsInv, FaithInv,
           \/ MainStep \/ HttpSlice \/ Boot \/ Signal \/ Crash \/ UNCHANGED vars
           \/ \E s \in Slots : DeviceSlice(s)
    PROVE  FaithInv'
<1>1. ASSUME NEW s \in Slots, DeviceExit(s) PROVE FaithInv'
  <2>1. /\ pc \in {"run", "drain"} /\ (g_quit \/ g_dev[s].stop \/ ~g_dev[s].in_use)
        /\ g_dev' = [g_dev EXCEPT ![s] = Free]
        /\ UNCHANGED <<g_pending, cfg, pc, todo, next, g_quit>>
    BY <1>1 DEF DeviceExit, Running, MustStop
  <2>2. ASSUME Steady PROVE Agreed(g_dev', g_pending, cfg, todo)
    <3>1. Agreed(g_dev, g_pending, cfg, todo) /\ ~g_quit
      BY <2>1, <2>2 DEF FaithInv, Target, Steady
    <3>2. \A r \in Slots : \/ g_dev'[r] = g_dev[r]
                           \/ ~g_dev'[r].in_use /\ (g_dev[r].stop \/ ~g_dev[r].in_use)
      BY <2>1, <3>1 DEF TypeOK, Free
    <3>. QED BY <3>1, <3>2, AgreedFree
  <2>. QED BY <2>1, <2>2 DEF FaithInv, Steady, Target
<1>2. ASSUME NEW s \in Slots, DevicePoll(s) PROVE FaithInv'
  BY <1>2, FaithSame DEF DevicePoll, Running, Steady, Target, FaithInv
<1>3. CASE HttpSlice
  <2>1. /\ pc \in {"run", "drain"} /\ UNCHANGED <<g_dev, g_pending, cfg, pc, todo, next, g_quit>>
    BY <1>3 DEF HttpSlice, FirstSlice, ThreadQuit, AcceptPark, Accept, ConnClose, ConnIdle,
                Running
  <2>. QED BY <2>1, FaithSame DEF Steady, Target, FaithInv
<1>4. CASE BootDone \/ Tick \/ RunDone \/ PassDone \/ Drained \/ Signal
  <2>1. UNCHANGED <<g_dev, g_pending, cfg, todo, next>> /\ pc' # "off"
    BY <1>4 DEF BootDone, Tick, RunDone, PassDone, AfterPass, Drained, Signal
  <2>2. Steady' => Steady
    BY <1>4 DEF BootDone, Tick, RunDone, PassDone, AfterPass, Drained, Signal, Steady
  <2>3. Target' = Target
    BY <1>4 DEF BootDone, Tick, RunDone, PassDone, AfterPass, Drained, Signal, Target
  <2>4. pc' \notin {"boot", "apply"} => todo = <<>>
    BY <1>4 DEF BootDone, Tick, RunDone, PassDone, AfterPass, Drained, Signal, FaithInv
  <2>. QED BY <2>1, <2>2, <2>3, <2>4, FaithSame
<1>5. CASE Shutdown
  BY <1>5 DEF Shutdown, FaithInv, Steady
<1>6. CASE Unload \/ Crash
  BY <1>6 DEF Unload, Crash, Reset, NoPending, Free, FaithInv, Steady
<1>7. ASSUME NEW c \in Conns, PutDone(c) PROVE FaithInv'
  <2>1. /\ pc = "apply" /\ todo = <<>> /\ pc' = "run" /\ cfg' = next
        /\ UNCHANGED <<g_dev, g_pending, todo, g_quit>>
    BY <1>7 DEF PutDone
  <2>. QED BY <2>1 DEF FaithInv, Steady, Target
<1>8. CASE Boot
  <2>1. /\ pc = "off" /\ pc' = "boot" /\ todo' = cfg /\ UNCHANGED <<g_dev, g_pending, cfg>>
    BY <1>8 DEF Boot, BootsInv
  <2>2. Agreed(g_dev, g_pending, cfg, cfg)
    BY <2>1 DEF FaithInv, Agreed, Enabled
  <2>. QED BY <2>1, <2>2 DEF FaithInv, Target
<1>9. CASE UNCHANGED vars
  BY <1>9 DEF vars, loop, FaithInv, Steady, Target
<1>. QED BY <1>1, <1>2, <1>3, <1>4, <1>5, <1>6, <1>7, <1>8, <1>9 DEF MainStep, DeviceSlice

\* FaithInv with what it rests on is invariant.
LEMMA FaithHolds ==
    ASSUME Careful, RoomForAll
    PROVE  Spec => []FaithInv
<1>1. Init => FaithInv
  BY DEF Init, NoPending, Free, FaithInv, Steady
<1>2. TypeOK /\ TypeOK' /\ Unique /\ Discipline /\ BootsInv /\ BootsInv' /\ FaithInv
      /\ [Next]_vars => FaithInv'
  <2>. SUFFICES ASSUME TypeOK, TypeOK', Unique, Discipline, BootsInv, BootsInv', FaithInv,
                       [Next]_vars
                PROVE  FaithInv'
    OBVIOUS
  <2>. QED BY FaithRequests, FaithAdd, FaithPending, FaithRest DEF Next, Daemon, PendingStep
<1>3. Spec => []BootsInv
  BY BootsHolds DEF Careful
<1>. QED BY <1>1, <1>2, <1>3, TypeCorrect, UniqueHolds, DisciplineHolds, PTL DEF Spec

\* With clients that wait until nothing is stopping or pending, use new names and
\* endpoints and keep to the number of modules that there is room for, and with
\* plugins that open: at rest every enabled module of the configuration runs with
\* the configured identity (mf_devices_apply_config, mf_devices_apply_pending).
THEOREM EnabledRunHolds ==
    ASSUME Careful, RoomForAll
    PROVE  Spec => []EnabledModulesRun
<1>1. TypeOK /\ FaithInv => EnabledModulesRun
  <2>. SUFFICES ASSUME TypeOK, FaithInv, Quiet, NEW i \in DOMAIN cfg, cfg[i].enabled
                PROVE  \E s \in Slots : Runs(s, cfg[i])
    BY DEF EnabledModulesRun
  <2>1. Agreed(g_dev, g_pending, cfg, <<>>) /\ \A u \in Uuids : g_pending[u] = None
    BY DEF Quiet, Settled, HasPending, FaithInv, Steady, Target
  <2>2. cfg[i] \in Entry /\ Enabled(cfg, cfg[i]) /\ cfg[i] # None /\ cfg[i].uuid \in Uuids
    <3>1. cfg[i] \in Entry
      BY DEF TypeOK
    <3>. QED BY <3>1, NoneAssumption DEF Enabled, Has, Entry
  <2>3. ~Has(<<>>, cfg[i]) /\ g_pending[cfg[i].uuid] # cfg[i]
    BY <2>1, <2>2 DEF Has
  <2>4. PICK s \in Slots : RunsIn(g_dev[s], cfg[i])
    BY <2>1, <2>2, <2>3 DEF Agreed
  <2>. QED BY <2>4 DEF RunsIn, Runs, Live
<1>. QED BY <1>1, FaithHolds, TypeCorrect, PTL

\* And every running module is an enabled entry of it, so that it is still there
\* after a restart.
THEOREM RunningConfiguredHolds ==
    ASSUME Careful, RoomForAll
    PROVE  Spec => []RunningIsConfigured
<1>1. TypeOK /\ FaithInv => RunningIsConfigured
  <2>. SUFFICES ASSUME TypeOK, FaithInv, Quiet, NEW s \in Slots, Live(s)
                PROVE  \E i \in DOMAIN cfg : cfg[i].enabled /\ Runs(s, cfg[i])
    BY DEF RunningIsConfigured
  <2>1. Agreed(g_dev, g_pending, cfg, <<>>)
    BY DEF Quiet, FaithInv, Steady, Target
  <2>2. PICK e \in Entry : Enabled(cfg, e) /\ RunsIn(g_dev[s], e)
    BY <2>1 DEF Agreed, Live
  <2>. QED BY <2>2 DEF Enabled, Has, RunsIn, Runs, Live
<1>. QED BY <1>1, FaithHolds, TypeCorrect, PTL

=============================================================================
