------------------------ MODULE ConfigStoreProofs ------------------------
(***************************************************************************)
(* Proofs about ConfigStore, for any modules, settings and secrets: the    *)
(* state file together with the running daemon implements ConfigRegister,  *)
(* and the invariants and action properties the run checks.                *)
(***************************************************************************)
EXTENDS ConfigStore, TLAPS

----------------------------------------------------------------------------
(* Documents stay documents. *)

SentEntry == [val : Vals, secret : Secrets \union {None, Mask, "clear"}]

\* What apply_device makes of an entry that was sent is an entry.
LEMMA AppliedIsEntry ==
    ASSUME NEW e \in SentEntry \union {None}
    PROVE  apply_device(e) \in Entry \union {None}
<1>1. CASE e = None
  BY <1>1 DEF apply_device
<1>2. CASE e # None
  <2>1. e \in SentEntry
    BY <1>2
  <2>2. PICK v \in Vals, s \in Secrets \union {None, Mask, "clear"} :
            e = [val |-> v, secret |-> s]
    BY <2>1 DEF SentEntry
  <2>3. apply_device(e) = [val |-> v, secret |-> IF s = "clear" THEN None ELSE s]
    BY <1>2, <2>2 DEF apply_device
  <2> QED
    BY <2>2, <2>3 DEF Entry
<1> QED
  BY <1>1, <1>2

\* restore_secrets makes a document of what was sent.
LEMMA RestoredIsDoc ==
    ASSUME live \in Docs, NEW doc \in Sent
    PROVE  restore_secrets(doc) \in Docs
<1> SUFFICES ASSUME NEW u \in Uuids
             PROVE  restore_secrets(doc)[u] \in Entry \union {None}
  BY DEF restore_secrets, Docs
<1>1. doc[u] \in SentEntry \union {None}
  BY DEF Sent, SentEntry
<1>2. apply_device(doc[u]) \in Entry \union {None}
  BY <1>1, AppliedIsEntry
<1>3. CASE doc[u] = None \/ live[u] = None \/ ~(live[u].secret # None /\ doc[u].secret \in {None, Mask})
  BY <1>2, <1>3 DEF restore_secrets
<1>4. CASE doc[u] # None /\ live[u] # None /\ live[u].secret # None /\ doc[u].secret \in {None, Mask}
  <2>1. restore_secrets(doc)[u] = [doc[u] EXCEPT !.secret = live[u].secret]
    BY <1>4 DEF restore_secrets
  <2>2. live[u] \in Entry /\ doc[u] \in SentEntry
    BY <1>1, <1>4 DEF Docs
  <2>3. live[u].secret \in Secrets \union {None, Mask}
    BY <2>2 DEF Entry
  <2> QED
    BY <2>1, <2>2, <2>3 DEF Entry, SentEntry
<1> QED
  BY <1>3, <1>4

\* What the daemon comes up with when there is no state file is a document.
LEMMA SeededIsDoc ==
    ASSUME TypeOK PROVE Seeded \in Docs
<1>1. NoModules \in Docs
  BY DEF NoModules, Docs
<1>2. mf_config_load \in Docs
  BY <1>1 DEF mf_config_load, TypeOK
<1>3. CASE overlay = Bad
  BY <1>2, <1>3 DEF Seeded, mf_config_overlay_merge
<1>4. CASE overlay # Bad
  <2>1. overlay \in [Uuids -> Vals \union {None}]
    BY <1>4 DEF TypeOK
  <2> SUFFICES ASSUME NEW u \in Uuids PROVE Seeded[u] \in Entry \union {None}
    BY <1>4 DEF Seeded, mf_config_overlay_merge, Docs
  <2>2. mf_config_load[u] \in Entry \union {None}
    BY <1>2 DEF Docs
  <2>3. CASE mf_config_load[u] = None \/ overlay[u] = None
    BY <1>4, <2>2, <2>3 DEF Seeded, mf_config_overlay_merge
  <2>4. CASE mf_config_load[u] # None /\ overlay[u] # None
    <3>1. Seeded[u] = [mf_config_load[u] EXCEPT !.val = overlay[u]]
      BY <1>4, <2>4 DEF Seeded, mf_config_overlay_merge
    <3>2. overlay[u] \in Vals /\ mf_config_load[u] \in Entry
      BY <2>1, <2>2, <2>4
    <3> QED
      BY <3>1, <3>2 DEF Entry
  <2> QED
    BY <2>3, <2>4
<1> QED
  BY <1>3, <1>4

\* What a client is shown is a document.
LEMMA ShownIsDoc ==
    ASSUME live \in Docs PROVE handle_config_get \in Docs
<1> SUFFICES ASSUME NEW u \in Uuids PROVE Shown(live[u]) \in Entry \union {None}
  BY DEF handle_config_get, Docs
<1>1. live[u] \in Entry \union {None}
  BY DEF Docs
<1>2. CASE live[u] # None
  <2>1. Shown(live[u]) = [live[u] EXCEPT !.secret = IF @ = None THEN None ELSE Mask]
    BY <1>2 DEF Shown
  <2> QED
    BY <1>1, <1>2, <2>1 DEF Entry
<1> QED
  BY <1>2 DEF Shown

----------------------------------------------------------------------------
(* The inductive invariant. *)

\* Only a running daemon saves, and what it is about to rename is the document
\* it runs with.
SavesTheLive ==
    /\ saving # "no" => up
    /\ saving = "rename" => temp = live

\* Without a restart the generation a client holds has not been overtaken unless
\* there was a PUT or a load, and then it has.
HeldIsOld ==
    held # 0 /\ "restart" \notin since =>
        up /\ held <= gen /\ ("put" \in since => held < gen)

IInv == TypeOK /\ SavesTheLive /\ SavedIsLive /\ HeldIsOld

\* The invariant holds at first.
LEMMA InitIInv == Init => IInv
<1> SUFFICES ASSUME Init PROVE IInv
  OBVIOUS
<1>1. NoModules \in Docs
  BY DEF NoModules, Docs
<1>2. 0 \in 0 .. MaxGen
  BY GenAssumption
<1>3. TypeOK
  <2>1. seed \in Docs \union {None, Bad} /\ overlay \in [Uuids -> Vals \union {None}] \union {Bad}
    BY DEF Init
  <2> QED
    BY <1>1, <1>2, <2>1, Zenon DEF Init, TypeOK
<1> QED
  BY <1>3 DEF Init, IInv, SavesTheLive, SavedIsLive, Idle, HeldIsOld

\* One step per action keeps the types.
LEMMA NextTypeOK == TypeOK /\ [Next]_vars => TypeOK'
<1> SUFFICES ASSUME TypeOK, [Next]_vars PROVE TypeOK'
  OBVIOUS
<1>0. /\ 0 \in 0 .. MaxGen /\ 1 \in 0 .. MaxGen
       /\ gen < MaxGen => gen + 1 \in 0 .. MaxGen
  BY GenAssumption DEF TypeOK
<1>a. NoModules \in Docs
  BY DEF NoModules, Docs
<1>1. CASE Boot
  <2>1. Seeded \in Docs
    BY SeededIsDoc
  <2>2. UNCHANGED <<temp, seed, overlay, held, shown, since, apart>>
    BY <1>1 DEF Boot, client
  <2>3. up' \in BOOLEAN /\ gen' \in 0 .. MaxGen
    BY GenAssumption, <1>0, <1>1 DEF Boot
  <2>4. live' \in Docs /\ file' \in Docs \union {None, Bad}
    BY <1>1, <2>1 DEF Boot, TypeOK
  <2>5. saving' \in {"no", "write", "rename"}
    BY <1>1 DEF Boot, TypeOK
  <2> QED
    BY <2>2, <2>3, <2>4, <2>5 DEF TypeOK
<1>2. CASE Stop
  <2>1. since' \subseteq {"put", "edit", "restart"}
    BY <1>2 DEF TypeOK, Stop
  <2>2. live' \in Docs
    BY <1>a, <1>2, Zenon DEF Stop
  <2>3. /\ up' = FALSE /\ gen' = 0 /\ saving' = "no" /\ temp' = None /\ apart' = FALSE
        /\ UNCHANGED <<file, seed, overlay, held, shown>>
    BY <1>2 DEF Stop
  <2> QED
    <3>1. gen' \in 0 .. MaxGen
      BY GenAssumption, <2>3
    <3>2. held' \in 0 .. MaxGen /\ shown' \in Docs /\ file' \in Docs \union {None, Bad}
      BY <2>3 DEF TypeOK
    <3>3. /\ up' \in BOOLEAN /\ apart' \in BOOLEAN /\ temp' \in Docs \union {None}
          /\ saving' \in {"no", "write", "rename"}
      BY <2>3
    <3>4. seed' \in Docs \union {None, Bad} /\ overlay' \in [Uuids -> Vals \union {None}] \union {Bad}
      BY <2>3 DEF TypeOK
    <3> QED
      BY <2>1, <2>2, <3>1, <3>2, <3>3, <3>4, Zenon DEF TypeOK
<1>3. CASE Edit
  BY <1>3 DEF TypeOK, Edit, client
<1>4. CASE WriteTemp
  BY <1>4 DEF TypeOK, WriteTemp, client
<1>5. CASE Rename
  BY <1>5 DEF TypeOK, Rename, client
<1>6. CASE SaveFails
  BY <1>6 DEF TypeOK, SaveFails, client
<1>7. CASE ReadConfig
  <2>1. handle_config_get \in Docs
    BY ShownIsDoc DEF TypeOK
  <2> QED
    BY <1>7, <2>1 DEF TypeOK, ReadConfig, stored
<1>8. CASE handle_config_put
  <2>1. PICK doc \in Sent :
          \/ Put(gen, doc) /\ Happens("put") /\ UNCHANGED <<held, shown>>
          \/ held # 0 /\ Put(held, doc) /\ held' = 0 /\ shown' = NoModules /\ since' = {}
    BY <1>8 DEF handle_config_put
  <2>2. restore_secrets(doc) \in Docs
    BY RestoredIsDoc DEF TypeOK
  <2>3. since' \subseteq {"put", "edit", "restart"}
    BY <2>1 DEF TypeOK, Happens
  <2>a. shown' \in Docs
    BY <1>a, <2>1, Zenon DEF TypeOK
  <2>4. held' \in 0 .. MaxGen
    BY GenAssumption, <1>0, <2>1 DEF TypeOK
  <2>5. gen' \in 0 .. MaxGen /\ live' \in Docs
    BY GenAssumption, <1>0, <2>1, <2>2 DEF Put, TypeOK
  <2>6. saving' = "write" /\ UNCHANGED <<up, apart, file, temp, seed, overlay>>
    BY <2>1, Zenon DEF Put, persist_config, stored
  <2> QED
    BY <2>3, <2>a, <2>4, <2>5, <2>6 DEF TypeOK
<1>9. CASE handle_config_save
  BY <1>9 DEF TypeOK, handle_config_save, stored, client
<1>10. CASE handle_config_load
  <2>1. since' \subseteq {"put", "edit", "restart"}
    BY <1>10 DEF TypeOK, handle_config_load, Happens
  <2>2. live' \in Docs /\ gen' \in 0 .. MaxGen
    BY GenAssumption, <1>0, <1>10 DEF handle_config_load, TypeOK
  <2>3. apart' = FALSE /\ UNCHANGED <<up, file, temp, seed, overlay, saving, held, shown>>
    BY <1>10 DEF handle_config_load, stored
  <2> QED
    BY <2>1, <2>2, <2>3 DEF TypeOK
<1>11. CASE handle_devices_create
  <2>1. PICK u \in Uuids, v \in Vals, s \in Secrets \union {None} :
            live' = [live EXCEPT ![u] = [val |-> v, secret |-> s]]
    BY <1>11 DEF handle_devices_create
  <2>2. [val |-> v, secret |-> s] \in Entry
    BY DEF Entry
  <2>3. live' \in Docs
    BY <2>1, <2>2 DEF Docs, TypeOK
  <2> QED
    BY <1>11, <2>3 DEF TypeOK, handle_devices_create, Happens, persist_config, stored
<1>12. CASE handle_device_delete
  <2>1. live' \in Docs
    BY <1>12 DEF handle_device_delete, Docs, TypeOK
  <2> QED
    BY <1>12, <2>1 DEF TypeOK, handle_device_delete, Happens, persist_config, stored
<1>13. CASE handle_settings_put
  <2>1. PICK u \in Uuids, v \in Vals, s \in Secrets \union {None, Mask, "clear"} :
            /\ live[u] # None
            /\ live' = [live EXCEPT ![u].val = v,
                           ![u].secret = IF s \in {None, Mask} THEN @
                                         ELSE IF s = "clear" THEN None ELSE s]
    BY <1>13 DEF handle_settings_put
  <2>2. live[u] \in Entry /\ live \in Docs
    BY <2>1 DEF Docs, TypeOK
  <2>3. live'[u] = [val |-> v, secret |-> IF s \in {None, Mask} THEN live[u].secret
                                          ELSE IF s = "clear" THEN None ELSE s]
    BY <2>1, <2>2 DEF Docs, Entry
  <2>4. live'[u] \in Entry
    BY <2>2, <2>3 DEF Entry
  <2>5. live' \in Docs
    BY <2>1, <2>2, <2>4 DEF Docs
  <2> QED
    BY <1>13, <2>5 DEF TypeOK, handle_settings_put, Happens, persist_config, stored
<1>14. CASE UNCHANGED vars
  BY <1>14 DEF TypeOK, vars
<1> QED
  BY <1>1, <1>2, <1>3, <1>4, <1>5, <1>6, <1>7, <1>8, <1>9, <1>10, <1>11, <1>12, <1>13, <1>14
  DEF Next

\* Every action keeps the three other parts.
LEMMA NextSaves == TypeOK /\ SavesTheLive /\ [Next]_vars => SavesTheLive'
<1> SUFFICES ASSUME TypeOK, SavesTheLive, [Next]_vars PROVE SavesTheLive'
  OBVIOUS
<1> USE DEF SavesTheLive, Idle
<1>1. CASE Boot
  BY <1>1 DEF Boot
<1>2. CASE Stop \/ Edit
  BY <1>2 DEF Stop, Edit
<1>3. CASE WriteTemp \/ Rename \/ SaveFails
  BY <1>3 DEF WriteTemp, Rename, SaveFails
<1>4. CASE ReadConfig \/ handle_config_save \/ handle_config_load
  BY <1>4 DEF ReadConfig, handle_config_save, handle_config_load
<1>5. CASE handle_config_put
  BY <1>5 DEF handle_config_put, Put, persist_config
<1>6. CASE handle_devices_create \/ handle_device_delete \/ handle_settings_put
  BY <1>6 DEF handle_devices_create, handle_device_delete, handle_settings_put, persist_config
<1>7. CASE UNCHANGED vars
  BY <1>7 DEF vars
<1> QED
  BY <1>1, <1>2, <1>3, <1>4, <1>5, <1>6, <1>7 DEF Next

\* Every step keeps the file and the live configuration the same between requests.
LEMMA NextSaved == SavesTheLive /\ SavedIsLive /\ [Next]_vars => SavedIsLive'
<1> SUFFICES ASSUME SavesTheLive, SavedIsLive, [Next]_vars PROVE SavedIsLive'
  OBVIOUS
<1> USE DEF SavesTheLive, SavedIsLive, Idle
<1>1. CASE Boot
  BY <1>1 DEF Boot
<1>2. CASE Stop \/ Edit
  BY <1>2 DEF Stop, Edit
<1>3. CASE WriteTemp \/ Rename \/ SaveFails
  BY <1>3 DEF WriteTemp, Rename, SaveFails
<1>4. CASE ReadConfig \/ handle_config_save
  BY <1>4 DEF ReadConfig, handle_config_save, stored
<1>8. CASE handle_config_load
  BY <1>8 DEF handle_config_load, stored
<1>5. CASE handle_config_put
  BY <1>5 DEF handle_config_put, Put, persist_config
<1>6. CASE handle_devices_create \/ handle_device_delete \/ handle_settings_put
  BY <1>6 DEF handle_devices_create, handle_device_delete, handle_settings_put, persist_config
<1>7. CASE UNCHANGED vars
  BY <1>7 DEF vars
<1> QED
  BY <1>1, <1>2, <1>3, <1>4, <1>5, <1>6, <1>7, <1>8 DEF Next

\* Every step keeps what is known of the documents clients hold.
LEMMA NextHeld == TypeOK /\ HeldIsOld /\ [Next]_vars => HeldIsOld'
<1> SUFFICES ASSUME TypeOK, HeldIsOld, [Next]_vars PROVE HeldIsOld'
  OBVIOUS
<1>0. gen \in Nat /\ held \in Nat
  BY GenAssumption DEF TypeOK
<1> USE DEF HeldIsOld
<1>1. CASE Boot
  <2>1. ~up /\ UNCHANGED <<held, since>>
    BY <1>1 DEF Boot, client
  <2> QED
    BY <2>1
<1>2. CASE Stop
  <2>1. held # 0 => "restart" \in since'
    BY <1>2 DEF Stop
  <2> QED
    BY <1>2, <2>1 DEF Stop
<1>3. CASE Edit
  BY <1>3 DEF Edit, client
<1>4. CASE WriteTemp \/ Rename \/ SaveFails
  BY <1>4 DEF WriteTemp, Rename, SaveFails, client
<1>5. CASE ReadConfig
  <2>1. since' = {} /\ held' = gen /\ gen' = gen /\ up'
    BY <1>5 DEF ReadConfig, Idle
  <2> QED
    BY <1>0, <2>1
<1>6. CASE handle_config_save
  BY <1>6 DEF handle_config_save, client
<1>7. CASE handle_config_load
  <2>1. /\ gen' = gen + 1 /\ held' = held /\ up' = up
        /\ held # 0 => since' = since \union {"put"}
    BY <1>7 DEF handle_config_load, Happens
  <2> QED
    BY <1>0, <2>1
<1>8. CASE handle_config_put
  <2>1. PICK doc \in Sent :
          \/ Put(gen, doc) /\ Happens("put") /\ UNCHANGED <<held, shown>>
          \/ held # 0 /\ Put(held, doc) /\ held' = 0 /\ shown' = NoModules /\ since' = {}
    BY <1>8 DEF handle_config_put
  <2>2. gen' = gen + 1 /\ up' = up
    BY <2>1 DEF Put
  <2>3. held' = 0 \/ (held' = held /\ (held # 0 => since' = since \union {"put"}))
    BY <2>1 DEF Happens
  <2> QED
    BY <1>0, <2>2, <2>3
<1>9. CASE handle_devices_create \/ handle_device_delete \/ handle_settings_put
  <2>1. /\ gen' = gen /\ held' = held /\ up' = up
        /\ held # 0 => since' = since \union {"edit"}
    BY <1>9 DEF handle_devices_create, handle_device_delete, handle_settings_put, Happens
  <2> QED
    BY <1>0, <2>1
<1>10. CASE UNCHANGED vars
  BY <1>10 DEF vars
<1> QED
  BY <1>1, <1>2, <1>3, <1>4, <1>5, <1>6, <1>7, <1>8, <1>9, <1>10 DEF Next

\* The invariant holds for any modules, settings, secrets and generations.
THEOREM Invariance == Spec => []IInv
<1>1. Init => IInv
  BY InitIInv
<1>2. IInv /\ [Next]_vars => IInv'
  BY NextTypeOK, NextSaves, NextSaved, NextHeld DEF IInv
<1> QED
  BY <1>1, <1>2, PTL DEF Spec

\* Every variable of ConfigStore keeps its type.
THEOREM TypeCorrect == Spec => []TypeOK
<1>1. IInv => TypeOK
  BY DEF IInv
<1> QED
  BY <1>1, Invariance, PTL

\* Between two requests the state file holds the live document unless a save has
\* failed since (persist_config, write_atomic_mode).
THEOREM SavedHolds == Spec => []SavedIsLive
<1>1. IInv => SavedIsLive
  BY DEF IInv
<1> QED
  BY <1>1, Invariance, PTL

----------------------------------------------------------------------------
(* The refinement. *)

\* The first state is one of the register's.
LEMMA InitRegister == Init /\ TypeOK => Register!Init
<1> SUFFICES ASSUME Init, TypeOK PROVE Register!Init
  OBVIOUS
<1>1. Seeded \in Docs
  BY SeededIsDoc
<1> QED
  BY <1>1 DEF Init, Register!Init

\* Every step is one of the register's, or one it does not see: the temporary
\* file, the requests that only read, and a failed save.
LEMMA NextRegister == IInv /\ [Next]_vars => [Register!Next]_Register!vars
<1> SUFFICES ASSUME IInv, [Next]_vars PROVE [Register!Next]_Register!vars
  OBVIOUS
<1>0. TypeOK /\ TypeOK' /\ SavesTheLive
  BY NextTypeOK DEF IInv
<1>a. live \in Docs /\ live' \in Docs /\ None \notin Docs /\ Bad \notin Docs
  BY <1>0, DistinctAssumption DEF TypeOK
<1>b. live # None /\ live # Bad /\ live' # None
  BY <1>a
<1>s. ASSUME UNCHANGED <<seed, overlay>> PROVE Seeded' = Seeded
  BY <1>s DEF Seeded, mf_config_load, mf_config_overlay_merge, NoModules
<1> DEFINE kept == IF file \in {None, Bad} THEN Seeded ELSE file
<1>1. CASE Boot
  <2>1. up' /\ ~up /\ live' = kept
    BY <1>1 DEF Boot
  <2>2. kept' = kept
    BY <1>1, <1>s DEF Boot, client
  <2> QED
    BY <2>1, <2>2 DEF Register!Next, Register!Start
<1>2. CASE Stop
  <2>1. kept' = kept
    BY <1>2, <1>s DEF Stop
  <2> QED
    BY <1>2, <1>b, <2>1 DEF Stop, Register!Next, Register!Stop
<1>3. CASE Edit
  <2>1. seed' = seed /\ overlay' = overlay /\ ~up /\ ~up'
    BY <1>3 DEF Edit
  <2>2. Seeded' \in Docs
    BY <1>0, <1>s, <2>1, SeededIsDoc
  <2>3. kept' \in Docs
    BY <1>3, <2>2 DEF Edit
  <2> QED
    BY <2>1, <2>3 DEF Register!Next, Register!Edit
<1>4. CASE Rename
  <2>1. up /\ up' = up /\ live' = live /\ file' = live
    BY <1>0, <1>4 DEF Rename, SavesTheLive
  <2>2. kept' = live
    BY <1>b, <2>1
  <2> QED
    BY <1>b, <2>1, <2>2 DEF Register!Next, Register!Keep
<1>5. CASE WriteTemp \/ SaveFails \/ ReadConfig \/ handle_config_save
  <2>1. up' = up /\ live' = live /\ file' = file /\ seed' = seed /\ overlay' = overlay
    BY <1>5 DEF WriteTemp, SaveFails, ReadConfig, handle_config_save, stored
  <2>2. kept' = kept
    BY <1>s, <2>1
  <2> QED
    BY <2>1, <2>2 DEF Register!vars
<1>6. CASE handle_config_put \/ handle_devices_create \/ handle_device_delete \/ handle_settings_put
  <2>1. up /\ up' = up /\ file' = file /\ seed' = seed /\ overlay' = overlay
    BY <1>6 DEF handle_config_put, Put, handle_devices_create, handle_device_delete,
                handle_settings_put, persist_config, stored, Idle
  <2>2. kept' = kept
    BY <1>s, <2>1
  <2> QED
    BY <1>a, <1>b, <2>1, <2>2 DEF Register!Next, Register!Change
<1>7. CASE handle_config_load
  <2>1. /\ up /\ up' = up /\ live' = file /\ file \notin {None, Bad}
        /\ file' = file /\ seed' = seed /\ overlay' = overlay
    BY <1>7 DEF handle_config_load, stored, Idle
  <2>2. kept' = kept /\ live' = kept
    BY <1>s, <2>1
  <2> QED
    BY <1>b, <2>1, <2>2 DEF Register!Next, Register!Reload
<1>8. CASE UNCHANGED vars
  <2>1. up' = up /\ live' = live /\ file' = file /\ seed' = seed /\ overlay' = overlay
    BY <1>8 DEF vars
  <2>2. kept' = kept
    BY <1>s, <2>1
  <2> QED
    BY <2>1, <2>2 DEF Register!vars
<1> QED
  BY <1>1, <1>2, <1>3, <1>4, <1>5, <1>6, <1>7, <1>8 DEF Next

\* Saves, failed saves, deaths in the middle of one, restarts, files that do not
\* parse and first starts come to what a register kept in one step can do.
THEOREM Refinement == Spec => KeptAsARegister
<1>1. Init => Register!Init
  BY InitIInv, InitRegister DEF IInv
<1>2. IInv /\ [Next]_vars => [Register!Next]_Register!vars
  BY NextRegister
<1> QED
  BY <1>1, <1>2, Invariance, PTL DEF Spec, KeptAsARegister, Register!Spec

\* A PUT that is accepted while the daemon keeps running was made from a document
\* that has every earlier PUT and load (gen_matches, config_gen).
THEOREM PutsHold == Spec => PutSeesEveryPut
<1>1. IInv /\ [Next]_vars =>
        [held # 0 /\ held' = 0 => "put" \notin since \/ "restart" \in since]_vars
  <2> SUFFICES ASSUME IInv, [Next]_vars, held # 0, held' = 0
               PROVE  "put" \notin since \/ "restart" \in since
    OBVIOUS
  <2>0. gen \in Nat /\ held \in Nat
    BY GenAssumption DEF IInv, TypeOK
  <2>1. ReadConfig \/ handle_config_put
    BY DEF Next, Boot, Stop, Edit, WriteTemp, Rename, SaveFails, handle_config_save,
           handle_config_load, handle_devices_create, handle_device_delete,
           handle_settings_put, client, vars
  <2>2. CASE ReadConfig
    <3>1. gen = 0 /\ up
      BY <2>2 DEF ReadConfig, Idle
    <3> QED
      BY <2>0, <3>1 DEF IInv, HeldIsOld
  <2>3. CASE handle_config_put
    <3>1. held = gen
      BY <2>3 DEF handle_config_put, Put, gen_matches
    <3> QED
      BY <2>0, <3>1 DEF IInv, HeldIsOld
  <2> QED
    BY <2>1, <2>2, <2>3
<1> QED
  BY <1>1, Invariance, PTL DEF Spec, PutSeesEveryPut

----------------------------------------------------------------------------
(* Secrets. *)

\* A client is shown no secret, only that there is one.
ShownIsMasked == \A u \in Uuids : shown[u] # None => shown[u].secret \in {None, Mask}

\* Every step keeps the documents' secrets masked.
LEMMA NextMasked == TypeOK /\ ShownIsMasked /\ [Next]_vars => ShownIsMasked'
<1> SUFFICES ASSUME TypeOK, ShownIsMasked, [Next]_vars PROVE ShownIsMasked'
  OBVIOUS
<1>1. CASE shown' = shown
  BY <1>1 DEF ShownIsMasked
<1>2. CASE shown' = NoModules
  BY <1>2 DEF ShownIsMasked, NoModules
<1>3. CASE shown' = handle_config_get
  <2> SUFFICES ASSUME NEW u \in Uuids, shown'[u] # None PROVE shown'[u].secret \in {None, Mask}
    BY DEF ShownIsMasked
  <2>1. shown'[u] = Shown(live[u]) /\ live[u] \in Entry \union {None}
    BY <1>3 DEF handle_config_get, TypeOK, Docs
  <2>2. live[u] \in Entry
    BY <2>1 DEF Shown
  <2>3. Shown(live[u]) = [live[u] EXCEPT !.secret = IF @ = None THEN None ELSE Mask]
    BY <2>1, <2>2, DistinctAssumption DEF Shown
  <2> QED
    BY <2>1, <2>2, <2>3 DEF Entry
<1> QED
  BY <1>1, <1>2, <1>3
  DEF Next, Boot, Stop, Edit, WriteTemp, Rename, SaveFails, ReadConfig, handle_config_put,
      handle_config_save, handle_config_load, handle_devices_create, handle_device_delete,
      handle_settings_put, client, vars

\* A client that sends back the masked document it has read, however long ago,
\* loses no secret of a module it names (restore_secrets).
THEOREM SecretsKept == Spec => PutBackKeepsSecrets
<1>1. Init => ShownIsMasked
  BY DEF Init, ShownIsMasked, NoModules
<1>2. IInv /\ ShownIsMasked /\ [Next]_vars => ShownIsMasked'
  BY NextMasked DEF IInv
<1>3. IInv /\ ShownIsMasked /\ [Next]_vars =>
        [held # 0 /\ held' = 0 /\ Put(held, shown) =>
            \A u \in Uuids :
               shown[u] # None /\ live[u] # None /\ live[u].secret # None =>
                  live'[u].secret = live[u].secret]_vars
  <2> SUFFICES ASSUME IInv, ShownIsMasked, Put(held, shown), NEW u \in Uuids,
                      shown[u] # None, live[u] # None, live[u].secret # None
               PROVE  live'[u].secret = live[u].secret
    OBVIOUS
  <2>1. live' = restore_secrets(shown) /\ shown[u].secret \in {None, Mask}
    BY DEF Put, ShownIsMasked
  <2>2. live'[u] = [shown[u] EXCEPT !.secret = live[u].secret]
    BY <2>1 DEF restore_secrets
  <2>3. shown[u] \in Entry
    BY DEF IInv, TypeOK, Docs
  <2> QED
    BY <2>2, <2>3 DEF Entry
<1> QED
  BY <1>1, <1>2, <1>3, Invariance, PTL DEF Spec, PutBackKeepsSecrets
=============================================================================
