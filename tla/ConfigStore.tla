---------------------------- MODULE ConfigStore ----------------------------
(***************************************************************************)
(* The daemon's configuration: the live document, the state file it is     *)
(* saved to after every accepted change, the seed and the settings overlay *)
(* a first start is made from, and the REST operations on it.              *)
(*                                                                         *)
(* One thread serves every request, so an operation and its save are not   *)
(* interrupted by another one; the process may die between any two steps   *)
(* of a save.  A module's entry is abstracted to one value that stands for *)
(* its plain settings and the secret its plugin declares.  Listen address, *)
(* paths, links and meters are left out.                                   *)
(***************************************************************************)
EXTENDS Integers, FiniteSets

CONSTANTS
    Uuids,      \* modules
    Vals,       \* plain settings
    Secrets,    \* values of a plugin's secret
    None,       \* not there: no entry, no value, no file
    Mask,       \* a secret as clients are shown it
    Bad,        \* a file that does not parse
    MaxGen      \* bound on config_gen

\* An entry and a document, as the daemon keeps them.
Entry == [val : Vals, secret : Secrets \union {None, Mask}]
Docs == [Uuids -> Entry \union {None}]

\* What stands for no document or for a bad file is not a document, and what
\* stands for no value or a mask is not a value.
ASSUME DistinctAssumption ==
    /\ None \notin Docs /\ Bad \notin Docs /\ None # Bad
    /\ None \notin Entry /\ Mask \notin Secrets \union {None, "clear"}
    /\ "clear" \notin Secrets \union {None}
ASSUME GenAssumption == MaxGen \in Nat \ {0}

VARIABLES
    up,       \* the daemon runs
    live,     \* the live document: the modules' entries
    gen,      \* config_gen
    file,     \* the state file
    temp,     \* the temporary file beside it
    saving,   \* how far the save under way is: "no", "write", "rename"
    seed,     \* the file in /etc, or the one named on the command line
    overlay,  \* settings.json of an older daemon: plain settings by module
    held,     \* config_gen of the document one client has read, 0 without
    shown,    \* that document
    since,    \* history variable: what has happened since that client read it
    apart     \* history variable: a save failed after the last one that did not

vars == <<up, live, gen, file, temp, saving, seed, overlay, held, shown, since, apart>>
stored == <<file, temp, seed, overlay>>
client == <<held, shown, since>>

NoMask(doc) == \A u \in Uuids : doc[u] # None => doc[u].secret # Mask
NoModules == [u \in Uuids |-> None]    \* mf_config_defaults

\* A document a client sends: what is left out is None; "" clears a secret.
Sent == [Uuids -> [val : Vals, secret : Secrets \union {None, Mask, "clear"}] \union {None}]

----------------------------------------------------------------------------
(* Documents. *)

\* mf_config_apply_json, apply_device: an entry is made anew from what is sent.
apply_device(e) == IF e = None THEN None
                   ELSE [e EXCEPT !.secret = IF @ = "clear" THEN None ELSE @]

\* What GET /config shows: mf_config_redact and mf_secret_mask_module.
Shown(e) == IF e = None THEN None
            ELSE [e EXCEPT !.secret = IF @ = None THEN None ELSE Mask]
handle_config_get == [u \in Uuids |-> Shown(live[u])]

\* Wrong variant: only a mask stands for the live value.
restore_secrets_masked(doc) ==
    [u \in Uuids |->
        IF doc[u] = None \/ live[u] = None THEN apply_device(doc[u])
        ELSE IF live[u].secret # None /\ doc[u].secret = Mask
        THEN [doc[u] EXCEPT !.secret = live[u].secret]
        ELSE apply_device(doc[u])]

\* restore_secrets: the live value stays where a mask, or nothing, came back.
restore_secrets(doc) ==
    [u \in Uuids |->
        IF doc[u] = None \/ live[u] = None THEN apply_device(doc[u])
        ELSE IF live[u].secret # None /\ doc[u].secret \in {None, Mask}
        THEN [doc[u] EXCEPT !.secret = live[u].secret]
        ELSE apply_device(doc[u])]

\* mf_config_load and mf_config_load_overlay: what the daemon comes up with
\* when it has no state file.  The overlay's plain settings replace the seed's.
mf_config_load == IF seed \in {None, Bad} THEN NoModules ELSE seed
mf_config_overlay_merge(doc) ==
    IF overlay = Bad THEN doc
    ELSE [u \in Uuids |-> IF doc[u] = None \/ overlay[u] = None THEN doc[u]
                          ELSE [doc[u] EXCEPT !.val = overlay[u]]]
Seeded == mf_config_overlay_merge(mf_config_load)

----------------------------------------------------------------------------
(* Saving: write_atomic_mode, a step at a time. *)

\* Wrong variant: the state file is emptied first.
WriteTemp_inplace ==
    /\ saving = "write"
    /\ temp' = live
    /\ file' = Bad
    /\ saving' = "rename"
    /\ UNCHANGED <<up, live, gen, seed, overlay, client, apart>>

\* The temporary file is opened, which empties it, written and closed.
WriteTemp ==
    /\ saving = "write"
    /\ temp' = live
    /\ saving' = "rename"
    /\ UNCHANGED <<up, live, gen, file, seed, overlay, client, apart>>

\* It is renamed over the state file.
Rename ==
    /\ saving = "rename"
    /\ file' = temp
    /\ temp' = None
    /\ saving' = "no"
    /\ apart' = FALSE
    /\ UNCHANGED <<up, live, gen, seed, overlay, client>>

\* Opening, writing or renaming fails: persist_config logs it, no more.
SaveFails ==
    /\ saving # "no"
    /\ temp' = None
    /\ saving' = "no"
    /\ apart' = TRUE
    /\ UNCHANGED <<up, live, gen, file, seed, overlay, client>>

\* The process ends, on request or not.  A temporary file it leaves behind has
\* its process id in the name: nothing opens that again.
Stop ==
    /\ up
    /\ up' = FALSE /\ live' = NoModules /\ gen' = 0 /\ saving' = "no"
    /\ temp' = None
    /\ apart' = FALSE
    /\ since' = IF held = 0 THEN {} ELSE since \union {"restart"}
    /\ UNCHANGED <<file, seed, overlay, held, shown>>

\* The operator edits the state file or moves it aside while the daemon is down.
Edit ==
    /\ ~up
    /\ file' \in {d \in Docs : NoMask(d)} \union {None, Bad}
    /\ UNCHANGED <<up, live, gen, temp, saving, seed, overlay, client, apart>>

----------------------------------------------------------------------------
(* The daemon's operations. *)

\* main: the state file, or else the seed with the overlay, saved at once.  A
\* file that does not parse is moved out of the way first.
Boot ==
    /\ ~up
    /\ up' = TRUE
    /\ gen' = 1
    /\ IF file \in {None, Bad}
       THEN live' = Seeded /\ file' = None /\ saving' = "write"
       ELSE live' = file /\ UNCHANGED <<file, saving>>
    /\ UNCHANGED <<temp, seed, overlay, client, apart>>

Idle == up /\ saving = "no"

\* An accepted change is saved: persist_config.
persist_config == saving' = "write" /\ UNCHANGED stored

\* What happens to the document a client holds.
Happens(what) == since' = IF held = 0 THEN {} ELSE since \union {what}

ReadConfig ==
    /\ Idle
    /\ held' = gen
    /\ shown' = handle_config_get
    /\ since' = {}
    /\ UNCHANGED <<up, live, gen, stored, saving, apart>>

\* Wrong variant: the generation is not compared.
gen_matches_any(got) == TRUE

gen_matches(got) == got = gen

\* handle_config_put, from the client whose document is followed (got = held)
\* or from another one that has just read its own (got = gen).
Put(got, doc) ==
    /\ Idle
    /\ gen_matches(got)
    /\ gen < MaxGen
    /\ live' = restore_secrets(doc)
    /\ gen' = gen + 1
    /\ persist_config
    /\ UNCHANGED <<up, apart>>

handle_config_put ==
    \E doc \in Sent :
        \/ Put(gen, doc) /\ Happens("put") /\ UNCHANGED <<held, shown>>
        \/ held # 0 /\ Put(held, doc) /\ held' = 0 /\ shown' = NoModules /\ since' = {}

\* handle_devices_create: a mask in the request is dropped.
handle_devices_create ==
    /\ Idle
    /\ \E u \in Uuids, v \in Vals, s \in Secrets \union {None} :
          /\ live[u] = None
          /\ live' = [live EXCEPT ![u] = [val |-> v, secret |-> s]]
    /\ Happens("edit")
    /\ persist_config
    /\ UNCHANGED <<up, gen, held, shown, apart>>

\* Wrong variant: the document is not saved.
handle_device_delete_unsaved ==
    /\ Idle
    /\ \E u \in Uuids : live[u] # None /\ live' = [live EXCEPT ![u] = None]
    /\ Happens("edit")
    /\ UNCHANGED <<up, gen, stored, saving, held, shown, apart>>

\* handle_device_delete.
handle_device_delete ==
    /\ Idle
    /\ \E u \in Uuids : live[u] # None /\ live' = [live EXCEPT ![u] = None]
    /\ Happens("edit")
    /\ persist_config
    /\ UNCHANGED <<up, gen, held, shown, apart>>

\* handle_settings_put, cfg_patch_settings: what is sent replaces what was, a
\* mask excepted.
handle_settings_put ==
    /\ Idle
    /\ \E u \in Uuids, v \in Vals, s \in Secrets \union {None, Mask, "clear"} :
          /\ live[u] # None
          /\ live' = [live EXCEPT ![u].val = v,
                         ![u].secret = IF s \in {None, Mask} THEN @
                                       ELSE IF s = "clear" THEN None ELSE s]
    /\ Happens("edit")
    /\ persist_config
    /\ UNCHANGED <<up, gen, held, shown, apart>>

\* handle_config_save, by either client.
handle_config_save ==
    /\ Idle
    /\ \E got \in {gen, held} : gen_matches(got)
    /\ saving' = "write"
    /\ UNCHANGED <<up, live, gen, stored, client, apart>>

\* handle_config_load: back to what the state file says.
handle_config_load ==
    /\ Idle
    /\ file \notin {None, Bad}
    /\ gen < MaxGen
    /\ live' = file
    /\ gen' = gen + 1
    /\ Happens("put")
    /\ apart' = FALSE
    /\ UNCHANGED <<up, stored, saving, held, shown>>

Init ==
    /\ up = FALSE /\ live = NoModules /\ gen = 0 /\ saving = "no"
    /\ file = None /\ temp = None
    /\ seed \in {d \in Docs : NoMask(d)} \union {None, Bad}
    /\ overlay \in [Uuids -> Vals \union {None}] \union {Bad}
    /\ held = 0 /\ shown = NoModules /\ since = {} /\ apart = FALSE

Next ==
    \/ Boot \/ Stop \/ Edit
    \/ WriteTemp \/ Rename \/ SaveFails
    \/ ReadConfig \/ handle_config_put \/ handle_config_save \/ handle_config_load
    \/ handle_devices_create \/ handle_device_delete \/ handle_settings_put

Spec == Init /\ [][Next]_vars

----------------------------------------------------------------------------

TypeOK ==
    /\ up \in BOOLEAN /\ live \in Docs /\ gen \in 0 .. MaxGen
    /\ file \in Docs \union {None, Bad} /\ temp \in Docs \union {None}
    /\ saving \in {"no", "write", "rename"}
    /\ held \in 0 .. MaxGen /\ shown \in Docs /\ since \subseteq {"put", "edit", "restart"}
    /\ apart \in BOOLEAN
    /\ seed \in Docs \union {None, Bad}
    /\ overlay \in [Uuids -> Vals \union {None}] \union {Bad}

\* The promise: saves, crashes in the middle of one, restarts, a file that does
\* not parse and a first start never come to more than what a register that is
\* kept in one step can do (write_atomic_mode, mf_config_load_state, main).
Register ==
    INSTANCE ConfigRegister WITH
        Nothing <- None,
        cur <- IF up THEN live ELSE None,
        kept <- IF file \in {None, Bad} THEN Seeded ELSE file
KeptAsARegister == Register!Spec

\* Between two requests the state file holds the live document, unless a save
\* has failed since: no operation changes the one without the other.
SavedIsLive == Idle /\ ~apart => file = live

\* Optimistic concurrency: a PUT that is accepted while the daemon keeps running
\* was made from a document that has every earlier PUT and load.
PutSeesEveryPut ==
    [][held # 0 /\ held' = 0 => "put" \notin since \/ "restart" \in since]_vars

\* A client that sends back the masked document it has read ("A GET /config that
\* went back as a PUT has its secrets masked: keep the live values"), however
\* long ago that was, loses no secret of a module it names, one that was set
\* meanwhile included (restore_secrets, mf_secret_restore_extra).
PutBackKeepsSecrets ==
    [][held # 0 /\ held' = 0 /\ Put(held, shown) =>
          \A u \in Uuids :
             shown[u] # None /\ live[u] # None /\ live[u].secret # None =>
                live'[u].secret = live[u].secret]_vars
=============================================================================
