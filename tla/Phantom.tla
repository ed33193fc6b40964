------------------------------ MODULE Phantom ------------------------------
(***************************************************************************)
(* A phantom module: it shows the average of other modules of its kind.    *)
(*                                                                         *)
(* The modules it shadows come and go, are switched off and on and lose    *)
(* and find their devices in any order, and clients change the list.  A    *)
(* reading is the set of modules it is the average of (phantom_of), empty  *)
(* while the phantom is offline.                                           *)
(***************************************************************************)
EXTENDS Integers, FiniteSets, Clock

CONSTANTS
    Real,          \* real modules of the phantom's kind
    Foreign,       \* modules of another kind, other phantoms, the phantom itself
    MAX_SHADOWS,   \* places in the list
    PH_POLL        \* poll_s

ASSUME PhAssumption == MAX_SHADOWS \in Nat /\ PH_POLL \in Nat /\ IsFiniteSet(Real \union Foreign)

Modules == Real \union Foreign

VARIABLES
    ph,          \* ph_ctx_t
    mods,        \* the modules: gone, inactive, offline, or active and online
    ph_settled   \* nothing changes any more but the time

ph_vars == <<ph, mods, ph_settled>>

\* parse_shadows: the module ids of a list that is well formed, without the
\* duplicates, and not too many.
Lists == {l \in SUBSET Modules : Cardinality(l) <= MAX_SHADOWS}

\* ph_step, the modules that are averaged: running, real and of the kind, active
\* and online.
IsLive(m) == mods[m] # "gone"
Qualifies(m) == IsLive(m) /\ m \in Real /\ mods[m] \notin {"inactive", "offline"}
Qualifying == {m \in ph.shadows : Qualifies(m)}

----------------------------------------------------------------------------

\* ph_open: any list the configuration has.
ph_open(l) == [shadows |-> l, next |-> 0, reading |-> {}]

\* ph_step: the average of those that qualify now; no stale one when none does.
ph_step ==
    /\ ph.next = 0
    /\ ph' = [ph EXCEPT !.next = PH_POLL, !.reading = Qualifying]
    /\ UNCHANGED <<mods, ph_settled>>

\* ph_put_settings: only real modules of the same kind that are running.
ph_put_settings ==
    /\ ~ph_settled
    /\ \E l \in Lists :
          /\ \A m \in l : m \in Real /\ IsLive(m)
          /\ ph' = [ph EXCEPT !.shadows = l, !.next = 0]
    /\ UNCHANGED <<mods, ph_settled>>

\* A module starts or stops, is switched on or off, finds or loses its device.
ModuleChanges ==
    /\ ~ph_settled
    /\ \E m \in Modules, to \in {"gone", "inactive", "offline", "online"} :
          mods' = [mods EXCEPT ![m] = to]
    /\ UNCHANGED <<ph, ph_settled>>

PhSettle == ~ph_settled /\ ph_settled' = TRUE /\ UNCHANGED <<ph, mods>>

PhTick == ph' = [ph EXCEPT !.next = Pass(@)] /\ UNCHANGED <<mods, ph_settled>>

PhRests(l) ==
    /\ ph = ph_open(l) /\ ph_settled = FALSE
    /\ mods = [m \in Modules |-> "gone"]
PhInit == \E l \in Lists : PhRests(l)

PhNext == ph_step \/ ph_put_settings \/ ModuleChanges \/ PhSettle \/ PhTick

----------------------------------------------------------------------------

PhTypeOK == ph.shadows \in Lists /\ ph.next \in 0 .. PH_POLL /\ ph.reading \subseteq Real

\* The reading is the average of the shadowed modules that are of the kind, active
\* and online, or there is none when none is.
PhAnswering == ph_settled
PhRead == ph.reading = {m \in ph.shadows \ Foreign : mods[m] = "online"}
=============================================================================
