--------------------------- MODULE ClassicModbus ---------------------------
(***************************************************************************)
(* What the Classic's driver and its probe share: the unit ids that are    *)
(* tried at an address, and how long an answer may take.                   *)
(***************************************************************************)
EXTENDS Integers

CONSTANTS
    NTry,         \* unit ids tried: the configured one, 10 and 1, each once
    IO_TIMEOUT_S  \* longest a connect or an answer may take

ASSUME ModbusAssumption == NTry \in Nat \ {0} /\ IO_TIMEOUT_S \in Nat

\* build_unit_list, fill_units: a unit id stands for its place in the list.
Units == 1 .. NTry
=============================================================================
