------------------------------- MODULE Clock -------------------------------
(***************************************************************************)
(* Points in time.  The daemon compares times of a clock that only goes up; *)
(* the models keep the ticks left until a time comes, 0 once it has.        *)
(***************************************************************************)
EXTENDS Integers

\* What a tick leaves of a time that is n ticks away.
Pass(n) == IF n = 0 THEN 0 ELSE n - 1
=============================================================================
