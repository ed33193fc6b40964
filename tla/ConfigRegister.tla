--------------------------- MODULE ConfigRegister ---------------------------
(***************************************************************************)
(* What the daemon promises of its configuration: one document is kept     *)
(* across restarts.  A start comes up with it; a change is made in the     *)
(* running daemon first and kept in one step or not at all; a stop, at     *)
(* whatever moment, loses nothing that was kept.                           *)
(***************************************************************************)
CONSTANTS
    Docs,     \* configuration documents
    Nothing   \* the daemon is not running

VARIABLES
    cur,      \* the document the daemon runs with, or Nothing
    kept      \* the document the next start comes up with

vars == <<cur, kept>>

Init == cur = Nothing /\ kept \in Docs

Start == cur = Nothing /\ cur' = kept /\ UNCHANGED kept
Change == cur # Nothing /\ cur' \in Docs /\ UNCHANGED kept
Keep == cur # Nothing /\ kept' = cur /\ UNCHANGED cur
Reload == cur # Nothing /\ cur' = kept /\ UNCHANGED kept
Stop == cur # Nothing /\ cur' = Nothing /\ UNCHANGED kept

\* The operator edits the file, or moves it aside, while the daemon is down.
Edit == cur = Nothing /\ kept' \in Docs /\ UNCHANGED cur

Next == Start \/ Change \/ Keep \/ Reload \/ Stop \/ Edit

Spec == Init /\ [][Next]_vars
=============================================================================
