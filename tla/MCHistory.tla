----------------------------- MODULE MCHistory -----------------------------
(* Small instances of History for TLC. *)
EXTENDS History, TLC

CONSTANTS u1, u2

\* One module has rows in the shared file.
MCOldRows == u1 :> {} @@ u2 :> {0}
\* More than one batch of pruning.
OneOldRows == u1 :> {0, 1}
\* No shared file.
NoOldRows == u1 :> {} @@ u2 :> {}
=============================================================================
