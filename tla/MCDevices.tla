----------------------------- MODULE MCDevices -----------------------------
(* Small instances of Devices for TLC. *)
EXTENDS Devices, TLC

CONSTANTS i1, i2, e1, e2

\* Two identities on two endpoints.
MCEndpoint == i1 :> e1 @@ i2 :> e2

\* Services and phantoms: no endpoint.
MCService == [i \in Idents |-> NoEndpoint]

\* Uuids and names are only ever compared.
Symmetry == Permutations(Uuids) \union Permutations(Names) \union Permutations(Conns)
            \union Permutations(Idents)
=============================================================================
