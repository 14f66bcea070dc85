------------------------------ MODULE MCTenancy ------------------------------
(* Instances of Tenancy for TLC. *)
EXTENDS Tenancy, TLC

\* Clients are interchangeable, and so are connections.
Symmetry == Permutations(Clients) \cup Permutations(AppConns)
=============================================================================
