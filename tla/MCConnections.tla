---------------------------- MODULE MCConnections -----------------------------
(***************************************************************************)
(* Small instances of Connections for TLC.                                 *)
(***************************************************************************)
EXTENDS Connections, TLC

\* Two tenants whose names give the same slug.
OneSlug == [t \in Tenants |-> "acme"]

\* Calls are interchangeable, and so are tenants of one slug.
Symmetry == Permutations(Calls) \cup Permutations(Tenants)
===============================================================================
