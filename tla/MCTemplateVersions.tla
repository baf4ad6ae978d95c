-------------------------- MODULE MCTemplateVersions --------------------------
(***************************************************************************)
(* Small instances of TemplateVersions for TLC.                            *)
(***************************************************************************)
EXTENDS TemplateVersions

\* Requests are interchangeable, and so are categories.
Symmetry == Permutations(Calls) \cup Permutations(Categories)
===============================================================================
