----------------------------- MODULE MCCatalogSet -----------------------------
(* Instances of CatalogSet for TLC.                                        *)
EXTENDS CatalogSet, TLC

\* Fold: every spelling is a name of its own.
Identity == [n \in Names |-> n]

\* Sessions and names are interchangeable where every spelling is its own name.
Symmetry == Permutations(Sessions) \cup Permutations(Names)
===============================================================================
