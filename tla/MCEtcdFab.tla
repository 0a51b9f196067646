----------------------------- MODULE MCEtcdFab -----------------------------
(* EtcdFab for TLC.  The nodes are interchangeable.                        *)
EXTENDS EtcdFab, TLC

Symmetry == Permutations(Nodes)
=============================================================================
