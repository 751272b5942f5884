----------------------------- MODULE MCSession -----------------------------
(***************************************************************************)
(* Instances of Session for TLC.                                           *)
(***************************************************************************)
EXTENDS Session, TLC

CONSTANTS c1, c2, root, joe, s1, s2, s3, s4

\* New ids and connections are interchangeable; the users are not.
Symmetry == Permutations(Conns) \union Permutations(Sids)
=============================================================================
