----------------------------- MODULE MCSession -----------------------------
(* Small instances of Session for TLC.                                     *)
EXTENDS Session, TLC

\* Identifiers, users and requests are interchangeable.
SessionSymmetry ==
    Permutations(Sids) \cup Permutations(Users) \cup Permutations(Requests)
=============================================================================
