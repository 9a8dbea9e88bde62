------------------------------ MODULE MCPlayer ------------------------------
(* Instances of Player.                                                    *)
EXTENDS Player
=============================================================================
