----------------------------- MODULE MCParking ------------------------------
(* Parking, for TLC: see the configurations.                               *)
EXTENDS Parking
=============================================================================
