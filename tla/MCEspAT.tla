------------------------------ MODULE MCEspAT ------------------------------
(* Instances of EspAT: the configurations give the constants their values. *)
EXTENDS EspAT

=============================================================================
