--------------------------- MODULE MCMEFHistoria ---------------------------
(* The access instance of MCMEF, with the history variable. *)
EXTENDS MCMEF, MEFHistoria

=============================================================================
