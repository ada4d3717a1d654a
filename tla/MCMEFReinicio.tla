--------------------------- MODULE MCMEFReinicio ---------------------------
(* The access instance of MCMEF, with losses of the supply. *)
EXTENDS MCMEF, MEFReinicio

=============================================================================
