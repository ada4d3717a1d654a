------------------------------ MODULE MCAs608 ------------------------------
(* The fingerprint driver with a sensor of CAPACIDAD pages. *)
EXTENDS As608

\* every answer but a search frame that stays incomplete
AcksCompletos == {ACK_OK, ACK_SIN_DEDO, ACK_OTRO}

=============================================================================
