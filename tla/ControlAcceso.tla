--------------------------- MODULE ControlAcceso ---------------------------
(***************************************************************************)
(* What a lock with several kinds of credentials promises, without states, *)
(* prompts, clocks or devices.  People present credentials; a presented    *)
(* credential is turned down, or it opens the closed door if it is         *)
(* authorised at that moment, and either way it is used up; who is         *)
(* authorised changes only while the door is locked.                       *)
(***************************************************************************)
CONSTANT Credenciales

VARIABLES
    abierta,        \* the door is unlocked
    autorizadas,    \* the credentials that open it now
    presentadas     \* the credentials presented and not yet answered

vars == <<abierta, autorizadas, presentadas>>

Init ==
    /\ abierta = FALSE
    /\ autorizadas \subseteq Credenciales
    /\ presentadas = {}

Presentar(c) ==
    /\ presentadas' = presentadas \cup {c}
    /\ UNCHANGED <<abierta, autorizadas>>

Rechazar(c) ==
    /\ presentadas' = presentadas \ {c}
    /\ UNCHANGED <<abierta, autorizadas>>

Abrir(c) ==
    /\ ~abierta
    /\ c \in presentadas \cap autorizadas
    /\ abierta' = TRUE
    /\ presentadas' = presentadas \ {c}
    /\ UNCHANGED autorizadas

Cerrar ==
    /\ abierta
    /\ abierta' = FALSE
    /\ UNCHANGED <<autorizadas, presentadas>>

CambiarAutorizadas ==
    /\ ~abierta
    /\ autorizadas' \subseteq Credenciales
    /\ UNCHANGED <<abierta, presentadas>>

Next ==
    \/ \E c \in Credenciales : Presentar(c) \/ Rechazar(c) \/ Abrir(c)
    \/ Cerrar
    \/ CambiarAutorizadas

Spec == Init /\ [][Next]_vars

=============================================================================
