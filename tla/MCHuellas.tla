----------------------------- MODULE MCHuellas ------------------------------
(***************************************************************************)
(* Small instances of Huellas.                                             *)
(***************************************************************************)
EXTENDS Huellas, TLC

\* threads differ in nothing but their names
Simetria == Permutations(Hilos)

MCCodigos == {"11111", "22222"}
MCMaestro == "11111"
SinTarjetas == {}
\* what the form of a new user has in its fingerprint field
SinONumero == {0, 1}
ConAdministrador == {"panel_admin", "delete_user", "update_admin_pin"}

\* listaPins of the image: the master, and a user with a finger that no sensor has yet
MCImagen ==
    [i \in {1, 2} |-> IF i = 1 THEN fila("11111", SIN_TARJETA, 0)
                      ELSE fila("22222", SIN_TARJETA, 1)]

\* Bound: nothing is explored beyond an incident, nor with a list that stays late, which
\* can only be read by one.
SinIncidente == ~incidente /\ rezagadas = {}
=============================================================================
