-------------------------- MODULE MCSincronizacion --------------------------
(***************************************************************************)
(* Small instances of Sincronizacion.                                      *)
(***************************************************************************)
EXTENDS Sincronizacion

MCCodigos == {"11111", "22222"}
MCMaestro == "11111"
MCTarjetas == {"ABCD"}
SinHuella == {0}
AltasYBajas == {"panel_admin", "delete_user"}
ConTarjetas == {"panel_admin", "delete_user", "delete_rfid"}

\* listaPins of the image: the master, and a user the server does not have
MCImagen ==
    [i \in {1, 2} |-> IF i = 1 THEN fila("11111", SIN_TARJETA, 0)
                      ELSE fila("22222", "ABCD", 1)]
=============================================================================
