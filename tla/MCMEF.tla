------------------------------- MODULE MCMEF -------------------------------
(***************************************************************************)
(* Small instances of MEF: PINs of one or two digits, two users, one card. *)
(***************************************************************************)
EXTENDS MEFAcceso

CONSTANTS r1, ana, beto

Entrada(codigo, rf, huella, tag) ==
    [codigo |-> codigo, activo |-> TRUE, rfid |-> rf, huella |-> huella, tag |-> tag]

\* the PIN that repeats digit d
PinDe(d) == [i \in 1..PIN_LENGTH |-> d]

\* every PIN that can be typed, and one that uses a key out of the instance
MCPines == [1..PIN_LENGTH -> Digitos] \cup {PinDe("9")}

Maestro(codigo) == Entrada(codigo, VACIO, TextoVacio, ana)

\* the image's list: the master alone
SoloMaestro(codigo) == [i \in Indices |-> IF i = 0 THEN Maestro(codigo) ELSE UsuarioNulo]

AcksTodos == {ACK_OK, ACK_SIN_DEDO, ACK_OTRO, ACK_PARCIAL}

-----------------------------------------------------------------------------
(* Access: the master's PIN is out of reach, so the menu is; a user has a  *)
(* PIN, a card and a finger, or is not in the list.                        *)

ListaAcceso == SoloMaestro(PinDe("9"))

ListasAcceso ==
    { <<Maestro(PinDe("9"))>>,
      <<Maestro(PinDe("9")), Entrada(PinDe("1"), r1, formato04(1), beto)>> }

-----------------------------------------------------------------------------
(* Administration: the fingerprint sensor answers commands but no scan.    *)

ListaAdmin == SoloMaestro(PinDe("1"))

ListasAdmin == { <<Maestro(PinDe("1")), Entrada(PinDe("2"), VACIO, formato04(1), beto)>> }

SinAcks == {}

=============================================================================
