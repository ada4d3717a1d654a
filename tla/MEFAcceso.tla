----------------------------- MODULE MEFAcceso -----------------------------
(***************************************************************************)
(* MEF implements ControlAcceso.  The door is unlocked when the bolt is    *)
(* away from its closed position.  A PIN is presented from its last digit  *)
(* until VALIDAR has looked at it, a card from the read until              *)
(* VALIDAR_RFID, a finger from the search that found its page until the    *)
(* next step of the scan reports the match.                                *)
(***************************************************************************)
EXTENDS MEF

CredPin(p) == <<"pin", p>>
CredRfid(r) == <<"rfid", r>>
CredHuella(id) == <<"huella", id>>

CredencialesMef ==
    {CredPin(p) : p \in Pines}
        \cup {CredRfid(r) : r \in Rfids}
        \cup {CredHuella(id) : id \in 0..CAPACIDAD}

\* what the list authorises: VALIDAR accepts the PIN, VALIDAR_RFID the card,
\* LEER_Y_VALIDAR_HUELLA the page
AutorizadasMef ==
    {CredPin(p) : p \in {q \in Pines : validarPin(q)}}
        \cup {CredRfid(r) : r \in {q \in Rfids : obtenerTagPorRFID(q) # NULL}}
        \cup {CredHuella(id) : id \in {n \in 0..CAPACIDAD : validarHuella(formato04(n))}}

PresentadasMef ==
    (IF estadoActual = "VALIDAR" THEN {CredPin(pin)} ELSE {})
        \cup (IF estadoActual = "VALIDAR_RFID" THEN {CredRfid(rfid)} ELSE {})
        \cup (IF scanSt = "ST_DONE_MATCH" THEN {CredHuella(lastId)} ELSE {})

Acceso ==
    INSTANCE ControlAcceso WITH
        Credenciales <- CredencialesMef,
        abierta <- cerrojo # 0,
        autorizadas <- AutorizadasMef,
        presentadas <- PresentadasMef

\* The state machine, with its prompts, timeouts, sleep and split scan, opens
\* the bolt only for a credential that somebody presented, once per presentation,
\* and that the list authorises at the moment of opening; and the list never
\* changes while the door is unlocked (MEF.c:306-460).
ImplementaAcceso == Acceso!Spec

=============================================================================
