---------------------------- MODULE MEFReinicio ----------------------------
(***************************************************************************)
(* MEF on a board that may lose its supply at any moment.  RAM is lost;    *)
(* the bolt stays where the motor left it and the sensor keeps its         *)
(* templates.  mefInit (MEF.c:137-185) does not move the bolt.             *)
(***************************************************************************)
EXTENDS MEF

CONSTANT MAX_CORRIDO   \* bound: how many openings off the bolt may be when the supply is lost

VARIABLE inicio     \* history: where the bolt was when the program started

varsReinicio == <<vars, inicio>>

\* the program starts over, with the list of the image or the server's
reinicio ==
    /\ estadoActual' = "ESPERANDO_ACCION" /\ punto' = "mef"
    /\ pin' = PinVacio /\ rfid' = VACIO
    /\ intentosFallidos' = 0 /\ intentos' = 0
    /\ escaneoActivo' = FALSE
    /\ eventoPresencia' = FALSE /\ irqPendiente' = FALSE /\ irqHabilitada' = FALSE
    /\ vencido' = {}
    /\ ultimaVersionConocida' = 0
    /\ listaPins' \in {ListaInicial} \cup {copia(l) : l \in ListasServidor}
    /\ digitos' = << >> /\ teclaPrevia' = NINGUNA
    /\ as608ScanReset
    /\ UNCHANGED <<cerrojo, plantillas>>

ReinicioInit == Init /\ inicio = cerrojo

ReinicioNext ==
    \/ Next /\ UNCHANGED inicio
    \/ cerrojo <= MAX_CORRIDO * STEPS /\ reinicio /\ inicio' = cerrojo

ReinicioSpec == ReinicioInit /\ [][ReinicioNext]_varsReinicio

-----------------------------------------------------------------------------
(* Properties. *)

\* Since the program started the bolt is where it was then, or one opening further
\* while the machine waits for the door (MEF.c:324, 361, 422, 448): whatever was under
\* way when the supply was lost, the new run neither closes for the old one nor
\* opens twice.
CerrojoDesdeInicio ==
    cerrojo = inicio + IF estadoActual = "SENSOR_CIERRE" THEN STEPS ELSE 0

\* "[SISTEMA] Cerradura cerrada" (stepperMotor.c:83): what cerrarCerradura leaves is a
\* closed bolt.
CierraDeVerdad == [][cerrojo' < cerrojo => cerrojo' = 0]_varsReinicio

=============================================================================
