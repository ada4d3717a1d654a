-------------------------------- MODULE MEF --------------------------------
(***************************************************************************)
(* The main state machine of the lock (src/MEF.c): one call of mefUpdate   *)
(* after another from main's loop, the presence interrupt, the sleep mode, *)
(* the bolt motor (src/stepperMotor.c), and the user list, the keypad and  *)
(* the fingerprint scan it drives.                                         *)
(*                                                                         *)
(* A case of mefUpdate's switch that runs to its break without polling is  *)
(* one action.  A case that polls the keypad or the card reader in a loop  *)
(* of its own is one action per poll, and punto says in which loop the     *)
(* program is; punto = "mef" is the top of mefUpdate.                      *)
(*                                                                         *)
(* The code uses time only to ask whether a limit has passed since a       *)
(* stored tick, so a clock is either expired or not.  A clock may expire   *)
(* at any moment in which the code can look at it, and expires only then:  *)
(* an expiry nobody can observe yet may as well happen later.              *)
(*                                                                         *)
(* Keys (k), card reads (r, VACIO for no card) and the door sensor are     *)
(* inputs of the poll that reads them.                                     *)
(***************************************************************************)
EXTENDS Validacion, Teclado, As608, Integers

CONSTANTS
    STEPS,          \* motor steps between the two positions of the bolt
    Versiones       \* the LAST_UPDATE_TIME values the server may report

VARIABLES
    estadoActual,   \* the state of the machine
    punto,          \* where in mefUpdate the program is
    pin,            \* the PIN buffer of the running case (pinIngresado, pinValidado)
    rfid,           \* the last card read
    intentosFallidos,   \* consecutive wrong PINs
    intentos,       \* attempts of the running case
    escaneoActivo,  \* a fingerprint scan is in progress
    eventoPresencia,    \* set by the interrupt handler
    irqPendiente,   \* a presence pulse is latched in PININT / NVIC
    irqHabilitada,  \* NVIC_EnableIRQ(PIN_INT0_IRQn) in force
    vencido,        \* the clocks whose limit has passed
    cerrojo,        \* position of the bolt, in steps from where it was at start-up
    ultimaVersionConocida

varsMef == <<estadoActual, punto, pin, rfid, intentosFallidos, intentos,
             escaneoActivo, eventoPresencia, irqPendiente, irqHabilitada,
             vencido, cerrojo, ultimaVersionConocida>>
vars == <<varsMef, listaPins, varsTeclado, varsAs608>>

\* touched only by the sleep mode and the interrupt
varsSueno == <<irqPendiente, irqHabilitada, ultimaVersionConocida>>

ASSUME MefAssumption ==
    /\ STEPS \in Nat \ {0}
    /\ Versiones \subseteq Nat
    /\ [1..PIN_LENGTH -> Digitos] \subseteq Pines

-----------------------------------------------------------------------------
(* Values. *)

Estados ==
    {"REPOSO", "ESPERANDO_ACCION", "LEER_Y_VALIDAR_HUELLA", "VALIDAR_RFID",
     "VALIDAR", "SENSOR_CIERRE", "MENU_ADMIN", "REGISTRAR_RFID", "REGISTRAR_HUELLA"}

\* The loops that wait for a user and look at a clock of their own
Preguntas ==
    {"pinAdmin", "pinAuth", "subMenu", "pinTarget", "pinRfid", "pinHuella", "tarjeta"}

\* entrarModoSleep: interrupt enabled and not yet at __WFI; stopped there; after it
Sueno == {"antes de WFI", "WFI", "despierta"}

Puntos == {"mef", "enrola"} \cup Preguntas \cup Sueno

\* presencia: ultimaPresencia against TIMEOUT_MS; pregunta: tAuth, tSub or timer
\* against the 10 or 15 seconds of the loop; huella: agendaHuella against 600 ms
Relojes == {"presencia", "pregunta", "huella"}

MAX_INTENTOS == 3
MAX_INTENTOS_ENROLL == 5

MefTypeOK ==
    /\ estadoActual \in Estados
    /\ punto \in Puntos
    /\ pin \in Seq(Digitos)
    /\ rfid \in Rfids \cup {VACIO}
    /\ intentosFallidos \in 0..(MAX_INTENTOS - 1)
    /\ intentos \in 0..(MAX_INTENTOS_ENROLL - 1)
    /\ escaneoActivo \in BOOLEAN
    /\ eventoPresencia \in BOOLEAN
    /\ irqPendiente \in BOOLEAN
    /\ irqHabilitada \in BOOLEAN
    /\ vencido \subseteq Relojes
    /\ cerrojo \in Int
    /\ ultimaVersionConocida \in Nat

TypeOK ==
    /\ MefTypeOK
    /\ ValidacionTypeOK
    /\ TecladoTypeOK
    /\ As608TypeOK

-----------------------------------------------------------------------------
(* The bolt: step_move is relative and there is no end stop. *)

abrirCerradura == cerrojo' = cerrojo + STEPS

cerrarCerradura == cerrojo' = cerrojo - STEPS

-----------------------------------------------------------------------------
(* mefInit, once the WiFi is up: the list is the server's, or the one of   *)
(* the image if the download fails, and the presence interrupt is off.     *)

Init ==
    /\ estadoActual = "ESPERANDO_ACCION" /\ punto = "mef"
    /\ pin = PinVacio /\ rfid = VACIO
    /\ intentosFallidos = 0 /\ intentos = 0
    /\ escaneoActivo = FALSE
    /\ eventoPresencia = FALSE /\ irqPendiente = FALSE /\ irqHabilitada = FALSE
    /\ vencido = {}
    /\ cerrojo = 0
    /\ ultimaVersionConocida = 0
    /\ \/ listaPins = ListaInicial
       \/ \E l \in ListasServidor : listaPins = copia(l)
    /\ TecladoInit
    /\ As608Init

-----------------------------------------------------------------------------
(* REPOSO: the sleep mode and the interrupt. *)

\* Mutant: the interrupt is left disabled.
entrarModoSleepSinIrq ==
    /\ punto = "mef" /\ estadoActual = "REPOSO"
    /\ eventoPresencia' = FALSE
    /\ irqPendiente' = FALSE
    /\ punto' = "antes de WFI"
    /\ UNCHANGED <<estadoActual, pin, rfid, intentosFallidos, intentos, escaneoActivo,
                   irqHabilitada, vencido, cerrojo, ultimaVersionConocida,
                   listaPins, varsTeclado, varsAs608>>

\* Lines 43-64: forget old pulses, enable the interrupt, announce the sleep.
entrarModoSleep ==
    /\ punto = "mef" /\ estadoActual = "REPOSO"
    /\ eventoPresencia' = FALSE
    /\ irqPendiente' = FALSE
    /\ irqHabilitada' = TRUE
    /\ punto' = "antes de WFI"
    /\ UNCHANGED <<estadoActual, pin, rfid, intentosFallidos, intentos, escaneoActivo,
                   vencido, cerrojo, ultimaVersionConocida,
                   listaPins, varsTeclado, varsAs608>>

\* Line 66.  Only an interrupt that is still pending, or a later one, ends the wait.
WFI ==
    /\ punto = "antes de WFI"
    /\ punto' = "WFI"
    /\ UNCHANGED <<estadoActual, pin, rfid, intentosFallidos, intentos, escaneoActivo,
                   eventoPresencia, irqPendiente, irqHabilitada, vencido, cerrojo,
                   ultimaVersionConocida, listaPins, varsTeclado, varsAs608>>

\* A person moves in front of the sensor.
PulsoPresencia ==
    /\ irqPendiente' = TRUE
    /\ UNCHANGED <<estadoActual, punto, pin, rfid, intentosFallidos, intentos,
                   escaneoActivo, eventoPresencia, irqHabilitada, vencido, cerrojo,
                   ultimaVersionConocida, listaPins, varsTeclado, varsAs608>>

GPIO0_IRQHandler ==
    /\ irqPendiente /\ irqHabilitada
    /\ irqPendiente' = FALSE
    /\ eventoPresencia' = TRUE
    /\ punto' = IF punto = "WFI" THEN "despierta" ELSE punto
    /\ UNCHANGED <<estadoActual, pin, rfid, intentosFallidos, intentos, escaneoActivo,
                   irqHabilitada, vencido, cerrojo, ultimaVersionConocida,
                   listaPins, varsTeclado, varsAs608>>

\* Lines 68-127 and 197-199.  The server's version is unknown (no connection,
\* even after the retry), not newer than the known one, or newer; only then is
\* the list downloaded, and the version noted if that succeeded.
Despierta ==
    /\ punto = "despierta"
    /\ irqHabilitada' = FALSE
    /\ punto' = "mef"
    /\ estadoActual' = "ESPERANDO_ACCION"
    /\ \/ sincronizacionFalla /\ UNCHANGED ultimaVersionConocida
       \/ \E version \in Versiones, l \in ListasServidor :
            /\ version > ultimaVersionConocida
            /\ sincronizacionOk(l)
            /\ ultimaVersionConocida' = version
    /\ UNCHANGED <<pin, rfid, intentosFallidos, intentos, escaneoActivo, eventoPresencia,
                   irqPendiente, vencido, cerrojo, varsTeclado, varsAs608>>

-----------------------------------------------------------------------------
(* ESPERANDO_ACCION.  Every iteration first lets a presence event renew    *)
(* ultimaPresencia, and a new key renews it too.                           *)

Esperando == punto = "mef" /\ estadoActual = "ESPERANDO_ACCION"

VencidoEspera(k) ==
    IF eventoPresencia \/ Nueva(k) THEN vencido \ {"presencia"} ELSE vencido

\* The fifth digit.
EsperandoPin(k) ==
    /\ Esperando
    /\ LeerPinCompleto(k)
    /\ pin' = Tras(k)
    /\ estadoActual' = "VALIDAR"
    /\ eventoPresencia' = FALSE
    /\ vencido' = VencidoEspera(k)
    /\ UNCHANGED <<punto, rfid, intentosFallidos, intentos, escaneoActivo, cerrojo,
                   varsSueno, listaPins, varsAs608>>

\* '*' opens the prompt for the master PIN.
EsperandoAsterisco(k) ==
    /\ Esperando
    /\ LeerPinAsterisco(k)
    /\ punto' = "pinAdmin"
    /\ eventoPresencia' = FALSE
    /\ vencido' = VencidoEspera(k) \ {"pregunta"}
    /\ UNCHANGED <<estadoActual, pin, rfid, intentosFallidos, intentos, escaneoActivo,
                   cerrojo, varsSueno, listaPins, varsAs608>>

\* Nobody for TIMEOUT_MS.
EsperandoVence(k) ==
    /\ Esperando
    /\ LeerPinNada(k)
    /\ "presencia" \in VencidoEspera(k)
    /\ estadoActual' = "REPOSO"
    /\ eventoPresencia' = FALSE
    /\ UNCHANGED <<punto, pin, rfid, intentosFallidos, intentos, escaneoActivo, vencido,
                   cerrojo, varsSueno, listaPins, varsAs608>>

\* A card answers the reader.
EsperandoTarjeta(k, r) ==
    /\ Esperando
    /\ LeerPinNada(k) \/ LeerPinParcial(k)
    /\ "presencia" \notin VencidoEspera(k)
    /\ r # VACIO
    /\ rfid' = r
    /\ estadoActual' = "VALIDAR_RFID"
    /\ eventoPresencia' = FALSE
    /\ vencido' = VencidoEspera(k)
    /\ UNCHANGED <<punto, pin, intentosFallidos, intentos, escaneoActivo, cerrojo,
                   varsSueno, listaPins, varsAs608>>

\* No card: start a scan every INTERVALO_HUELLA_MS, go on with the one in progress.
EsperandoEscaneo(k, r) ==
    /\ Esperando
    /\ LeerPinNada(k) \/ LeerPinParcial(k)
    /\ "presencia" \notin VencidoEspera(k)
    /\ r = VACIO
    /\ eventoPresencia' = FALSE
    /\ \/ /\ ~escaneoActivo /\ "huella" \in vencido
          /\ as608ScanReset
          /\ escaneoActivo' = TRUE
          /\ vencido' = VencidoEspera(k) \ {"huella"}
          /\ estadoActual' = "LEER_Y_VALIDAR_HUELLA"
       \/ /\ escaneoActivo
          /\ vencido' = VencidoEspera(k)
          /\ estadoActual' = "LEER_Y_VALIDAR_HUELLA"
          /\ UNCHANGED <<escaneoActivo, varsScan>>
       \/ /\ ~escaneoActivo /\ "huella" \notin vencido
          /\ vencido' = VencidoEspera(k)
          /\ UNCHANGED <<estadoActual, escaneoActivo, varsScan>>
    /\ UNCHANGED <<punto, pin, rfid, intentosFallidos, intentos, cerrojo,
                   varsSueno, listaPins, plantillas>>

-----------------------------------------------------------------------------
(* LEER_Y_VALIDAR_HUELLA: one step of the scan, then back.                 *)

LeyendoHuella == punto = "mef" /\ estadoActual = "LEER_Y_VALIDAR_HUELLA"

\* Mutant: any match opens, whoever the page belongs to.
HuellaAbreCualquiera ==
    /\ LeyendoHuella
    /\ ScanTermina("ST_DONE_MATCH")
    /\ abrirCerradura
    /\ intentosFallidos' = 0
    /\ escaneoActivo' = FALSE
    /\ estadoActual' = "SENSOR_CIERRE"
    /\ UNCHANGED <<punto, pin, rfid, intentos, eventoPresencia, vencido,
                   varsSueno, listaPins, varsTeclado, plantillas>>

\* A match of a page that belongs to an active user opens.
HuellaAbre ==
    /\ LeyendoHuella
    /\ ScanTermina("ST_DONE_MATCH")
    /\ validarHuella(formato04(lastId))
    /\ abrirCerradura
    /\ intentosFallidos' = 0
    /\ escaneoActivo' = FALSE
    /\ estadoActual' = "SENSOR_CIERRE"
    /\ UNCHANGED <<punto, pin, rfid, intentos, eventoPresencia, vencido,
                   varsSueno, listaPins, varsTeclado, plantillas>>

\* Mutant: the scan is released after every step.
HuellaSigueSuelta ==
    /\ LeyendoHuella
    /\ \/ ScanEnCurso
       \/ ScanTermina("ST_DONE_MATCH") /\ ~validarHuella(formato04(lastId))
    /\ escaneoActivo' = FALSE
    /\ estadoActual' = "ESPERANDO_ACCION"
    /\ UNCHANGED <<punto, pin, rfid, intentosFallidos, intentos, eventoPresencia,
                   vencido, cerrojo, varsSueno, listaPins, varsTeclado, plantillas>>

\* A scan still in progress stays active, and so does one whose page belongs to
\* nobody: the next call starts it over.
HuellaSigue ==
    /\ LeyendoHuella
    /\ \/ ScanEnCurso
       \/ ScanTermina("ST_DONE_MATCH") /\ ~validarHuella(formato04(lastId))
    /\ estadoActual' = "ESPERANDO_ACCION"
    /\ UNCHANGED <<punto, pin, rfid, intentosFallidos, intentos, escaneoActivo,
                   eventoPresencia, vencido, cerrojo, varsSueno, listaPins,
                   varsTeclado, plantillas>>

\* Any other result releases the scan; an unknown finger counts as presence.
HuellaSuelta ==
    /\ LeyendoHuella
    /\ \/ ScanTermina("ST_DONE_NOMATCH") /\ vencido' = vencido \ {"presencia"}
       \/ ScanTermina("ST_DONE_NOFINGER") /\ UNCHANGED vencido
       \/ ScanTermina("ST_DONE_ERROR") /\ UNCHANGED vencido
    /\ escaneoActivo' = FALSE
    /\ estadoActual' = "ESPERANDO_ACCION"
    /\ UNCHANGED <<punto, pin, rfid, intentosFallidos, intentos, eventoPresencia,
                   cerrojo, varsSueno, listaPins, varsTeclado, plantillas>>

-----------------------------------------------------------------------------
(* VALIDAR_RFID, VALIDAR and SENSOR_CIERRE.                                *)

ValidarRfid ==
    /\ punto = "mef" /\ estadoActual = "VALIDAR_RFID"
    /\ IF obtenerTagPorRFID(rfid) # NULL
       THEN /\ abrirCerradura
            /\ estadoActual' = "SENSOR_CIERRE"
            /\ rfid' = VACIO
            /\ UNCHANGED digitos
       ELSE /\ tecladoReset
            /\ estadoActual' = "ESPERANDO_ACCION"
            /\ UNCHANGED <<cerrojo, rfid>>
    /\ UNCHANGED <<punto, pin, intentosFallidos, intentos, escaneoActivo, eventoPresencia,
                   vencido, varsSueno, listaPins, teclaPrevia, varsAs608>>

\* The PIN is right: the state changes first, the bolt moves at line 422.
ValidarAbre ==
    /\ punto = "mef" /\ estadoActual = "VALIDAR"
    /\ validarPin(pin)
    /\ intentosFallidos' = 0
    /\ estadoActual' = "SENSOR_CIERRE"
    /\ abrirCerradura
    /\ pin' = PinVacio
    /\ UNCHANGED <<punto, rfid, intentos, escaneoActivo, eventoPresencia, vencido,
                   varsSueno, listaPins, varsTeclado, varsAs608>>

\* Mutant: the count is not restarted at three.
ValidarNiegaSinReinicio ==
    /\ punto = "mef" /\ estadoActual = "VALIDAR"
    /\ ~validarPin(pin)
    /\ intentosFallidos' = intentosFallidos + 1
    /\ tecladoReset
    /\ estadoActual' = "ESPERANDO_ACCION"
    /\ pin' = PinVacio
    /\ UNCHANGED <<punto, rfid, intentos, escaneoActivo, eventoPresencia, vencido, cerrojo,
                   varsSueno, listaPins, teclaPrevia, varsAs608>>

\* Mutant: the branch runs on into the opening of line 422.
ValidarNiegaSinBreak ==
    /\ punto = "mef" /\ estadoActual = "VALIDAR"
    /\ ~validarPin(pin)
    /\ intentosFallidos' = (intentosFallidos + 1) % MAX_INTENTOS
    /\ tecladoReset
    /\ estadoActual' = "ESPERANDO_ACCION"
    /\ pin' = PinVacio
    /\ abrirCerradura
    /\ UNCHANGED <<punto, rfid, intentos, escaneoActivo, eventoPresencia, vencido,
                   varsSueno, listaPins, teclaPrevia, varsAs608>>

\* The PIN is wrong: the third time in a row is announced and counted from 0 again.
ValidarNiega ==
    /\ punto = "mef" /\ estadoActual = "VALIDAR"
    /\ ~validarPin(pin)
    /\ intentosFallidos' = (intentosFallidos + 1) % MAX_INTENTOS
    /\ tecladoReset
    /\ estadoActual' = "ESPERANDO_ACCION"
    /\ pin' = PinVacio
    /\ UNCHANGED <<punto, rfid, intentos, escaneoActivo, eventoPresencia, vencido, cerrojo,
                   varsSueno, listaPins, teclaPrevia, varsAs608>>

\* Polled until the door sensor says that the door is closed.
SensorCierre(cerrada) ==
    /\ punto = "mef" /\ estadoActual = "SENSOR_CIERRE"
    /\ cerrada
    /\ cerrarCerradura
    /\ vencido' = vencido \ {"presencia"}
    /\ estadoActual' = "ESPERANDO_ACCION"
    /\ UNCHANGED <<punto, pin, rfid, intentosFallidos, intentos, escaneoActivo,
                   eventoPresencia, varsSueno, listaPins, varsTeclado, varsAs608>>

-----------------------------------------------------------------------------
(* Loops that wait for the user.  A loop's clock starts when the loop is   *)
(* entered, a new key starts it again, and it dies with the loop, as the   *)
(* loop's PIN buffer does.                                                 *)

\* Back to the top of mefUpdate, in state e, with ultimaPresencia renewed.
VuelveA(e) ==
    /\ punto' = "mef"
    /\ estadoActual' = e
    /\ vencido' = vencido \ {"presencia", "pregunta"}
    /\ pin' = PinVacio
    /\ intentos' = 0

\* Into loop p, with an empty PIN buffer and its clock started.
EntraEn(p) ==
    /\ punto' = p
    /\ vencido' = vencido \ {"pregunta"}
    /\ pin' = PinVacio
    /\ intentos' = 0

\* The poll read a key and the loop goes on: '*' and '#' too only renew the clock.
SigueTecleando(k) ==
    /\ LeerPinParcial(k) \/ LeerPinAsterisco(k)
    /\ vencido' = vencido \ {"pregunta"}
    /\ UNCHANGED <<punto, estadoActual, pin, intentos>>

\* Mutant: a poll that reads nothing renews the clock too.
SigueEsperandoRenueva(k) ==
    /\ LeerPinNada(k)
    /\ vencido' = vencido \ {"pregunta"}
    /\ UNCHANGED <<punto, estadoActual, pin, intentos>>

\* The poll read nothing and there is time left.
SigueEsperando(k) ==
    /\ LeerPinNada(k)
    /\ "pregunta" \notin vencido
    /\ UNCHANGED <<vencido, punto, estadoActual, pin, intentos>>

\* The poll read nothing and the limit has passed.
VencePregunta(k) == LeerPinNada(k) /\ "pregunta" \in vencido

\* what no prompt changes
varsResto == <<intentosFallidos, escaneoActivo, eventoPresencia, cerrojo, varsSueno>>

-----------------------------------------------------------------------------
(* The prompt for the master PIN (lines 222-268) looks at its clock before *)
(* each poll.  Denial does not renew ultimaPresencia.                      *)

NiegaAdmin ==
    /\ punto' = "mef"
    /\ vencido' = vencido \ {"pregunta"}
    /\ UNCHANGED <<estadoActual, pin, intentos>>

PinAdmin(k) ==
    /\ punto = "pinAdmin"
    /\ \/ /\ "pregunta" \in vencido
          /\ tecladoReset /\ UNCHANGED teclaPrevia
          /\ NiegaAdmin
       \/ /\ "pregunta" \notin vencido
          /\ \/ LeerPinCompleto(k) /\ esPinMaster(Tras(k)) /\ VuelveA("MENU_ADMIN")
             \/ LeerPinCompleto(k) /\ ~esPinMaster(Tras(k)) /\ NiegaAdmin
             \/ LeerPinAsterisco(k) /\ NiegaAdmin
             \/ /\ LeerPinParcial(k) \/ LeerPinNada(k)
                /\ UNCHANGED <<punto, estadoActual, pin, intentos, vencido>>
    /\ UNCHANGED <<rfid, listaPins, varsAs608, varsResto>>

-----------------------------------------------------------------------------
(* MENU_ADMIN: the first loop has no time limit. *)

EnMenu == punto = "mef" /\ estadoActual = "MENU_ADMIN"

MenuEspera(k) ==
    /\ EnMenu /\ ~Nueva(k)
    /\ tecladoLeerTecla(k)
    /\ UNCHANGED <<punto, estadoActual, vencido, pin, intentos, rfid, listaPins,
                   varsAs608, varsResto>>

MenuRegistrar(k) ==
    /\ EnMenu /\ Nueva(k)
    /\ \/ k = "1" /\ estadoActual' = "REGISTRAR_RFID"
       \/ k = "2" /\ estadoActual' = "REGISTRAR_HUELLA"
    /\ tecladoLeerTecla(k)
    /\ UNCHANGED <<punto, vencido, pin, intentos, rfid, listaPins, varsAs608, varsResto>>

\* '3' resets the WiFi credentials, which live in the ESP module; any key that
\* is no option just leaves the menu.
MenuSale(k) ==
    /\ EnMenu /\ Nueva(k)
    /\ k \notin {"1", "2", "4", "5"}
    /\ tecladoLeerTecla(k)
    /\ VuelveA("ESPERANDO_ACCION")
    /\ UNCHANGED <<rfid, listaPins, varsAs608, varsResto>>

MenuSincroniza(k) ==
    /\ EnMenu /\ Nueva(k) /\ k = "5"
    /\ tecladoLeerTecla(k)
    /\ sincronizacionFalla \/ \E l \in ListasServidor : sincronizacionOk(l)
    /\ VuelveA("ESPERANDO_ACCION")
    /\ UNCHANGED <<rfid, varsAs608, varsResto>>

MenuBorrar(k) ==
    /\ EnMenu /\ Nueva(k) /\ k = "4"
    /\ tecladoLeerTecla(k)
    /\ EntraEn("pinAuth")
    /\ UNCHANGED <<estadoActual, rfid, listaPins, varsAs608, varsResto>>

\* The master PIN again; a wrong one or none leaves the machine in MENU_ADMIN.
PinAuth(k) ==
    /\ punto = "pinAuth"
    /\ \/ SigueTecleando(k)
       \/ SigueEsperando(k)
       \/ /\ UNCHANGED estadoActual
          /\ \/ LeerPinCompleto(k) /\ esPinMaster(Tras(k)) /\ EntraEn("subMenu")
             \/ LeerPinCompleto(k) /\ ~esPinMaster(Tras(k)) /\ EntraEn("mef")
             \/ VencePregunta(k) /\ EntraEn("mef")
    /\ UNCHANGED <<rfid, listaPins, varsAs608, varsResto>>

\* 1 empties the sensor, then the local list; the server is asked to follow and
\* its answer is not looked at.  A key does not renew this loop's clock.
SubMenu(k) ==
    /\ punto = "subMenu"
    /\ \/ /\ "pregunta" \in vencido
          /\ VuelveA("ESPERANDO_ACCION")
          /\ UNCHANGED <<varsTeclado, listaPins, plantillas>>
       \/ /\ "pregunta" \notin vencido
          /\ tecladoLeerTecla(k)
          /\ \/ /\ Nueva(k) /\ k = "1"
                /\ VuelveA("ESPERANDO_ACCION")
                /\ \/ as608ClearAllTemplates /\ eliminarTodasHuellasLocal
                   \/ as608ClearAllTemplatesFalla /\ UNCHANGED listaPins
             \/ /\ Nueva(k) /\ k = "2"
                /\ EntraEn("pinTarget")
                /\ UNCHANGED <<estadoActual, listaPins, plantillas>>
             \/ /\ Nueva(k) => k \notin {"1", "2"}
                /\ UNCHANGED <<punto, estadoActual, vencido, pin, intentos,
                               listaPins, plantillas>>
    /\ UNCHANGED <<rfid, varsScan, varsResto>>

\* Lines 620-657 with pinTarget = p.  A user without a finger has a number
\* assigned too, the lowest free one, and that page is what is deleted.
BorraHuellaDe(p) ==
    /\ VuelveA("ESPERANDO_ACCION")
    /\ \/ /\ validarPin(p)
          /\ as608DeleteId(atoi(obtenerHuellaAsignadaPorPin(p)))
          /\ eliminarHuellaLocal(p)
       \/ /\ validarPin(p)
          /\ as608DeleteIdFalla(atoi(obtenerHuellaAsignadaPorPin(p)))
          /\ UNCHANGED listaPins
       \/ /\ ~validarPin(p)
          /\ UNCHANGED <<listaPins, plantillas>>

PinTarget(k) ==
    /\ punto = "pinTarget"
    /\ \/ SigueTecleando(k) /\ UNCHANGED <<listaPins, plantillas>>
       \/ SigueEsperando(k) /\ UNCHANGED <<listaPins, plantillas>>
       \/ LeerPinCompleto(k) /\ BorraHuellaDe(Tras(k))
       \/ VencePregunta(k) /\ BorraHuellaDe(pin)
    /\ UNCHANGED <<rfid, varsScan, varsResto>>

-----------------------------------------------------------------------------
(* REGISTRAR_RFID and REGISTRAR_HUELLA.  Both ask for the user's PIN in    *)
(* the same way.  A timeout there does not leave the loop: it sets         *)
(* estadoActual to ESPERANDO_ACCION and counts as a wrong PIN, the user    *)
(* may still type, and only after the loop is estadoActual looked at.      *)

RegistrarInicia ==
    /\ punto = "mef"
    /\ \/ estadoActual = "REGISTRAR_RFID" /\ EntraEn("pinRfid")
       \/ estadoActual = "REGISTRAR_HUELLA" /\ EntraEn("pinHuella")
    /\ UNCHANGED <<estadoActual, rfid, listaPins, varsTeclado, varsAs608, varsResto>>

\* Mutant: estadoActual is not looked at after the loop.
RegistroSigueSinMirar(p, e) ==
    /\ punto' = IF punto = "pinRfid" THEN "tarjeta" ELSE "enrola"
    /\ estadoActual' = e
    /\ vencido' = vencido \ {"pregunta"}
    /\ pin' = p
    /\ intentos' = 0

\* After the loop (line 721, line 801): a registration given up ends here, the
\* other goes on with the card or the finger.
RegistroSigue(p, e) ==
    IF e = "ESPERANDO_ACCION" THEN VuelveA(e)
    ELSE /\ punto' = IF punto = "pinRfid" THEN "tarjeta" ELSE "enrola"
         /\ estadoActual' = e
         /\ vencido' = vencido \ {"pregunta"}
         /\ pin' = p
         /\ intentos' = 0

\* Lines 702-719 and 782-799: the loop has PIN p in its buffer and the machine
\* is in state e; v are the clocks that have expired.
RegistroPrueba(p, e, v) ==
    \/ validarPin(p) /\ RegistroSigue(p, e)
    \/ ~validarPin(p) /\ intentos + 1 >= MAX_INTENTOS /\ VuelveA("ESPERANDO_ACCION")
    \/ /\ ~validarPin(p) /\ intentos + 1 < MAX_INTENTOS
       /\ intentos' = intentos + 1
       /\ pin' = p
       /\ estadoActual' = e
       /\ vencido' = v
       /\ UNCHANGED punto

RegistroPin(k) ==
    /\ punto \in {"pinRfid", "pinHuella"}
    /\ \/ SigueTecleando(k)
       \/ SigueEsperando(k)
       \/ LeerPinCompleto(k) /\ RegistroPrueba(Tras(k), estadoActual, vencido \ {"pregunta"})
       \/ VencePregunta(k)
          /\ RegistroPrueba(pin, "ESPERANDO_ACCION", vencido \ {"presencia"})
    /\ UNCHANGED <<rfid, listaPins, varsAs608, varsResto>>

\* Lines 725-754: the card is associated locally, and the server is told; what
\* it answers changes nothing here.
RegistroTarjeta(r) ==
    /\ punto = "tarjeta"
    /\ \/ r # VACIO /\ rfid' = r /\ asociarRFIDaPin(pin, r)
       \/ r = VACIO /\ "pregunta" \in vencido /\ UNCHANGED <<rfid, listaPins>>
    /\ VuelveA("ESPERANDO_ACCION")
    /\ UNCHANGED <<varsTeclado, varsAs608, varsResto>>

\* Lines 805-865: up to five attempts to store the finger on the page assigned
\* to the user, then the page is saved as the user's.
RegistroEnrola ==
    LET id == atoi(obtenerHuellaAsignadaPorPin(pin))
    IN  /\ punto = "enrola"
        /\ \/ /\ as608EnrollAtId(id)
              /\ asociarHuellaaPin(pin, formato04(id))
              /\ VuelveA("ESPERANDO_ACCION")
           \/ /\ as608EnrollAtIdFalla(id)
              /\ intentos + 1 >= MAX_INTENTOS_ENROLL
              /\ VuelveA("ESPERANDO_ACCION")
              /\ UNCHANGED listaPins
           \/ /\ as608EnrollAtIdFalla(id)
              /\ intentos + 1 < MAX_INTENTOS_ENROLL
              /\ intentos' = intentos + 1
              /\ UNCHANGED <<punto, estadoActual, vencido, pin, listaPins>>
        /\ UNCHANGED <<rfid, varsTeclado, varsScan, varsResto>>

-----------------------------------------------------------------------------
(* Time, the sensor, and the whole machine. *)

Vence(c) ==
    /\ \/ c = "presencia" /\ (Esperando \/ LeyendoHuella)
       \/ c = "huella" /\ Esperando /\ ~escaneoActivo
       \/ c = "pregunta" /\ punto \in Preguntas
    /\ c \notin vencido
    /\ vencido' = vencido \cup {c}
    /\ UNCHANGED <<estadoActual, punto, pin, rfid, intentos, listaPins, varsTeclado,
                   varsAs608, varsResto>>

HuellaEntorno ==
    /\ SensorResponde \/ VenceCmd
    /\ UNCHANGED <<varsMef, listaPins, varsTeclado>>

\* The program, when keys come from K, cards from R and the door sensor from C.
mefUpdate(K, R, C) ==
    \/ entrarModoSleep \/ WFI \/ Despierta
    \/ HuellaAbre \/ HuellaSigue \/ HuellaSuelta
    \/ ValidarRfid \/ ValidarAbre \/ ValidarNiega
    \/ \E cerrada \in C : SensorCierre(cerrada)
    \/ RegistrarInicia \/ RegistroEnrola
    \/ \E k \in K :
          \/ EsperandoPin(k) \/ EsperandoAsterisco(k) \/ EsperandoVence(k)
          \/ \E r \in R : EsperandoTarjeta(k, r) \/ EsperandoEscaneo(k, r)
          \/ PinAdmin(k)
          \/ MenuEspera(k) \/ MenuRegistrar(k) \/ MenuSale(k) \/ MenuSincroniza(k)
          \/ MenuBorrar(k) \/ PinAuth(k) \/ SubMenu(k) \/ PinTarget(k)
          \/ RegistroPin(k)
    \/ \E r \in R : RegistroTarjeta(r)

Next ==
    \/ mefUpdate(Teclas \cup {NINGUNA}, Rfids \cup {VACIO}, BOOLEAN)
    \/ GPIO0_IRQHandler
    \/ PulsoPresencia
    \/ \E c \in Relojes : Vence(c)
    \/ HuellaEntorno

Spec == Init /\ [][Next]_vars

-----------------------------------------------------------------------------
(* Fairness.  main calls mefUpdate for ever, so a step that the program    *)
(* can take without any user is eventually taken; SysTick runs, so a clock *)
(* the program looks at eventually expires; an enabled interrupt is        *)
(* served.  Nothing is assumed of people, of the door, of the sensor or of *)
(* the network.                                                            *)

SinUsuario == mefUpdate({NINGUNA}, {VACIO}, {FALSE})

Fairness ==
    /\ WF_vars(SinUsuario)
    /\ WF_vars(GPIO0_IRQHandler)
    /\ \A c \in Relojes : WF_vars(Vence(c))
    /\ WF_vars(VenceCmd /\ UNCHANGED <<varsMef, listaPins, varsTeclado>>)

FairSpec == Spec /\ Fairness

-----------------------------------------------------------------------------
(* Properties. *)

\* The bolt is in its open position exactly while the machine waits for the
\* door to close, and closed in every other state: relative motor moves never
\* pile up (two openings in a row, or a closing of a closed bolt) and no state
\* but SENSOR_CIERRE leaves the door unlocked (MEF.c:324, 361, 422, 448).
CerrojoSegunEstado ==
    cerrojo = IF estadoActual = "SENSOR_CIERRE" THEN STEPS ELSE 0

\* The processor only stops at __WFI with the bolt closed and with the one
\* interrupt enabled that can wake it (MEF.c:54, 66), and wherever the interrupt
\* is enabled the machine is in REPOSO, so a handler never runs in the middle of
\* a case (MEF.c:68, 169).
DuermeDespertable ==
    /\ punto = "WFI" => irqHabilitada /\ cerrojo = 0
    /\ irqHabilitada => estadoActual = "REPOSO" /\ punto \in Sueno

\* A scan is released only when its last command has been answered or given up:
\* as608ScanReset (MEF.c:293) never starts over a scan with a command in flight,
\* whose answer would be taken for the answer to the next command.
EscaneoSinDueno ==
    ~escaneoActivo => scanSt \in {"ST_IDLE", "ST_SEND_GETIMAGE"}

\* A registration given up at its PIN prompt changes nothing, even if the user
\* goes on typing and the PIN turns out valid (MEF.c:694-702, 721, 801): the user
\* list changes only on waking up, in the menu, or in a registration that is
\* still on.
RegistroAbandonado ==
    [][listaPins' # listaPins =>
         estadoActual \in {"REPOSO", "MENU_ADMIN", "REGISTRAR_RFID", "REGISTRAR_HUELLA"}]_vars

\* "__WFI(); // Wait For Interrupt - despierta con GPIO (presencia/RFID)"
\* (MEF.c:66): the processor is never stopped there with a presence event
\* already recorded and waiting to be handled.
PresenciaDespierta == ~(punto = "WFI" /\ eventoPresencia)

\* Nobody types, shows a card, puts a finger, moves or closes the door.
Silencio ==
    \/ SinUsuario
    \/ GPIO0_IRQHandler
    \/ \E c \in Relojes : Vence(c)
    \/ HuellaEntorno /\ resp' \in {resp, ACK_SIN_DEDO}

\* When everybody has left, the machine ends up asleep: every prompt gives up
\* by itself, whatever was typed before (MEF.c:231, 270, 542, 567, 615, 694, 726,
\* 774).  It stays awake only where the code waits without a limit, at the
\* menu (MEF.c:475) and for a door left open (MEF.c:445).
QuietudDuerme ==
    <>[][Silencio]_vars =>
        <>[](\/ punto = "WFI"
             \/ punto = "mef" /\ estadoActual \in {"MENU_ADMIN", "SENSOR_CIERRE"})

=============================================================================
