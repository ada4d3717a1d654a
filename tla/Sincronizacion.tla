--------------------------- MODULE Sincronizacion ---------------------------
(***************************************************************************)
(* The lock and the server together: how the user list of the lock follows *)
(* the table of the server.  The lock asks for the time of the last change *)
(* when it wakes up (entrarModoSleep, MEF.c:80-126), downloads the list if *)
(* that time is later than the one it knows, and notes the time if the     *)
(* download succeeded.  It also downloads at start-up (MEF.c:158) and from *)
(* the menu (case '5'), without looking at the time, and it tells the      *)
(* server of the cards registered at the door.                             *)
(*                                                                         *)
(* An exchange with the server is a step of the server in the middle of a  *)
(* wait of the lock: the threads go on before, between and after.  Any     *)
(* exchange may fail, which the lock notices by its time limits.  The lock *)
(* reads whatever its receiver gets: the answer to an earlier request may  *)
(* come in the place of the one it waits for, or joined to it.             *)
(*                                                                         *)
(* The list of the lock is a function from numbers, like the table: the    *)
(* lock does not see ids but keeps the order of the rows, and its searches *)
(* stop at the first match, which is the one with the lowest number.       *)
(***************************************************************************)
EXTENDS Servidor

CONSTANTS
    CABEN,         \* the users that fit the answer buffer and listaPins
    Imagen,        \* listaPins as the image initialises it
    CORTA,         \* an answer may be cut by a pause of a second
    PIERDE,        \* the requests of the lock that may get lost
    TARDA,         \* requests and answers may arrive after the lock has given up
    REINICIA,      \* the board may be reset
    EdicionesRfid  \* the cards registered at the door

VARIABLES
    copia,         \* listaPins
    editada,       \* copia was changed at the door since it was downloaded
    ultimaVersionConocida,
    versionServer, \* the time read on this wake-up; SIN_VERSION if none was asked for
    fase,          \* where the lock is in its exchange with the server
    respuesta,     \* the list on its way to the lock
    rezagadas,     \* the list of a request given up, which may still arrive
    envio,         \* the change being sent to the server, NADA if none
    servida        \* how often it was served; in a download, the attempts given up

varsCerradura == <<copia, editada, ultimaVersionConocida, versionServer, fase,
                   respuesta, rezagadas, envio, servida>>
varsSinc == <<varsServidor, varsCerradura>>

SIN_VERSION == 0

EsLista(l) == DOMAIN l \subseteq Nat \ {0} /\ l \in [DOMAIN l -> Filas]

ASSUME SincronizacionAssumption ==
    /\ CABEN \in Nat \ {0}
    /\ EsLista(Imagen) /\ 1 \in DOMAIN Imagen
    /\ {CORTA, TARDA, REINICIA} \subseteq BOOLEAN
    /\ PIERDE \subseteq RutasCerradura
    /\ EdicionesRfid \subseteq Tarjetas

\* activo: mefUpdate runs; despierta: about to ask for the time; descarga: about to
\* ask for the list; recibe: the list is on its way; sube: a change is being sent
Fases == {"activo", "despierta", "descarga", "recibe", "sube"}

EnFase(f) == fase = f

-----------------------------------------------------------------------------
(* What arrives of the list. *)

\* the first n rows
prefijo(tabla, n) ==
    [i \in {j \in DOMAIN tabla : posicion(tabla, j) <= n} |-> tabla[i]]

\* espHTTPGetPins keeps the users that arrived whole in its 2048 bytes
recibida(tabla) == prefijo(tabla, CABEN)

\* ... and a pause of more than a second ends the answer there (espAT.c:356)
recibidas(tabla) ==
    {recibida(tabla)} \cup
    IF CORTA THEN {prefijo(tabla, n) : n \in 1..CABEN} ELSE {}

\* Two answers in one buffer: from the first '{' to the last '}' (espAT.c:299-309)
\* parsearJSONPins takes every object, the ones after a ']' too (234-276), so that
\* the rows of m follow those of l.
unida(l, m) ==
    [i \in DOMAIN l \cup {siguienteId + j : j \in DOMAIN m} |->
        IF i \in DOMAIN l THEN l[i] ELSE m[i - siguienteId]]

\* The list that is still late when a request is given up.  Bound: at most one is.
Demoradas ==
    {{}, rezagadas} \cup IF TARDA /\ EnFase("recibe") THEN {{respuesta}} ELSE {}

-----------------------------------------------------------------------------
(* Waking up and downloading. *)

\* A pulse woke the lock.  It had been idle and asleep for longer than any answer
\* takes (TIMEOUT_MS, 40 seconds), and nothing reads the receiver meanwhile.
despierta ==
    /\ EnFase("activo")
    /\ fase' = "despierta"
    /\ rezagadas' = {}
    /\ UNCHANGED <<varsServidor, copia, editada, ultimaVersionConocida, versionServer,
                   respuesta, envio, servida>>

\* Mutant: the list of the start-up is taken for the first version.
pideVersionConfiada ==
    /\ EnFase("despierta")
    /\ IF ultimaVersionConocida # SIN_VERSION /\ check_status > ultimaVersionConocida
       THEN fase' = "descarga" /\ versionServer' = check_status
       ELSE fase' = "activo" /\ UNCHANGED versionServer
    /\ UNCHANGED <<varsServidor, copia, editada, ultimaVersionConocida, respuesta,
                   rezagadas, envio, servida>>

\* Lines 80-119: the time arrived, at the first attempt or after the reconnection.
pideVersion ==
    /\ EnFase("despierta")
    /\ IF check_status > ultimaVersionConocida
       THEN fase' = "descarga" /\ versionServer' = check_status
       ELSE fase' = "activo" /\ UNCHANGED versionServer
    /\ UNCHANGED <<varsServidor, copia, editada, ultimaVersionConocida, respuesta,
                   rezagadas, envio, servida>>

\* The option of the menu, which asks for no time.
sincronizaManual ==
    /\ EnFase("activo")
    /\ fase' = "descarga"
    /\ versionServer' = SIN_VERSION
    /\ UNCHANGED <<varsServidor, copia, editada, ultimaVersionConocida, respuesta,
                   rezagadas, envio, servida>>

\* The SELECT of sync_pins, and as much of the answer as will arrive.
respondeLista ==
    /\ EnFase("descarga")
    /\ respuesta' \in recibidas(sync_pins)
    /\ fase' = "recibe"
    /\ UNCHANGED <<varsServidor, copia, editada, ultimaVersionConocida, versionServer,
                   rezagadas, envio, servida>>

\* enviarComandoAT does not empty the receiver before it sends: the list of an
\* earlier download is taken for this one's, whose own list is then late.
leeRezagada ==
    /\ EnFase("descarga")
    /\ respuesta' \in rezagadas
    /\ rezagadas' \in {{}} \cup {{l} : l \in recibidas(sync_pins)}
    /\ fase' = "recibe"
    /\ UNCHANGED <<varsServidor, copia, editada, ultimaVersionConocida, versionServer,
                   envio, servida>>

\* HTTPCGET gave nothing in its ten seconds: the same request again, as plain TCP
\* (espHTTPGetViaAT).  The server may have answered the first one.
reintenta ==
    /\ fase \in {"descarga", "recibe"} /\ servida = 0
    /\ servida' = 1
    /\ fase' = "descarga"
    /\ respuesta' = Imagen
    /\ rezagadas' \in Demoradas
    /\ UNCHANGED <<varsServidor, copia, editada, ultimaVersionConocida, versionServer, envio>>

\* Mutant: the time is noted as it is when the list has arrived.
guardaTarde(nueva) ==
    /\ EnFase("recibe")
    /\ copia' = nueva
    /\ editada' = FALSE
    /\ ultimaVersionConocida' = IF versionServer = SIN_VERSION THEN ultimaVersionConocida
                                ELSE check_status
    /\ versionServer' = SIN_VERSION
    /\ fase' = "activo"
    /\ respuesta' = Imagen
    /\ servida' = 0
    /\ UNCHANGED <<varsServidor, envio>>

\* Mutant: the users that the new list does not have stay in the table.
guardaSinVaciar(nueva) ==
    /\ EnFase("recibe")
    /\ copia' = [i \in DOMAIN nueva \cup DOMAIN copia |->
                    IF i \in DOMAIN nueva THEN nueva[i] ELSE copia[i]]
    /\ editada' = FALSE
    /\ ultimaVersionConocida' = IF versionServer = SIN_VERSION THEN ultimaVersionConocida
                                ELSE versionServer
    /\ versionServer' = SIN_VERSION
    /\ fase' = "activo"
    /\ respuesta' = Imagen
    /\ servida' = 0
    /\ UNCHANGED <<varsServidor, envio>>

\* actualizarBaseDeDatos, and on a wake-up lines 114-115.
guarda(nueva) ==
    /\ EnFase("recibe")
    /\ copia' = nueva
    /\ editada' = FALSE
    /\ ultimaVersionConocida' = IF versionServer = SIN_VERSION THEN ultimaVersionConocida
                                ELSE versionServer
    /\ versionServer' = SIN_VERSION
    /\ fase' = "activo"
    /\ respuesta' = Imagen
    /\ servida' = 0
    /\ UNCHANGED <<varsServidor, envio>>

adopta == guarda(respuesta) /\ UNCHANGED rezagadas

\* The late list comes less than a second before or after the own one: both are in
\* the buffer, and what is stored is a mixture of two downloads.
adoptaMezcla ==
    /\ \E l \in rezagadas :
          \E nueva \in recibidas(unida(l, respuesta)) \cup recibidas(unida(respuesta, l)) :
              guarda(nueva)
    /\ rezagadas' = {}

\* No connection, a time limit, an answer without users: the old list is kept.
falla ==
    /\ fase \in {"despierta", "descarga", "recibe"}
    /\ fase' = "activo"
    /\ versionServer' = SIN_VERSION
    /\ respuesta' = Imagen
    /\ rezagadas' \in Demoradas
    /\ servida' = 0
    /\ UNCHANGED <<varsServidor, copia, editada, ultimaVersionConocida, envio>>

-----------------------------------------------------------------------------
(* A change made at the door: the local list first, then the server.       *)

\* the entries a search by PIN stops at
PrimerosCon(c) ==
    {i \in DOMAIN copia : /\ copia[i].codigo = c
                          /\ \A j \in DOMAIN copia : copia[j].codigo = c => i <= j}

edita(nueva, p) ==
    /\ EnFase("activo") /\ Cabe
    /\ copia' = nueva
    /\ editada' = TRUE
    /\ envio' = p
    /\ servida' = 0
    /\ fase' = "sube"
    /\ UNCHANGED <<varsServidor, ultimaVersionConocida, versionServer, respuesta,
                   rezagadas>>

\* MEF.c:737 and 742
registraRfid(c, r) ==
    \E i \in PrimerosCon(c) :
        edita([copia EXCEPT ![i].rfid = r],
              peticion("update_rfid", 0, fila(c, r, SIN_HUELLA)))

\* Mutant: a deletion is tried in both ways too, and an update once more.
enviosDeMas(ruta) == IF ruta \in {"update_rfid", "update_huella"} THEN 3 ELSE 2

\* espHTTPGetViaAT sends a request again as plain TCP if it saw no answer, so an
\* update may be served twice; a deletion is sent once (espAT.c:442, 454).
envios(ruta) == IF ruta \in {"update_rfid", "update_huella"} THEN 2 ELSE 1

\* A thread begins to serve the request of the lock.
atiende(h) ==
    LET f == envio.fila
    IN  /\ EnFase("sube") /\ servida < envios(envio.ruta)
        /\ \/ envio.ruta = "update_rfid" /\ update_rfid(h, f.codigo, f.rfid)
           \/ envio.ruta = "update_huella" /\ update_huella(h, f.codigo, f.huella)
           \/ envio.ruta = "delete_huella_endpoint" /\ delete_huella_endpoint(h, f.codigo)
           \/ envio.ruta = "clear_all_huellas_endpoint" /\ clear_all_huellas_endpoint(h)
        /\ servida' = servida + 1
        /\ UNCHANGED <<copia, editada, ultimaVersionConocida, versionServer, fase,
                       respuesta, rezagadas, envio>>

\* "ERROR: PIN NO EXISTE": the user is gone from the server.
rechaza ==
    /\ EnFase("sube") /\ servida < envios(envio.ruta)
    /\ envio.ruta \in {"update_rfid", "update_huella"}
    /\ ConCodigo(envio.fila.codigo) = {}
    /\ servida' = servida + 1
    /\ UNCHANGED <<varsServidor, copia, editada, ultimaVersionConocida, versionServer,
                   fase, respuesta, rezagadas, envio>>

SirviendoCerradura ==
    \E h \in Hilos : hilos[h].paso = "consultado" /\ hilos[h].pide.ruta \in RutasCerradura

\* The lock has its answer or gives up; whatever it was, the list stays as it is.
terminaSubida ==
    /\ EnFase("sube")
    /\ envio.ruta \in PIERDE \/ servida > 0
    /\ TARDA \/ ~SirviendoCerradura
    /\ fase' = "activo"
    /\ envio' = NADA
    /\ servida' = 0
    /\ UNCHANGED <<varsServidor, copia, editada, ultimaVersionConocida, versionServer,
                   respuesta, rezagadas>>

\* A reset of the board: RAM has the list of the image, and mefInit, once the WiFi
\* is up, downloads the list without noting a time.
reset ==
    /\ REINICIA
    /\ copia' = Imagen
    /\ editada' = FALSE
    /\ ultimaVersionConocida' = SIN_VERSION
    /\ versionServer' = SIN_VERSION
    /\ fase' = "descarga"
    /\ respuesta' = Imagen
    /\ rezagadas' = {}
    /\ envio' = NADA
    /\ servida' = 0
    /\ UNCHANGED varsServidor

-----------------------------------------------------------------------------
(* The system. *)

SincInit ==
    /\ ServidorInit
    /\ copia = Imagen
    /\ editada = FALSE
    /\ ultimaVersionConocida = SIN_VERSION
    /\ versionServer = SIN_VERSION
    /\ fase = "descarga"
    /\ respuesta = Imagen
    /\ rezagadas = {}
    /\ envio = NADA
    /\ servida = 0

DelServidor ==
    /\ \/ \E h \in Hilos : (Cabe /\ Web(h)) \/ Interno(h)
       \/ reinicia
       \/ atrasaReloj
    /\ UNCHANGED varsCerradura

Intercambio == pideVersion \/ respondeLista \/ adopta

SincNext ==
    \/ DelServidor
    \/ despierta \/ Intercambio \/ sincronizaManual
    \/ leeRezagada \/ reintenta \/ adoptaMezcla \/ falla
    \/ \E c \in Codigos, r \in EdicionesRfid : registraRfid(c, r)
    \/ \E h \in Hilos : atiende(h)
    \/ rechaza
    \/ terminaSubida
    \/ reset

SincSpec == SincInit /\ [][SincNext]_varsSinc

\* A thread finishes its request, and the lock finishes its exchange, one way or
\* the other.  Nothing is assumed of people, of the network or of new requests.
Servicio(h) == Interno(h) /\ UNCHANGED varsCerradura

SincFairSpec ==
    /\ SincSpec
    /\ \A h \in Hilos : WF_varsSinc(Servicio(h))
    /\ WF_varsSinc(Intercambio)

-----------------------------------------------------------------------------
(* Properties. *)

\* The lists are lists of rows, and the exchange is at one of its points.
SincTypeOK ==
    /\ ServidorTypeOK
    /\ EsLista(copia) /\ EsLista(respuesta)
    /\ \A l \in rezagadas : EsLista(l)
    /\ editada \in BOOLEAN
    /\ servida \in 0..2
    /\ ultimaVersionConocida \in Nat /\ versionServer \in Nat
    /\ fase \in Fases
    /\ envio \in Peticiones \cup {NADA}

\* The first entry of the lock's list, whose PIN it takes for the administrator's
\* (validacion.c:351), is the master's row and never another user's, whatever is cut,
\* late, lost, set back or started over.
AdministradorEsMaestro == 1 \in DOMAIN copia

\* some thread has committed a change and has not read the clock yet
CambioSinHora == \E h \in Hilos : hilos[h].paso = "escrito"

\* The lock, having compared the times, would skip the download.
SeCreeActualizada == ultimaVersionConocida >= LAST_UPDATE_TIME

\* Every search in l gives what it gives in m: l is m, followed by rows of m again.
Repite(l, m) ==
    /\ DOMAIN m \subseteq DOMAIN l
    /\ \A i \in DOMAIN m : l[i] = m[i]
    /\ \A i \in DOMAIN l \ DOMAIN m : /\ \A j \in DOMAIN m : j < i
                                      /\ \E j \in DOMAIN m : l[i] = m[j]

\* Once the latest change is announced, a lock that believes it is up to date
\* ("Sistema ya actualizado", MEF.c:121) is: its list is the server's, or says the
\* same twice because both attempts were answered (espAT.c:551-563), except for
\* what was registered at the door since.  The time is read before the list
\* (MEF.c:80, 113) and noted only with it (114), and the server stores the time after
\* the commit (server.py:60-62), so a change that falls in between is seen later.
Actualizada ==
    SeCreeActualizada /\ LAST_UPDATE_TIME = reloj /\ ~CambioSinHora /\ ~editada
        => Repite(copia, recibida(usuarios))

\* the list being received and the one of a request given up
EnCamino == rezagadas \cup {l \in {respuesta} : EnFase("recibe")}

Lista ==
    INSTANCE ListaReplicada WITH
        Fabrica <- Imagen,
        original <- usuarios,
        copia <- copia,
        enCamino <- EnCamino

\* With every fault of the network, the clock, the server and the board, the lock works
\* from the image's list, or from beginnings of the server's list as it was when it was
\* sent: one, or two that came in one buffer, in the order in which they came.  Nobody
\* is in it whom no answer named, the users of the list before do not stay, and the
\* door changes nobody's PIN (validacion.c:16-26, 329; espAT.c:234-276, 289-362).
ImplementaLista == Lista!Spec

\* Nobody changes anything any more and exchanges do not fail.
Calma == (\E h \in Hilos : Servicio(h)) \/ despierta \/ Intercambio \/ terminaSubida

\* Whatever failed before, when changes have stopped and people keep waking the
\* lock, its list ends up equal to the server's and stays so (MEF.c:80-126), unless
\* it keeps a change made at the door that the server never got (MEF.c:742).
Converge ==
    <>[][Calma]_varsSinc /\ []<><<despierta>>_varsSinc
        => <>[](editada \/ Repite(copia, recibida(usuarios)))

=============================================================================
