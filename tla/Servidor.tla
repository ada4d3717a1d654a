------------------------------ MODULE Servidor ------------------------------
(***************************************************************************)
(* The web server that keeps the users (Server/server.py): the SQLite      *)
(* table, the time of the last change, and the Flask handlers, which run   *)
(* in threads (app.run(threaded=True)).                                    *)
(*                                                                         *)
(* A handler is cut at the points where another thread can be seen: after  *)
(* its SELECT, after the commit of its write, and in notificar_cambio      *)
(* between reading the clock and storing what was read.  A write and its   *)
(* commit are one step: SQLite shows nothing of it before the commit.  A   *)
(* handler that refuses its request changes nothing and has no step.       *)
(*                                                                         *)
(* The table is a function from the id of a row to the row; the order of a *)
(* SELECT is the order of the ids.  The column activo is 1 in every row    *)
(* and tag is only shown, so neither is kept.  A fingerprint is its        *)
(* number, 0 for the empty text (how a number is written matters only to   *)
(* Validacion).                                                            *)
(***************************************************************************)
EXTENDS Naturals, FiniteSets

CONSTANTS
    Hilos,         \* the threads that serve requests
    Codigos,       \* the PINs the web forms accept
    MAESTRO,       \* "11111", the PIN of the row that init_db creates
    Tarjetas,      \* the card texts that can be written to a row
    HuellasWeb,    \* the fingerprint numbers typed in the form of a new user
    PAGINAS,       \* the largest fingerprint number the lock sends
    RutasWeb,      \* the requests people make on the web page
    MAX_FILAS,     \* bound: no user is added once this id has been given
    MAX_HORA,      \* bound: the latest time of a change or a restart
    RETROCEDE      \* the clock of the computer may be set back

VARIABLES
    usuarios,      \* the table
    siguienteId,   \* the AUTOINCREMENT counter
    reloj,         \* the latest value time.time() has given
    LAST_UPDATE_TIME,
    hilos          \* what each thread is doing

varsServidor == <<usuarios, siguienteId, reloj, LAST_UPDATE_TIME, hilos>>

ASSUME ServidorAssumption ==
    /\ MAESTRO \in Codigos
    /\ HuellasWeb \subseteq Nat
    /\ PAGINAS \in Nat
    /\ MAX_FILAS \in Nat /\ MAX_HORA \in Nat
    /\ RETROCEDE \in BOOLEAN

-----------------------------------------------------------------------------
(* Values. *)

SIN_TARJETA == ""
SIN_HUELLA == 0

Filas == [codigo : Codigos, rfid : Tarjetas \cup {SIN_TARJETA}, huella : Nat]

\* the routes that look at the table before they write
RutasConSelect == {"panel_admin", "delete_rfid", "update_rfid", "update_huella"}

\* the routes of the lock's own requests that change something
RutasCerradura ==
    {"update_rfid", "update_huella", "delete_huella_endpoint", "clear_all_huellas_endpoint"}

\* A request: id for the buttons of the web page, fila for what a form or an URL gives.
peticion(ruta, id, f) == [ruta |-> ruta, id |-> id, fila |-> f]

fila(c, r, n) == [codigo |-> c, rfid |-> r, huella |-> n]

NADA == peticion("nada", 0, fila(MAESTRO, SIN_TARJETA, SIN_HUELLA))

Peticiones == [ruta : RutasConSelect \cup RutasCerradura, id : Nat, fila : Filas]

LIBRE == [paso |-> "libre", pide |-> NADA, hora |-> 0]

Hilo ==
    {LIBRE}
    \cup [paso : {"consultado"}, pide : Peticiones, hora : {0}]  \* next: its write
    \cup [paso : {"escrito"}, pide : {NADA}, hora : {0}]         \* next: time.time()
    \cup [paso : {"hora"}, pide : {NADA}, hora : Nat]            \* next: the assignment

Ids == DOMAIN usuarios

ConCodigo(c) == {i \in Ids : usuarios[i].codigo = c}

\* Bound on new requests: the times that those under way will read count too.
Cabe == reloj + Cardinality({h \in Hilos : hilos[h] # LIBRE}) < MAX_HORA

-----------------------------------------------------------------------------
(* SQL statements, as the table they leave. *)

insertada(f) ==
    [i \in Ids \cup {siguienteId} |-> IF i = siguienteId THEN f ELSE usuarios[i]]

borrada(id) == [i \in Ids \ {id} |-> usuarios[i]]

\* UPDATE ... SET codigo, rfid or huella, WHERE the row is one of S
conCodigo(S, c) ==
    [i \in Ids |-> IF i \in S THEN [usuarios[i] EXCEPT !.codigo = c] ELSE usuarios[i]]

conRfid(S, r) ==
    [i \in Ids |-> IF i \in S THEN [usuarios[i] EXCEPT !.rfid = r] ELSE usuarios[i]]

conHuella(S, n) ==
    [i \in Ids |-> IF i \in S THEN [usuarios[i] EXCEPT !.huella = n] ELSE usuarios[i]]

-----------------------------------------------------------------------------
(* The first step of the handlers that begin with a SELECT: the row that   *)
(* decides is looked for, and the request goes on only if the answer is    *)
(* the right one.                                                          *)

Consulta(h, p) ==
    /\ hilos[h] = LIBRE
    /\ hilos' = [hilos EXCEPT ![h] = [paso |-> "consultado", pide |-> p, hora |-> 0]]
    /\ UNCHANGED <<usuarios, siguienteId, reloj, LAST_UPDATE_TIME>>

panel_admin(h, f) ==
    /\ siguienteId <= MAX_FILAS
    /\ ConCodigo(f.codigo) = {}
    /\ Consulta(h, peticion("panel_admin", 0, f))

delete_rfid(h, id) ==
    /\ id \in Ids
    /\ Consulta(h, peticion("delete_rfid", id, fila(MAESTRO, SIN_TARJETA, SIN_HUELLA)))

update_rfid(h, c, r) ==
    /\ ConCodigo(c) # {}
    /\ Consulta(h, peticion("update_rfid", 0, fila(c, r, SIN_HUELLA)))

update_huella(h, c, n) ==
    /\ ConCodigo(c) # {}
    /\ Consulta(h, peticion("update_huella", 0, fila(c, SIN_TARJETA, n)))

-----------------------------------------------------------------------------
(* The write and its commit. *)

\* the thread has committed and is about to call notificar_cambio
Escrito(h) ==
    /\ hilos' = [hilos EXCEPT ![h] = [paso |-> "escrito", pide |-> NADA, hora |-> 0]]
    /\ UNCHANGED <<reloj, LAST_UPDATE_TIME>>

Consultado(h, ruta) == hilos[h].paso = "consultado" /\ hilos[h].pide.ruta = ruta

\* Mutant: the id is one more than the largest in use, as without AUTOINCREMENT.
insertaUsuarioReusaId(h) ==
    LET nuevo == CHOOSE n \in 1..siguienteId :
                    n \notin Ids /\ \A i \in Ids : i < n
    IN  /\ Consultado(h, "panel_admin")
        /\ usuarios' = [i \in Ids \cup {nuevo} |->
                           IF i = nuevo THEN hilos[h].pide.fila ELSE usuarios[i]]
        /\ siguienteId' = siguienteId + 1
        /\ Escrito(h)

insertaUsuario(h) ==
    /\ Consultado(h, "panel_admin")
    /\ usuarios' = insertada(hilos[h].pide.fila)
    /\ siguienteId' = siguienteId + 1
    /\ Escrito(h)

\* The row, or the rows, may be gone by now: then nothing is updated, and the
\* change is announced all the same.
actualizaFila(h) ==
    LET p == hilos[h].pide
    IN  /\ \/ /\ Consultado(h, "delete_rfid")
              /\ usuarios' = conRfid({p.id}, SIN_TARJETA)
           \/ /\ Consultado(h, "update_rfid")
              /\ usuarios' = conRfid(ConCodigo(p.fila.codigo), p.fila.rfid)
           \/ /\ Consultado(h, "update_huella")
              /\ usuarios' = conHuella(ConCodigo(p.fila.codigo), p.fila.huella)
        /\ Escrito(h)
        /\ UNCHANGED siguienteId

\* The database stayed locked by another thread: an exception, and no change.
escrituraFalla(h) ==
    /\ hilos[h].paso = "consultado"
    /\ hilos' = [hilos EXCEPT ![h] = LIBRE]
    /\ UNCHANGED <<usuarios, siguienteId, reloj, LAST_UPDATE_TIME>>

\* Handlers without a SELECT write at once.
Directa(h) ==
    /\ hilos[h] = LIBRE
    /\ Escrito(h)
    /\ UNCHANGED siguienteId

\* Mutant: the master's row is not protected.
delete_userCualquiera(h, id) ==
    /\ usuarios' = borrada(id)
    /\ Directa(h)

delete_user(h, id) ==
    /\ id # 1
    /\ usuarios' = borrada(id)
    /\ Directa(h)

update_admin_pin(h, c) ==
    /\ usuarios' = conCodigo({1}, c)
    /\ Directa(h)

delete_huella_endpoint(h, c) ==
    /\ usuarios' = conHuella(ConCodigo(c), SIN_HUELLA)
    /\ Directa(h)

clear_all_huellas_endpoint(h) ==
    /\ usuarios' = conHuella(Ids, SIN_HUELLA)
    /\ Directa(h)

-----------------------------------------------------------------------------
(* notificar_cambio, the clock, and a new process. *)

\* time.time(): two readings are never the same, for a commit is between them.
leeHora(h) ==
    /\ hilos[h].paso = "escrito"
    /\ reloj' = reloj + 1
    /\ hilos' = [hilos EXCEPT ![h] = [paso |-> "hora", pide |-> NADA, hora |-> reloj + 1]]
    /\ UNCHANGED <<usuarios, siguienteId, LAST_UPDATE_TIME>>

notificar_cambio(h) ==
    /\ hilos[h].paso = "hora"
    /\ LAST_UPDATE_TIME' = hilos[h].hora
    /\ hilos' = [hilos EXCEPT ![h] = LIBRE]
    /\ UNCHANGED <<usuarios, siguienteId, reloj>>

\* The process ends, with all its threads, and another one imports the module:
\* the table is not empty, so init_db leaves it.
reinicia ==
    /\ Cabe
    /\ hilos' = [h \in Hilos |-> LIBRE]
    /\ reloj' = reloj + 1
    /\ LAST_UPDATE_TIME' = reloj + 1
    /\ UNCHANGED <<usuarios, siguienteId>>

\* Somebody, or NTP, corrects the clock of the computer.
atrasaReloj ==
    /\ RETROCEDE
    /\ \E t \in 0..reloj : reloj' = t
    /\ UNCHANGED <<usuarios, siguienteId, LAST_UPDATE_TIME, hilos>>

-----------------------------------------------------------------------------
(* The server by itself: the web page and the lock ask whatever they like. *)

ServidorInit ==
    /\ usuarios = [i \in {1} |-> fila(MAESTRO, SIN_TARJETA, SIN_HUELLA)]
    /\ siguienteId = 2
    /\ reloj = 1
    /\ LAST_UPDATE_TIME = 1
    /\ hilos = [h \in Hilos |-> LIBRE]

\* the requests of the web page; a page shown long ago still has its buttons
Web(h) ==
    \/ /\ "panel_admin" \in RutasWeb
       /\ \E c \in Codigos, r \in Tarjetas \cup {SIN_TARJETA}, n \in HuellasWeb :
             panel_admin(h, fila(c, r, n))
    \/ /\ "delete_user" \in RutasWeb
       /\ \E id \in 1..(siguienteId - 1) : delete_user(h, id)
    \/ /\ "delete_rfid" \in RutasWeb
       /\ \E id \in 1..(siguienteId - 1) : delete_rfid(h, id)
    \/ /\ "update_admin_pin" \in RutasWeb
       /\ \E c \in Codigos : update_admin_pin(h, c)

\* the requests of the lock that change something
Api(h) ==
    \/ \E c \in Codigos :
          \/ \E r \in Tarjetas : update_rfid(h, c, r)
          \/ \E n \in 1..PAGINAS : update_huella(h, c, n)
          \/ delete_huella_endpoint(h, c)
    \/ clear_all_huellas_endpoint(h)

\* what goes on without any new request
Interno(h) ==
    \/ insertaUsuario(h) \/ actualizaFila(h) \/ escrituraFalla(h)
    \/ leeHora(h) \/ notificar_cambio(h)

ServidorNext ==
    \/ \E h \in Hilos : (Cabe /\ (Web(h) \/ Api(h))) \/ Interno(h)
    \/ reinicia
    \/ atrasaReloj

ServidorSpec == ServidorInit /\ [][ServidorNext]_varsServidor

-----------------------------------------------------------------------------
(* What the lock gets to read. *)

check_status == LAST_UPDATE_TIME

\* the rows in the order of their ids; row i is number posicion(i)
sync_pins == usuarios

posicion(tabla, i) == Cardinality({j \in DOMAIN tabla : j <= i})

-----------------------------------------------------------------------------
(* Properties. *)

\* The table holds rows, the counter and the clock are numbers, and every thread
\* is at one of the points of its handler.
ServidorTypeOK ==
    /\ Ids \subseteq 1..(siguienteId - 1)
    /\ usuarios \in [Ids -> Filas]
    /\ siguienteId \in Nat \ {0}
    /\ reloj \in Nat
    /\ LAST_UPDATE_TIME \in Nat
    /\ hilos \in [Hilos -> Hilo]

\* "No dejar borrar al ID 1 (Master)" (server.py:54), and nothing comes before it:
\* whatever the threads do, every answer to the lock begins with the master, whose
\* PIN the lock takes for the administrator's (validacion.c:351).
MaestroPrimero == 1 \in Ids /\ posicion(usuarios, 1) = 1

\* A user that was deleted never comes back, and an id is never given to another
\* user: a button of a page shown before (index.html:59, 72), or a request sent
\* twice, changes the user it was meant for or nobody (server.py:59, 103).
BorradoDefinitivo ==
    [][\A i \in 1..(siguienteId - 1) : i \notin Ids => i \notin Ids']_varsServidor

=============================================================================
