------------------------------ MODULE Huellas -------------------------------
(***************************************************************************)
(* The life of a fingerprint number, which three places know: the template *)
(* page of the sensor, the user list of the lock and the table of the      *)
(* server.  Storing and deleting a finger at the door (MEF.c:584-588,      *)
(* 633-637, 816-851) touches the three one after the other, and the answer *)
(* of the server is only displayed.                                        *)
(*                                                                         *)
(* A page holds the finger of the person who typed a PIN, so the owner of  *)
(* a page is a PIN.  A sensor command fails without or with its effect     *)
(* (the acknowledge was lost); a reset between two of the three steps      *)
(* leaves what a command that fails with its effect followed by a reset    *)
(* leaves, because the list is in RAM.                                     *)
(*                                                                         *)
(* The code does not keep the three places in step whatever happens, so a  *)
(* history variable notes the first event after which they may differ.     *)
(***************************************************************************)
EXTENDS Sincronizacion

VARIABLES
    plantillas,    \* the owner of each page of the sensor, NADIE if it is empty
    incidente      \* history: one of the events of Incidente has happened

varsHuellas == <<varsSinc, plantillas, incidente>>

NADIE == "nadie"

Paginas == 1..PAGINAS

\* no two users of a list have the same page
UnDueno(l) ==
    \A i, j \in DOMAIN l :
        l[i].huella \in Paginas /\ l[i].huella = l[j].huella => l[i].codigo = l[j].codigo

\* The users of the image have different numbers, as they have (validacion.c:7-14).
ASSUME HuellasAssumption == NADIE \notin Codigos /\ UnDueno(Imagen)

-----------------------------------------------------------------------------
(* The number of a user: the one in the list, or the lowest that no entry  *)
(* of the list has.                                                        *)

\* Mutant: the search begins at the second entry.
enUsoSinMaestro(n) == \E j \in DOMAIN copia \ {1} : copia[j].huella = n

enUso(n) == \E j \in DOMAIN copia : copia[j].huella = n

asignada(i) ==
    IF copia[i].huella # SIN_HUELLA THEN copia[i].huella
    ELSE CHOOSE n \in 1..(PAGINAS + 1) : \/ n = PAGINAS + 1 /\ \A m \in Paginas : enUso(m)
                                         \/ ~enUso(n) /\ \A m \in 1..(n - 1) : enUso(m)

-----------------------------------------------------------------------------
(* The three operations of the menu. *)

pideHuella(ruta, c, n) == peticion(ruta, 0, fila(c, SIN_TARJETA, n))

\* Lines 816-851.  A page past the last is refused by the driver.
registraHuella(c) ==
    \E i \in PrimerosCon(c) :
        LET n == asignada(i)
        IN  /\ n \in Paginas
            /\ edita([copia EXCEPT ![i].huella = n], pideHuella("update_huella", c, n))
            /\ plantillas' = [plantillas EXCEPT ![n] = c]
            /\ UNCHANGED incidente

\* Lines 622-637.  A user without a finger has a number too, and that page is deleted.
borraHuella(c) ==
    \E i \in PrimerosCon(c) :
        LET n == asignada(i)
        IN  /\ n \in Paginas
            /\ edita([copia EXCEPT ![i].huella = SIN_HUELLA],
                     pideHuella("delete_huella_endpoint", c, SIN_HUELLA))
            /\ plantillas' = [plantillas EXCEPT ![n] = NADIE]
            /\ UNCHANGED incidente

\* Lines 584-588.
borraTodas ==
    /\ edita([i \in DOMAIN copia |-> [copia[i] EXCEPT !.huella = SIN_HUELLA]],
             pideHuella("clear_all_huellas_endpoint", MAESTRO, SIN_HUELLA))
    /\ plantillas' = [n \in Paginas |-> NADIE]
    /\ UNCHANGED incidente

\* The sensor did what it was told and the lock believes it did not.
sensorSinAcuse ==
    /\ EnFase("activo")
    /\ \/ \E c \in Codigos : \E i \in PrimerosCon(c) :
             /\ asignada(i) \in Paginas
             /\ \E d \in {c, NADIE} : plantillas' = [plantillas EXCEPT ![asignada(i)] = d]
       \/ plantillas' = [n \in Paginas |-> NADIE]
    /\ UNCHANGED <<varsSinc, incidente>>

-----------------------------------------------------------------------------
(* What the three places do not survive. *)

\* the form of a new user was sent with the number of a page (index.html:22)
AltaConHuella ==
    \E h \in Hilos : Consultado(h, "panel_admin") /\ hilos[h].pide.fila.huella \in Paginas

\* the lock gives up an upload while a thread is about to write a page, or gives up
\* a deletion that nobody served
SubidaSinFin ==
    \/ \E h \in Hilos : Consultado(h, "update_huella")
    \/ envio.ruta \notin {"update_rfid", "update_huella"} /\ servida = 0

Incidente ==
    \/ reset
    \/ respondeLista /\ respuesta' # usuarios     \* the list did not arrive whole
    \/ leeRezagada \/ adoptaMezcla
    \/ terminaSubida /\ SubidaSinFin
    \/ 1 \in Ids' /\ usuarios'[1].codigo # usuarios[1].codigo   \* update_admin_pin
    \/ AltaConHuella'

-----------------------------------------------------------------------------

HuellasInit ==
    /\ SincInit
    /\ plantillas = [n \in Paginas |-> NADIE]
    /\ incidente = FALSE

HuellasNext ==
    \/ SincNext /\ UNCHANGED plantillas /\ incidente' = (incidente \/ Incidente)
    \/ \E c \in Codigos : registraHuella(c) \/ borraHuella(c)
    \/ borraTodas
    \/ sensorSinAcuse

HuellasSpec == HuellasInit /\ [][HuellasNext]_varsHuellas

-----------------------------------------------------------------------------
(* Properties. *)

\* the entries of a list name pages that are empty or hold the finger of that user
PaginasDe(l) ==
    \A i \in DOMAIN l :
        l[i].huella \in Paginas => plantillas[l[i].huella] \in {NADIE, l[i].codigo}

\* Whoever the list greets for a page is the person whose finger is on it ("Verificamos
\* si alguien más ya usa este ID", validacion.c:240), although the free number is looked
\* for in a list that uploads that got lost, requests served twice, acknowledges lost by
\* the sensor, downloads that failed and web edits have left behind: only the events of
\* Incidente, which the code does nothing about, can change that.
HuellaDeSuDueno == ~incidente => PaginasDe(copia)

=============================================================================
