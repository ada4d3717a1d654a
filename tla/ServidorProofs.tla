--------------------------- MODULE ServidorProofs ---------------------------
(***************************************************************************)
(* Theorems about Servidor, for any number of threads, users and requests. *)
(***************************************************************************)
EXTENDS Servidor, FiniteSetTheorems, TLAPS

\* The master's row is what the properties rest on besides the types.
InvServidor == ServidorTypeOK /\ 1 \in Ids

-----------------------------------------------------------------------------
(* Threads and rows. *)

LEMMA NadaTipo == NADA \notin Peticiones /\ fila(MAESTRO, SIN_TARJETA, SIN_HUELLA) \in Filas
BY ServidorAssumption DEF NADA, peticion, fila, Peticiones, Filas, RutasConSelect,
   RutasCerradura, SIN_TARJETA, SIN_HUELLA

LEMMA HiloTipos ==
    /\ LIBRE \in Hilo
    /\ \A p \in Peticiones : [paso |-> "consultado", pide |-> p, hora |-> 0] \in Hilo
    /\ [paso |-> "escrito", pide |-> NADA, hora |-> 0] \in Hilo
    /\ \A t \in Nat : [paso |-> "hora", pide |-> NADA, hora |-> t] \in Hilo
BY DEF Hilo, LIBRE

\* A thread that has done its SELECT carries a request.
LEMMA ConsultadoTipo ==
    ASSUME NEW x \in Hilo, x.paso = "consultado"
    PROVE  x.pide \in Peticiones
BY DEF Hilo, LIBRE

\* The time a thread carries is a number.
LEMMA HoraTipo ==
    ASSUME NEW x \in Hilo
    PROVE  x.hora \in Nat
BY DEF Hilo, LIBRE

-----------------------------------------------------------------------------
(* The SQL statements give tables. *)

LEMMA InsertadaTipo ==
    ASSUME InvServidor, NEW f \in Filas
    PROVE  /\ DOMAIN insertada(f) = Ids \cup {siguienteId}
           /\ insertada(f) \in [Ids \cup {siguienteId} -> Filas]
BY DEF InvServidor, ServidorTypeOK, insertada

LEMMA BorradaTipo ==
    ASSUME InvServidor, NEW id
    PROVE  /\ DOMAIN borrada(id) = Ids \ {id}
           /\ borrada(id) \in [Ids \ {id} -> Filas]
BY DEF InvServidor, ServidorTypeOK, borrada

LEMMA UpdateTipo ==
    ASSUME InvServidor, NEW S
    PROVE  /\ \A c \in Codigos : conCodigo(S, c) \in [Ids -> Filas]
           /\ \A r \in Tarjetas \cup {SIN_TARJETA} : conRfid(S, r) \in [Ids -> Filas]
           /\ \A n \in Nat : conHuella(S, n) \in [Ids -> Filas]
BY DEF InvServidor, ServidorTypeOK, conCodigo, conRfid, conHuella, Filas

-----------------------------------------------------------------------------
(* One step. *)

\* what every step keeps: the invariant, no id comes back, and the counter only grows
Paso == InvServidor' /\ Ids' \subseteq Ids \cup {siguienteId} /\ siguienteId <= siguienteId'

LEMMA ConsultaPaso ==
    ASSUME InvServidor, NEW h \in Hilos, NEW p \in Peticiones, Consulta(h, p)
    PROVE  Paso
BY HiloTipos DEF InvServidor, ServidorTypeOK, Consulta, Paso, Ids

LEMMA DirectaPaso ==
    ASSUME InvServidor, NEW h \in Hilos, Directa(h),
           NEW S \in SUBSET Ids, 1 \in S, DOMAIN usuarios' = S, usuarios' \in [S -> Filas]
    PROVE  Paso
BY HiloTipos DEF InvServidor, ServidorTypeOK, Directa, Escrito, Paso, Ids

LEMMA InsertaPaso ==
    ASSUME InvServidor, NEW h \in Hilos, insertaUsuario(h)
    PROVE  Paso
<1>1. hilos[h] \in Hilo /\ hilos[h].pide \in Peticiones
  BY ConsultadoTipo DEF InvServidor, ServidorTypeOK, insertaUsuario, Consultado
<1>2. hilos[h].pide.fila \in Filas
  BY <1>1 DEF Peticiones
<1>3. Ids' = Ids \cup {siguienteId} /\ usuarios' \in [Ids' -> Filas]
  BY <1>2, InsertadaTipo DEF insertaUsuario, Ids
<1>4. hilos' \in [Hilos -> Hilo]
  BY HiloTipos DEF InvServidor, ServidorTypeOK, insertaUsuario, Escrito
<1> QED
  BY <1>3, <1>4 DEF InvServidor, ServidorTypeOK, insertaUsuario, Escrito, Paso

LEMMA ActualizaPaso ==
    ASSUME InvServidor, NEW h \in Hilos, actualizaFila(h)
    PROVE  Paso
<1> DEFINE p == hilos[h].pide
<1>1. p \in Peticiones
  BY ConsultadoTipo DEF InvServidor, ServidorTypeOK, actualizaFila, Consultado
<1>2. p.fila.rfid \in Tarjetas \cup {SIN_TARJETA} /\ p.fila.huella \in Nat
  BY <1>1 DEF Peticiones, Filas
<1>3. usuarios' \in [Ids -> Filas]
  <2>1. CASE usuarios' = conRfid({p.id}, SIN_TARJETA)
    BY <2>1, UpdateTipo
  <2>2. CASE usuarios' = conRfid(ConCodigo(p.fila.codigo), p.fila.rfid)
    BY <2>2, <1>2, UpdateTipo
  <2>3. CASE usuarios' = conHuella(ConCodigo(p.fila.codigo), p.fila.huella)
    BY <2>3, <1>2, UpdateTipo
  <2> QED
    BY <2>1, <2>2, <2>3 DEF actualizaFila
<1>4. hilos' \in [Hilos -> Hilo]
  BY HiloTipos DEF InvServidor, ServidorTypeOK, actualizaFila, Escrito
<1> QED
  BY <1>3, <1>4 DEF InvServidor, ServidorTypeOK, actualizaFila, Escrito, Paso, Ids

LEMMA InternoPaso ==
    ASSUME InvServidor, NEW h \in Hilos, Interno(h)
    PROVE  Paso
<1>1. CASE insertaUsuario(h)
  BY <1>1, InsertaPaso
<1>2. CASE actualizaFila(h)
  BY <1>2, ActualizaPaso
<1>3. CASE escrituraFalla(h)
  BY <1>3, HiloTipos DEF InvServidor, ServidorTypeOK, escrituraFalla, Paso, Ids
<1>4. CASE leeHora(h)
  BY <1>4, HiloTipos DEF InvServidor, ServidorTypeOK, leeHora, Paso, Ids
<1>5. CASE notificar_cambio(h)
  BY <1>5, HiloTipos, HoraTipo DEF InvServidor, ServidorTypeOK, notificar_cambio, Paso, Ids
<1> QED
  BY <1>1, <1>2, <1>3, <1>4, <1>5 DEF Interno

\* The writes of the handlers without a SELECT, for whoever asks.
LEMMA BorraUsuarioPaso ==
    ASSUME InvServidor, NEW h \in Hilos, NEW id, delete_user(h, id)
    PROVE  Paso
<1>1. 1 \in Ids \ {id} /\ Ids \ {id} \in SUBSET Ids
  BY DEF InvServidor, delete_user
<1>2. DOMAIN usuarios' = Ids \ {id} /\ usuarios' \in [Ids \ {id} -> Filas]
  BY BorradaTipo DEF delete_user
<1> QED
  BY <1>1, <1>2, DirectaPaso DEF delete_user

LEMMA TablaIgualPaso ==
    ASSUME InvServidor, NEW h \in Hilos, Directa(h), usuarios' \in [Ids -> Filas]
    PROVE  Paso
BY DirectaPaso DEF InvServidor

LEMMA BorraHuellaPaso ==
    ASSUME InvServidor, NEW h \in Hilos,
           \/ \E c \in Codigos : delete_huella_endpoint(h, c)
           \/ clear_all_huellas_endpoint(h)
    PROVE  Paso
<1>1. SIN_HUELLA \in Nat
  BY DEF SIN_HUELLA
<1>2. CASE \E c \in Codigos : delete_huella_endpoint(h, c)
  <2>1. PICK c \in Codigos : delete_huella_endpoint(h, c)
    BY <1>2
  <2> QED
    BY <1>1, <2>1, UpdateTipo, TablaIgualPaso DEF delete_huella_endpoint
<1>3. CASE clear_all_huellas_endpoint(h)
  BY <1>1, <1>3, UpdateTipo, TablaIgualPaso DEF clear_all_huellas_endpoint
<1> QED
  BY <1>2, <1>3

\* The two updates of the lock, with what its requests can carry.
LEMMA ActualizaApiPaso ==
    ASSUME InvServidor, NEW h \in Hilos, NEW c \in Codigos,
           \/ \E r \in Tarjetas \cup {SIN_TARJETA} : update_rfid(h, c, r)
           \/ \E n \in Nat : update_huella(h, c, n)
    PROVE  Paso
<1>1. CASE \E r \in Tarjetas \cup {SIN_TARJETA} : update_rfid(h, c, r)
  <2>1. PICK r \in Tarjetas \cup {SIN_TARJETA} : update_rfid(h, c, r)
    BY <1>1
  <2>2. peticion("update_rfid", 0, fila(c, r, SIN_HUELLA)) \in Peticiones
    BY DEF peticion, fila, Peticiones, Filas, RutasConSelect, SIN_HUELLA
  <2> QED
    BY <2>1, <2>2, ConsultaPaso DEF update_rfid
<1>2. CASE \E n \in Nat : update_huella(h, c, n)
  <2>1. PICK n \in Nat : update_huella(h, c, n)
    BY <1>2
  <2>2. peticion("update_huella", 0, fila(c, SIN_TARJETA, n)) \in Peticiones
    BY DEF peticion, fila, Peticiones, Filas, RutasConSelect
  <2> QED
    BY <2>1, <2>2, ConsultaPaso DEF update_huella
<1> QED
  BY <1>1, <1>2

LEMMA ApiPaso ==
    ASSUME InvServidor, NEW h \in Hilos, Api(h)
    PROVE  Paso
<1>1. CASE \E c \in Codigos : \/ \E r \in Tarjetas : update_rfid(h, c, r)
                              \/ \E n \in 1..PAGINAS : update_huella(h, c, n)
  <2>1. PICK c \in Codigos : \/ \E r \in Tarjetas : update_rfid(h, c, r)
                             \/ \E n \in 1..PAGINAS : update_huella(h, c, n)
    BY <1>1
  <2>2. 1..PAGINAS \subseteq Nat
    BY ServidorAssumption
  <2> QED
    BY <2>1, <2>2, ActualizaApiPaso
<1>2. CASE \/ \E c \in Codigos : delete_huella_endpoint(h, c)
           \/ clear_all_huellas_endpoint(h)
  BY <1>2, BorraHuellaPaso
<1> QED
  BY <1>1, <1>2 DEF Api

LEMMA WebPaso ==
    ASSUME InvServidor, NEW h \in Hilos, Web(h)
    PROVE  Paso
<1>1. CASE \E c \in Codigos, r \in Tarjetas \cup {SIN_TARJETA}, n \in HuellasWeb :
              panel_admin(h, fila(c, r, n))
  <2>1. PICK c \in Codigos, r \in Tarjetas \cup {SIN_TARJETA}, n \in HuellasWeb :
              panel_admin(h, fila(c, r, n))
    BY <1>1
  <2>2. peticion("panel_admin", 0, fila(c, r, n)) \in Peticiones
    BY ServidorAssumption DEF peticion, fila, Peticiones, Filas, RutasConSelect
  <2> QED
    BY <2>1, <2>2, ConsultaPaso DEF panel_admin
<1>2. CASE \E id \in 1..(siguienteId - 1) : delete_user(h, id)
  BY <1>2, BorraUsuarioPaso
<1>3. CASE \E id \in 1..(siguienteId - 1) : delete_rfid(h, id)
  <2>1. PICK id \in 1..(siguienteId - 1) : delete_rfid(h, id)
    BY <1>3
  <2>2. peticion("delete_rfid", id, fila(MAESTRO, SIN_TARJETA, SIN_HUELLA)) \in Peticiones
    BY NadaTipo DEF peticion, Peticiones, RutasConSelect, InvServidor, ServidorTypeOK
  <2> QED
    BY <2>1, <2>2, ConsultaPaso DEF delete_rfid
<1>4. CASE \E c \in Codigos : update_admin_pin(h, c)
  <2>1. PICK c \in Codigos : update_admin_pin(h, c)
    BY <1>4
  <2> QED
    BY <2>1, UpdateTipo, TablaIgualPaso DEF update_admin_pin
<1> QED
  BY <1>1, <1>2, <1>3, <1>4 DEF Web

LEMMA RelojPaso ==
    ASSUME InvServidor, reinicia \/ atrasaReloj
    PROVE  Paso
<1>1. CASE reinicia
  BY <1>1, HiloTipos DEF InvServidor, ServidorTypeOK, reinicia, Paso, Ids
<1>2. CASE atrasaReloj
  BY <1>2 DEF InvServidor, ServidorTypeOK, atrasaReloj, Paso, Ids
<1> QED
  BY <1>1, <1>2

LEMMA ServidorPaso ==
    ASSUME InvServidor, [ServidorNext]_varsServidor
    PROVE  Paso
<1>1. CASE ServidorNext
  BY <1>1, WebPaso, ApiPaso, InternoPaso, RelojPaso DEF ServidorNext
<1>2. CASE UNCHANGED varsServidor
  BY <1>2 DEF InvServidor, ServidorTypeOK, Paso, Ids, varsServidor
<1> QED
  BY <1>1, <1>2

LEMMA ServidorInicio == ServidorInit => InvServidor
BY NadaTipo, HiloTipos DEF ServidorInit, InvServidor, ServidorTypeOK, Ids

\* The master's row comes first in every SELECT.
LEMMA PrimeroEsUno ==
    ASSUME NEW tabla, DOMAIN tabla \subseteq Nat \ {0}, 1 \in DOMAIN tabla
    PROVE  posicion(tabla, 1) = 1
<1>1. {j \in DOMAIN tabla : j <= 1} = {1}
  OBVIOUS
<1> QED
  BY <1>1, FS_Singleton DEF posicion

-----------------------------------------------------------------------------
(* The theorems. *)

\* The invariant of every state of the server.
THEOREM ServidorInvariante == ServidorSpec => []InvServidor
<1>1. InvServidor /\ [ServidorNext]_varsServidor => InvServidor'
  BY ServidorPaso DEF Paso
<1> QED
  BY <1>1, ServidorInicio, PTL DEF ServidorSpec

\* Every variable of the server stays in its type (server.py:21-258).
THEOREM ServidorTipos == ServidorSpec => []ServidorTypeOK
<1>1. InvServidor => ServidorTypeOK
  BY DEF InvServidor
<1> QED
  BY <1>1, ServidorInvariante, PTL

\* Whatever the threads do, the answer of sync_pins begins with the master
\* (server.py:54).
THEOREM MaestroSiemprePrimero == ServidorSpec => []MaestroPrimero
<1>1. InvServidor => MaestroPrimero
  BY PrimeroEsUno DEF InvServidor, ServidorTypeOK, MaestroPrimero, Ids
<1> QED
  BY <1>1, ServidorInvariante, PTL

\* A deleted user never comes back and no id is given twice (server.py:26, 59, 103).
THEOREM BorradoSiempreDefinitivo == ServidorSpec => BorradoDefinitivo
<1>1. InvServidor /\ [ServidorNext]_varsServidor =>
        [\A i \in 1..(siguienteId - 1) : i \notin Ids => i \notin Ids']_varsServidor
  BY ServidorPaso DEF Paso, InvServidor, ServidorTypeOK
<1> QED
  BY <1>1, ServidorInvariante, PTL DEF ServidorSpec, BorradoDefinitivo

=============================================================================
