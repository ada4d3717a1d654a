--------------------------- MODULE HuellasProofs ----------------------------
(***************************************************************************)
(* Theorems about Huellas.                                                 *)
(*                                                                         *)
(* The first part carries the invariants of Sincronizacion over to a lock  *)
(* with a fingerprint sensor: types, Actualizada, and the promises of the  *)
(* server.  The second proves that whoever the list greets for a page is   *)
(* the owner of the finger on it until one of the events of Incidente      *)
(* happens.  The argument: until then, the pages that the table of the     *)
(* server gives to somebody are known to the list of the lock, so that a   *)
(* number free in the list is free everywhere.                             *)
(***************************************************************************)
EXTENDS Huellas, SincronizacionProofs, WellFoundedInduction

-----------------------------------------------------------------------------
(* The number of a user. *)

\* The loop of validacion.c:236-252: a page that is found for a user without one is
\* in use by nobody in the list.
LEMMA PaginaLibre ==
    ASSUME NEW i, copia[i].huella = SIN_HUELLA, asignada(i) \in Paginas
    PROVE  ~enUso(asignada(i))
<1> DEFINE N == 1..(PAGINAS + 1)
           Libres == {n \in Paginas : ~enUso(n)}
           Vale(n) == \/ n = PAGINAS + 1 /\ \A m \in Paginas : enUso(m)
                      \/ ~enUso(n) /\ \A m \in 1..(n - 1) : enUso(m)
<1>1. PAGINAS \in Nat /\ Libres \subseteq Nat
  BY ServidorAssumption DEF Paginas
<1>2. \E n \in N : Vale(n)
  <2>1. CASE Libres = {}
    BY <1>1, <2>1
  <2>2. CASE Libres # {}
    <3>1. PICK n \in Libres : \A j \in Libres : ~(<<j, n>> \in OpToRel(<, Nat))
      BY <1>1, <2>2, NatLessThanWellFounded, WFMin, Zenon
    <3>2. \A j \in Libres : ~(j < n)
      BY <1>1, <3>1, Zenon DEF OpToRel
    <3>3. \A m \in 1..(n - 1) : enUso(m)
      BY <1>1, <3>2 DEF Paginas
    <3>4. n \in N
      <4>1. n \in Paginas
        BY <3>1
      <4> QED
        BY <1>1, <4>1 DEF Paginas
    <3>5. Vale(n)
      BY <3>1, <3>3
    <3> QED
      BY <3>4, <3>5
  <2> QED
    BY <2>1, <2>2
<1>3. asignada(i) = CHOOSE n \in N : Vale(n)
  BY DEF asignada
<1>4. asignada(i) \in N /\ Vale(asignada(i))
  BY <1>2, <1>3
<1> QED
  BY <1>1, <1>4 DEF Paginas

-----------------------------------------------------------------------------
(* Part 1: types, and what the lock and the server keep promising. *)

InvTipos ==
    /\ InvSinc
    /\ plantillas \in [Paginas -> Codigos \cup {NADIE}]
    /\ incidente \in BOOLEAN

\* The change of a finger is an edition like that of a card.
LEMMA EditaInv ==
    ASSUME InvSinc, NEW nueva, Buena(nueva), NEW p \in Peticiones, edita(nueva, p)
    PROVE  InvSinc'
<1>1. InvServidor' /\ ServidorTypeOK'
  BY ServidorIgual DEF edita, InvServidor
<1> QED
  BY <1>1 DEF InvSinc, SincTypeOK, Buena, edita, Fases

\* The requests of the sensor menu are requests.
LEMMA PideHuellaTipo ==
    ASSUME NEW c \in Codigos, NEW n \in Nat, NEW ruta \in RutasCerradura
    PROVE  pideHuella(ruta, c, n) \in Peticiones
BY DEF pideHuella, peticion, fila, Peticiones, Filas, RutasCerradura

\* A list with another number in one entry, or without any number.
LEMMA HuellaCambiada ==
    ASSUME InvSinc, NEW i \in DOMAIN copia, NEW n \in Nat
    PROVE  Buena([copia EXCEPT ![i].huella = n])
BY DEF InvSinc, Buena, EsLista, Filas

LEMMA HuellasQuitadas ==
    ASSUME InvSinc
    PROVE  Buena([i \in DOMAIN copia |-> [copia[i] EXCEPT !.huella = SIN_HUELLA]])
BY DEF InvSinc, Buena, EsLista, Filas, SIN_HUELLA

LEMMA RegistraHuellaTipos ==
    ASSUME InvTipos, NEW c \in Codigos, registraHuella(c)
    PROVE  InvTipos'
<1>1. PICK i \in PrimerosCon(c) :
        /\ asignada(i) \in Paginas
        /\ edita([copia EXCEPT ![i].huella = asignada(i)],
                 pideHuella("update_huella", c, asignada(i)))
        /\ plantillas' = [plantillas EXCEPT ![asignada(i)] = c]
        /\ UNCHANGED incidente
  BY DEF registraHuella
<1>2. i \in DOMAIN copia /\ asignada(i) \in Nat /\ "update_huella" \in RutasCerradura
  BY <1>1, ServidorAssumption DEF PrimerosCon, Paginas, RutasCerradura
<1>3. InvSinc'
  BY <1>1, <1>2, HuellaCambiada, PideHuellaTipo, EditaInv DEF InvTipos
<1> QED
  BY <1>1, <1>3 DEF InvTipos

LEMMA BorraHuellaTipos ==
    ASSUME InvTipos, NEW c \in Codigos, borraHuella(c)
    PROVE  InvTipos'
<1>1. PICK i \in PrimerosCon(c) :
        /\ edita([copia EXCEPT ![i].huella = SIN_HUELLA],
                 pideHuella("delete_huella_endpoint", c, SIN_HUELLA))
        /\ plantillas' = [plantillas EXCEPT ![asignada(i)] = NADIE]
        /\ UNCHANGED incidente
  BY DEF borraHuella
<1>2. i \in DOMAIN copia /\ SIN_HUELLA \in Nat /\ "delete_huella_endpoint" \in RutasCerradura
  BY <1>1 DEF PrimerosCon, SIN_HUELLA, RutasCerradura
<1>3. InvSinc'
  BY <1>1, <1>2, HuellaCambiada, PideHuellaTipo, EditaInv DEF InvTipos
<1> QED
  BY <1>1, <1>3 DEF InvTipos

LEMMA BorraTodasTipos ==
    ASSUME InvTipos, borraTodas
    PROVE  InvTipos'
<1>1. SIN_HUELLA \in Nat /\ "clear_all_huellas_endpoint" \in RutasCerradura
  BY DEF SIN_HUELLA, RutasCerradura
<1>2. pideHuella("clear_all_huellas_endpoint", MAESTRO, SIN_HUELLA) \in Peticiones
  BY <1>1, PideHuellaTipo, ServidorAssumption
<1>3. InvSinc'
  BY <1>2, HuellasQuitadas, EditaInv DEF InvTipos, borraTodas
<1> QED
  BY <1>3 DEF InvTipos, borraTodas

LEMMA SinAcuseTipos ==
    ASSUME InvTipos, sensorSinAcuse
    PROVE  InvTipos'
<1>1. InvSinc'
  BY SincPaso DEF InvTipos, sensorSinAcuse
<1> QED
  BY <1>1 DEF InvTipos, sensorSinAcuse

LEMMA HuellasPaso ==
    ASSUME InvTipos, [HuellasNext]_varsHuellas
    PROVE  InvTipos'
<1>1. CASE SincNext /\ UNCHANGED plantillas /\ incidente' = (incidente \/ Incidente)
  BY <1>1, SincPaso DEF InvTipos
<1>2. CASE \E c \in Codigos : registraHuella(c) \/ borraHuella(c)
  BY <1>2, RegistraHuellaTipos, BorraHuellaTipos
<1>3. CASE borraTodas \/ sensorSinAcuse
  BY <1>3, BorraTodasTipos, SinAcuseTipos
<1>4. CASE UNCHANGED varsHuellas
  BY <1>4, SincPaso DEF InvTipos, varsHuellas
<1> QED
  BY <1>1, <1>2, <1>3, <1>4 DEF HuellasNext

LEMMA HuellasInicio == HuellasInit => InvTipos
BY SincInicio DEF HuellasInit, InvTipos

\* The invariant of the types in every state.
THEOREM HuellasInvTipos == HuellasSpec => []InvTipos
<1>1. InvTipos /\ [HuellasNext]_varsHuellas => InvTipos'
  BY HuellasPaso
<1> QED
  BY <1>1, HuellasInicio, PTL DEF HuellasSpec

\* The master's row comes first in the table and in the lock's list, whatever is done
\* at the door (server.py:54, validacion.c:351).
THEOREM HuellasMaestroPrimero ==
    HuellasSpec => [](MaestroPrimero /\ AdministradorEsMaestro)
<1>1. InvTipos => MaestroPrimero /\ AdministradorEsMaestro
  BY PrimeroEsUno DEF InvTipos, InvSinc, InvServidor, ServidorTypeOK, MaestroPrimero, Ids,
                      Buena, AdministradorEsMaestro
<1> QED
  BY <1>1, HuellasInvTipos, PTL

\* What the lock does to the server is a step of the server, or nothing.
LEMMA PasoDelServidor ==
    ASSUME InvTipos, [HuellasNext]_varsHuellas
    PROVE  Paso \/ UNCHANGED varsServidor
<1>1. CASE DelServidor
  BY <1>1, WebPaso, InternoPaso, RelojPaso DEF InvTipos, InvSinc, DelServidor
<1>2. CASE \E h \in Hilos : atiende(h)
  BY <1>2, AtiendePaso DEF InvTipos
<1>3. CASE \/ despierta \/ Intercambio \/ leeRezagada \/ sincronizaManual \/ reintenta
           \/ adoptaMezcla \/ falla \/ reset \/ rechaza \/ terminaSubida
           \/ \E c \in Codigos, r \in EdicionesRfid : registraRfid(c, r)
  BY <1>3 DEF despierta, Intercambio, pideVersion, respondeLista, adopta, guarda,
              leeRezagada, reintenta, adoptaMezcla, sincronizaManual, falla, reset,
              rechaza, terminaSubida, registraRfid, edita
<1>4. CASE \/ \E c \in Codigos : registraHuella(c) \/ borraHuella(c)
           \/ borraTodas \/ sensorSinAcuse
  BY <1>4 DEF registraHuella, borraHuella, borraTodas, sensorSinAcuse, edita, varsSinc
<1>5. CASE UNCHANGED varsHuellas
  BY <1>5 DEF varsHuellas, varsSinc
<1> QED
  BY <1>1, <1>2, <1>3, <1>4, <1>5 DEF HuellasNext, SincNext

\* A deleted user never comes back and no id is given twice, with a lock that sends
\* its requests twice (server.py:26, 59, 103; espAT.c:563).
THEOREM HuellasBorradoDefinitivo == HuellasSpec => BorradoDefinitivo
<1>1. InvTipos /\ [HuellasNext]_varsHuellas =>
        [\A i \in 1..(siguienteId - 1) : i \notin Ids => i \notin Ids']_varsServidor
  BY PasoDelServidor DEF Paso, InvTipos, InvSinc, InvServidor, ServidorTypeOK
<1> QED
  BY <1>1, HuellasInvTipos, PTL DEF HuellasSpec, BorradoDefinitivo

\* A change at the door keeps the lists under way, and makes the lock's own one edited.
LEMMA EditaActualizada ==
    ASSUME InvActualizada, InvSinc', NEW nueva, NEW p, edita(nueva, p)
    PROVE  InvActualizada'
<1>1. /\ recibida(usuarios') = recibida(usuarios) /\ CambioSinHora' = CambioSinHora
      /\ UNCHANGED <<reloj, LAST_UPDATE_TIME, hilos>>
  BY DEF edita, varsServidor, CambioSinHora
<1> QED
  BY <1>1 DEF edita, EnFase, InvActualizada, Tiempos, Listas, Rezagadas

\* A lock that believes it is up to date is, with fingers stored and deleted at the
\* door too (MEF.c:80-126, server.py:16-18).
THEOREM HuellasActualizada ==
    ASSUME ~RETROCEDE, ~CORTA
    PROVE  HuellasSpec => []Actualizada
<1> DEFINE I == InvTipos /\ InvActualizada
<1>1. HuellasInit => I
  BY HuellasInicio, ActualizadaInicio DEF HuellasInit
<1>2. ASSUME I, [HuellasNext]_varsHuellas PROVE I'
  <2>1. InvTipos' /\ InvSinc'
    BY <1>2, HuellasPaso DEF InvTipos
  <2>2. CASE [SincNext]_varsSinc
    BY <1>2, <2>1, <2>2, ActualizadaPaso
  <2>3. CASE \E nueva, p : edita(nueva, p)
    BY <1>2, <2>1, <2>3, EditaActualizada
  <2> QED
    BY <1>2, <2>2, <2>3 DEF HuellasNext, registraHuella, borraHuella, borraTodas,
                           sensorSinAcuse, varsHuellas
<1>3. I => Actualizada
  BY DEF InvActualizada, InvSinc, SincTypeOK, ServidorTypeOK, Tiempos, Listas,
         Actualizada, SeCreeActualizada
<1> QED
  BY <1>1, <1>2, <1>3, PTL DEF HuellasSpec

\* A lock with a fingerprint sensor implements ListaReplicada too: registering and
\* deleting fingers changes nobody's PIN and brings in nobody (MEF.c:584-588, 633-637,
\* 816-851).
THEOREM HuellasImplementaLista == HuellasSpec => ImplementaLista
<1>1. ASSUME InvTipos, Numeros, [HuellasNext]_varsHuellas
      PROVE  [Lista!Next]_(Lista!vars) /\ Numeros'
  <2>1. InvSinc
    BY <1>1 DEF InvTipos
  <2>2. CASE [SincNext]_varsSinc
    BY <1>1, <2>1, <2>2, ListaPaso, NumerosPaso
  <2>5. ASSUME NEW nueva, NEW p, edita(nueva, p) PROVE Numeros'
    BY <1>1, <2>5 DEF Numeros, EnCamino, EnFase, edita, varsServidor
  <2>3. ASSUME NEW c \in Codigos, registraHuella(c) \/ borraHuella(c)
        PROVE  Lista!EnLaPuerta
    <3>1. PICK i \in DOMAIN copia : \E n, p : edita([copia EXCEPT ![i].huella = n], p)
      BY <2>3 DEF registraHuella, borraHuella, PrimerosCon
    <3>2. \A n : Lista!MismosUsuarios([copia EXCEPT ![i].huella = n], copia)
      BY <2>1 DEF Lista!MismosUsuarios, InvSinc, Buena, EsLista, Filas
    <3> QED
      BY <3>1, <3>2, EditaLista
  <2>4. CASE borraTodas
    <3> DEFINE nueva == [i \in DOMAIN copia |-> [copia[i] EXCEPT !.huella = SIN_HUELLA]]
    <3>1. Lista!MismosUsuarios(nueva, copia)
      BY <2>1 DEF Lista!MismosUsuarios, InvSinc, Buena, EsLista, Filas
    <3>2. Lista!EnLaPuerta
      BY <2>4, <3>1, EditaLista DEF borraTodas
    <3>3. Numeros'
      BY <2>4, <2>5 DEF borraTodas
    <3> QED
      BY <3>2, <3>3 DEF Lista!Next
  <2> QED
    BY <1>1, <2>2, <2>3, <2>4, <2>5 DEF HuellasNext, registraHuella, borraHuella, borraTodas,
                                       sensorSinAcuse, varsHuellas, Lista!Next
<1>2. HuellasInit => Lista!Init /\ Numeros
  BY ListaInicio DEF HuellasInit
<1> QED
  BY <1>1, <1>2, HuellasInvTipos, PTL DEF HuellasSpec, ImplementaLista, Lista!Spec

-----------------------------------------------------------------------------
(* Part 2: until an incident, a page is never taken for another user's. *)

\* list l gives page n to the user of PIN c
Marca(l, c, n) == \E i \in DOMAIN l : l[i].codigo = c /\ l[i].huella = n

\* every page that l gives to a user, m gives to that user too
Conoce(m, l) ==
    \A i \in DOMAIN l : l[i].huella \in Paginas => Marca(m, l[i].codigo, l[i].huella)

\* The lock is telling the server of a new finger.
EnvioHuella == EnFase("sube") /\ envio.ruta = "update_huella"

\* The request under way will take the page away from row f.
Sale(f) ==
    /\ EnFase("sube") /\ servida = 0
    /\ \/ envio.ruta = "clear_all_huellas_endpoint"
       \/ envio.ruta = "delete_huella_endpoint" /\ f.codigo = envio.fila.codigo

\* The list of the lock knows every page the table gives to somebody.
TablaConocida ==
    \A i \in Ids : usuarios[i].huella \in Paginas =>
        Sale(usuarios[i]) \/ Marca(copia, usuarios[i].codigo, usuarios[i].huella)

\* A list on its way stands between the table and the lock's list.
RespuestaConocida ==
    EnFase("recibe") => Conoce(copia, respuesta) /\ Conoce(respuesta, usuarios)

EnvioConocido == EnvioHuella => Marca(copia, envio.fila.codigo, envio.fila.huella)

MismaHuella(p) == p.fila.codigo = envio.fila.codigo /\ p.fila.huella = envio.fila.huella

\* A thread that will write a page does so for the request the lock waits for.
Subidas ==
    \A h \in Hilos : Consultado(h, "update_huella") => EnvioHuella /\ MismaHuella(hilos[h].pide)

\* A new user begins without a page.
Altas == ~AltaConHuella

InvDueno ==
    /\ InvTipos
    /\ PaginasDe(copia) /\ UnDueno(copia)
    /\ TablaConocida /\ RespuestaConocida /\ EnvioConocido
    /\ Subidas /\ Altas

-----------------------------------------------------------------------------
(* Lists. *)

LEMMA ConoceSiMisma == ASSUME NEW l PROVE Conoce(l, l)
BY DEF Conoce, Marca

LEMMA ConoceTransitiva ==
    ASSUME NEW l, NEW m, NEW o, Conoce(m, l), Conoce(o, m)
    PROVE  Conoce(o, l)
BY DEF Conoce, Marca

\* A list that another one knows is no worse than it.
LEMMA ConocidaBuena ==
    ASSUME NEW l, NEW m, Conoce(m, l), PaginasDe(m), UnDueno(m)
    PROVE  PaginasDe(l) /\ UnDueno(l)
BY DEF Conoce, Marca, PaginasDe, UnDueno

-----------------------------------------------------------------------------
(* The server. *)

\* the part of the lock that a step of the server, or of serving it, leaves alone
Quieta == UNCHANGED <<copia, fase, respuesta, envio, plantillas>>

\* A table that gives no new page keeps what the lists know.
LEMMA TablaSinPaginas ==
    ASSUME InvDueno, Quieta, Conoce(usuarios, usuarios'),
           servida' = servida \/ envio.ruta \in {"update_rfid", "update_huella"}
    PROVE  TablaConocida' /\ RespuestaConocida'
<1>1. TablaConocida'
  <2> SUFFICES ASSUME NEW i \in Ids', usuarios'[i].huella \in Paginas
               PROVE  \/ Sale(usuarios[i])'
                      \/ Marca(copia, usuarios'[i].codigo, usuarios'[i].huella)
    BY DEF TablaConocida, Quieta, Marca
  <2>1. PICK j \in Ids : /\ usuarios[j].codigo = usuarios'[i].codigo
                         /\ usuarios[j].huella = usuarios'[i].huella
    BY DEF Conoce, Marca, Ids
  <2>2. Sale(usuarios[j]) \/ Marca(copia, usuarios[j].codigo, usuarios[j].huella)
    BY <2>1 DEF InvDueno, TablaConocida
  <2>3. Sale(usuarios[j]) => Sale(usuarios[i])'
    BY <2>1 DEF Sale, Quieta, EnFase
  <2> QED
    BY <2>1, <2>2, <2>3
<1>2. RespuestaConocida'
  BY ConoceTransitiva DEF InvDueno, RespuestaConocida, Quieta, EnFase
<1> QED
  BY <1>1, <1>2

\* A table with the same pages.
LEMMA MismasPaginas ==
    ASSUME DOMAIN usuarios' \subseteq DOMAIN usuarios,
           \A i \in DOMAIN usuarios' :
               usuarios'[i].huella \in Paginas =>
                   /\ usuarios'[i].codigo = usuarios[i].codigo
                   /\ usuarios'[i].huella = usuarios[i].huella
    PROVE  Conoce(usuarios, usuarios')
BY DEF Conoce, Marca

\* Threads: a step that starts no request about fingers or new users.
LEMMA HilosQuietos ==
    ASSUME InvDueno, Quieta,
           \A h \in Hilos : \/ hilos'[h] = hilos[h]
                            \/ hilos'[h].paso # "consultado"
    PROVE  Subidas' /\ Altas'
BY DEF InvDueno, Subidas, MismaHuella, Altas, AltaConHuella, Consultado, Quieta,
       EnvioHuella, EnFase

LEMMA ConsultaDueno ==
    ASSUME InvDueno, Quieta, NEW h \in Hilos, NEW p, Consulta(h, p),
           p.ruta = "panel_admin" => p.fila.huella \notin Paginas,
           p.ruta = "update_huella" => EnvioHuella /\ MismaHuella(p),
           servida' = servida \/ envio.ruta \in {"update_rfid", "update_huella"}
    PROVE  TablaConocida' /\ RespuestaConocida' /\ Subidas' /\ Altas'
<1>1. Conoce(usuarios, usuarios')
  BY ConoceSiMisma DEF Consulta
<1>2. hilos \in [Hilos -> Hilo]
  BY DEF InvDueno, InvTipos, InvSinc, InvServidor, ServidorTypeOK
<1>3. Subidas' /\ Altas'
  BY <1>2 DEF InvDueno, Subidas, MismaHuella, Altas, AltaConHuella, Consultado, Consulta,
              Quieta, EnvioHuella, EnFase
<1> QED
  BY <1>1, <1>3, TablaSinPaginas

LEMMA EscritoHilos ==
    ASSUME InvDueno, Quieta, NEW h \in Hilos, Escrito(h)
    PROVE  Subidas' /\ Altas'
<1>1. hilos \in [Hilos -> Hilo]
  BY DEF InvDueno, InvTipos, InvSinc, InvServidor, ServidorTypeOK
<1> QED
  BY <1>1, HilosQuietos DEF Escrito

\* The write of an INSERT: the row has no page.
LEMMA InsertaDueno ==
    ASSUME InvDueno, Quieta, NEW h \in Hilos, insertaUsuario(h), servida' = servida
    PROVE  TablaConocida' /\ RespuestaConocida' /\ Subidas' /\ Altas'
<1>1. hilos[h].pide.fila.huella \notin Paginas
  BY DEF InvDueno, Altas, AltaConHuella, insertaUsuario
<1>2. Conoce(usuarios, usuarios')
  BY <1>1 DEF insertaUsuario, insertada, Conoce, Marca, Ids
<1> QED
  BY <1>2, TablaSinPaginas, EscritoHilos DEF insertaUsuario

\* The write of an UPDATE: a page it gives is the one the lock has just given.
LEMMA ActualizaDueno ==
    ASSUME InvDueno, Quieta, NEW h \in Hilos, actualizaFila(h), servida' = servida
    PROVE  TablaConocida' /\ RespuestaConocida' /\ Subidas' /\ Altas'
<1> DEFINE p == hilos[h].pide
<1>1. Subidas' /\ Altas'
  BY EscritoHilos DEF actualizaFila
<1>2. usuarios \in [Ids -> Filas]
  BY DEF InvDueno, InvTipos, InvSinc, InvServidor, ServidorTypeOK
<1>3. CASE \E S, r : usuarios' = conRfid(S, r)
  <2>1. PICK S, r : usuarios' = conRfid(S, r)
    BY <1>3
  <2>2. Conoce(usuarios, usuarios')
    BY <1>2, <2>1, MismasPaginas DEF conRfid, Ids, Filas
  <2> QED
    BY <1>1, <2>2, TablaSinPaginas
<1>4. CASE Consultado(h, "update_huella") /\
           usuarios' = conHuella(ConCodigo(p.fila.codigo), p.fila.huella)
  <2>1. EnvioHuella /\ MismaHuella(p)
    BY <1>4 DEF InvDueno, Subidas
  <2>2. Marca(copia, p.fila.codigo, p.fila.huella)
    BY <2>1 DEF InvDueno, EnvioConocido, MismaHuella
  <2>3. RespuestaConocida'
    BY <2>1 DEF RespuestaConocida, EnvioHuella, EnFase, Quieta
  <2>4. TablaConocida'
    <3> SUFFICES ASSUME NEW i \in Ids', usuarios'[i].huella \in Paginas
                 PROVE  Marca(copia, usuarios'[i].codigo, usuarios'[i].huella)
      BY DEF TablaConocida, Quieta, Marca
    <3>1. CASE i \in ConCodigo(p.fila.codigo)
      <4>1. i \in Ids /\ usuarios[i] \in Filas /\ usuarios[i].codigo = p.fila.codigo
        BY <1>2, <3>1 DEF ConCodigo
      <4>2. usuarios'[i] = [usuarios[i] EXCEPT !.huella = p.fila.huella]
        BY <1>4, <3>1, <4>1 DEF conHuella
      <4>3. usuarios'[i].codigo = p.fila.codigo /\ usuarios'[i].huella = p.fila.huella
        BY <4>1, <4>2 DEF Filas
      <4> QED
        BY <2>2, <4>3
    <3>2. CASE i \notin ConCodigo(p.fila.codigo)
      <4>1. i \in Ids /\ usuarios'[i] = usuarios[i]
        BY <1>4, <3>2 DEF conHuella, Ids
      <4>2. ~Sale(usuarios[i])
        BY <2>1 DEF Sale, EnvioHuella
      <4> QED
        BY <4>1, <4>2 DEF InvDueno, TablaConocida
    <3> QED
      BY <3>1, <3>2
  <2> QED
    BY <1>1, <2>3, <2>4
<1> QED
  BY <1>3, <1>4 DEF actualizaFila

\* A step that leaves the table alone and starts no request.
LEMMA TablaIgualDueno ==
    ASSUME InvDueno, Quieta, usuarios' = usuarios, servida' = servida,
           \A h \in Hilos : hilos'[h] = hilos[h] \/ hilos'[h].paso # "consultado"
    PROVE  TablaConocida' /\ RespuestaConocida' /\ Subidas' /\ Altas'
<1>1. Conoce(usuarios, usuarios')
  BY ConoceSiMisma
<1> QED
  BY <1>1, TablaSinPaginas, HilosQuietos

LEMMA InternoDueno ==
    ASSUME InvDueno, Quieta, NEW h \in Hilos, Interno(h), servida' = servida
    PROVE  TablaConocida' /\ RespuestaConocida' /\ Subidas' /\ Altas'
<1>1. hilos \in [Hilos -> Hilo]
  BY DEF InvDueno, InvTipos, InvSinc, InvServidor, ServidorTypeOK
<1>2. CASE insertaUsuario(h)
  BY <1>2, InsertaDueno
<1>3. CASE actualizaFila(h)
  BY <1>3, ActualizaDueno
<1>4. CASE escrituraFalla(h) \/ leeHora(h) \/ notificar_cambio(h)
  BY <1>1, <1>4, TablaIgualDueno DEF escrituraFalla, leeHora, notificar_cambio, LIBRE
<1> QED
  BY <1>2, <1>3, <1>4 DEF Interno

LEMMA WebDueno ==
    ASSUME ~Incidente, InvDueno, Quieta, NEW h \in Hilos, Web(h), servida' = servida
    PROVE  TablaConocida' /\ RespuestaConocida' /\ Subidas' /\ Altas'
<1>1. CASE \E c \in Codigos, r \in Tarjetas \cup {SIN_TARJETA}, n \in HuellasWeb :
              panel_admin(h, fila(c, r, n))
  <2>1. PICK c \in Codigos, r \in Tarjetas \cup {SIN_TARJETA}, n \in HuellasWeb :
              panel_admin(h, fila(c, r, n))
    BY <1>1
  <2> DEFINE p == peticion("panel_admin", 0, fila(c, r, n))
  <2>3. p.ruta = "panel_admin" /\ p.fila.huella = n
    BY DEF peticion, fila
  <2>4. Consulta(h, p)
    BY <2>1 DEF panel_admin
  <2> HIDE DEF p
  <2>5. hilos'[h] = [paso |-> "consultado", pide |-> p, hora |-> 0]
    BY <2>4 DEF Consulta, InvDueno, InvTipos, InvSinc, InvServidor, ServidorTypeOK
  <2>6. ~AltaConHuella'
    BY DEF Incidente
  <2>2. n \notin Paginas
    BY <2>3, <2>5, <2>6 DEF AltaConHuella, Consultado
  <2> QED
    BY <2>2, <2>3, <2>4, ConsultaDueno
<1>2. CASE \E id \in 1..(siguienteId - 1) : delete_user(h, id)
  <2>1. PICK id \in 1..(siguienteId - 1) : delete_user(h, id)
    BY <1>2
  <2>2. Conoce(usuarios, usuarios')
    BY <2>1, MismasPaginas DEF delete_user, borrada, Ids
  <2> QED
    BY <2>1, <2>2, TablaSinPaginas, EscritoHilos DEF delete_user, Directa
<1>3. CASE \E id \in 1..(siguienteId - 1) : delete_rfid(h, id)
  <2>1. PICK id \in 1..(siguienteId - 1) : delete_rfid(h, id)
    BY <1>3
  <2> DEFINE p == peticion("delete_rfid", id, fila(MAESTRO, SIN_TARJETA, SIN_HUELLA))
  <2>2. p.ruta = "delete_rfid"
    BY DEF peticion
  <2>3. Consulta(h, p)
    BY <2>1 DEF delete_rfid
  <2> HIDE DEF p
  <2> QED
    BY <2>2, <2>3, ConsultaDueno
<1>4. CASE \E c \in Codigos : update_admin_pin(h, c)
  <2>1. PICK c \in Codigos : update_admin_pin(h, c)
    BY <1>4
  <2>2. usuarios \in [Ids -> Filas] /\ 1 \in Ids
    BY DEF InvDueno, InvTipos, InvSinc, InvServidor, ServidorTypeOK
  <2>3. usuarios' = conCodigo({1}, c) /\ Ids' = Ids
    BY <2>1 DEF update_admin_pin, conCodigo, Ids
  <2>4. usuarios'[1].codigo = usuarios[1].codigo
    BY <2>2, <2>3 DEF Incidente
  <2>5. \A i \in Ids : /\ usuarios'[i].huella = usuarios[i].huella
                       /\ usuarios'[i].codigo = usuarios[i].codigo
    BY <2>2, <2>3, <2>4 DEF conCodigo, Filas
  <2>6. Conoce(usuarios, usuarios')
    BY <2>3, <2>5, MismasPaginas DEF Ids
  <2> QED
    BY <2>1, <2>6, TablaSinPaginas, EscritoHilos DEF update_admin_pin, Directa
<1> QED
  BY <1>1, <1>2, <1>3, <1>4 DEF Web

\* The lock's requests: the two updates look first, the two deletions do what the
\* list has already done.
LEMMA AtiendeDueno ==
    ASSUME InvDueno, NEW h \in Hilos, atiende(h), UNCHANGED plantillas
    PROVE  TablaConocida' /\ RespuestaConocida' /\ Subidas' /\ Altas'
<1> DEFINE f == envio.fila
<1>1. Quieta /\ EnFase("sube")
  BY DEF atiende, Quieta
<1>2. usuarios \in [Ids -> Filas]
  BY DEF InvDueno, InvTipos, InvSinc, InvServidor, ServidorTypeOK
<1>3. RespuestaConocida'
  BY <1>1 DEF RespuestaConocida, EnFase, Quieta
<1>4. CASE envio.ruta = "update_rfid" /\ update_rfid(h, f.codigo, f.rfid)
  <2> DEFINE p == peticion("update_rfid", 0, fila(f.codigo, f.rfid, SIN_HUELLA))
  <2>1. p.ruta = "update_rfid" /\ Consulta(h, p)
    BY <1>4 DEF peticion, update_rfid
  <2> HIDE DEF p
  <2> QED
    BY <1>1, <1>4, <2>1, ConsultaDueno
<1>5. CASE envio.ruta = "update_huella" /\ update_huella(h, f.codigo, f.huella)
  <2> DEFINE p == peticion("update_huella", 0, fila(f.codigo, SIN_TARJETA, f.huella))
  <2>1. p.ruta = "update_huella" /\ Consulta(h, p)
    BY <1>5 DEF peticion, update_huella
  <2>2. EnvioHuella /\ MismaHuella(p)
    BY <1>1, <1>5 DEF EnvioHuella, MismaHuella, peticion, fila
  <2> HIDE DEF p
  <2> QED
    BY <1>1, <1>5, <2>1, <2>2, ConsultaDueno
<1>6. CASE envio.ruta = "delete_huella_endpoint" /\ delete_huella_endpoint(h, f.codigo)
  <2>1. Subidas' /\ Altas'
    BY <1>1, <1>6, EscritoHilos DEF delete_huella_endpoint, Directa
  <2>2. TablaConocida'
    <3> SUFFICES ASSUME NEW i \in Ids', usuarios'[i].huella \in Paginas
                 PROVE  Marca(copia, usuarios'[i].codigo, usuarios'[i].huella)
      BY <1>1 DEF TablaConocida, Quieta, Marca
    <3>1. usuarios' = conHuella(ConCodigo(f.codigo), SIN_HUELLA) /\ i \in Ids
      BY <1>6 DEF delete_huella_endpoint, conHuella, Ids
    <3>2. i \notin ConCodigo(f.codigo)
      BY <1>2, <3>1 DEF conHuella, Filas, Paginas, SIN_HUELLA
    <3>3. usuarios'[i] = usuarios[i] /\ usuarios[i].codigo # f.codigo
      BY <3>1, <3>2 DEF conHuella, ConCodigo
    <3>4. ~Sale(usuarios[i])
      BY <1>6, <3>3 DEF Sale
    <3> QED
      BY <3>1, <3>3, <3>4 DEF InvDueno, TablaConocida
  <2> QED
    BY <1>3, <2>1, <2>2
<1>7. CASE envio.ruta = "clear_all_huellas_endpoint" /\ clear_all_huellas_endpoint(h)
  <2>1. Subidas' /\ Altas'
    BY <1>1, <1>7, EscritoHilos DEF clear_all_huellas_endpoint, Directa
  <2>2. \A i \in Ids' : usuarios'[i].huella \notin Paginas
    BY <1>2, <1>7 DEF clear_all_huellas_endpoint, conHuella, Ids, Filas, Paginas, SIN_HUELLA
  <2>3. TablaConocida'
    BY <2>2 DEF TablaConocida
  <2> QED
    BY <1>3, <2>1, <2>3
<1> QED
  BY <1>4, <1>5, <1>6, <1>7 DEF atiende

\* While the lock waits or sleeps, or is served.
LEMMA ServidorDueno ==
    ASSUME ~Incidente, InvDueno, InvTipos', UNCHANGED plantillas,
           DelServidor \/ \E h \in Hilos : atiende(h)
    PROVE  InvDueno'
<1>1. Quieta
  BY DEF Quieta, DelServidor, varsCerradura, atiende
<1>2. /\ PaginasDe(copia)' /\ UnDueno(copia)' /\ EnvioConocido'
  BY <1>1 DEF Quieta, InvDueno, PaginasDe, UnDueno, EnvioConocido,
              EnvioHuella, EnFase, Marca
<1>3. TablaConocida' /\ RespuestaConocida' /\ Subidas' /\ Altas'
  <2>1. CASE \E h \in Hilos : atiende(h)
    BY <2>1, AtiendeDueno
  <2>2. CASE DelServidor
    <3>1. servida' = servida
      BY <2>2 DEF DelServidor, varsCerradura
    <3>2. CASE \E h \in Hilos : Web(h) \/ Interno(h)
      BY <1>1, <3>1, <3>2, WebDueno, InternoDueno
    <3>3. CASE reinicia \/ atrasaReloj
      BY <1>1, <3>1, <3>3, TablaIgualDueno DEF reinicia, atrasaReloj, LIBRE
    <3> QED
      BY <2>2, <3>2, <3>3 DEF DelServidor
  <2> QED
    BY <2>1, <2>2
<1> QED
  BY <1>2, <1>3 DEF InvDueno

-----------------------------------------------------------------------------
(* The lock. *)

\* Outside an upload nothing is about to leave the table, and no thread carries a page.
LEMMA FueraDeSubida ==
    ASSUME InvDueno, ~EnFase("sube")
    PROVE  /\ Conoce(copia, usuarios)
           /\ \A h \in Hilos : ~Consultado(h, "update_huella")
BY DEF InvDueno, TablaConocida, Sale, Conoce, Ids, Subidas, EnvioHuella

\* A lock that is not uploading, with a list that knows the table.
LEMMA EnReposo ==
    ASSUME ~EnFase("sube")', Conoce(copia, usuarios)',
           (\A h \in Hilos : ~Consultado(h, "update_huella"))'
    PROVE  TablaConocida' /\ EnvioConocido' /\ Subidas'
BY DEF TablaConocida, Conoce, Ids, EnvioConocido, EnvioHuella, Subidas

\* Waking up, asking, giving up: no list changes.
LEMMA EsperaDueno ==
    ASSUME ~Incidente, InvDueno, InvTipos', UNCHANGED plantillas,
           despierta \/ pideVersion \/ sincronizaManual \/ reintenta \/ falla
    PROVE  InvDueno'
<1>1. /\ ~EnFase("sube") /\ ~EnFase("sube")' /\ ~EnFase("recibe")'
      /\ UNCHANGED <<copia, varsServidor>>
  BY DEF despierta, pideVersion, sincronizaManual, reintenta, falla, EnFase, InvDueno
<1>2. TablaConocida' /\ EnvioConocido' /\ Subidas'
  BY <1>1, FueraDeSubida, EnReposo DEF varsServidor, Consultado
<1> QED
  BY <1>1, <1>2 DEF InvDueno, PaginasDe, UnDueno, RespuestaConocida, Altas,
                    AltaConHuella, Consultado, varsServidor

LEMMA RespondeDueno ==
    ASSUME ~Incidente, InvDueno, InvTipos', UNCHANGED plantillas, respondeLista
    PROVE  InvDueno'
<1>1. /\ ~EnFase("sube") /\ ~EnFase("sube")'
      /\ UNCHANGED <<copia, varsServidor>>
  BY DEF respondeLista, EnFase
<1>2. respuesta' = usuarios
  BY DEF Incidente
<1>3. TablaConocida' /\ EnvioConocido' /\ Subidas'
  BY <1>1, FueraDeSubida, EnReposo DEF varsServidor, Consultado
<1>4. RespuestaConocida'
  BY <1>1, <1>2, FueraDeSubida, ConoceSiMisma DEF RespuestaConocida, varsServidor
<1> QED
  BY <1>1, <1>3, <1>4 DEF InvDueno, PaginasDe, UnDueno, Altas, AltaConHuella, Consultado,
                          varsServidor

LEMMA AdoptaDueno ==
    ASSUME InvDueno, InvTipos', UNCHANGED plantillas, adopta
    PROVE  InvDueno'
<1>1. /\ ~EnFase("sube") /\ ~EnFase("sube")' /\ ~EnFase("recibe")'
      /\ UNCHANGED varsServidor /\ copia' = respuesta
  BY DEF adopta, guarda, EnFase
<1>2. Conoce(copia, respuesta) /\ Conoce(respuesta, usuarios)
  BY DEF InvDueno, RespuestaConocida, adopta, guarda
<1>3. PaginasDe(respuesta) /\ UnDueno(respuesta)
  BY <1>2, ConocidaBuena DEF InvDueno
<1>4. PaginasDe(copia)' /\ UnDueno(copia)'
  BY <1>1, <1>3 DEF PaginasDe
<1>5. TablaConocida' /\ EnvioConocido' /\ Subidas'
  BY <1>1, <1>2, FueraDeSubida, EnReposo DEF varsServidor, Consultado
<1> QED
  BY <1>1, <1>4, <1>5 DEF InvDueno, RespuestaConocida, Altas, AltaConHuella, Consultado,
                          varsServidor

\* The end of an upload: a deletion has been served by then.
LEMMA TerminaDueno ==
    ASSUME ~Incidente, InvDueno, InvTipos', UNCHANGED plantillas, rechaza \/ terminaSubida
    PROVE  InvDueno'
<1>1. UNCHANGED <<copia, varsServidor>> /\ EnFase("sube")
  BY DEF rechaza, terminaSubida
<1>2. PaginasDe(copia)' /\ UnDueno(copia)' /\ Altas'
  BY <1>1 DEF InvDueno, PaginasDe, UnDueno, Altas, AltaConHuella, Consultado, varsServidor
<1>3. CASE rechaza
  <2>1. UNCHANGED <<fase, envio>> /\ envio.ruta \in {"update_rfid", "update_huella"}
    BY <1>3 DEF rechaza
  <2> QED
    BY <1>1, <1>2, <2>1 DEF InvDueno, TablaConocida, Sale, Marca, Ids, RespuestaConocida,
        EnvioConocido, Subidas, MismaHuella, EnvioHuella, EnFase, Consultado, varsServidor
<1>4. CASE terminaSubida
  <2>1. \A i \in Ids : ~Sale(usuarios[i])
    BY <1>4 DEF Incidente, SubidaSinFin, Sale
  <2>2. Conoce(copia, usuarios)
    BY <2>1 DEF InvDueno, TablaConocida, Conoce, Ids
  <2>3. \A h \in Hilos : ~Consultado(h, "update_huella")
    BY <1>4 DEF Incidente, SubidaSinFin
  <2>4. ~EnFase("sube")' /\ ~EnFase("recibe")'
    BY <1>4 DEF terminaSubida, EnFase
  <2>5. TablaConocida' /\ EnvioConocido' /\ Subidas'
    BY <1>1, <2>2, <2>3, <2>4, EnReposo DEF varsServidor, Consultado
  <2> QED
    BY <1>2, <2>4, <2>5 DEF InvDueno, RespuestaConocida
<1> QED
  BY <1>3, <1>4

-----------------------------------------------------------------------------
(* Changes at the door. *)

\* The page of a user is nobody else's.
LEMMA PaginaPropia ==
    ASSUME InvDueno, NEW c, NEW i \in PrimerosCon(c), asignada(i) \in Paginas,
           NEW j \in DOMAIN copia, copia[j].huella = asignada(i)
    PROVE  copia[j].codigo = c
<1>1. i \in DOMAIN copia /\ copia[i].codigo = c
  BY DEF PrimerosCon
<1>2. CASE copia[i].huella = SIN_HUELLA
  BY <1>2, PaginaLibre DEF enUso
<1>3. CASE copia[i].huella # SIN_HUELLA
  <2>1. asignada(i) = copia[i].huella
    BY <1>3 DEF asignada
  <2> QED
    BY <1>1, <2>1 DEF InvDueno, UnDueno
<1> QED
  BY <1>2, <1>3

\* The threads and the list under way have nothing to do with a change at the door.
LEMMA EditaQuieta ==
    ASSUME InvDueno, NEW nueva, NEW p, edita(nueva, p)
    PROVE  /\ Conoce(copia, usuarios) /\ UNCHANGED varsServidor /\ copia' = nueva
           /\ EnFase("sube")' /\ envio' = p /\ servida' = 0
           /\ RespuestaConocida' /\ Subidas' /\ Altas'
<1>1. ~EnFase("sube")
  BY DEF edita, EnFase
<1>2. Conoce(copia, usuarios) /\ \A h \in Hilos : ~Consultado(h, "update_huella")
  BY <1>1, FueraDeSubida
<1> QED
  BY <1>2 DEF edita, EnFase, InvDueno, RespuestaConocida, Subidas, Altas, AltaConHuella,
              Consultado, varsServidor

LEMMA RegistraRfidDueno ==
    ASSUME InvDueno, InvTipos', UNCHANGED plantillas,
           NEW c \in Codigos, NEW r \in EdicionesRfid, registraRfid(c, r)
    PROVE  InvDueno'
<1> DEFINE p == peticion("update_rfid", 0, fila(c, r, SIN_HUELLA))
<1>1. PICK i \in PrimerosCon(c) : edita([copia EXCEPT ![i].rfid = r], p)
  BY DEF registraRfid
<1>2. p.ruta = "update_rfid"
  BY DEF peticion
<1> HIDE DEF p
<1>3. /\ Conoce(copia, usuarios) /\ UNCHANGED varsServidor
      /\ copia' = [copia EXCEPT ![i].rfid = r] /\ envio' = p
      /\ RespuestaConocida' /\ Subidas' /\ Altas'
  BY <1>1, EditaQuieta
<1>4. EsLista(copia)
  BY DEF InvDueno, InvTipos, InvSinc, Buena
<1>5. /\ DOMAIN copia' = DOMAIN copia
      /\ \A j \in DOMAIN copia : /\ copia'[j].codigo = copia[j].codigo
                                 /\ copia'[j].huella = copia[j].huella
  BY <1>3, <1>4 DEF EsLista, Filas
<1>6. PaginasDe(copia)' /\ UnDueno(copia)'
  BY <1>5 DEF InvDueno, PaginasDe, UnDueno
<1>7. TablaConocida'
  BY <1>3, <1>5 DEF TablaConocida, Conoce, Marca, Ids, varsServidor
<1>8. EnvioConocido'
  BY <1>2, <1>3 DEF EnvioConocido, EnvioHuella
<1> QED
  BY <1>3, <1>6, <1>7, <1>8 DEF InvDueno

LEMMA RegistraHuellaDueno ==
    ASSUME InvDueno, InvTipos', NEW c \in Codigos, registraHuella(c)
    PROVE  InvDueno'
<1>1. PICK i \in PrimerosCon(c) :
        /\ asignada(i) \in Paginas
        /\ edita([copia EXCEPT ![i].huella = asignada(i)],
                 pideHuella("update_huella", c, asignada(i)))
        /\ plantillas' = [plantillas EXCEPT ![asignada(i)] = c]
  BY DEF registraHuella
<1> DEFINE n == asignada(i)
           p == pideHuella("update_huella", c, n)
<1>2. p.ruta = "update_huella" /\ p.fila.codigo = c /\ p.fila.huella = n
  BY DEF pideHuella, peticion, fila
<1>3. \A j \in DOMAIN copia : copia[j].huella = n => copia[j].codigo = c
  BY <1>1, PaginaPropia
<1>4. n \in Paginas
  BY <1>1
<1>5. /\ Conoce(copia, usuarios) /\ UNCHANGED varsServidor
      /\ copia' = [copia EXCEPT ![i].huella = n] /\ envio' = p
      /\ RespuestaConocida' /\ Subidas' /\ Altas'
  BY <1>1, EditaQuieta
<1>6. /\ plantillas' = [plantillas EXCEPT ![n] = c]
      /\ plantillas \in [Paginas -> Codigos \cup {NADIE}]
  BY <1>1 DEF InvDueno, InvTipos
<1> HIDE DEF n, p
<1>7. EsLista(copia) /\ i \in DOMAIN copia /\ copia[i].codigo = c
  BY <1>1 DEF InvDueno, InvTipos, InvSinc, Buena, PrimerosCon
<1>8. /\ DOMAIN copia' = DOMAIN copia
      /\ \A j \in DOMAIN copia :
            /\ copia'[j].codigo = copia[j].codigo
            /\ copia'[j].huella = IF j = i THEN n ELSE copia[j].huella
  BY <1>5, <1>7 DEF EsLista, Filas
<1>9. UnDueno(copia)'
  BY <1>3, <1>7, <1>8 DEF InvDueno, UnDueno
<1>10. PaginasDe(copia)'
  BY <1>3, <1>4, <1>6, <1>7, <1>8 DEF InvDueno, PaginasDe
<1>11. EnvioConocido'
  BY <1>2, <1>5, <1>7, <1>8 DEF EnvioConocido, Marca
<1>12. TablaConocida'
  <2> SUFFICES ASSUME NEW k \in Ids, usuarios[k].huella \in Paginas
               PROVE  Marca(copia', usuarios[k].codigo, usuarios[k].huella)
    BY <1>5 DEF TablaConocida, Marca, Ids, varsServidor
  <2>1. PICK j \in DOMAIN copia : /\ copia[j].codigo = usuarios[k].codigo
                                  /\ copia[j].huella = usuarios[k].huella
    BY <1>5 DEF Conoce, Marca, Ids
  <2>2. CASE j # i
    BY <1>8, <2>1, <2>2 DEF Marca
  <2>3. CASE j = i
    <3>1. copia[i].huella # SIN_HUELLA
      BY <2>1, <2>3 DEF Paginas, SIN_HUELLA
    <3>2. n = copia[i].huella
      BY <3>1 DEF n, asignada
    <3> QED
      BY <1>8, <2>1, <2>3, <3>2 DEF Marca
  <2> QED
    BY <2>2, <2>3
<1> QED
  BY <1>5, <1>9, <1>10, <1>11, <1>12 DEF InvDueno

\* The entry loses its page; the rows of its PIN lose theirs when the request is served.
LEMMA BorraHuellaDueno ==
    ASSUME InvDueno, InvTipos', NEW c \in Codigos, borraHuella(c)
    PROVE  InvDueno'
<1> DEFINE p == pideHuella("delete_huella_endpoint", c, SIN_HUELLA)
<1>1. PICK i \in PrimerosCon(c) :
        /\ asignada(i) \in Paginas
        /\ edita([copia EXCEPT ![i].huella = SIN_HUELLA], p)
        /\ plantillas' = [plantillas EXCEPT ![asignada(i)] = NADIE]
  BY DEF borraHuella
<1>2. p.ruta = "delete_huella_endpoint" /\ p.fila.codigo = c
  BY DEF pideHuella, peticion, fila
<1> HIDE DEF p
<1>3. /\ Conoce(copia, usuarios) /\ UNCHANGED varsServidor
      /\ copia' = [copia EXCEPT ![i].huella = SIN_HUELLA]
      /\ EnFase("sube")' /\ envio' = p /\ servida' = 0
      /\ RespuestaConocida' /\ Subidas' /\ Altas'
  BY <1>1, EditaQuieta
<1>4. EsLista(copia) /\ i \in DOMAIN copia /\ copia[i].codigo = c
  BY <1>1 DEF InvDueno, InvTipos, InvSinc, Buena, PrimerosCon
<1>5. /\ DOMAIN copia' = DOMAIN copia
      /\ \A j \in DOMAIN copia :
            /\ copia'[j].codigo = copia[j].codigo
            /\ copia'[j].huella = IF j = i THEN SIN_HUELLA ELSE copia[j].huella
  BY <1>3, <1>4 DEF EsLista, Filas
<1>6. SIN_HUELLA \notin Paginas
  BY DEF SIN_HUELLA, Paginas
<1>7. UnDueno(copia)'
  BY <1>5, <1>6 DEF InvDueno, UnDueno
<1>8. PaginasDe(copia)'
  BY <1>1, <1>5, <1>6 DEF InvDueno, InvTipos, PaginasDe
<1>9. EnvioConocido'
  BY <1>2, <1>3 DEF EnvioConocido, EnvioHuella
<1>10. TablaConocida'
  <2> SUFFICES ASSUME NEW k \in Ids, usuarios[k].huella \in Paginas, usuarios[k].codigo # c
               PROVE  Marca(copia', usuarios[k].codigo, usuarios[k].huella)
    BY <1>2, <1>3 DEF TablaConocida, Sale, Marca, Ids, varsServidor
  <2>1. PICK j \in DOMAIN copia : /\ copia[j].codigo = usuarios[k].codigo
                                  /\ copia[j].huella = usuarios[k].huella
    BY <1>3 DEF Conoce, Marca, Ids
  <2> QED
    BY <1>4, <1>5, <2>1 DEF Marca
<1> QED
  BY <1>3, <1>7, <1>8, <1>9, <1>10 DEF InvDueno

LEMMA BorraTodasDueno ==
    ASSUME InvDueno, InvTipos', borraTodas
    PROVE  InvDueno'
<1> DEFINE p == pideHuella("clear_all_huellas_endpoint", MAESTRO, SIN_HUELLA)
           nueva == [i \in DOMAIN copia |-> [copia[i] EXCEPT !.huella = SIN_HUELLA]]
<1>1. edita(nueva, p)
  BY DEF borraTodas
<1>2. p.ruta = "clear_all_huellas_endpoint"
  BY DEF pideHuella, peticion
<1>3. \A i \in DOMAIN nueva : nueva[i].huella \notin Paginas
  BY DEF InvDueno, InvTipos, InvSinc, Buena, EsLista, Filas, Paginas, SIN_HUELLA
<1> HIDE DEF p, nueva
<1>4. /\ copia' = nueva /\ EnFase("sube")' /\ envio' = p /\ servida' = 0
      /\ RespuestaConocida' /\ Subidas' /\ Altas'
  BY <1>1, EditaQuieta
<1>5. PaginasDe(copia)' /\ UnDueno(copia)'
  BY <1>3, <1>4 DEF PaginasDe, UnDueno
<1>6. TablaConocida' /\ EnvioConocido'
  BY <1>2, <1>4 DEF TablaConocida, Sale, EnvioConocido, EnvioHuella
<1> QED
  BY <1>4, <1>5, <1>6 DEF InvDueno

\* The sensor did it and the list does not know: the page was the user's own, or free.
LEMMA SinAcuseDueno ==
    ASSUME InvDueno, InvTipos', sensorSinAcuse
    PROVE  InvDueno'
<1>1. UNCHANGED varsSinc
  BY DEF sensorSinAcuse
<1>2. PaginasDe(copia)'
  <2>1. CASE plantillas' = [n \in Paginas |-> NADIE]
    BY <1>1, <2>1 DEF PaginasDe, varsSinc, varsCerradura
  <2>2. CASE \E c \in Codigos : \E i \in PrimerosCon(c) :
               /\ asignada(i) \in Paginas
               /\ \E d \in {c, NADIE} : plantillas' = [plantillas EXCEPT ![asignada(i)] = d]
    <3>1. PICK c \in Codigos : \E i \in PrimerosCon(c) :
               /\ asignada(i) \in Paginas
               /\ \E d \in {c, NADIE} : plantillas' = [plantillas EXCEPT ![asignada(i)] = d]
      BY <2>2
    <3>2. PICK i \in PrimerosCon(c) :
               /\ asignada(i) \in Paginas
               /\ \E d \in {c, NADIE} : plantillas' = [plantillas EXCEPT ![asignada(i)] = d]
      BY <3>1
    <3>3. \A j \in DOMAIN copia : copia[j].huella = asignada(i) => copia[j].codigo = c
      BY <3>2, PaginaPropia
    <3> QED
      BY <1>1, <3>2, <3>3 DEF InvDueno, InvTipos, PaginasDe, varsSinc,
                              varsCerradura
  <2> QED
    BY <2>1, <2>2 DEF sensorSinAcuse
<1> QED
  BY <1>1, <1>2 DEF InvDueno, UnDueno, TablaConocida, RespuestaConocida, EnvioConocido,
     Subidas, MismaHuella, Altas, AltaConHuella, Sale, Conoce, Marca, EnvioHuella, EnFase,
     Consultado, Ids, varsSinc, varsServidor, varsCerradura

-----------------------------------------------------------------------------

LEMMA SincDueno ==
    ASSUME ~Incidente, InvDueno, InvTipos', UNCHANGED plantillas, SincNext
    PROVE  InvDueno'
<1>1. CASE DelServidor \/ \E h \in Hilos : atiende(h)
  BY <1>1, ServidorDueno
<1>2. CASE despierta \/ pideVersion \/ sincronizaManual \/ reintenta \/ falla
  BY <1>2, EsperaDueno
<1>3. CASE respondeLista
  BY <1>3, RespondeDueno
<1>4. CASE adopta
  BY <1>4, AdoptaDueno
<1>5. CASE rechaza \/ terminaSubida
  BY <1>5, TerminaDueno
<1>6. CASE \E c \in Codigos, r \in EdicionesRfid : registraRfid(c, r)
  BY <1>6, RegistraRfidDueno
<1>7. ~leeRezagada /\ ~adoptaMezcla /\ ~reset
  BY DEF Incidente
<1> QED
  BY <1>1, <1>2, <1>3, <1>4, <1>5, <1>6, <1>7 DEF SincNext, Intercambio

\* The invariant of the second part, in every state.
InvHastaIncidente == InvTipos /\ (~incidente => InvDueno)

LEMMA DuenoPaso ==
    ASSUME InvHastaIncidente, [HuellasNext]_varsHuellas
    PROVE  InvHastaIncidente'
<1>1. InvTipos'
  BY HuellasPaso DEF InvHastaIncidente
<1> SUFFICES ASSUME ~incidente' PROVE InvDueno'
  BY <1>1 DEF InvHastaIncidente
<1>2. CASE SincNext /\ UNCHANGED plantillas /\ incidente' = (incidente \/ Incidente)
  <2>1. ~incidente /\ ~Incidente
    BY <1>2
  <2> QED
    BY <1>1, <1>2, <2>1, SincDueno DEF InvHastaIncidente
<1>3. CASE \E c \in Codigos : registraHuella(c) \/ borraHuella(c)
  <2>1. ~incidente
    BY <1>3 DEF registraHuella, borraHuella
  <2> QED
    BY <1>1, <1>3, <2>1, RegistraHuellaDueno, BorraHuellaDueno DEF InvHastaIncidente
<1>4. CASE borraTodas \/ sensorSinAcuse
  <2>1. ~incidente
    BY <1>4 DEF borraTodas, sensorSinAcuse
  <2> QED
    BY <1>1, <1>4, <2>1, BorraTodasDueno, SinAcuseDueno DEF InvHastaIncidente
<1>5. CASE UNCHANGED varsHuellas
  <2>1. InvDueno
    BY <1>5 DEF InvHastaIncidente, varsHuellas
  <2> QED
    BY <1>1, <1>5, <2>1 DEF InvDueno, PaginasDe, UnDueno, TablaConocida, RespuestaConocida,
       EnvioConocido, Subidas, MismaHuella, Altas, AltaConHuella, Sale, Conoce, Marca,
       EnvioHuella, EnFase, Consultado, Ids, varsHuellas, varsSinc, varsServidor,
       varsCerradura
<1> QED
  BY <1>2, <1>3, <1>4, <1>5 DEF HuellasNext

LEMMA DuenoInicio == HuellasInit => InvHastaIncidente
<1> SUFFICES ASSUME HuellasInit PROVE InvTipos /\ InvDueno
  BY DEF InvHastaIncidente
<1>1. InvTipos
  BY HuellasInicio
<1>2. PaginasDe(copia) /\ UnDueno(copia)
  BY HuellasAssumption DEF HuellasInit, SincInit, PaginasDe
<1>3. TablaConocida
  BY DEF HuellasInit, SincInit, ServidorInit, TablaConocida, Ids, fila, SIN_HUELLA, Paginas
<1>4. RespuestaConocida /\ EnvioConocido
  BY DEF HuellasInit, SincInit, RespuestaConocida, EnvioConocido, EnvioHuella, EnFase
<1>5. Subidas /\ Altas
  BY DEF HuellasInit, SincInit, ServidorInit, Subidas, Altas, AltaConHuella, Consultado, LIBRE
<1> QED
  BY <1>1, <1>2, <1>3, <1>4, <1>5 DEF InvDueno

\* Whoever the list greets for a page is the person whose finger is on it, for any
\* number of users, pages and threads and with every fault of the network, the sensor,
\* the server and the board, until one of the events of Incidente happens: nothing else
\* can put a finger under another name (validacion.c:236-252, MEF.c:584-588, 633-637,
\* 816-851).
THEOREM HuellaSiempreDeSuDueno == HuellasSpec => []HuellaDeSuDueno
<1>1. InvHastaIncidente /\ [HuellasNext]_varsHuellas => InvHastaIncidente'
  BY DuenoPaso
<1>2. InvHastaIncidente => HuellaDeSuDueno
  BY DEF InvHastaIncidente, InvDueno, HuellaDeSuDueno
<1> QED
  BY <1>1, <1>2, DuenoInicio, PTL DEF HuellasSpec

=============================================================================
