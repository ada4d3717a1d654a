------------------------ MODULE SincronizacionProofs ------------------------
(***************************************************************************)
(* Theorems about Sincronizacion.                                          *)
(*                                                                         *)
(* The first part proves the types and that the administrator is the       *)
(* master, with every fault of the network, the clock and the board.  The  *)
(* second proves Actualizada for a clock that is not set back and lists    *)
(* that arrive whole, from an invariant that relates the times to the      *)
(* lists: what was downloaded under the time the clock shows is the table  *)
(* of the server, unless some thread has yet to read the clock.  The third *)
(* proves that lock and server implement ListaReplicada, late and joined   *)
(* answers included.                                                       *)
(***************************************************************************)
EXTENDS Sincronizacion, ServidorProofs

-----------------------------------------------------------------------------
(* Part 1: types. *)

\* a list of rows that begins with the master's
Buena(l) == EsLista(l) /\ 1 \in DOMAIN l

InvSinc ==
    /\ SincTypeOK
    /\ InvServidor
    /\ Buena(copia) /\ Buena(respuesta)
    /\ \A l \in rezagadas : Buena(l)

LEMMA ImagenBuena == Buena(Imagen)
BY SincronizacionAssumption DEF Buena

\* What arrives of a list that begins with the master begins with the master.
LEMMA PrefijoBueno ==
    ASSUME NEW t, Buena(t), NEW n \in Nat \ {0}
    PROVE  Buena(prefijo(t, n))
<1>1. DOMAIN t \subseteq Nat \ {0} /\ 1 \in DOMAIN t
  BY DEF Buena, EsLista
<1>2. posicion(t, 1) = 1
  BY <1>1, PrimeroEsUno
<1> QED
  BY <1>1, <1>2 DEF Buena, EsLista, prefijo

LEMMA TablaBuena ==
    ASSUME InvServidor
    PROVE  Buena(usuarios)
BY DEF InvServidor, ServidorTypeOK, Ids, Buena, EsLista

LEMMA RecibidasBuenas ==
    ASSUME InvServidor, NEW l \in recibidas(sync_pins)
    PROVE  Buena(l)
BY TablaBuena, PrefijoBueno, SincronizacionAssumption DEF recibidas, recibida, sync_pins

\* Two lists in one buffer are a list too, and it begins like the first of them.
LEMMA UnidaBuena ==
    ASSUME InvServidor, NEW l, NEW m, Buena(l), Buena(m)
    PROVE  Buena(unida(l, m))
<1>1. siguienteId \in Nat
  BY DEF InvServidor, ServidorTypeOK
<1>2. DOMAIN unida(l, m) = DOMAIN l \cup {siguienteId + j : j \in DOMAIN m}
  BY DEF unida
<1>3. \A i \in DOMAIN unida(l, m) : i \in Nat \ {0} /\ unida(l, m)[i] \in Filas
  <2> SUFFICES ASSUME NEW i \in DOMAIN unida(l, m)
               PROVE  i \in Nat \ {0} /\ unida(l, m)[i] \in Filas
    OBVIOUS
  <2>1. CASE i \in DOMAIN l
    BY <1>2, <2>1 DEF unida, Buena, EsLista
  <2>2. CASE i \notin DOMAIN l
    <3>1. PICK j \in DOMAIN m : i = siguienteId + j
      BY <1>2, <2>2
    <3>2. j \in Nat \ {0} /\ m[j] \in Filas
      BY DEF Buena, EsLista
    <3>3. i - siguienteId = j /\ i \in Nat \ {0}
      BY <1>1, <3>1, <3>2
    <3> QED
      BY <1>2, <2>2, <3>2, <3>3 DEF unida
  <2> QED
    BY <2>1, <2>2
<1>4. unida(l, m) = [i \in DOMAIN unida(l, m) |-> unida(l, m)[i]]
  BY DEF unida
<1> QED
  BY <1>2, <1>3, <1>4 DEF Buena, EsLista

LEMMA MezclaBuena ==
    ASSUME InvServidor, NEW l, NEW m, Buena(l), Buena(m), NEW x \in recibidas(unida(l, m))
    PROVE  Buena(x)
BY UnidaBuena, PrefijoBueno, SincronizacionAssumption DEF recibidas, recibida

\* A step of the server alone.
LEMMA DelServidorInv ==
    ASSUME InvSinc, DelServidor
    PROVE  InvSinc'
<1>1. InvServidor'
  BY WebPaso, InternoPaso, RelojPaso DEF InvSinc, DelServidor, Paso
<1> QED
  BY <1>1 DEF InvSinc, InvServidor, SincTypeOK, DelServidor, varsCerradura, Buena, EsLista

\* A step of the lock that leaves the server alone.
LEMMA ServidorIgual ==
    ASSUME InvSinc, UNCHANGED varsServidor
    PROVE  InvServidor'
BY DEF InvSinc, InvServidor, ServidorTypeOK, varsServidor, Ids

LEMMA GuardaInv ==
    ASSUME InvSinc, NEW nueva, Buena(nueva), guarda(nueva), \A l \in rezagadas' : Buena(l)
    PROVE  InvSinc'
<1>1. InvServidor' /\ ServidorTypeOK'
  BY ServidorIgual DEF guarda, InvServidor
<1>2. editada' \in BOOLEAN /\ fase' \in Fases /\ envio' \in Peticiones \cup {NADA}
  BY DEF guarda, Fases, InvSinc, SincTypeOK
<1>3. servida' \in 0..2
  BY DEF guarda
<1>4. ultimaVersionConocida' \in Nat /\ versionServer' \in Nat
  BY DEF guarda, SIN_VERSION, InvSinc, SincTypeOK
<1>5. Buena(copia') /\ Buena(respuesta')
  BY ImagenBuena DEF guarda
<1> QED
  BY <1>1, <1>2, <1>3, <1>4, <1>5 DEF InvSinc, SincTypeOK, Buena

LEMMA IntercambioInv ==
    ASSUME InvSinc,
           despierta \/ pideVersion \/ sincronizaManual \/ respondeLista \/ leeRezagada
               \/ reintenta \/ adopta \/ adoptaMezcla \/ falla \/ reset
    PROVE  InvSinc'
<1>1. UNCHANGED varsServidor
  BY DEF despierta, pideVersion, sincronizaManual, respondeLista, leeRezagada, reintenta,
         adopta, adoptaMezcla, guarda, falla, reset
<1>2. InvServidor'
  BY <1>1, ServidorIgual
<1>3. ServidorTypeOK'
  BY <1>2 DEF InvServidor
<1> USE DEF InvSinc, SincTypeOK, Buena, EnFase, Fases, SIN_VERSION
<1>4. CASE despierta
  BY <1>2, <1>3, <1>4 DEF despierta, EsLista
<1>5. CASE pideVersion
  BY <1>2, <1>3, <1>5 DEF pideVersion, EsLista, check_status, InvServidor, ServidorTypeOK
<1>6. CASE sincronizaManual
  BY <1>2, <1>3, <1>6 DEF sincronizaManual, EsLista
<1>7. CASE respondeLista
  <2>1. Buena(respuesta')
    BY <1>7, RecibidasBuenas DEF respondeLista
  <2> QED
    BY <1>2, <1>3, <1>7, <2>1 DEF respondeLista, EsLista
<1>8. CASE leeRezagada
  <2>1. Buena(respuesta')
    BY <1>8 DEF leeRezagada
  <2>2. \A l \in rezagadas' : Buena(l)
    BY <1>8, RecibidasBuenas DEF leeRezagada
  <2> QED
    BY <1>2, <1>3, <1>8, <2>1, <2>2 DEF leeRezagada, EsLista
<1>9. CASE adopta
  BY <1>9, GuardaInv DEF adopta
<1>10. CASE falla
  <2>1. \A l \in rezagadas' : Buena(l)
    BY <1>10 DEF falla, Demoradas
  <2> QED
    BY <1>2, <1>3, <1>10, <2>1, ImagenBuena DEF falla, EsLista
<1>12. CASE reintenta
  <2>1. \A l \in rezagadas' : Buena(l)
    BY <1>12 DEF reintenta, Demoradas
  <2> QED
    BY <1>2, <1>3, <1>12, <2>1, ImagenBuena DEF reintenta, EsLista
<1>13. CASE adoptaMezcla
  <2>1. PICK l \in rezagadas :
          \E nueva \in recibidas(unida(l, respuesta)) \cup recibidas(unida(respuesta, l)) :
              guarda(nueva)
    BY <1>13 DEF adoptaMezcla
  <2>2. PICK nueva \in recibidas(unida(l, respuesta)) \cup recibidas(unida(respuesta, l)) :
              guarda(nueva)
    BY <2>1
  <2>3. Buena(nueva)
    BY <2>2, MezclaBuena
  <2>4. rezagadas' = {}
    BY <1>13 DEF adoptaMezcla
  <2> QED
    BY <2>2, <2>3, <2>4, GuardaInv
<1>11. CASE reset
  <2>1. editada' \in BOOLEAN /\ fase' \in Fases /\ envio' \in Peticiones \cup {NADA}
    BY <1>11 DEF reset
  <2>2. servida' \in 0..2
    BY <1>11 DEF reset
  <2>3. ultimaVersionConocida' \in Nat /\ versionServer' \in Nat
    BY <1>11 DEF reset
  <2>4. /\ Buena(copia') /\ Buena(respuesta')
        /\ \A l \in rezagadas' : Buena(l)
    BY <1>11, ImagenBuena DEF reset
  <2> QED
    BY <1>2, <1>3, <2>1, <2>2, <2>3, <2>4
<1> QED
  BY <1>4, <1>5, <1>6, <1>7, <1>8, <1>9, <1>10, <1>11, <1>12, <1>13

LEMMA RegistraInv ==
    ASSUME InvSinc, NEW c \in Codigos, NEW r \in EdicionesRfid, registraRfid(c, r)
    PROVE  InvSinc'
<1>1. InvServidor' /\ ServidorTypeOK'
  BY ServidorIgual DEF registraRfid, edita, InvServidor
<1>2. PICK i \in PrimerosCon(c) :
        edita([copia EXCEPT ![i].rfid = r], peticion("update_rfid", 0, fila(c, r, SIN_HUELLA)))
  BY DEF registraRfid
<1>3. Buena([copia EXCEPT ![i].rfid = r])
  BY SincronizacionAssumption DEF InvSinc, Buena, EsLista, Filas, PrimerosCon
<1>4. peticion("update_rfid", 0, fila(c, r, SIN_HUELLA)) \in Peticiones
  BY SincronizacionAssumption
     DEF peticion, fila, Peticiones, Filas, RutasConSelect, SIN_HUELLA
<1> QED
  BY <1>1, <1>2, <1>3, <1>4 DEF InvSinc, SincTypeOK, Buena, edita, Fases

\* The request of the lock as the server sees it.
LEMMA AtiendePaso ==
    ASSUME InvSinc, NEW h \in Hilos, atiende(h)
    PROVE  Paso
<1>1. envio \in Peticiones
  BY DEF InvSinc, SincTypeOK, atiende, NADA, peticion
<1>2. /\ envio.fila.codigo \in Codigos
      /\ envio.fila.rfid \in Tarjetas \cup {SIN_TARJETA}
      /\ envio.fila.huella \in Nat
  BY <1>1 DEF Peticiones, Filas
<1>3. InvServidor
  BY DEF InvSinc
<1> QED
  BY <1>2, <1>3, ActualizaApiPaso, BorraHuellaPaso DEF atiende

LEMMA SubidaInv ==
    ASSUME InvSinc, (\E h \in Hilos : atiende(h)) \/ rechaza \/ terminaSubida
    PROVE  InvSinc'
<1> USE DEF InvSinc, SincTypeOK, Buena
<1>1. CASE \E h \in Hilos : atiende(h)
  <2>1. PICK h \in Hilos : atiende(h)
    BY <1>1
  <2>2. InvServidor' /\ ServidorTypeOK'
    BY <2>1, AtiendePaso DEF Paso, InvServidor
  <2>3. servida' \in 0..2
    BY <2>1 DEF atiende, envios
  <2> QED
    BY <2>1, <2>2, <2>3 DEF atiende
<1>2. CASE rechaza
  <2>1. InvServidor' /\ ServidorTypeOK'
    BY <1>2, ServidorIgual DEF rechaza, InvServidor
  <2>2. servida' \in 0..2
    BY <1>2 DEF rechaza, envios
  <2> QED
    BY <1>2, <2>1, <2>2 DEF rechaza
<1>3. CASE terminaSubida
  <2>1. InvServidor' /\ ServidorTypeOK'
    BY <1>3, ServidorIgual DEF terminaSubida, InvServidor
  <2> QED
    BY <1>3, <2>1 DEF terminaSubida, Fases
<1> QED
  BY <1>1, <1>2, <1>3

LEMMA SincPaso ==
    ASSUME InvSinc, [SincNext]_varsSinc
    PROVE  InvSinc'
<1>1. CASE DelServidor
  BY <1>1, DelServidorInv
<1>2. CASE \/ despierta \/ Intercambio \/ leeRezagada \/ sincronizaManual \/ reintenta
           \/ adoptaMezcla \/ falla \/ reset
  BY <1>2, IntercambioInv DEF Intercambio
<1>3. CASE \E c \in Codigos, r \in EdicionesRfid : registraRfid(c, r)
  BY <1>3, RegistraInv
<1>4. CASE (\E h \in Hilos : atiende(h)) \/ rechaza \/ terminaSubida
  BY <1>4, SubidaInv
<1>5. CASE UNCHANGED varsSinc
  BY <1>5 DEF InvSinc, SincTypeOK, InvServidor, ServidorTypeOK, Ids, Buena, varsSinc,
              varsServidor, varsCerradura
<1> QED
  BY <1>1, <1>2, <1>3, <1>4, <1>5 DEF SincNext

LEMMA SincInicio == SincInit => InvSinc
<1> SUFFICES ASSUME SincInit PROVE InvSinc
  OBVIOUS
<1>1. InvServidor /\ ServidorTypeOK
  BY ServidorInicio DEF SincInit, InvServidor
<1>2. Buena(copia) /\ Buena(respuesta) /\ \A l \in rezagadas : Buena(l) /\ EsLista(l)
  BY ImagenBuena DEF SincInit
<1>3. editada \in BOOLEAN /\ fase \in Fases /\ envio \in Peticiones \cup {NADA}
  BY DEF SincInit, Fases
<1>4. servida \in 0..2
  BY DEF SincInit
<1>5. ultimaVersionConocida \in Nat /\ versionServer \in Nat
  BY DEF SincInit, SIN_VERSION
<1> QED
  BY <1>1, <1>2, <1>3, <1>4, <1>5 DEF InvSinc, SincTypeOK, Buena

\* The invariant of every state of the lock and the server.
THEOREM SincInvariante == SincSpec => []InvSinc
<1>1. InvSinc /\ [SincNext]_varsSinc => InvSinc'
  BY SincPaso
<1> QED
  BY <1>1, SincInicio, PTL DEF SincSpec

\* Types are kept by every exchange, every failure and every reset.
THEOREM SincTipos == SincSpec => []SincTypeOK
<1>1. InvSinc => SincTypeOK
  BY DEF InvSinc
<1> QED
  BY <1>1, SincInvariante, PTL

\* Whatever is cut, late, lost, set back or started over, the first entry of the
\* lock's list is the master's row (validacion.c:351, server.py:54).
THEOREM AdministradorSiempreMaestro == SincSpec => []AdministradorEsMaestro
<1>1. InvSinc => AdministradorEsMaestro
  BY DEF InvSinc, Buena, AdministradorEsMaestro
<1> QED
  BY <1>1, SincInvariante, PTL

-----------------------------------------------------------------------------
(* Part 2: Actualizada. *)

\* No time is later than the clock, and the clock shows a time.
Tiempos ==
    /\ SIN_VERSION < reloj
    /\ ultimaVersionConocida <= reloj
    /\ versionServer <= reloj
    /\ LAST_UPDATE_TIME <= reloj
    /\ \A h \in Hilos : hilos[h].hora <= reloj

\* A list noted, or about to be noted, under the time the clock shows is the table.
Listas ==
    /\ ultimaVersionConocida = reloj /\ ~CambioSinHora =>
          /\ ~editada => Repite(copia, recibida(usuarios))
          /\ fase = "recibe" => respuesta = recibida(usuarios)
          /\ \A l \in rezagadas : l = recibida(usuarios)
    /\ versionServer = reloj /\ ~CambioSinHora =>
          /\ fase = "recibe" => respuesta = recibida(usuarios)
          /\ \A l \in rezagadas : l = recibida(usuarios)

\* A list that comes late on a wake-up was asked for after the time was read.
Rezagadas == fase = "despierta" => rezagadas = {}

InvActualizada == InvSinc /\ Tiempos /\ Listas /\ Rezagadas

\* What a step of the server does to the table and the clock: nothing; or a change
\* that waits for its time; or a new time.
PasoReloj ==
    /\ LAST_UPDATE_TIME' <= reloj' /\ \A h \in Hilos : hilos'[h].hora <= reloj'
    /\ \/ usuarios' = usuarios /\ reloj' = reloj /\ (~CambioSinHora' => ~CambioSinHora)
       \/ reloj' = reloj /\ CambioSinHora'
       \/ reloj' = reloj + 1

LEMMA ConsultaReloj ==
    ASSUME InvServidor, Tiempos, NEW h \in Hilos, NEW p, Consulta(h, p)
    PROVE  PasoReloj
BY DEF InvServidor, ServidorTypeOK, Tiempos, Consulta, PasoReloj, CambioSinHora, LIBRE

LEMMA EscritoReloj ==
    ASSUME InvServidor, Tiempos, NEW h \in Hilos, Escrito(h)
    PROVE  PasoReloj
BY DEF InvServidor, ServidorTypeOK, Tiempos, Escrito, PasoReloj, CambioSinHora

LEMMA InternoReloj ==
    ASSUME InvServidor, Tiempos, NEW h \in Hilos, Interno(h)
    PROVE  PasoReloj
<1>1. CASE insertaUsuario(h) \/ actualizaFila(h)
  BY <1>1, EscritoReloj DEF insertaUsuario, actualizaFila
<1>2. CASE escrituraFalla(h)
  BY <1>2 DEF escrituraFalla, InvServidor, ServidorTypeOK, Tiempos, PasoReloj,
              CambioSinHora, LIBRE
<1>3. CASE leeHora(h)
  BY <1>3, HoraTipo DEF leeHora, InvServidor, ServidorTypeOK, Tiempos, PasoReloj
<1>4. CASE notificar_cambio(h)
  BY <1>4 DEF notificar_cambio, InvServidor, ServidorTypeOK, Tiempos, PasoReloj,
              CambioSinHora, LIBRE
<1> QED
  BY <1>1, <1>2, <1>3, <1>4 DEF Interno

LEMMA WebReloj ==
    ASSUME InvServidor, Tiempos, NEW h \in Hilos, Web(h)
    PROVE  PasoReloj
<1>1. (\E p : Consulta(h, p)) \/ Escrito(h)
  BY DEF Web, panel_admin, delete_user, delete_rfid, update_admin_pin, Directa
<1> QED
  BY <1>1, ConsultaReloj, EscritoReloj

LEMMA AtiendeReloj ==
    ASSUME InvServidor, Tiempos, NEW h \in Hilos, atiende(h)
    PROVE  PasoReloj
<1>1. (\E p : Consulta(h, p)) \/ Escrito(h)
  BY DEF atiende, update_rfid, update_huella, delete_huella_endpoint,
         clear_all_huellas_endpoint, Directa
<1> QED
  BY <1>1, ConsultaReloj, EscritoReloj

LEMMA ReiniciaReloj ==
    ASSUME InvServidor, Tiempos, reinicia
    PROVE  PasoReloj
BY DEF InvServidor, ServidorTypeOK, Tiempos, reinicia, PasoReloj, LIBRE

\* While the lock stands still, a step of the server keeps the invariant: a change
\* makes the conclusion void until its time is read, and then no list is that new.
LEMMA CerraduraQuieta ==
    ASSUME InvActualizada, PasoReloj, reloj \in Nat, reloj' \in Nat,
           UNCHANGED <<copia, editada, ultimaVersionConocida, versionServer, fase,
                       respuesta, rezagadas>>
    PROVE  Tiempos' /\ Listas' /\ Rezagadas'
<1>1. ultimaVersionConocida \in Nat /\ versionServer \in Nat
  BY DEF InvActualizada, InvSinc, SincTypeOK
<1>2. Tiempos'
  BY <1>1 DEF InvActualizada, Tiempos, PasoReloj, SIN_VERSION
<1>3. Rezagadas'
  BY DEF InvActualizada, Rezagadas
<1>4. CASE usuarios' = usuarios /\ reloj' = reloj /\ (~CambioSinHora' => ~CambioSinHora)
  <2>1. recibida(usuarios') = recibida(usuarios)
    BY <1>4
  <2> QED
    BY <1>2, <1>3, <1>4, <2>1 DEF InvActualizada, Listas
<1>5. CASE reloj' = reloj /\ CambioSinHora'
  BY <1>2, <1>3, <1>5 DEF Listas
<1>6. CASE reloj' = reloj + 1
  <2>1. ultimaVersionConocida' # reloj' /\ versionServer' # reloj'
    BY <1>1, <1>6 DEF InvActualizada, Tiempos
  <2> QED
    BY <1>2, <1>3, <2>1 DEF Listas
<1> QED
  BY <1>4, <1>5, <1>6 DEF PasoReloj

LEMMA ServidorActualizada ==
    ASSUME ~RETROCEDE, InvActualizada, InvSinc',
           DelServidor \/ \E h \in Hilos : atiende(h)
    PROVE  InvActualizada'
<1>1. InvServidor /\ Tiempos /\ reloj \in Nat /\ reloj' \in Nat
  BY DEF InvActualizada, InvSinc, InvServidor, ServidorTypeOK
<1>2. PasoReloj
  BY <1>1, WebReloj, InternoReloj, ReiniciaReloj, AtiendeReloj DEF DelServidor, atrasaReloj
<1>3. UNCHANGED <<copia, editada, ultimaVersionConocida, versionServer, fase,
                  respuesta, rezagadas>>
  BY DEF DelServidor, varsCerradura, atiende
<1> QED
  BY <1>1, <1>2, <1>3, CerraduraQuieta DEF InvActualizada

\* Whole lists.
LEMMA RespuestaEntera ==
    ASSUME ~CORTA, NEW l \in recibidas(sync_pins)
    PROVE  l = recibida(usuarios)
BY DEF recibidas, sync_pins

\* A list that arrives twice in one buffer says what it says once.
LEMMA DosVecesLoMismo ==
    ASSUME InvServidor
    PROVE  LET R == recibida(usuarios) IN Repite(R, R) /\ Repite(recibida(unida(R, R)), R)
<1> DEFINE R == recibida(usuarios)
           u == unida(R, R)
<1>1. /\ siguienteId \in Nat /\ DOMAIN usuarios \subseteq 1..(siguienteId - 1)
      /\ CABEN \in Nat \ {0}
  BY SincronizacionAssumption DEF InvServidor, ServidorTypeOK, Ids
<1>2. DOMAIN R = {j \in DOMAIN usuarios : posicion(usuarios, j) <= CABEN}
  BY DEF recibida, prefijo
<1>3. DOMAIN R \subseteq 1..(siguienteId - 1)
  BY <1>1, <1>2
<1>4. DOMAIN u = DOMAIN R \cup {siguienteId + j : j \in DOMAIN R}
  BY DEF unida
<1>5. \A i \in DOMAIN u : u[i] = IF i \in DOMAIN R THEN R[i] ELSE R[i - siguienteId]
  BY DEF unida
<1> HIDE DEF R, u
<1>6. /\ DOMAIN recibida(u) = {j \in DOMAIN u : posicion(u, j) <= CABEN}
      /\ \A i \in DOMAIN recibida(u) : recibida(u)[i] = u[i]
  BY DEF recibida, prefijo
<1>7. ASSUME NEW i \in DOMAIN R PROVE i \in DOMAIN recibida(u)
  <2>1. i \in 1..(siguienteId - 1)
    BY <1>3
  <2>2. {j \in DOMAIN u : j <= i} = {j \in DOMAIN R : j <= i}
    BY <1>1, <1>3, <1>4, <2>1
  <2>3. {j \in DOMAIN R : j <= i} \subseteq {j \in DOMAIN usuarios : j <= i}
    BY <1>2
  <2>4. IsFiniteSet({j \in DOMAIN usuarios : j <= i})
    <3>1. {j \in DOMAIN usuarios : j <= i} \subseteq 1..i
      BY <1>1, <2>1
    <3>2. IsFiniteSet(1..i)
      BY <2>1, FS_Interval
    <3> QED
      BY <3>1, <3>2, FS_Subset
  <2>5. /\ Cardinality({j \in DOMAIN R : j <= i})
              <= Cardinality({j \in DOMAIN usuarios : j <= i})
        /\ Cardinality({j \in DOMAIN R : j <= i}) \in Nat
        /\ Cardinality({j \in DOMAIN usuarios : j <= i}) \in Nat
    BY <2>3, <2>4, FS_Subset, FS_CardinalityType
  <2>6. Cardinality({j \in DOMAIN usuarios : j <= i}) <= CABEN
    BY <1>2 DEF posicion
  <2>7. Cardinality({j \in DOMAIN R : j <= i}) <= CABEN
    BY <1>1, <2>5, <2>6
  <2>8. posicion(u, i) <= CABEN
    BY <2>2, <2>7 DEF posicion
  <2> QED
    BY <1>4, <1>6, <2>8
<1>8. ASSUME NEW i \in DOMAIN recibida(u) \ DOMAIN R
      PROVE  (\A j \in DOMAIN R : j < i) /\ \E j \in DOMAIN R : recibida(u)[i] = R[j]
  <2>1. PICK k \in DOMAIN R : i = siguienteId + k
    BY <1>4, <1>6
  <2>2. i - siguienteId = k /\ \A j \in DOMAIN R : j < i
    BY <1>1, <1>3, <2>1
  <2> QED
    BY <1>5, <1>6, <2>2
<1>9. \A i \in DOMAIN R : recibida(u)[i] = R[i]
  BY <1>4, <1>5, <1>6, <1>7
<1> QED
  BY <1>7, <1>8, <1>9 DEF Repite, R, u

LEMMA CerraduraActualizada ==
    ASSUME ~CORTA, InvActualizada, InvSinc', UNCHANGED varsServidor,
           \/ despierta \/ pideVersion \/ sincronizaManual \/ respondeLista \/ leeRezagada
           \/ reintenta \/ adopta \/ adoptaMezcla \/ falla \/ reset \/ rechaza \/ terminaSubida
           \/ \E c \in Codigos, r \in EdicionesRfid : registraRfid(c, r)
    PROVE  InvActualizada'
<1>1. /\ ultimaVersionConocida \in Nat /\ versionServer \in Nat
      /\ reloj \in Nat /\ LAST_UPDATE_TIME \in Nat
  BY DEF InvActualizada, InvSinc, SincTypeOK, ServidorTypeOK
<1>2. /\ recibida(usuarios') = recibida(usuarios) /\ CambioSinHora' = CambioSinHora
      /\ UNCHANGED <<reloj, LAST_UPDATE_TIME, hilos>>
  BY DEF varsServidor, CambioSinHora
<1> USE DEF InvActualizada, Tiempos, Listas, Rezagadas, EnFase, SIN_VERSION
<1>3. CASE despierta
  BY <1>1, <1>2, <1>3 DEF despierta
<1>4. CASE pideVersion
  BY <1>1, <1>2, <1>4 DEF pideVersion, check_status
<1>5. CASE sincronizaManual
  BY <1>1, <1>2, <1>5 DEF sincronizaManual
<1>6. CASE respondeLista
  <2>1. respuesta' = recibida(usuarios)
    BY <1>6, RespuestaEntera DEF respondeLista
  <2> QED
    BY <1>1, <1>2, <1>6, <2>1 DEF respondeLista
<1>7. CASE leeRezagada
  <2>1. respuesta' \in rezagadas /\ \A l \in rezagadas' : l = recibida(usuarios)
    BY <1>7, RespuestaEntera DEF leeRezagada
  <2> QED
    BY <1>1, <1>2, <1>7, <2>1 DEF leeRezagada
<1>8. CASE adopta
  <2>1. respuesta = recibida(usuarios) => Repite(respuesta, recibida(usuarios))
    BY DosVecesLoMismo DEF InvSinc
  <2> QED
    BY <1>1, <1>2, <1>8, <2>1 DEF adopta, guarda
<1>9. CASE falla
  <2>1. \A l \in rezagadas' : l \in rezagadas \/ (l = respuesta /\ fase = "recibe")
    BY <1>9 DEF falla, Demoradas
  <2> QED
    BY <1>1, <1>2, <1>9, <2>1 DEF falla
<1>13. CASE reintenta
  <2>1. \A l \in rezagadas' : l \in rezagadas \/ (l = respuesta /\ fase = "recibe")
    BY <1>13 DEF reintenta, Demoradas
  <2> QED
    BY <1>1, <1>2, <1>13, <2>1 DEF reintenta
<1>14. CASE adoptaMezcla
  <2>1. PICK l \in rezagadas :
          \E nueva \in recibidas(unida(l, respuesta)) \cup recibidas(unida(respuesta, l)) :
              guarda(nueva)
    BY <1>14 DEF adoptaMezcla
  <2>2. PICK nueva \in recibidas(unida(l, respuesta)) \cup recibidas(unida(respuesta, l)) :
              guarda(nueva)
    BY <2>1
  <2>3. ASSUME l = recibida(usuarios), respuesta = recibida(usuarios)
        PROVE  Repite(nueva, recibida(usuarios))
    <3>1. nueva = recibida(unida(recibida(usuarios), recibida(usuarios)))
      BY <2>2, <2>3 DEF recibidas
    <3> QED
      BY <3>1, DosVecesLoMismo DEF InvSinc
  <2>4. rezagadas' = {}
    BY <1>14 DEF adoptaMezcla
  <2> QED
    BY <1>1, <1>2, <2>2, <2>3, <2>4 DEF guarda
<1>10. CASE reset
  BY <1>1, <1>2, <1>10 DEF reset
<1>11. CASE rechaza \/ terminaSubida
  BY <1>1, <1>2, <1>11 DEF rechaza, terminaSubida
<1>12. CASE \E c \in Codigos, r \in EdicionesRfid : registraRfid(c, r)
  BY <1>1, <1>2, <1>12 DEF registraRfid, edita
<1> QED
  BY <1>3, <1>4, <1>5, <1>6, <1>7, <1>8, <1>9, <1>10, <1>11, <1>12, <1>13, <1>14

LEMMA ActualizadaPaso ==
    ASSUME ~RETROCEDE, ~CORTA, InvActualizada, [SincNext]_varsSinc
    PROVE  InvActualizada'
<1>1. InvSinc'
  BY SincPaso DEF InvActualizada
<1>2. CASE DelServidor \/ \E h \in Hilos : atiende(h)
  BY <1>1, <1>2, ServidorActualizada
<1>3. CASE \/ despierta \/ Intercambio \/ leeRezagada \/ sincronizaManual \/ reintenta
           \/ adoptaMezcla \/ falla \/ reset \/ rechaza \/ terminaSubida
           \/ \E c \in Codigos, r \in EdicionesRfid : registraRfid(c, r)
  <2>1. UNCHANGED varsServidor
    BY <1>3 DEF despierta, Intercambio, pideVersion, respondeLista, adopta, guarda,
                leeRezagada, reintenta, adoptaMezcla, sincronizaManual, falla, reset,
                rechaza, terminaSubida, registraRfid, edita
  <2> QED
    BY <1>1, <1>3, <2>1, CerraduraActualizada DEF Intercambio
<1>4. CASE UNCHANGED varsSinc
  BY <1>1, <1>4 DEF InvActualizada, Tiempos, Listas, Rezagadas, CambioSinHora, varsSinc,
                    varsServidor, varsCerradura
<1> QED
  BY <1>2, <1>3, <1>4 DEF SincNext

LEMMA ActualizadaInicio == SincInit => InvActualizada
<1> SUFFICES ASSUME SincInit PROVE InvActualizada
  OBVIOUS
<1>1. InvSinc
  BY SincInicio
<1>2. Tiempos
  BY DEF SincInit, ServidorInit, Tiempos, SIN_VERSION, LIBRE
<1>3. Listas /\ Rezagadas
  BY DEF SincInit, ServidorInit, Listas, Rezagadas, SIN_VERSION
<1> QED
  BY <1>1, <1>2, <1>3 DEF InvActualizada

\* With a clock that is not set back and lists that arrive whole, a lock that believes
\* it is up to date once the latest change is announced has the server's list: for
\* any number of threads, whatever fails, comes late, is sent twice or is started
\* over (MEF.c:80-126, server.py:16-18).
THEOREM SiempreActualizada ==
    ASSUME ~RETROCEDE, ~CORTA
    PROVE  SincSpec => []Actualizada
<1>1. InvActualizada /\ [SincNext]_varsSinc => InvActualizada'
  BY ActualizadaPaso
<1>2. InvActualizada => Actualizada
  BY DEF InvActualizada, InvSinc, SincTypeOK, ServidorTypeOK, Tiempos, Listas,
         Actualizada, SeCreeActualizada
<1> QED
  BY <1>1, <1>2, ActualizadaInicio, PTL DEF SincSpec

-----------------------------------------------------------------------------
(* Part 3: the lock and the server implement ListaReplicada. *)

\* What arrives of a list is a beginning of it: whoever is cut off comes after
\* everybody who is not.
LEMMA PrefijoEsPrincipio ==
    ASSUME NEW t, Buena(t), NEW n \in Nat \ {0}
    PROVE  Lista!EsPrincipio(prefijo(t, n), t)
<1> DEFINE Hasta(i) == {k \in DOMAIN t : k <= i}
           l == prefijo(t, n)
<1>1. DOMAIN t \subseteq Nat \ {0} /\ 1 \in DOMAIN t
  BY DEF Buena, EsLista
<1>2. DOMAIN l = {j \in DOMAIN t : posicion(t, j) <= n}
  BY DEF prefijo
<1>3. ASSUME NEW i \in DOMAIN l, NEW j \in DOMAIN t, j < i
      PROVE  j \in DOMAIN l
  <2>1. i \in Nat /\ j \in Nat
    BY <1>1, <1>2
  <2>2. Hasta(i) \subseteq 1..i /\ Hasta(j) \subseteq Hasta(i)
    BY <1>1, <1>3, <2>1
  <2>3. IsFiniteSet(Hasta(i))
    <3>1. IsFiniteSet(1..i)
      BY <2>1, FS_Interval
    <3> QED
      BY <2>2, <3>1, FS_Subset
  <2>4. Cardinality(Hasta(j)) <= Cardinality(Hasta(i))
    BY <2>2, <2>3, FS_Subset
  <2>5. Cardinality(Hasta(i)) \in Nat /\ Cardinality(Hasta(j)) \in Nat
    BY <2>2, <2>3, FS_Subset, FS_CardinalityType
  <2>6. Cardinality(Hasta(i)) <= n
    BY <1>2 DEF posicion
  <2> QED
    BY <1>2, <2>4, <2>5, <2>6 DEF posicion
<1>4. 1 \in DOMAIN l
  BY PrefijoBueno DEF Buena
<1>5. \A i \in DOMAIN l : l[i] = t[i]
  BY DEF prefijo
<1> QED
  BY <1>2, <1>3, <1>4, <1>5 DEF Lista!EsPrincipio

LEMMA RecibidasPrincipio ==
    ASSUME InvServidor, NEW l \in recibidas(sync_pins)
    PROVE  Lista!EsPrincipio(l, usuarios)
BY TablaBuena, PrefijoEsPrincipio, SincronizacionAssumption
   DEF recibidas, recibida, sync_pins

\* The lists on their way have ids that the server has given.
Numeros == \A l \in EnCamino : DOMAIN l \subseteq 1..(siguienteId - 1)

\* As much as is read of two such lists is the first one, cut, or the first one and
\* then users of the second.
LEMMA MezclaDeDos ==
    ASSUME InvServidor, NEW l, NEW m, Buena(l), Buena(m),
           DOMAIN l \subseteq 1..(siguienteId - 1), NEW x \in recibidas(unida(l, m))
    PROVE  \/ Lista!EsPrincipio(x, l)
           \/ /\ Lista!EsPrincipio(l, x)
              /\ \A i \in DOMAIN x \ DOMAIN l : \E j \in DOMAIN m : x[i] = m[j]
<1> DEFINE u == unida(l, m)
<1>1. siguienteId \in Nat /\ DOMAIN m \subseteq Nat \ {0}
  BY DEF InvServidor, ServidorTypeOK, Buena, EsLista
<1>2. /\ DOMAIN u = DOMAIN l \cup {siguienteId + j : j \in DOMAIN m}
      /\ \A i \in DOMAIN u : u[i] = IF i \in DOMAIN l THEN l[i] ELSE m[i - siguienteId]
  BY DEF unida
<1>3. Lista!EsPrincipio(x, u)
  BY UnidaBuena, PrefijoEsPrincipio, SincronizacionAssumption DEF recibidas, recibida
<1> HIDE DEF u
<1>4. ASSUME NEW i \in DOMAIN u \ DOMAIN l
      PROVE  /\ \A k \in DOMAIN l : k < i
             /\ \E j \in DOMAIN m : u[i] = m[j]
  <2>1. PICK j \in DOMAIN m : i = siguienteId + j
    BY <1>2, <1>4
  <2>2. i - siguienteId = j /\ \A k \in DOMAIN l : k < i
    BY <1>1, <2>1
  <2> QED
    BY <1>2, <1>4, <2>2
<1>5. 1 \in DOMAIN l /\ 1 \in DOMAIN x
  BY <1>3 DEF Buena, Lista!EsPrincipio
<1>6. CASE DOMAIN x \subseteq DOMAIN l
  BY <1>2, <1>3, <1>5, <1>6 DEF Lista!EsPrincipio
<1>7. CASE ~(DOMAIN x \subseteq DOMAIN l)
  <2>1. PICK k \in DOMAIN x : k \in DOMAIN u \ DOMAIN l
    BY <1>3, <1>7 DEF Lista!EsPrincipio
  <2>2. DOMAIN l \subseteq DOMAIN x
    BY <1>2, <1>3, <1>4, <2>1 DEF Lista!EsPrincipio
  <2>3. ASSUME NEW i \in DOMAIN l, NEW j \in DOMAIN x, j < i
        PROVE  j \in DOMAIN l
    <3>1. i \in Int /\ j \in DOMAIN u
      BY <1>1, <1>3 DEF Lista!EsPrincipio
    <3>2. CASE j \notin DOMAIN l
      <4>1. PICK k1 \in DOMAIN m : j = siguienteId + k1
        BY <1>2, <3>1, <3>2
      <4> QED
        BY <1>1, <2>3, <4>1
    <3> QED
      BY <3>2
  <2>4. \A i \in DOMAIN l : l[i] = x[i]
    BY <1>2, <1>3, <2>2 DEF Lista!EsPrincipio
  <2>5. \A i \in DOMAIN x \ DOMAIN l : \E j \in DOMAIN m : x[i] = m[j]
    BY <1>3, <1>4 DEF Lista!EsPrincipio
  <2> QED
    BY <1>5, <2>2, <2>3, <2>4, <2>5 DEF Lista!EsPrincipio
<1> QED
  BY <1>6, <1>7

LEMMA RecibidasNumeros ==
    ASSUME InvServidor, NEW l \in recibidas(sync_pins)
    PROVE  DOMAIN l \subseteq 1..(siguienteId - 1)
BY RecibidasPrincipio DEF Lista!EsPrincipio, InvServidor, ServidorTypeOK, Ids

\* No number on its way is new: what sets out are the ids of the table.
LEMMA NumerosPaso ==
    ASSUME InvSinc, Numeros, [SincNext]_varsSinc
    PROVE  Numeros'
<1> USE DEF InvSinc
<1>1. siguienteId \in Nat /\ InvServidor
  BY DEF InvServidor, ServidorTypeOK
<1>2. siguienteId' \in Nat /\ siguienteId <= siguienteId'
  <2>1. InvServidor'
    BY SincPaso
  <2>2. CASE DelServidor
    BY <1>1, <2>2, WebPaso, InternoPaso, RelojPaso DEF DelServidor, Paso, InvServidor,
                                                      ServidorTypeOK
  <2>3. CASE \E h \in Hilos : atiende(h)
    BY <2>1, <2>3, AtiendePaso DEF Paso, InvServidor, ServidorTypeOK
  <2>4. CASE UNCHANGED varsServidor
    BY <1>1, <2>4 DEF varsServidor
  <2> QED
    BY <2>2, <2>3, <2>4 DEF SincNext, despierta, Intercambio, pideVersion, respondeLista,
       adopta, guarda, leeRezagada, reintenta, adoptaMezcla, sincronizaManual, falla, reset,
       rechaza, terminaSubida, registraRfid, edita, varsSinc
<1>3. ASSUME NEW l \in EnCamino'
      PROVE  l \in EnCamino \/ l \in recibidas(sync_pins)
  <2> USE DEF EnCamino, EnFase
  <2>1. CASE respondeLista \/ leeRezagada
    BY <1>3, <2>1 DEF respondeLista, leeRezagada
  <2>2. CASE reintenta \/ falla
    BY <1>3, <2>2 DEF reintenta, falla, Demoradas
  <2>3. CASE despierta \/ adopta \/ adoptaMezcla \/ reset
    BY <1>3, <2>3 DEF despierta, adopta, adoptaMezcla, guarda, reset
  <2>4. CASE fase' # "recibe" /\ UNCHANGED rezagadas
    BY <1>3, <2>4
  <2>5. CASE UNCHANGED <<fase, respuesta, rezagadas>>
    BY <1>3, <2>5
  <2> QED
    BY <2>1, <2>2, <2>3, <2>4, <2>5 DEF SincNext, DelServidor, varsCerradura, Intercambio,
       pideVersion, sincronizaManual, rechaza, terminaSubida, registraRfid, edita, atiende,
       varsSinc
<1> QED
  <2> SUFFICES ASSUME NEW l \in EnCamino' PROVE DOMAIN l \subseteq 1..(siguienteId' - 1)
    BY DEF Numeros
  <2>1. DOMAIN l \subseteq 1..(siguienteId - 1)
    BY <1>1, <1>3, RecibidasNumeros DEF Numeros
  <2> QED
    BY <1>1, <1>2, <2>1

LEMMA CambioDeFilas ==
    ASSUME InvServidor, UNCHANGED <<copia, EnCamino>>, NEW S,
           \/ \E r : usuarios' = conRfid(S, r)
           \/ \E n : usuarios' = conHuella(S, n)
           \/ S = {1} /\ \E c : usuarios' = conCodigo(S, c)
    PROVE  Lista!Cambio
<1>1. DOMAIN usuarios' = DOMAIN usuarios
  BY DEF conRfid, conHuella, conCodigo, Ids
<1>2. ASSUME NEW i \in DOMAIN usuarios \ {1}
      PROVE  usuarios'[i].codigo = usuarios[i].codigo
  <2>1. usuarios[i] \in Filas
    BY DEF InvServidor, ServidorTypeOK, Ids
  <2> QED
    BY <2>1 DEF conRfid, conHuella, conCodigo, Ids, Filas
<1> QED
  BY <1>1, <1>2 DEF Lista!Cambio, Lista!MismosUsuarios, Lista!SinElMaestro

LEMMA InternoLista ==
    ASSUME InvServidor, UNCHANGED <<copia, EnCamino>>, NEW h \in Hilos, Interno(h)
    PROVE  [Lista!Next]_(Lista!vars)
<1>1. CASE insertaUsuario(h)
  <2>1. DOMAIN usuarios \subseteq 1..(siguienteId - 1) /\ 1 \in DOMAIN usuarios
    BY DEF InvServidor, ServidorTypeOK, Ids
  <2>2. siguienteId \in Nat
    BY DEF InvServidor, ServidorTypeOK
  <2>3. /\ DOMAIN usuarios' = DOMAIN usuarios \cup {siguienteId}
        /\ \A i \in DOMAIN usuarios : i < siguienteId /\ usuarios'[i] = usuarios[i]
    BY <1>1, <2>1, <2>2 DEF insertaUsuario, insertada, Ids
  <2>4. Lista!EsPrincipio(usuarios, usuarios')
    BY <2>1, <2>2, <2>3 DEF Lista!EsPrincipio
  <2> QED
    BY <2>3, <2>4 DEF Lista!Next, Lista!Alta
<1>2. CASE actualizaFila(h)
  BY <1>2, CambioDeFilas DEF actualizaFila, Lista!Next
<1>3. CASE escrituraFalla(h) \/ leeHora(h) \/ notificar_cambio(h)
  BY <1>3 DEF escrituraFalla, leeHora, notificar_cambio, Lista!vars
<1> QED
  BY <1>1, <1>2, <1>3 DEF Interno

LEMMA WebLista ==
    ASSUME InvServidor, UNCHANGED <<copia, EnCamino>>, NEW h \in Hilos, Web(h)
    PROVE  [Lista!Next]_(Lista!vars)
<1>1. CASE UNCHANGED usuarios
  BY <1>1 DEF Lista!vars
<1>2. CASE \E id : delete_user(h, id)
  <2>1. PICK id : delete_user(h, id)
    BY <1>2
  <2>2. CASE id \in DOMAIN usuarios
    BY <2>1, <2>2 DEF delete_user, borrada, Ids, Lista!Next, Lista!Baja
  <2>3. CASE id \notin DOMAIN usuarios
    <3>1. usuarios' = usuarios
      BY <2>1, <2>3 DEF delete_user, borrada, Ids, InvServidor, ServidorTypeOK
    <3> QED
      BY <1>1, <3>1
  <2> QED
    BY <2>2, <2>3
<1>3. CASE \E c : update_admin_pin(h, c)
  BY <1>3, CambioDeFilas DEF update_admin_pin, Lista!Next
<1> QED
  BY <1>1, <1>2, <1>3 DEF Web, panel_admin, delete_rfid, Consulta

LEMMA AtiendeLista ==
    ASSUME InvServidor, NEW h \in Hilos, atiende(h)
    PROVE  [Lista!Next]_(Lista!vars)
<1>1. UNCHANGED <<copia, EnCamino>>
  BY DEF atiende, EnCamino, EnFase
<1>2. CASE UNCHANGED usuarios
  BY <1>1, <1>2 DEF Lista!vars
<1>3. CASE delete_huella_endpoint(h, envio.fila.codigo)
  BY <1>1, <1>3, CambioDeFilas DEF delete_huella_endpoint, Lista!Next
<1>4. CASE clear_all_huellas_endpoint(h)
  BY <1>1, <1>4, CambioDeFilas DEF clear_all_huellas_endpoint, Lista!Next
<1> QED
  BY <1>2, <1>3, <1>4 DEF atiende, update_rfid, update_huella, Consulta

\* A change at the door that leaves PINs and ids alone.
LEMMA EditaLista ==
    ASSUME NEW nueva, NEW p, edita(nueva, p), Lista!MismosUsuarios(nueva, copia)
    PROVE  Lista!EnLaPuerta
<1>1. UNCHANGED EnCamino
  BY DEF edita, EnCamino, EnFase
<1> QED
  BY <1>1 DEF edita, varsServidor, Lista!EnLaPuerta

LEMMA ListaPaso ==
    ASSUME InvSinc, Numeros, [SincNext]_varsSinc
    PROVE  [Lista!Next]_(Lista!vars)
<1> USE DEF InvSinc
<1>1. CASE DelServidor
  <2>1. UNCHANGED <<copia, EnCamino>>
    BY <1>1 DEF DelServidor, varsCerradura, EnCamino, EnFase
  <2>2. CASE \E h \in Hilos : Web(h) \/ Interno(h)
    BY <2>1, <2>2, WebLista, InternoLista
  <2>3. CASE reinicia \/ atrasaReloj
    BY <2>1, <2>3 DEF reinicia, atrasaReloj, Lista!vars
  <2> QED
    BY <1>1, <2>2, <2>3 DEF DelServidor
<1>2. CASE despierta \/ reintenta \/ falla
  <2>1. EnCamino' \subseteq EnCamino
    BY <1>2 DEF despierta, reintenta, falla, Demoradas, EnCamino, EnFase
  <2> QED
    BY <1>2, <2>1 DEF despierta, reintenta, falla, varsServidor, Lista!Next, Lista!Pierde
<1>3. CASE pideVersion \/ sincronizaManual \/ rechaza \/ terminaSubida
  <2>1. UNCHANGED EnCamino
    BY <1>3 DEF pideVersion, sincronizaManual, rechaza, terminaSubida, EnCamino, EnFase
  <2> QED
    BY <1>3, <2>1 DEF pideVersion, sincronizaManual, rechaza, terminaSubida, varsServidor,
                      Lista!vars
<1>4. CASE respondeLista
  <2>1. Lista!EsPrincipio(respuesta', usuarios)
    BY <1>4, RecibidasPrincipio DEF respondeLista
  <2>2. EnCamino' = EnCamino \cup {respuesta'}
    BY <1>4 DEF respondeLista, EnCamino, EnFase
  <2> QED
    BY <1>4, <2>1, <2>2 DEF respondeLista, varsServidor, Lista!Next, Lista!Envia
<1>5. CASE leeRezagada
  <2>1. EnCamino = rezagadas /\ EnCamino' = rezagadas' \cup {respuesta'}
    BY <1>5 DEF leeRezagada, EnCamino, EnFase
  <2>2. CASE rezagadas' = {}
    BY <1>5, <2>1, <2>2 DEF leeRezagada, varsServidor, Lista!Next, Lista!Pierde
  <2>3. CASE \E l \in recibidas(sync_pins) : rezagadas' = {l}
    <3>1. PICK l \in recibidas(sync_pins) : rezagadas' = {l}
      BY <2>3
    <3>2. Lista!EsPrincipio(l, usuarios)
      BY RecibidasPrincipio
    <3> QED
      BY <1>5, <2>1, <3>1, <3>2 DEF leeRezagada, varsServidor, Lista!Next, Lista!Envia
  <2> QED
    BY <1>5, <2>2, <2>3 DEF leeRezagada
<1>6. CASE adopta
  <2>1. respuesta \in EnCamino /\ EnCamino' \subseteq EnCamino
    BY <1>6 DEF adopta, guarda, EnCamino, EnFase
  <2>2. Lista!EsPrincipio(respuesta, respuesta)
    BY DEF Buena, Lista!EsPrincipio
  <2>3. copia' = respuesta /\ UNCHANGED usuarios
    BY <1>6 DEF adopta, guarda, varsServidor
  <2> QED
    BY <2>1, <2>2, <2>3 DEF Lista!Next, Lista!Instala
<1>11. CASE adoptaMezcla
  <2>1. PICK l \in rezagadas :
          \E nueva \in recibidas(unida(l, respuesta)) \cup recibidas(unida(respuesta, l)) :
              guarda(nueva)
    BY <1>11 DEF adoptaMezcla
  <2>2. PICK nueva \in recibidas(unida(l, respuesta)) \cup recibidas(unida(respuesta, l)) :
              guarda(nueva)
    BY <2>1
  <2>3. /\ copia' = nueva /\ UNCHANGED usuarios
        /\ l \in EnCamino /\ respuesta \in EnCamino /\ EnCamino' = {}
    BY <1>11, <2>2 DEF adoptaMezcla, guarda, varsServidor, EnCamino, EnFase
  <2>4. /\ DOMAIN l \subseteq 1..(siguienteId - 1)
        /\ DOMAIN respuesta \subseteq 1..(siguienteId - 1)
    BY <2>3 DEF Numeros
  <2>5. PICK a \in EnCamino, b \in EnCamino :
          \/ Lista!EsPrincipio(nueva, a)
          \/ /\ Lista!EsPrincipio(a, nueva)
             /\ \A i \in DOMAIN nueva \ DOMAIN a : \E j \in DOMAIN b : nueva[i] = b[j]
    <3>1. CASE nueva \in recibidas(unida(l, respuesta))
      BY <2>3, <2>4, <3>1, MezclaDeDos
    <3>2. CASE nueva \in recibidas(unida(respuesta, l))
      BY <2>3, <2>4, <3>2, MezclaDeDos
    <3> QED
      BY <2>2, <3>1, <3>2
  <2> QED
    BY <2>3, <2>5 DEF Lista!Next, Lista!Instala
<1>7. CASE \E c \in Codigos, r \in EdicionesRfid : registraRfid(c, r)
  <2>1. PICK c \in Codigos, r \in EdicionesRfid, i \in DOMAIN copia :
          edita([copia EXCEPT ![i].rfid = r], peticion("update_rfid", 0, fila(c, r, SIN_HUELLA)))
    BY <1>7 DEF registraRfid, PrimerosCon
  <2>2. Lista!MismosUsuarios([copia EXCEPT ![i].rfid = r], copia)
    BY DEF Lista!MismosUsuarios, Buena, EsLista, Filas
  <2> QED
    BY <2>1, <2>2, EditaLista DEF Lista!Next
<1>8. CASE \E h \in Hilos : atiende(h)
  BY <1>8, AtiendeLista
<1>9. CASE reset
  <2>1. EnCamino' = {}
    BY <1>9 DEF reset, EnCamino, EnFase
  <2> QED
    BY <1>9, <2>1 DEF reset, varsServidor, Lista!Next, Lista!Reinicia
<1>10. CASE UNCHANGED varsSinc
  BY <1>10 DEF varsSinc, varsServidor, varsCerradura, EnCamino, EnFase, Lista!vars
<1> QED
  BY <1>1, <1>2, <1>3, <1>4, <1>5, <1>6, <1>7, <1>8, <1>9, <1>10, <1>11
     DEF SincNext, Intercambio

LEMMA ListaInicio == SincInit => Lista!Init /\ Numeros
BY DEF SincInit, ServidorInit, EnCamino, EnFase, Lista!Init, Numeros

\* Under every fault, and for any number of users and threads, the lock works from the
\* image's list or from beginnings of lists the server had, one or two that came in one
\* buffer; nobody stays from the list before, nobody is in it whom no answer named, and
\* the door never changes whose list it is (validacion.c:16-26, 329; espAT.c:234-276,
\* 289-362, 551-563).
THEOREM ImplementaSiempreLista == SincSpec => ImplementaLista
<1>1. InvSinc /\ Numeros /\ [SincNext]_varsSinc => Numeros'
  BY NumerosPaso
<1>2. InvSinc /\ Numeros /\ [SincNext]_varsSinc => [Lista!Next]_(Lista!vars)
  BY ListaPaso
<1> QED
  BY <1>1, <1>2, SincInvariante, ListaInicio, PTL DEF SincSpec, ImplementaLista, Lista!Spec

=============================================================================
