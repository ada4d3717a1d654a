-------------------------- MODULE ValidacionProofs --------------------------
(***************************************************************************)
(* Proofs about the user database, for every MAX_PINS and every content of *)
(* the lists: the loop that looks for a free fingerprint number ends, the  *)
(* list keeps its shape, a greeting always has a name, and the lock never  *)
(* gives a user a page of the sensor that it gave to another.              *)
(***************************************************************************)
EXTENDS Validacion, FiniteSetTheorems, WellFoundedInduction, TLAPS

-----------------------------------------------------------------------------
(* Searches. *)

\* What the loops of validacion.c stop at: a non-empty set of numbers has a
\* least element.
LEMMA MinimoExiste ==
    ASSUME NEW S, S \subseteq Nat, S # {}
    PROVE  \E i \in S : \A j \in S : i <= j
<1>1. PICK i \in S : \A j \in S : ~(<<j, i>> \in OpToRel(<, Nat))
  BY NatLessThanWellFounded, WFMin, Zenon
<1>2. \A j \in S : ~(j < i)
  BY <1>1, Zenon DEF OpToRel
<1> QED
  BY <1>2

\* The index a search returns is one of those it looked for.
LEMMA PrimeroPertenece ==
    ASSUME NEW S, S \subseteq Indices, S # {}
    PROVE  Primero(S) \in S
<1>1. S \subseteq Nat
  BY MaxPinsAssumption DEF Indices
<1>2. \E i \in S : \A j \in S : i <= j
  BY <1>1, MinimoExiste
<1> QED
  BY <1>2 DEF Primero

\* The loop of obtenerHuellaAsignadaPorPin (validacion.c:236-252) ends: among
\* MAX_PINS + 1 numbers one is free, because each entry takes at most one.
LEMMA IdLibreExiste ==
    ASSUME ValidacionTypeOK
    PROVE  /\ idLibre \in 1..(MAX_PINS + 1)
           /\ ~idEnUso(idLibre)
<1> DEFINE N == 1..(MAX_PINS + 1)
           Libres == {n \in N : ~idEnUso(n)}
<1>1. Libres # {}
  <2>1. SUFFICES ASSUME \A n \in N : idEnUso(n)
                 PROVE  FALSE
    OBVIOUS
  <2> DEFINE f == [n \in N |-> CHOOSE j \in Indices :
                       listaPins[j].activo /\ listaPins[j].huella = formato04(n)]
  <2>2. \A n \in N : f[n] \in Indices /\ listaPins[f[n]].huella = formato04(n)
    BY <2>1 DEF idEnUso
  <2>3. f \in [N -> Indices]
    BY <2>2
  <2>4. /\ IsFiniteSet(N) /\ Cardinality(N) = MAX_PINS + 1
        /\ IsFiniteSet(Indices) /\ Cardinality(Indices) = MAX_PINS
    BY FS_Interval, MaxPinsAssumption DEF Indices
  <2>5. PICK x \in N, y \in N : x # y /\ f[x] = f[y]
    <3>1. Cardinality(Indices) < Cardinality(N)
      BY <2>4, MaxPinsAssumption
    <3> HIDE DEF f, N
    <3> QED
      BY <3>1, <2>3, <2>4, FS_PigeonHole, Zenon
  <2>6. formato04(x) = formato04(y)
    BY <2>2, <2>5
  <2> QED
    BY <2>5, <2>6 DEF formato04
<1>2. PICK n \in Libres : \A j \in Libres : n <= j
  <2>1. Libres \subseteq Nat
    BY MaxPinsAssumption
  <2> QED
    BY <1>1, <2>1, MinimoExiste
<1>3. ~idEnUso(n) /\ \A m \in 1..(n - 1) : idEnUso(m)
  BY <1>2, MaxPinsAssumption
<1> QED
  BY <1>2, <1>3 DEF idLibre

\* The text assigned to a user that exists is a fingerprint text with a number.
LEMMA HuellaAsignadaTipo ==
    ASSUME ValidacionTypeOK, NEW p, validarPin(p)
    PROVE  obtenerHuellaAsignadaPorPin(p) \in TextosHuella \ {TextoVacio}
<1>1. Primero(IndicesPin(p)) \in Indices
  BY PrimeroPertenece DEF validarPin, IndicesPin
<1>2. listaPins[Primero(IndicesPin(p))].huella \in TextosHuella
  BY <1>1 DEF ValidacionTypeOK, PinUsuario
<1>3. formato04(idLibre) \in TextosHuella \ {TextoVacio}
  <2>1. idLibre \in Nat
    BY IdLibreExiste, MaxPinsAssumption
  <2> QED
    BY <2>1 DEF formato04, TextosHuella, TextoVacio, VACIO
<1> QED
  BY <1>2, <1>3 DEF obtenerHuellaAsignadaPorPin

\* The page that RegistroEnrola stores to and writes down is a number.
LEMMA IdAsignadoTipo ==
    ASSUME ValidacionTypeOK, NEW p, validarPin(p)
    PROVE  /\ atoi(obtenerHuellaAsignadaPorPin(p)) \in Nat
           /\ formato04(atoi(obtenerHuellaAsignadaPorPin(p))) \in TextosHuella
<1> DEFINE t == obtenerHuellaAsignadaPorPin(p)
<1>1. t \in TextosHuella
  BY HuellaAsignadaTipo
<1> HIDE DEF t
<1>2. t.id \in Nat
  BY <1>1 DEF TextosHuella, TextoVacio
<1>3. formato04(t.id) \in TextosHuella
  BY <1>2 DEF formato04, TextosHuella
<1> QED
  BY <1>2, <1>3 DEF t, atoi

-----------------------------------------------------------------------------
(* The list keeps its shape. *)

\* Saving a fingerprint number (validacion.c:112-124).
LEMMA AsociarHuellaTipo ==
    ASSUME ValidacionTypeOK, NEW p, NEW t \in TextosHuella, asociarHuellaaPin(p, t)
    PROVE  ValidacionTypeOK'
BY DEF ValidacionTypeOK, asociarHuellaaPin, PinUsuario

\* Saving a card (validacion.c:85-95).
LEMMA AsociarRfidTipo ==
    ASSUME ValidacionTypeOK, NEW p, NEW r \in Rfids, asociarRFIDaPin(p, r)
    PROVE  ValidacionTypeOK'
BY DEF ValidacionTypeOK, asociarRFIDaPin, PinUsuario

\* Adding a PIN (validacion.c:69-80).
LEMMA AgregarTipo ==
    ASSUME ValidacionTypeOK, NEW p \in Pines, agregarPin(p)
    PROVE  ValidacionTypeOK'
BY DEF ValidacionTypeOK, agregarPin, PinUsuario

\* Removing one fingerprint (validacion.c:358-366).
LEMMA EliminarHuellaTipo ==
    ASSUME ValidacionTypeOK, NEW p, eliminarHuellaLocal(p)
    PROVE  ValidacionTypeOK'
BY DEF ValidacionTypeOK, eliminarHuellaLocal, PinUsuario, TextosHuella

\* Removing all the fingerprints (validacion.c:369-373).
LEMMA EliminarTodasTipo ==
    ASSUME ValidacionTypeOK, eliminarTodasHuellasLocal
    PROVE  ValidacionTypeOK'
BY DEF ValidacionTypeOK, eliminarTodasHuellasLocal, PinUsuario, TextosHuella

\* A zeroed entry is an entry.
LEMMA UsuarioNuloTipo == UsuarioNulo \in PinUsuario
BY DEF UsuarioNulo, PinUsuario, TextosHuella

\* The list copied from an answer of any length has MAX_PINS entries.
LEMMA CopiaTipo ==
    ASSUME NEW l \in ListasServidor
    PROVE  copia(l) \in [Indices -> PinUsuario]
<1>1. l \in Seq(PinUsuario)
  BY ListasAssumption
<1>2. ASSUME NEW i \in Indices, i < Len(l)
      PROVE  l[i + 1] \in PinUsuario
  BY <1>1, <1>2, MaxPinsAssumption DEF Indices
<1> QED
  BY <1>2, UsuarioNuloTipo DEF copia

\* Replacing the list by a downloaded one (validacion.c:16-34).
LEMMA ActualizarTipo ==
    ASSUME NEW l \in ListasServidor, sincronizacionOk(l)
    PROVE  ValidacionTypeOK'
BY CopiaTipo DEF ValidacionTypeOK, sincronizacionOk, actualizarBaseDeDatos

\* Whatever functions are called, in any order and with any answer of the
\* server, listaPins stays an array of MAX_PINS entries of type PinUsuario_t.
THEOREM ValidacionTipos == ValidacionSpec => []ValidacionTypeOK
<1>1. ValidacionInit => ValidacionTypeOK
  BY ListasAssumption DEF ValidacionInit, ValidacionTypeOK
<1>2. ValidacionTypeOK /\ [ValidacionNext]_listaPins => ValidacionTypeOK'
  <2> SUFFICES ASSUME ValidacionTypeOK, [ValidacionNext]_listaPins
               PROVE  ValidacionTypeOK'
    OBVIOUS
  <2>1. ASSUME NEW p \in Pines, agregarPin(p)
        PROVE  ValidacionTypeOK'
    BY <2>1, AgregarTipo
  <2>2. ASSUME NEW p \in Pines, Enrolar(p)
        PROVE  ValidacionTypeOK'
    <3>1. validarPin(p)
      BY <2>2 DEF Enrolar
    <3>2. formato04(atoi(obtenerHuellaAsignadaPorPin(p))) \in TextosHuella
      BY <3>1, IdAsignadoTipo
    <3> QED
      BY <2>2, <3>2, AsociarHuellaTipo DEF Enrolar
  <2>3. ASSUME NEW p \in Pines, eliminarHuellaLocal(p)
        PROVE  ValidacionTypeOK'
    BY <2>3, EliminarHuellaTipo
  <2>4. ASSUME NEW p \in Pines, NEW r \in Rfids, asociarRFIDaPin(p, r)
        PROVE  ValidacionTypeOK'
    BY <2>4, AsociarRfidTipo
  <2>5. CASE eliminarTodasHuellasLocal
    BY <2>5, EliminarTodasTipo
  <2>6. ASSUME NEW l \in ListasServidor, sincronizacionOk(l)
        PROVE  ValidacionTypeOK'
    BY <2>6, ActualizarTipo
  <2>7. CASE UNCHANGED listaPins
    BY <2>7 DEF ValidacionTypeOK
  <2> QED
    BY <2>1, <2>2, <2>3, <2>4, <2>5, <2>6, <2>7 DEF ValidacionNext, sincronizacionFalla
<1> QED
  BY <1>1, <1>2, PTL DEF ValidacionSpec

\* A credential that validarHuella or validarPin accepts always has a name: the
\* sprintf("%s") of MEF.c:318 and 387 never gets a null pointer.
THEOREM SaludoSiempreConNombre == ValidacionSpec => []SaludoConNombre
<1>1. ValidacionTypeOK => SaludoConNombre
  <2> SUFFICES ASSUME ValidacionTypeOK PROVE SaludoConNombre
    OBVIOUS
  <2>1. \A i \in Indices : listaPins[i].tag # NULL
    BY CamposAssumption DEF ValidacionTypeOK, PinUsuario, NULL, VACIO
  <2>2. ASSUME NEW n \in IdsHuella, validarHuella(formato04(n))
        PROVE  obtenerTagPorHuella(formato04(n)) # NULL
    <3>1. Primero(IndicesHuella(formato04(n))) \in Indices
      BY <2>2, PrimeroPertenece DEF validarHuella, IndicesHuella
    <3> QED
      BY <3>1, <2>1, <2>2 DEF obtenerTagPorHuella, validarHuella, USUARIO, NULL
  <2>3. ASSUME NEW p \in Pines, validarPin(p)
        PROVE  obtenerTagPorPin(p) # NULL
    <3>1. Primero(IndicesPin(p)) \in Indices
      BY <2>3, PrimeroPertenece DEF validarPin, IndicesPin
    <3> QED
      BY <3>1, <2>1, <2>3 DEF obtenerTagPorPin, validarPin, USUARIO, NULL
  <2> QED
    BY <2>2, <2>3 DEF SaludoConNombre
<1> QED
  BY <1>1, ValidacionTipos, PTL

-----------------------------------------------------------------------------
(* Pages of the sensor.  Only Enrolar writes a fingerprint number; the     *)
(* other functions keep or erase the numbers they find.                    *)

\* Two "%04d" texts with the same number are the same text.
LEMMA TextoUnico ==
    ASSUME NEW s \in TextosHuella, NEW t \in TextosHuella,
           s.forma = "%04d", t.forma = "%04d", s.id = t.id
    PROVE  s = t
BY DEF TextosHuella, TextoVacio

\* A text that is not empty is written "%04d" or comes from the web page.
LEMMA DosFormas ==
    ASSUME NEW t \in TextosHuella, t # TextoVacio
    PROVE  t.forma = "%04d" \/ t.forma = "web"
BY DEF TextosHuella

\* A step that keeps or erases the numbers of i and j makes no new pair.
LEMMA QuitarHuellas ==
    ASSUME NEW i, NEW j,
           \A k \in {i, j} : \/ listaPins'[k].huella = TextoVacio
                             \/ listaPins'[k].huella = listaPins[k].huella
    PROVE  ParPermitido(i, j)
BY DEF ParPermitido, Comparten, atoi

\* Sharing a page is symmetric, so the pair may be read in either order.
LEMMA ParSimetrico ==
    ASSUME NEW i, NEW j, ParPermitido(j, i)
    PROVE  ParPermitido(i, j)
BY DEF ParPermitido, Comparten

\* Enrolling the first user with PIN p (MEF.c:805-846): it keeps its own page or
\* takes one that no other active entry has written "%04d".
LEMMA EnrolarPar ==
    ASSUME ValidacionTypeOK, NEW p \in Pines, Enrolar(p),
           NEW j \in Indices, j # Primero(IndicesPin(p))
    PROVE  ParPermitido(Primero(IndicesPin(p)), j)
<1> DEFINE k == Primero(IndicesPin(p))
           t == obtenerHuellaAsignadaPorPin(p)
<1>1. k \in Indices /\ listaPins[k].activo
  <2>1. k \in IndicesPin(p)
    BY PrimeroPertenece DEF Enrolar, validarPin, IndicesPin
  <2> QED
    BY <2>1 DEF IndicesPin
<1>2. listaPins' = [listaPins EXCEPT ![k].huella = formato04(atoi(t))]
  BY DEF Enrolar, asociarHuellaaPin
<1>3. /\ listaPins'[k].huella = formato04(atoi(t))
      /\ listaPins'[j] = listaPins[j]
  <2> HIDE DEF t, k
  <2> QED
    BY <1>1, <1>2 DEF ValidacionTypeOK, PinUsuario, k
<1>4. atoi(formato04(atoi(t))) = atoi(t)
  BY DEF atoi, formato04
<1>5. CASE listaPins[k].huella # TextoVacio
  <2>1. t = listaPins[k].huella
    BY <1>5 DEF obtenerHuellaAsignadaPorPin
  <2> HIDE DEF t, k
  <2>2. Comparten(listaPins', k, j) => Comparten(listaPins, k, j)
    BY <1>1, <1>3, <1>4, <1>5, <2>1 DEF Comparten
  <2> QED
    BY <2>2 DEF ParPermitido, k
<1>6. CASE listaPins[k].huella = TextoVacio
  <2>1. t = formato04(idLibre)
    BY <1>6 DEF obtenerHuellaAsignadaPorPin
  <2>2. idLibre \in Nat /\ ~idEnUso(idLibre)
    BY IdLibreExiste, MaxPinsAssumption
  <2> HIDE DEF t, k
  <2>3. SUFFICES ASSUME Comparten(listaPins', k, j), listaPins[j].huella.forma # "web",
                        listaPins[j].activo
                 PROVE  FALSE
    BY DEF ParPermitido, k
  <2>4. /\ listaPins[j].huella \in TextosHuella
        /\ listaPins[j].huella # TextoVacio
        /\ listaPins[j].huella.id = idLibre
    BY <1>3, <1>4, <2>1, <2>3 DEF Comparten, atoi, formato04, ValidacionTypeOK, PinUsuario
  <2>5. listaPins[j].huella.forma = "%04d"
    BY <2>3, <2>4, DosFormas
  <2>6. /\ formato04(idLibre) \in TextosHuella
        /\ formato04(idLibre).forma = "%04d"
        /\ formato04(idLibre).id = idLibre
    BY <2>2 DEF formato04, TextosHuella
  <2>7. listaPins[j].huella = formato04(idLibre)
    BY <2>4, <2>5, <2>6, TextoUnico
  <2> QED
    BY <2>2, <2>3, <2>7 DEF idEnUso
<1> QED
  BY <1>5, <1>6

\* Whatever functions are called, in any order and whatever lists the server
\* sends, the lock never gives a user a page of the sensor that another active
\* user has in the form in which the lock writes it (validacion.c:230-252).
THEOREM EnrolarNuncaPisa == ValidacionSpec => EnrolarNoPisa
<1>1. ValidacionTypeOK /\ [ValidacionNext]_listaPins
         => [\A i, j \in Indices : ParPermitido(i, j)]_listaPins
  <2> SUFFICES ASSUME ValidacionTypeOK, ValidacionNext,
                      NEW i \in Indices, NEW j \in Indices
               PROVE  ParPermitido(i, j)
    OBVIOUS
  <2> USE DEF ValidacionTypeOK
  <2>1. ASSUME NEW p \in Pines, agregarPin(p)
        PROVE  ParPermitido(i, j)
    <3>1. \A k \in Indices : listaPins'[k].huella = listaPins[k].huella
      BY <2>1 DEF agregarPin, PinUsuario
    <3> QED
      BY <3>1, QuitarHuellas
  <2>2. ASSUME NEW p \in Pines, Enrolar(p)
        PROVE  ParPermitido(i, j)
    <3> DEFINE k == Primero(IndicesPin(p))
    <3>1. \A m \in Indices \ {k} : listaPins'[m].huella = listaPins[m].huella
      <4> DEFINE t == formato04(atoi(obtenerHuellaAsignadaPorPin(p)))
      <4>1. listaPins' = [listaPins EXCEPT ![k].huella = t]
        BY <2>2 DEF Enrolar, asociarHuellaaPin
      <4> HIDE DEF k, t
      <4> QED
        BY <4>1
    <3>2. CASE i = j
      BY <3>2 DEF ParPermitido, Comparten
    <3>3. CASE i = k /\ j # k
      BY <2>2, <3>3, EnrolarPar
    <3>4. CASE i # k /\ j = k
      BY <2>2, <3>4, EnrolarPar, ParSimetrico
    <3>5. CASE i # k /\ j # k
      BY <3>1, <3>5, QuitarHuellas
    <3> QED
      BY <3>2, <3>3, <3>4, <3>5
  <2>3. ASSUME NEW p \in Pines, eliminarHuellaLocal(p)
        PROVE  ParPermitido(i, j)
    <3>1. \A k \in Indices : \/ listaPins'[k].huella = TextoVacio
                             \/ listaPins'[k] = listaPins[k]
      BY <2>3 DEF eliminarHuellaLocal, PinUsuario
    <3> QED
      BY <3>1, QuitarHuellas
  <2>4. ASSUME NEW p \in Pines, NEW r \in Rfids, asociarRFIDaPin(p, r)
        PROVE  ParPermitido(i, j)
    <3>1. \A k \in Indices : listaPins'[k].huella = listaPins[k].huella
      BY <2>4 DEF asociarRFIDaPin, PinUsuario
    <3> QED
      BY <3>1, QuitarHuellas
  <2>5. CASE eliminarTodasHuellasLocal
    <3>1. \A k \in Indices : listaPins'[k].huella = TextoVacio
      BY <2>5 DEF eliminarTodasHuellasLocal, PinUsuario
    <3> QED
      BY <3>1, QuitarHuellas
  <2>6. ASSUME NEW l \in ListasServidor, sincronizacionOk(l)
        PROVE  ParPermitido(i, j)
    BY <2>6 DEF ParPermitido, sincronizacionOk, actualizarBaseDeDatos
  <2>7. CASE UNCHANGED listaPins
    BY <2>7, QuitarHuellas
  <2> QED
    BY <2>1, <2>2, <2>3, <2>4, <2>5, <2>6, <2>7 DEF ValidacionNext, sincronizacionFalla
<1> QED
  BY <1>1, ValidacionTipos, PTL DEF ValidacionSpec, EnrolarNoPisa

=============================================================================
