----------------------------- MODULE Validacion -----------------------------
(***************************************************************************)
(* The local user database of the lock (src/validacion.c): the array       *)
(* listaPins and every function that searches or changes it.  A function   *)
(* that only reads is an operator on the current listaPins, a function     *)
(* that writes is an action on listaPins'.  The module has a specification *)
(* of its own, in which the functions are called in any order; MEF extends *)
(* the module and calls them where MEF.c does.                             *)
(*                                                                         *)
(* Strings are abstracted to what the code tells apart.  A PIN is the      *)
(* sequence of its digits.  A fingerprint field is a text and the code     *)
(* compares texts with strcmp but hands atoi(text) to the sensor, so a     *)
(* text keeps both its number and the way it was written: "%04d" is how    *)
(* the lock writes it, "web" any other way the web form lets in ("1").     *)
(***************************************************************************)
EXTENDS Naturals, Sequences

CONSTANTS
    MAX_PINS,         \* entries of listaPins
    Pines,            \* the PINs that can be typed or configured
    Rfids,            \* the card identifiers that can be read or configured
    Etiquetas,        \* the non-empty names (tags) of users
    IdsHuella,        \* the fingerprint numbers a user list can mention
    ListaInicial,     \* listaPins as the image initialises it
    ListasServidor    \* the user lists the server can answer with

VARIABLE listaPins

-----------------------------------------------------------------------------
(* Values of the fields. *)

VACIO == ""           \* an empty rfid or tag field
NULL == "NULL"        \* the null pointer of the obtenerTag functions
USUARIO == "usuario"  \* the default name
PinVacio == << >>     \* a zeroed PIN buffer

TextoVacio == [forma |-> VACIO, id |-> 0]

\* sprintf(buffer, "%04d", n)
formato04(n) == [forma |-> "%04d", id |-> n]

\* atoi of a fingerprint text; atoi("") is 0
atoi(texto) == texto.id

TextosHuella ==
    {TextoVacio} \cup [forma : {"%04d", "web"}, id : Nat]

PinUsuario ==
    [codigo : Pines \cup {PinVacio}, activo : BOOLEAN,
     rfid : Rfids \cup {VACIO}, huella : TextosHuella,
     tag : Etiquetas \cup {VACIO}]

\* an entry after memset(.., 0, ..)
UsuarioNulo ==
    [codigo |-> PinVacio, activo |-> FALSE, rfid |-> VACIO,
     huella |-> TextoVacio, tag |-> VACIO]

Indices == 0..(MAX_PINS - 1)

ASSUME MaxPinsAssumption == MAX_PINS \in Nat \ {0}

ASSUME PinesAssumption == PinVacio \notin Pines

ASSUME CamposAssumption ==
    /\ VACIO \notin Rfids
    /\ VACIO \notin Etiquetas
    /\ NULL \notin Etiquetas

ASSUME ListasAssumption ==
    /\ ListaInicial \in [Indices -> PinUsuario]
    /\ ListasServidor \subseteq Seq(PinUsuario)
    /\ \A l \in ListasServidor : Len(l) > 0

-----------------------------------------------------------------------------
(* Searches: each loop stops at the first active entry that matches. *)

IndicesPin(pin) == {i \in Indices : listaPins[i].activo /\ listaPins[i].codigo = pin}

IndicesRfid(r) ==
    {i \in Indices : /\ listaPins[i].activo
                     /\ listaPins[i].rfid # VACIO
                     /\ listaPins[i].rfid = r}

IndicesHuella(texto) ==
    {i \in Indices : /\ listaPins[i].activo
                     /\ listaPins[i].huella # TextoVacio
                     /\ listaPins[i].huella = texto}

Primero(S) == CHOOSE i \in S : \A j \in S : i <= j

validarPin(pin) == IndicesPin(pin) # {}

validarRFID(r) == IndicesRfid(r) # {}

validarHuella(texto) == IndicesHuella(texto) # {}

obtenerTagPorPin(pin) ==
    IF IndicesPin(pin) = {} THEN NULL
    ELSE LET tag == listaPins[Primero(IndicesPin(pin))].tag
         IN  IF tag # VACIO THEN tag ELSE USUARIO

obtenerTagPorRFID(r) ==
    IF IndicesRfid(r) = {} THEN NULL
    ELSE LET tag == listaPins[Primero(IndicesRfid(r))].tag
         IN  IF tag # VACIO THEN tag ELSE NULL

\* Mutant: no default name, as in obtenerTagPorRFID.
obtenerTagPorHuellaSinDefecto(texto) ==
    IF IndicesHuella(texto) = {} THEN NULL
    ELSE LET tag == listaPins[Primero(IndicesHuella(texto))].tag
         IN  IF tag # VACIO THEN tag ELSE NULL

obtenerTagPorHuella(texto) ==
    IF IndicesHuella(texto) = {} THEN NULL
    ELSE LET tag == listaPins[Primero(IndicesHuella(texto))].tag
         IN  IF tag # VACIO THEN tag ELSE USUARIO

esPinMaster(pin) == listaPins[0].activo /\ listaPins[0].codigo = pin

\* Mutant: the inner loop starts at the second entry.
idEnUsoSinMaestro(n) ==
    \E j \in Indices \ {0} : listaPins[j].activo /\ listaPins[j].huella = formato04(n)

\* some active entry has the text "%04d" of n
idEnUso(n) == \E j \in Indices : listaPins[j].activo /\ listaPins[j].huella = formato04(n)

\* the loop that tries 1, 2, 3, ... until one is not in use
idLibre ==
    CHOOSE n \in 1..(MAX_PINS + 1) : ~idEnUso(n) /\ \A m \in 1..(n - 1) : idEnUso(m)

\* what obtenerHuellaAsignadaPorPin writes to idBuffer; it returns validarPin(pin)
obtenerHuellaAsignadaPorPin(pin) ==
    LET suya == listaPins[Primero(IndicesPin(pin))].huella
    IN  IF suya # TextoVacio THEN suya ELSE formato04(idLibre)

-----------------------------------------------------------------------------
(* Updates. *)

\* agregarPin writes the code and the flag of the first inactive entry only
agregarPin(pin) ==
    LET libres == {i \in Indices : ~listaPins[i].activo}
    IN  listaPins' = IF libres = {} THEN listaPins
                     ELSE [listaPins EXCEPT ![Primero(libres)].codigo = pin,
                                            ![Primero(libres)].activo = TRUE]

asociarRFIDaPin(pin, r) ==
    listaPins' = IF ~validarPin(pin) THEN listaPins
                 ELSE [listaPins EXCEPT ![Primero(IndicesPin(pin))].rfid = r]

asociarHuellaaPin(pin, texto) ==
    listaPins' = IF ~validarPin(pin) THEN listaPins
                 ELSE [listaPins EXCEPT ![Primero(IndicesPin(pin))].huella = texto]

eliminarHuellaLocal(pin) ==
    listaPins' = IF ~validarPin(pin) THEN listaPins
                 ELSE [listaPins EXCEPT ![Primero(IndicesPin(pin))].huella = TextoVacio]

eliminarTodasHuellasLocal ==
    listaPins' = [i \in Indices |-> [listaPins[i] EXCEPT !.huella = TextoVacio]]

\* Mutant: the count is not cut to MAX_PINS.
actualizarSinTope(nuevos) ==
    listaPins' = [i \in 0..(Len(nuevos) - 1) |-> nuevos[i + 1]]

\* memset and memcpy of at most MAX_PINS received entries
copia(nuevos) ==
    [i \in Indices |-> IF i < Len(nuevos) THEN nuevos[i + 1] ELSE UsuarioNulo]

actualizarBaseDeDatos(nuevos) == listaPins' = copia(nuevos)

\* The download brings a non-empty list, or it fails and the old one is kept.
sincronizacionOk(lista) == actualizarBaseDeDatos(lista)

sincronizacionFalla == UNCHANGED listaPins

-----------------------------------------------------------------------------
(* The functions called in any order.  Enrolar is the pair of calls with   *)
(* which MEF.c gives a user a fingerprint: the assigned number is asked    *)
(* for, the sensor stores the finger on page atoi(text), and the text the  *)
(* sensor driver writes back ("%04u" of the page) is saved.                *)

Enrolar(pin) ==
    /\ validarPin(pin)
    /\ asociarHuellaaPin(pin, formato04(atoi(obtenerHuellaAsignadaPorPin(pin))))

ValidacionInit == listaPins = ListaInicial

ValidacionNext ==
    \/ \E p \in Pines :
          \/ agregarPin(p)
          \/ Enrolar(p)
          \/ eliminarHuellaLocal(p)
          \/ \E r \in Rfids : asociarRFIDaPin(p, r)
    \/ eliminarTodasHuellasLocal
    \/ \E l \in ListasServidor : sincronizacionOk(l)
    \/ sincronizacionFalla

ValidacionSpec == ValidacionInit /\ [][ValidacionNext]_listaPins

-----------------------------------------------------------------------------
(* Properties. *)

\* Every entry is a PinUsuario_t: listaPins keeps its shape whatever is called.
ValidacionTypeOK == listaPins \in [Indices -> PinUsuario]

\* The greeting never prints a null name: MEF.c passes obtenerTagPorHuella's
\* answer to sprintf("%s") unchecked (MEF.c:314-318), so whenever validarHuella
\* accepts a text, obtenerTagPorHuella must have a name or a default for it, with
\* an empty tag too; the same for a PIN that validarPin accepted (MEF.c:383-389).
SaludoConNombre ==
    /\ \A n \in IdsHuella :
          validarHuella(formato04(n)) => obtenerTagPorHuella(formato04(n)) # NULL
    /\ \A p \in Pines : validarPin(p) => obtenerTagPorPin(p) # NULL

\* entries i and j of l are two users with one page of the fingerprint sensor
Comparten(l, i, j) ==
    /\ i # j
    /\ l[i].activo /\ l[i].huella # TextoVacio
    /\ l[j].activo /\ l[j].huella # TextoVacio
    /\ atoi(l[i].huella) = atoi(l[j].huella)

\* What brings entries i and j to one page in a step: the server sent such a
\* list, an entry that kept its number is activated again (agregarPin), or one
\* number was typed on the web page in another form than "%04d", which the
\* strcmp of validacion.c:242 misses.
ParPermitido(i, j) ==
    Comparten(listaPins', i, j) /\ ~Comparten(listaPins, i, j)
    => \/ \E l \in ListasServidor : listaPins' = copia(l)
       \/ ~listaPins[i].activo \/ ~listaPins[j].activo
       \/ listaPins[i].huella.forma = "web"
       \/ listaPins[j].huella.forma = "web"

\* The lock never gives a user the page of another: "Verificamos si alguien más
\* ya usa este ID" (validacion.c:240), against every active entry with a number
\* in the lock's own form, and in whatever list the server sent.  Otherwise
\* enrolling one user overwrites the finger of the other.
EnrolarNoPisa == [][\A i, j \in Indices : ParPermitido(i, j)]_listaPins

=============================================================================
