-------------------------- MODULE MEFAccesoProofs --------------------------
(***************************************************************************)
(* The state machine implements ControlAcceso, for every value of the      *)
(* constants.  On top of MEF's inductive invariant the proof needs that    *)
(* what waits in VALIDAR is a whole PIN and what waits in VALIDAR_RFID is  *)
(* a card that was read.                                                   *)
(***************************************************************************)
EXTENDS MEFAcceso, MEFProofs

CredencialEnEspera ==
    /\ estadoActual = "VALIDAR" => pin \in Pines
    /\ estadoActual = "VALIDAR_RFID" => rfid \in Rfids

\* The buffer of a keypad prompt that is complete is a PIN.
LEMMA TrasCompleto ==
    ASSUME TecladoTypeOK, NEW k, LeerPinCompleto(k)
    PROVE  Tras(k) \in Pines
<1>1. Tras(k) \in Seq(Digitos) /\ Len(Tras(k)) = PIN_LENGTH
  BY TrasTipo DEF LeerPinCompleto
<1>2. Tras(k) \in [1..PIN_LENGTH -> Digitos]
  BY <1>1
<1> QED
  BY <1>2, MefAssumption

\* Only a completed PIN enters VALIDAR and only a card that was read enters
\* VALIDAR_RFID, and neither buffer changes while it waits there.
LEMMA PasoCredencial ==
    ASSUME IInv, CredencialEnEspera, [Next]_vars
    PROVE  CredencialEnEspera'
<1> USE DEF CredencialEnEspera, IInv, Control, PuntoSegunEstado, EstadosDe, Sueno, varsResto
<1>1. CASE entrarModoSleep
  BY <1>1 DEF entrarModoSleep
<1>2. CASE WFI
  BY <1>2 DEF WFI
<1>3. CASE Despierta
  BY <1>3 DEF Despierta
<1>4. CASE HuellaAbre
  BY <1>4 DEF HuellaAbre, LeyendoHuella, ScanTermina, abrirCerradura
<1>5. CASE HuellaSigue
  BY <1>5 DEF HuellaSigue, LeyendoHuella
<1>6. CASE HuellaSuelta
  BY <1>6 DEF HuellaSuelta, LeyendoHuella, ScanTermina
<1>7. CASE ValidarRfid
  BY <1>7 DEF ValidarRfid, abrirCerradura
<1>8. CASE ValidarAbre
  BY <1>8 DEF ValidarAbre, abrirCerradura
<1>9. CASE ValidarNiega
  BY <1>9 DEF ValidarNiega
<1>10. ASSUME NEW cerrada \in BOOLEAN, SensorCierre(cerrada)
      PROVE  CredencialEnEspera'
  BY <1>10 DEF SensorCierre, cerrarCerradura
<1>11. CASE RegistrarInicia
  BY <1>11 DEF RegistrarInicia, EntraEn
<1>12. CASE RegistroEnrola
  BY <1>12 DEF RegistroEnrola, VuelveA
<1>13. ASSUME NEW k \in Teclas \cup {NINGUNA}, EsperandoPin(k)
      PROVE  CredencialEnEspera'
  BY <1>13, TrasCompleto DEF EsperandoPin, Esperando, VencidoEspera, TypeOK
<1>14. ASSUME NEW k \in Teclas \cup {NINGUNA}, EsperandoAsterisco(k)
      PROVE  CredencialEnEspera'
  BY <1>14 DEF EsperandoAsterisco, Esperando, VencidoEspera
<1>15. ASSUME NEW k \in Teclas \cup {NINGUNA}, EsperandoVence(k)
      PROVE  CredencialEnEspera'
  BY <1>15 DEF EsperandoVence, Esperando, VencidoEspera
<1>16. ASSUME NEW k \in Teclas \cup {NINGUNA}, NEW r \in Rfids \cup {VACIO},
              EsperandoTarjeta(k, r)
      PROVE  CredencialEnEspera'
  BY <1>16 DEF EsperandoTarjeta, Esperando, VencidoEspera
<1>17. ASSUME NEW k \in Teclas \cup {NINGUNA}, NEW r \in Rfids \cup {VACIO},
              EsperandoEscaneo(k, r)
      PROVE  CredencialEnEspera'
  BY <1>17 DEF EsperandoEscaneo, as608ScanReset, Esperando, VencidoEspera
<1>18. ASSUME NEW k \in Teclas \cup {NINGUNA}, PinAdmin(k)
      PROVE  CredencialEnEspera'
  BY <1>18 DEF PinAdmin, NiegaAdmin, VuelveA
<1>19. ASSUME NEW k \in Teclas \cup {NINGUNA}, MenuEspera(k)
      PROVE  CredencialEnEspera'
  BY <1>19 DEF MenuEspera, EnMenu
<1>20. ASSUME NEW k \in Teclas \cup {NINGUNA}, MenuRegistrar(k)
      PROVE  CredencialEnEspera'
  BY <1>20 DEF MenuRegistrar, EnMenu
<1>21. ASSUME NEW k \in Teclas \cup {NINGUNA}, MenuSale(k)
      PROVE  CredencialEnEspera'
  BY <1>21 DEF MenuSale, EnMenu, VuelveA
<1>22. ASSUME NEW k \in Teclas \cup {NINGUNA}, MenuSincroniza(k)
      PROVE  CredencialEnEspera'
  BY <1>22 DEF MenuSincroniza, EnMenu, VuelveA
<1>23. ASSUME NEW k \in Teclas \cup {NINGUNA}, MenuBorrar(k)
      PROVE  CredencialEnEspera'
  BY <1>23 DEF MenuBorrar, EnMenu, EntraEn
<1>24. ASSUME NEW k \in Teclas \cup {NINGUNA}, PinAuth(k)
      PROVE  CredencialEnEspera'
  BY <1>24 DEF PinAuth, SigueTecleando, SigueEsperando, EntraEn
<1>25. ASSUME NEW k \in Teclas \cup {NINGUNA}, SubMenu(k)
      PROVE  CredencialEnEspera'
  BY <1>25 DEF SubMenu, VuelveA, EntraEn
<1>26. ASSUME NEW k \in Teclas \cup {NINGUNA}, PinTarget(k)
      PROVE  CredencialEnEspera'
  BY <1>26 DEF PinTarget, SigueTecleando, SigueEsperando, BorraHuellaDe, VuelveA
<1>27. ASSUME NEW k \in Teclas \cup {NINGUNA}, RegistroPin(k)
      PROVE  CredencialEnEspera'
  BY <1>27 DEF RegistroPin, SigueTecleando, SigueEsperando, RegistroPrueba, RegistroSigue,
     VuelveA
<1>28. ASSUME NEW r \in Rfids \cup {VACIO}, RegistroTarjeta(r)
      PROVE  CredencialEnEspera'
  BY <1>28 DEF RegistroTarjeta, VuelveA
<1>29. CASE GPIO0_IRQHandler
  BY <1>29 DEF GPIO0_IRQHandler
<1>30. CASE PulsoPresencia
  BY <1>30 DEF PulsoPresencia
<1>31. ASSUME NEW c \in Relojes, Vence(c)
      PROVE  CredencialEnEspera'
  BY <1>31 DEF Vence, Esperando, LeyendoHuella
<1>32. CASE HuellaEntorno
  BY <1>32 DEF HuellaEntorno, SensorResponde, VenceCmd, varsMef
<1>33. CASE UNCHANGED vars
  BY <1>33 DEF vars, varsMef
<1> QED
  BY <1>1, <1>2, <1>3, <1>4, <1>5, <1>6, <1>7, <1>8, <1>9, <1>10, <1>11, <1>12,
     <1>13, <1>14, <1>15, <1>16, <1>17, <1>18, <1>19, <1>20, <1>21, <1>22, <1>23,
     <1>24, <1>25, <1>26, <1>27, <1>28, <1>29, <1>30, <1>31, <1>32, <1>33 DEF Next, mefUpdate

-----------------------------------------------------------------------------
(* What a step does, seen as a lock. *)

Atendiendo == estadoActual \in {"VALIDAR", "VALIDAR_RFID"}

\* What opens the door is a function of the user list alone.
LEMMA AutorizadasIgual ==
    ASSUME UNCHANGED listaPins
    PROVE  UNCHANGED AutorizadasMef
BY DEF AutorizadasMef, validarPin, validarHuella, obtenerTagPorRFID, IndicesPin, IndicesRfid,
       IndicesHuella

\* A step away from the credentials.
LEMMA PasoAjeno ==
    ASSUME UNCHANGED <<listaPins, cerrojo, scanSt, lastId>>,
           \/ ~Atendiendo /\ ~Atendiendo'
           \/ UNCHANGED <<estadoActual, pin, rfid>>
    PROVE  UNCHANGED Acceso!vars
<1>1. UNCHANGED PresentadasMef
  BY DEF PresentadasMef, Atendiendo
<1>2. UNCHANGED AutorizadasMef
  BY AutorizadasIgual
<1> QED
  BY <1>1, <1>2 DEF Acceso!vars

\* A step that changes the user list, with the bolt closed.
LEMMA PasoLista ==
    ASSUME cerrojo = 0, UNCHANGED <<cerrojo, scanSt, lastId>>, ~Atendiendo, ~Atendiendo'
    PROVE  Acceso!Next
<1>1. UNCHANGED PresentadasMef
  BY DEF PresentadasMef, Atendiendo
<1>2. AutorizadasMef' \subseteq CredencialesMef
  BY DEF AutorizadasMef, CredencialesMef
<1> QED
  BY <1>1, <1>2 DEF Acceso!Next, Acceso!CambiarAutorizadas

\* The three kinds of credentials are different.
LEMMA CredDistintas ==
    /\ \A p, r : CredPin(p) # CredRfid(r)
    /\ \A p, id : CredPin(p) # CredHuella(id)
    /\ \A r, id : CredRfid(r) # CredHuella(id)
BY DEF CredPin, CredRfid, CredHuella

\* A completed PIN, a card read or a page found is a credential presented.
LEMMA PasoPresenta ==
    ASSUME NEW c \in CredencialesMef, UNCHANGED <<cerrojo, listaPins>>,
           PresentadasMef' = PresentadasMef \cup {c}
    PROVE  Acceso!Next
BY AutorizadasIgual DEF Acceso!Next, Acceso!Presentar

\* A credential turned down is used up and moves nothing.
LEMMA PasoRechaza ==
    ASSUME NEW c \in CredencialesMef, UNCHANGED <<cerrojo, listaPins>>,
           PresentadasMef' = PresentadasMef \ {c}
    PROVE  Acceso!Next
BY AutorizadasIgual DEF Acceso!Next, Acceso!Rechazar

\* The bolt opens for a credential that is presented and authorised.
LEMMA PasoAbre ==
    ASSUME NEW c \in CredencialesMef, UNCHANGED listaPins,
           cerrojo = 0, cerrojo' = cerrojo + STEPS,
           c \in PresentadasMef, c \in AutorizadasMef,
           PresentadasMef' = PresentadasMef \ {c}
    PROVE  Acceso!Next
<1>1. cerrojo' # 0
  BY StepsEntero
<1> QED
  BY <1>1, AutorizadasIgual DEF Acceso!Next, Acceso!Abrir

\* The bolt closes (MEF.c:448).
LEMMA PasoCierra ==
    ASSUME cerrojo = STEPS, cerrojo' = cerrojo - STEPS, UNCHANGED <<listaPins, scanSt, lastId>>,
           ~Atendiendo, ~Atendiendo'
    PROVE  Acceso!Next
<1>1. cerrojo # 0 /\ cerrojo' = 0
  BY StepsEntero
<1>2. UNCHANGED PresentadasMef
  BY DEF PresentadasMef, Atendiendo
<1> QED
  BY <1>1, <1>2, AutorizadasIgual DEF Acceso!Next, Acceso!Cerrar

\* Every step of the machine is a step of the lock, or none at all.
LEMMA PasoAcceso ==
    ASSUME IInv, IInv', CredencialEnEspera, CredencialEnEspera', [Next]_vars
    PROVE  [Acceso!Next]_(Acceso!vars)
<1> USE DEF IInv, Control, PuntoSegunEstado, EstadosDe, CerrojoSegunEstado, Sueno
<1>1. CASE entrarModoSleep
  BY <1>1, PasoAjeno DEF entrarModoSleep, Atendiendo, varsAs608
<1>2. CASE WFI
  BY <1>2, PasoAjeno DEF WFI, Atendiendo, varsAs608
<1>3. CASE Despierta
  BY <1>3, PasoLista DEF Despierta, Atendiendo, varsAs608, varsScan
<1>4. CASE HuellaAbre
  <2>1. lastId \in 0..CAPACIDAD
    BY DEF TypeOK, As608TypeOK
  <2>2. CredHuella(lastId) \in CredencialesMef
    BY <2>1 DEF CredencialesMef
  <2>3. CredHuella(lastId) \in AutorizadasMef
    BY <1>4, <2>1 DEF HuellaAbre, AutorizadasMef
  <2>4. PresentadasMef = {CredHuella(lastId)} /\ PresentadasMef' = {}
    BY <1>4 DEF HuellaAbre, LeyendoHuella, ScanTermina, PresentadasMef
  <2>5. cerrojo = 0 /\ cerrojo' = cerrojo + STEPS /\ UNCHANGED listaPins
    BY <1>4 DEF HuellaAbre, LeyendoHuella, abrirCerradura
  <2> QED
    BY <2>2, <2>3, <2>4, <2>5, PasoAbre
<1>5. CASE HuellaSigue
  <2>1. UNCHANGED <<cerrojo, listaPins>>
    BY <1>5 DEF HuellaSigue
  <2>2. lastId \in 0..CAPACIDAD /\ lastId' \in 0..CAPACIDAD
    BY DEF TypeOK, As608TypeOK
  <2>3. CASE ScanTermina("ST_DONE_MATCH")
    <3>1. PresentadasMef = {CredHuella(lastId)} /\ PresentadasMef' = {}
      BY <1>5, <2>3 DEF HuellaSigue, LeyendoHuella, ScanTermina, PresentadasMef
    <3>2. CredHuella(lastId) \in CredencialesMef
      BY <2>2 DEF CredencialesMef
    <3> QED
      BY <2>1, <3>1, <3>2, PasoRechaza
  <2>4. CASE ScanEnCurso /\ scanSt' = "ST_DONE_MATCH"
    <3>1. PresentadasMef = {} /\ PresentadasMef' = {CredHuella(lastId')}
      BY <1>5, <2>4 DEF HuellaSigue, LeyendoHuella, ScanEnCurso, ScanEnvia, ScanEspera,
         ScanAvanza,
                     PresentadasMef
    <3>2. CredHuella(lastId') \in CredencialesMef
      BY <2>2 DEF CredencialesMef
    <3> QED
      BY <2>1, <3>1, <3>2, PasoPresenta
  <2>5. CASE ScanEnCurso /\ scanSt' # "ST_DONE_MATCH"
    <3>1. PresentadasMef = {} /\ PresentadasMef' = {}
      BY <1>5, <2>5 DEF HuellaSigue, LeyendoHuella, ScanEnCurso, ScanEnvia, ScanEspera,
         ScanAvanza,
                     PresentadasMef
    <3> QED
      BY <2>1, <3>1, AutorizadasIgual DEF Acceso!vars
  <2> QED
    BY <1>5, <2>3, <2>4, <2>5 DEF HuellaSigue
<1>6. CASE HuellaSuelta
  <2>1. UNCHANGED PresentadasMef
    BY <1>6 DEF HuellaSuelta, LeyendoHuella, ScanTermina, PresentadasMef
  <2> QED
    BY <1>6, <2>1, AutorizadasIgual DEF HuellaSuelta, Acceso!vars
<1>7. CASE ValidarRfid
  <2>1. rfid \in Rfids
    BY <1>7 DEF ValidarRfid, CredencialEnEspera
  <2>2. CredRfid(rfid) \in CredencialesMef
    BY <2>1 DEF CredencialesMef
  <2>3. CredRfid(rfid) \in PresentadasMef /\ PresentadasMef' = PresentadasMef \ {CredRfid(rfid)}
    BY <1>7, CredDistintas DEF ValidarRfid, PresentadasMef, varsAs608
  <2>4. CASE obtenerTagPorRFID(rfid) # NULL
    <3>1. CredRfid(rfid) \in AutorizadasMef
      BY <2>1, <2>4 DEF AutorizadasMef
    <3>2. cerrojo = 0 /\ cerrojo' = cerrojo + STEPS /\ UNCHANGED listaPins
      BY <1>7, <2>4 DEF ValidarRfid, abrirCerradura
    <3> QED
      BY <2>2, <2>3, <3>1, <3>2, PasoAbre
  <2>5. CASE obtenerTagPorRFID(rfid) = NULL
    BY <1>7, <2>2, <2>3, <2>5, PasoRechaza DEF ValidarRfid
  <2> QED
    BY <2>4, <2>5
<1>8. CASE ValidarAbre
  <2>1. pin \in Pines
    BY <1>8 DEF ValidarAbre, CredencialEnEspera
  <2>2. CredPin(pin) \in CredencialesMef
    BY <2>1 DEF CredencialesMef
  <2>3. CredPin(pin) \in AutorizadasMef
    BY <1>8, <2>1 DEF ValidarAbre, AutorizadasMef
  <2>4. CredPin(pin) \in PresentadasMef /\ PresentadasMef' = PresentadasMef \ {CredPin(pin)}
    BY <1>8, CredDistintas DEF ValidarAbre, PresentadasMef, varsAs608
  <2>5. cerrojo = 0 /\ cerrojo' = cerrojo + STEPS /\ UNCHANGED listaPins
    BY <1>8 DEF ValidarAbre, abrirCerradura
  <2> QED
    BY <2>2, <2>3, <2>4, <2>5, PasoAbre
<1>9. CASE ValidarNiega
  <2>1. CredPin(pin) \in CredencialesMef
    BY <1>9 DEF ValidarNiega, CredencialEnEspera, CredencialesMef
  <2>2. PresentadasMef' = PresentadasMef \ {CredPin(pin)}
    BY <1>9, CredDistintas DEF ValidarNiega, PresentadasMef, varsAs608
  <2> QED
    BY <1>9, <2>1, <2>2, PasoRechaza DEF ValidarNiega
<1>10. ASSUME NEW cerrada \in BOOLEAN, SensorCierre(cerrada)
      PROVE  [Acceso!Next]_(Acceso!vars)
  BY <1>10, PasoCierra DEF SensorCierre, cerrarCerradura, Atendiendo, varsAs608
<1>11. CASE RegistrarInicia
  BY <1>11, PasoAjeno DEF RegistrarInicia, EntraEn, Atendiendo, varsAs608, varsResto
<1>12. CASE RegistroEnrola
  BY <1>12, PasoLista, PasoAjeno DEF RegistroEnrola, VuelveA, Atendiendo, varsScan,
     varsResto
<1>13. ASSUME NEW k \in Teclas \cup {NINGUNA}, EsperandoPin(k)
      PROVE  [Acceso!Next]_(Acceso!vars)
  <2>1. CredPin(pin') \in CredencialesMef
    BY <1>13 DEF EsperandoPin, CredencialEnEspera, CredencialesMef
  <2>2. PresentadasMef' = PresentadasMef \cup {CredPin(pin')}
    BY <1>13 DEF EsperandoPin, Esperando, PresentadasMef, varsAs608
  <2> QED
    BY <1>13, <2>1, <2>2, PasoPresenta DEF EsperandoPin
<1>14. ASSUME NEW k \in Teclas \cup {NINGUNA}, EsperandoAsterisco(k)
      PROVE  [Acceso!Next]_(Acceso!vars)
  BY <1>14, PasoAjeno DEF EsperandoAsterisco, Esperando, VencidoEspera, Atendiendo,
     varsAs608
<1>15. ASSUME NEW k \in Teclas \cup {NINGUNA}, EsperandoVence(k)
      PROVE  [Acceso!Next]_(Acceso!vars)
  BY <1>15, PasoAjeno DEF EsperandoVence, Esperando, VencidoEspera, Atendiendo, varsAs608
<1>16. ASSUME NEW k \in Teclas \cup {NINGUNA}, NEW r \in Rfids \cup {VACIO},
              EsperandoTarjeta(k, r)
      PROVE  [Acceso!Next]_(Acceso!vars)
  <2>1. CredRfid(rfid') \in CredencialesMef
    BY <1>16 DEF EsperandoTarjeta, CredencialEnEspera, CredencialesMef
  <2>2. PresentadasMef' = PresentadasMef \cup {CredRfid(rfid')}
    BY <1>16 DEF EsperandoTarjeta, Esperando, PresentadasMef, varsAs608
  <2> QED
    BY <1>16, <2>1, <2>2, PasoPresenta DEF EsperandoTarjeta
<1>17. ASSUME NEW k \in Teclas \cup {NINGUNA}, NEW r \in Rfids \cup {VACIO},
              EsperandoEscaneo(k, r)
      PROVE  [Acceso!Next]_(Acceso!vars)
  <2>1. UNCHANGED PresentadasMef
    <3>1. \/ UNCHANGED varsScan
          \/ scanSt # "ST_DONE_MATCH" /\ scanSt' # "ST_DONE_MATCH"
      BY <1>17 DEF EsperandoEscaneo, as608ScanReset, EscaneoSinDueno
    <3> QED
      BY <1>17, <3>1 DEF EsperandoEscaneo, Esperando, PresentadasMef, varsScan
  <2> QED
    BY <1>17, <2>1, AutorizadasIgual DEF EsperandoEscaneo, Acceso!vars
<1>18. ASSUME NEW k \in Teclas \cup {NINGUNA}, PinAdmin(k)
      PROVE  [Acceso!Next]_(Acceso!vars)
  BY <1>18, PasoAjeno DEF PinAdmin, NiegaAdmin, VuelveA, Atendiendo, varsAs608, varsResto
<1>19. ASSUME NEW k \in Teclas \cup {NINGUNA}, MenuEspera(k)
      PROVE  [Acceso!Next]_(Acceso!vars)
  BY <1>19, PasoAjeno DEF MenuEspera, EnMenu, Atendiendo, varsAs608, varsResto
<1>20. ASSUME NEW k \in Teclas \cup {NINGUNA}, MenuRegistrar(k)
      PROVE  [Acceso!Next]_(Acceso!vars)
  BY <1>20, PasoAjeno DEF MenuRegistrar, EnMenu, Atendiendo, varsAs608, varsResto
<1>21. ASSUME NEW k \in Teclas \cup {NINGUNA}, MenuSale(k)
      PROVE  [Acceso!Next]_(Acceso!vars)
  BY <1>21, PasoAjeno DEF MenuSale, EnMenu, VuelveA, Atendiendo, varsAs608, varsResto
<1>22. ASSUME NEW k \in Teclas \cup {NINGUNA}, MenuSincroniza(k)
      PROVE  [Acceso!Next]_(Acceso!vars)
  BY <1>22, PasoLista DEF MenuSincroniza, EnMenu, VuelveA, Atendiendo, varsAs608, varsScan,
     varsResto
<1>23. ASSUME NEW k \in Teclas \cup {NINGUNA}, MenuBorrar(k)
      PROVE  [Acceso!Next]_(Acceso!vars)
  BY <1>23, PasoAjeno DEF MenuBorrar, EnMenu, EntraEn, Atendiendo, varsAs608, varsResto
<1>24. ASSUME NEW k \in Teclas \cup {NINGUNA}, PinAuth(k)
      PROVE  [Acceso!Next]_(Acceso!vars)
  BY <1>24, PasoAjeno DEF PinAuth, SigueTecleando, SigueEsperando, EntraEn, Atendiendo,
     varsAs608, varsResto
<1>25. ASSUME NEW k \in Teclas \cup {NINGUNA}, SubMenu(k)
      PROVE  [Acceso!Next]_(Acceso!vars)
  BY <1>25, PasoLista, PasoAjeno DEF SubMenu, VuelveA, EntraEn, Atendiendo, varsScan,
     varsResto
<1>26. ASSUME NEW k \in Teclas \cup {NINGUNA}, PinTarget(k)
      PROVE  [Acceso!Next]_(Acceso!vars)
  BY <1>26, PasoLista, PasoAjeno DEF PinTarget, SigueTecleando, SigueEsperando,
     BorraHuellaDe, VuelveA, Atendiendo, varsScan, varsResto
<1>27. ASSUME NEW k \in Teclas \cup {NINGUNA}, RegistroPin(k)
      PROVE  [Acceso!Next]_(Acceso!vars)
  BY <1>27, PasoAjeno DEF RegistroPin, SigueTecleando, SigueEsperando, RegistroPrueba,
     RegistroSigue, VuelveA, Atendiendo, varsAs608, varsResto
<1>28. ASSUME NEW r \in Rfids \cup {VACIO}, RegistroTarjeta(r)
      PROVE  [Acceso!Next]_(Acceso!vars)
  BY <1>28, PasoLista DEF RegistroTarjeta, VuelveA, Atendiendo, varsAs608, varsScan,
     varsResto
<1>29. CASE GPIO0_IRQHandler
  BY <1>29, PasoAjeno DEF GPIO0_IRQHandler, Atendiendo, varsAs608
<1>30. CASE PulsoPresencia
  BY <1>30, PasoAjeno DEF PulsoPresencia, Atendiendo, varsAs608
<1>31. ASSUME NEW c \in Relojes, Vence(c)
      PROVE  [Acceso!Next]_(Acceso!vars)
  BY <1>31, PasoAjeno DEF Vence, Esperando, LeyendoHuella, Atendiendo, varsAs608, varsResto
<1>32. CASE HuellaEntorno
  BY <1>32, PasoAjeno DEF HuellaEntorno, SensorResponde, VenceCmd, varsMef, Atendiendo
<1>33. CASE UNCHANGED vars
  BY <1>33, PasoAjeno DEF vars, varsMef, varsAs608
<1> QED
  BY <1>1, <1>2, <1>3, <1>4, <1>5, <1>6, <1>7, <1>8, <1>9, <1>10, <1>11, <1>12,
     <1>13, <1>14, <1>15, <1>16, <1>17, <1>18, <1>19, <1>20, <1>21, <1>22, <1>23,
     <1>24, <1>25, <1>26, <1>27, <1>28, <1>29, <1>30, <1>31, <1>32, <1>33 DEF Next, mefUpdate

\* The machine, with its prompts, timeouts, sleep and split scan, opens the bolt
\* only for a credential presented and authorised, and the list never changes
\* while the door is unlocked.
THEOREM ImplementaSiempreAcceso == Spec => ImplementaAcceso
<1>1. Init => CredencialEnEspera
  BY DEF Init, CredencialEnEspera
<1>2. Init => Acceso!Init
  <2> SUFFICES ASSUME Init PROVE Acceso!Init
    OBVIOUS
  <2>1. cerrojo = 0 /\ PresentadasMef = {}
    BY DEF Init, As608Init, PresentadasMef
  <2>2. AutorizadasMef \subseteq CredencialesMef
    BY DEF AutorizadasMef, CredencialesMef
  <2> QED
    BY <2>1, <2>2 DEF Acceso!Init
<1>3. IInv /\ CredencialEnEspera /\ [Next]_vars => CredencialEnEspera'
  BY PasoCredencial
<1>4. IInv /\ IInv' /\ CredencialEnEspera /\ CredencialEnEspera' /\ [Next]_vars
         => [Acceso!Next]_(Acceso!vars)
  BY PasoAcceso
<1> QED
  BY <1>1, <1>2, <1>3, <1>4, Invariante, PTL DEF Spec, Acceso!Spec, ImplementaAcceso

=============================================================================
