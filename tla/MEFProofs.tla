----------------------------- MODULE MEFProofs -----------------------------
(***************************************************************************)
(* Proofs about the state machine, for every size of the user list, every  *)
(* PIN length, every set of cards and every behaviour of the sensor.       *)
(*                                                                         *)
(* None of MEF's invariants is inductive alone.  A prompt's loop ends in   *)
(* a state of the machine that only makes sense if the loop was entered    *)
(* from the right one, so the invariant says which states each loop can    *)
(* run in; the bolt's position then follows from estadoActual, the         *)
(* interrupt's from punto, and the shape of the user list from the fact    *)
(* that a registration past its PIN prompt has a PIN that is in the list.  *)
(***************************************************************************)
EXTENDS MEF, ValidacionProofs

\* the states of the machine in which the program can be at each point
EstadosDe(p) ==
    CASE p = "mef" -> Estados
      [] p \in Sueno -> {"REPOSO"}
      [] p = "pinAdmin" -> {"ESPERANDO_ACCION"}
      [] p \in {"pinAuth", "subMenu", "pinTarget"} -> {"MENU_ADMIN"}
      [] p = "pinRfid" -> {"REGISTRAR_RFID", "ESPERANDO_ACCION"}
      [] p = "pinHuella" -> {"REGISTRAR_HUELLA", "ESPERANDO_ACCION"}
      [] p = "tarjeta" -> {"REGISTRAR_RFID"}
      [] p = "enrola" -> {"REGISTRAR_HUELLA"}

PuntoSegunEstado == estadoActual \in EstadosDe(punto)

\* the interrupt is enabled only in entrarModoSleep, between lines 54 and 68
IrqSegunPunto == irqHabilitada <=> punto \in Sueno

\* the scan is stepped only while it is active
EscaneoConDueno == estadoActual = "LEER_Y_VALIDAR_HUELLA" => escaneoActivo

\* a registration past its PIN prompt is for a user of the list
RegistroConUsuario == punto \in {"tarjeta", "enrola"} => validarPin(pin)

\* the inductive invariant
Control ==
    /\ PuntoSegunEstado
    /\ IrqSegunPunto
    /\ CerrojoSegunEstado
    /\ EscaneoConDueno
    /\ EscaneoSinDueno

IInv == TypeOK /\ Control /\ RegistroConUsuario

-----------------------------------------------------------------------------
(* The drivers keep their types. *)

\* Every poll of the keypad leaves fewer than PIN_LENGTH digits in the shared
\* buffer (teclado.c:58-144).
LEMMA TecladoTipo ==
    ASSUME TecladoTypeOK, NEW k \in Teclas \cup {NINGUNA},
           \/ LeerPinNada(k) \/ LeerPinParcial(k) \/ LeerPinCompleto(k)
           \/ LeerPinAsterisco(k) \/ tecladoLeerTecla(k)
    PROVE  TecladoTypeOK'
<1> USE TeclasAssumption DEF TecladoTypeOK
<1>1. teclaPrevia' \in Teclas \cup {NINGUNA}
  BY DEF LeerPinNada, LeerPinParcial, LeerPinCompleto, LeerPinAsterisco, tecladoLeerTecla
<1>2. CASE LeerPinParcial(k)
  BY <1>1, <1>2 DEF LeerPinParcial, Tras
<1>3. CASE UNCHANGED digitos
  BY <1>1, <1>3
<1>4. CASE tecladoReset
  BY <1>1, <1>4 DEF tecladoReset
<1> QED
  BY <1>2, <1>3, <1>4 DEF LeerPinNada, LeerPinCompleto, LeerPinAsterisco, tecladoLeerTecla

\* tecladoReset empties the buffer and leaves the held key alone.
LEMMA TecladoResetTipo ==
    ASSUME TecladoTypeOK, tecladoReset, UNCHANGED teclaPrevia
    PROVE  TecladoTypeOK'
BY TeclasAssumption DEF TecladoTypeOK, tecladoReset

\* What the buffer holds once a key is taken is a sequence of digits.
LEMMA TrasTipo ==
    ASSUME TecladoTypeOK, NEW k
    PROVE  Tras(k) \in Seq(Digitos)
BY DEF TecladoTypeOK, Tras

\* as608ScanStep and as608ScanReset stay within the states of the scan, and the
\* page they report within the pages of the sensor (as608.c:423-625).
LEMMA EscaneoTipo ==
    ASSUME As608TypeOK, UNCHANGED plantillas,
           ScanEnCurso \/ as608ScanReset \/ \E st \in Fin : ScanTermina(st)
    PROVE  As608TypeOK'
<1> USE As608Assumption DEF As608TypeOK
<1>1. CASE ScanEnvia
  <2>1. cmdVencido' \in BOOLEAN
    BY <1>1, Zenon DEF ScanEnvia
  <2> QED
    BY <1>1, <2>1 DEF ScanEnvia, EsperaAck, EstadosScan
<1>2. CASE ScanEspera
  <2>1. scanSt' \in EstadosScan
    BY <1>2 DEF ScanEspera, TrasGetImage, TrasImage2Tz, TrasSearch, EstadosScan, EsperaAck,
                Fin, SIN_ACK, ACK_OK, ACK_SIN_DEDO, ACK_OTRO, ACK_PARCIAL
  <2>2. cmdVencido' \in BOOLEAN
    BY <1>2, Zenon DEF ScanEspera
  <2> QED
    BY <1>2, <2>1, <2>2 DEF ScanEspera
<1>3. CASE ScanAvanza
  BY <1>3 DEF ScanAvanza, EstadosScan
<1>4. CASE as608ScanReset
  <2>1. cmdVencido' \in BOOLEAN
    BY <1>4, Zenon DEF as608ScanReset
  <2> QED
    BY <1>4, <2>1 DEF as608ScanReset, EstadosScan
<1>5. CASE \E st \in Fin : ScanTermina(st)
  BY <1>5 DEF ScanTermina, EstadosScan
<1> QED
  BY <1>1, <1>2, <1>3, <1>4, <1>5 DEF ScanEnCurso

\* An answer of the sensor or the passing of a limit keeps the scan well formed.
LEMMA EntornoTipo ==
    ASSUME As608TypeOK, SensorResponde \/ VenceCmd
    PROVE  As608TypeOK'
BY As608Assumption DEF As608TypeOK, SensorResponde, VenceCmd

-----------------------------------------------------------------------------
(* Types of what a prompt's loop keeps. *)

LazoOK ==
    /\ estadoActual \in Estados
    /\ punto \in Puntos
    /\ pin \in Seq(Digitos)
    /\ intentos \in 0..(MAX_INTENTOS_ENROLL - 1)
    /\ vencido \subseteq Relojes

\* Leaving a prompt's loop.
LEMMA VuelveATipo ==
    ASSUME LazoOK, NEW e \in Estados, VuelveA(e)
    PROVE  LazoOK'
BY DEF LazoOK, VuelveA, Puntos, MAX_INTENTOS_ENROLL, PinVacio

\* Entering a prompt's loop.
LEMMA EntraEnTipo ==
    ASSUME LazoOK, NEW p \in Puntos, EntraEn(p), UNCHANGED estadoActual
    PROVE  LazoOK'
BY DEF LazoOK, EntraEn, MAX_INTENTOS_ENROLL, PinVacio

\* Staying in a prompt's loop.
LEMMA SigueTipo ==
    ASSUME LazoOK, NEW k, SigueTecleando(k) \/ SigueEsperando(k)
    PROVE  LazoOK'
BY DEF LazoOK, SigueTecleando, SigueEsperando

\* Denying the master PIN (MEF.c:257-267).
LEMMA NiegaAdminTipo ==
    ASSUME LazoOK, NiegaAdmin
    PROVE  LazoOK'
BY DEF LazoOK, NiegaAdmin, Puntos

\* p is in the buffer of a registration's PIN prompt.
LEMMA RegistroPruebaTipo ==
    ASSUME LazoOK, NEW p \in Seq(Digitos), NEW e \in Estados, NEW v \in SUBSET Relojes,
           RegistroPrueba(p, e, v)
    PROVE  LazoOK'
<1>1. CASE RegistroSigue(p, e)
  <2>1. CASE e = "ESPERANDO_ACCION"
    BY <1>1, <2>1, VuelveATipo DEF RegistroSigue
  <2>2. CASE e # "ESPERANDO_ACCION"
    BY <1>1, <2>2 DEF RegistroSigue, LazoOK, Puntos, Preguntas, MAX_INTENTOS_ENROLL
  <2> QED
    BY <2>1, <2>2
<1>2. CASE VuelveA("ESPERANDO_ACCION")
  BY <1>2, VuelveATipo DEF Estados
<1>3. CASE /\ intentos + 1 < MAX_INTENTOS /\ intentos' = intentos + 1
           /\ pin' = p /\ estadoActual' = e /\ vencido' = v /\ UNCHANGED punto
  BY <1>3 DEF LazoOK, MAX_INTENTOS_ENROLL, MAX_INTENTOS
<1> QED
  BY <1>1, <1>2, <1>3 DEF RegistroPrueba

\* The bolt's two positions are different.
LEMMA StepsEntero == STEPS \in Int /\ STEPS # 0
BY MefAssumption

-----------------------------------------------------------------------------
(* One step of the machine.  Each lemma has one step per action.           *)

\* The loop, the bolt, the interrupt and the scan go on agreeing with the state.
LEMMA PasoControl ==
    ASSUME IInv, [Next]_vars
    PROVE  Control'
<1> USE DEF IInv, TypeOK, MefTypeOK, Control, PuntoSegunEstado, EstadosDe, IrqSegunPunto,
           CerrojoSegunEstado, EscaneoConDueno, EscaneoSinDueno, Estados, Sueno,
           varsSueno, varsResto, varsAs608, varsScan
<1>1. CASE entrarModoSleep
  BY <1>1 DEF entrarModoSleep
<1>2. CASE WFI
  BY <1>2 DEF WFI
<1>3. CASE Despierta
  BY <1>3 DEF Despierta
<1>4. CASE HuellaAbre
  BY <1>4, StepsEntero DEF HuellaAbre, LeyendoHuella, ScanTermina, abrirCerradura
<1>5. CASE HuellaSigue
  BY <1>5 DEF HuellaSigue, LeyendoHuella
<1>6. CASE HuellaSuelta
  BY <1>6 DEF HuellaSuelta, LeyendoHuella, ScanTermina
<1>7. CASE ValidarRfid
  BY <1>7, StepsEntero DEF ValidarRfid, abrirCerradura
<1>8. CASE ValidarAbre
  BY <1>8, StepsEntero DEF ValidarAbre, abrirCerradura
<1>9. CASE ValidarNiega
  BY <1>9 DEF ValidarNiega
<1>10. ASSUME NEW cerrada \in BOOLEAN, SensorCierre(cerrada)
      PROVE  Control'
  BY <1>10 DEF SensorCierre, cerrarCerradura
<1>11. CASE RegistrarInicia
  BY <1>11 DEF RegistrarInicia, EntraEn
<1>12. CASE RegistroEnrola
  BY <1>12 DEF RegistroEnrola, VuelveA
<1>13. ASSUME NEW k \in Teclas \cup {NINGUNA}, EsperandoPin(k)
      PROVE  Control'
  BY <1>13 DEF EsperandoPin, Esperando, VencidoEspera
<1>14. ASSUME NEW k \in Teclas \cup {NINGUNA}, EsperandoAsterisco(k)
      PROVE  Control'
  BY <1>14 DEF EsperandoAsterisco, Esperando, VencidoEspera
<1>15. ASSUME NEW k \in Teclas \cup {NINGUNA}, EsperandoVence(k)
      PROVE  Control'
  BY <1>15 DEF EsperandoVence, Esperando, VencidoEspera
<1>16. ASSUME NEW k \in Teclas \cup {NINGUNA}, NEW r \in Rfids \cup {VACIO},
              EsperandoTarjeta(k, r)
      PROVE  Control'
  BY <1>16 DEF EsperandoTarjeta, Esperando, VencidoEspera
<1>17. ASSUME NEW k \in Teclas \cup {NINGUNA}, NEW r \in Rfids \cup {VACIO},
              EsperandoEscaneo(k, r)
      PROVE  Control'
  BY <1>17 DEF EsperandoEscaneo, as608ScanReset, Esperando, VencidoEspera
<1>18. ASSUME NEW k \in Teclas \cup {NINGUNA}, PinAdmin(k)
      PROVE  Control'
  BY <1>18 DEF PinAdmin, NiegaAdmin, VuelveA
<1>19. ASSUME NEW k \in Teclas \cup {NINGUNA}, MenuEspera(k)
      PROVE  Control'
  BY <1>19 DEF MenuEspera, EnMenu
<1>20. ASSUME NEW k \in Teclas \cup {NINGUNA}, MenuRegistrar(k)
      PROVE  Control'
  BY <1>20 DEF MenuRegistrar, EnMenu
<1>21. ASSUME NEW k \in Teclas \cup {NINGUNA}, MenuSale(k)
      PROVE  Control'
  BY <1>21 DEF MenuSale, EnMenu, VuelveA
<1>22. ASSUME NEW k \in Teclas \cup {NINGUNA}, MenuSincroniza(k)
      PROVE  Control'
  BY <1>22 DEF MenuSincroniza, EnMenu, VuelveA
<1>23. ASSUME NEW k \in Teclas \cup {NINGUNA}, MenuBorrar(k)
      PROVE  Control'
  BY <1>23 DEF MenuBorrar, EnMenu, EntraEn
<1>24. ASSUME NEW k \in Teclas \cup {NINGUNA}, PinAuth(k)
      PROVE  Control'
  BY <1>24 DEF PinAuth, SigueTecleando, SigueEsperando, EntraEn
<1>25. ASSUME NEW k \in Teclas \cup {NINGUNA}, SubMenu(k)
      PROVE  Control'
  BY <1>25 DEF SubMenu, VuelveA, EntraEn
<1>26. ASSUME NEW k \in Teclas \cup {NINGUNA}, PinTarget(k)
      PROVE  Control'
  BY <1>26 DEF PinTarget, SigueTecleando, SigueEsperando, BorraHuellaDe, VuelveA
<1>27. ASSUME NEW k \in Teclas \cup {NINGUNA}, RegistroPin(k)
      PROVE  Control'
  BY <1>27 DEF RegistroPin, SigueTecleando, SigueEsperando, RegistroPrueba, RegistroSigue,
     VuelveA
<1>28. ASSUME NEW r \in Rfids \cup {VACIO}, RegistroTarjeta(r)
      PROVE  Control'
  BY <1>28 DEF RegistroTarjeta, VuelveA
<1>29. CASE GPIO0_IRQHandler
  BY <1>29 DEF GPIO0_IRQHandler
<1>30. CASE PulsoPresencia
  BY <1>30 DEF PulsoPresencia
<1>31. ASSUME NEW c \in Relojes, Vence(c)
      PROVE  Control'
  BY <1>31 DEF Vence, Esperando, LeyendoHuella
<1>32. CASE HuellaEntorno
  BY <1>32 DEF HuellaEntorno, SensorResponde, VenceCmd, varsMef
<1>33. CASE UNCHANGED vars
  BY <1>33 DEF vars, varsMef
<1> QED
  BY <1>1, <1>2, <1>3, <1>4, <1>5, <1>6, <1>7, <1>8, <1>9, <1>10, <1>11, <1>12,
     <1>13, <1>14, <1>15, <1>16, <1>17, <1>18, <1>19, <1>20, <1>21, <1>22, <1>23,
     <1>24, <1>25, <1>26, <1>27, <1>28, <1>29, <1>30, <1>31, <1>32, <1>33 DEF Next, mefUpdate

\* The variables of MEF.c keep their types.
LEMMA PasoMefTipo ==
    ASSUME IInv, [Next]_vars
    PROVE  MefTypeOK'
<1> USE DEF IInv, TypeOK, MefTypeOK, Estados, Puntos, Preguntas, Sueno, Relojes,
           varsSueno, varsResto, MAX_INTENTOS, MAX_INTENTOS_ENROLL, PinVacio
<1>1. CASE entrarModoSleep
  BY <1>1 DEF entrarModoSleep
<1>2. CASE WFI
  BY <1>2 DEF WFI
<1>3. CASE Despierta
  BY <1>3, MefAssumption DEF Despierta
<1>4. CASE HuellaAbre
  <2>1. cerrojo' \in Int
    <3>1. cerrojo' = cerrojo + STEPS
      BY <1>4 DEF HuellaAbre, abrirCerradura
    <3>2. cerrojo \in Int
      OBVIOUS
    <3> QED
      BY ONLY <3>1, <3>2, StepsEntero
  <2>2. /\ estadoActual' \in Estados
        /\ intentosFallidos' \in 0..(MAX_INTENTOS - 1)
    <3>1. 0 \in 0..(MAX_INTENTOS - 1)
      BY ONLY DEF MAX_INTENTOS
    <3> QED
      BY <1>4, <3>1, Zenon DEF HuellaAbre
  <2>3. escaneoActivo' \in BOOLEAN
    BY <1>4, Zenon DEF HuellaAbre
  <2> QED
    BY <1>4, <2>1, <2>2, <2>3, Zenon DEF HuellaAbre
<1>5. CASE HuellaSigue
  BY <1>5 DEF HuellaSigue, LeyendoHuella
<1>6. CASE HuellaSuelta
  BY <1>6 DEF HuellaSuelta, LeyendoHuella, ScanTermina
<1>7. CASE ValidarRfid
  BY <1>7, StepsEntero DEF ValidarRfid, abrirCerradura
<1>8. CASE ValidarAbre
  BY <1>8, StepsEntero DEF ValidarAbre, abrirCerradura
<1>9. CASE ValidarNiega
  BY <1>9 DEF ValidarNiega
<1>10. ASSUME NEW cerrada \in BOOLEAN, SensorCierre(cerrada)
      PROVE  MefTypeOK'
  BY <1>10, StepsEntero DEF SensorCierre, cerrarCerradura
<1>11. CASE RegistrarInicia
  <2>1. LazoOK'
    BY <1>11, EntraEnTipo DEF LazoOK, RegistrarInicia
  <2> QED
    BY <1>11, <2>1 DEF LazoOK, RegistrarInicia
<1>12. CASE RegistroEnrola
  <2>1. \/ VuelveA("ESPERANDO_ACCION")
        \/ /\ intentos + 1 < MAX_INTENTOS_ENROLL /\ intentos' = intentos + 1
           /\ UNCHANGED <<punto, estadoActual, vencido, pin>>
    BY <1>12 DEF RegistroEnrola
  <2>2. CASE VuelveA("ESPERANDO_ACCION")
    <3>1. LazoOK'
      BY <2>2, VuelveATipo DEF LazoOK
    <3> QED
      BY <1>12, <3>1 DEF LazoOK, RegistroEnrola
  <2>3. CASE UNCHANGED <<punto, estadoActual, vencido, pin>>
    BY <1>12, <2>1, <2>3 DEF RegistroEnrola, VuelveA
  <2> QED
    BY <2>1, <2>2, <2>3
<1>13. ASSUME NEW k \in Teclas \cup {NINGUNA}, EsperandoPin(k)
      PROVE  MefTypeOK'
  BY <1>13, TrasTipo DEF EsperandoPin, Esperando, VencidoEspera
<1>14. ASSUME NEW k \in Teclas \cup {NINGUNA}, EsperandoAsterisco(k)
      PROVE  MefTypeOK'
  BY <1>14 DEF EsperandoAsterisco, Esperando, VencidoEspera
<1>15. ASSUME NEW k \in Teclas \cup {NINGUNA}, EsperandoVence(k)
      PROVE  MefTypeOK'
  BY <1>15 DEF EsperandoVence, Esperando, VencidoEspera
<1>16. ASSUME NEW k \in Teclas \cup {NINGUNA}, NEW r \in Rfids \cup {VACIO},
              EsperandoTarjeta(k, r)
      PROVE  MefTypeOK'
  BY <1>16 DEF EsperandoTarjeta, Esperando, VencidoEspera
<1>17. ASSUME NEW k \in Teclas \cup {NINGUNA}, NEW r \in Rfids \cup {VACIO},
              EsperandoEscaneo(k, r)
      PROVE  MefTypeOK'
  BY <1>17 DEF EsperandoEscaneo, as608ScanReset, Esperando, VencidoEspera
<1>18. ASSUME NEW k \in Teclas \cup {NINGUNA}, PinAdmin(k)
      PROVE  MefTypeOK'
  <2>1. LazoOK'
    BY <1>18, VuelveATipo, NiegaAdminTipo DEF LazoOK, PinAdmin
  <2> QED
    BY <1>18, <2>1 DEF LazoOK, PinAdmin
<1>19. ASSUME NEW k \in Teclas \cup {NINGUNA}, MenuEspera(k)
      PROVE  MefTypeOK'
  BY <1>19 DEF MenuEspera, EnMenu
<1>20. ASSUME NEW k \in Teclas \cup {NINGUNA}, MenuRegistrar(k)
      PROVE  MefTypeOK'
  BY <1>20 DEF MenuRegistrar, EnMenu
<1>21. ASSUME NEW k \in Teclas \cup {NINGUNA}, MenuSale(k)
      PROVE  MefTypeOK'
  BY <1>21 DEF MenuSale, EnMenu, VuelveA
<1>22. ASSUME NEW k \in Teclas \cup {NINGUNA}, MenuSincroniza(k)
      PROVE  MefTypeOK'
  BY <1>22 DEF MenuSincroniza, EnMenu, VuelveA
<1>23. ASSUME NEW k \in Teclas \cup {NINGUNA}, MenuBorrar(k)
      PROVE  MefTypeOK'
  BY <1>23 DEF MenuBorrar, EnMenu, EntraEn
<1>24. ASSUME NEW k \in Teclas \cup {NINGUNA}, PinAuth(k)
      PROVE  MefTypeOK'
  <2>1. LazoOK'
    BY <1>24, SigueTipo, EntraEnTipo DEF LazoOK, PinAuth
  <2> QED
    BY <1>24, <2>1 DEF LazoOK, PinAuth
<1>25. ASSUME NEW k \in Teclas \cup {NINGUNA}, SubMenu(k)
      PROVE  MefTypeOK'
  <2>1. LazoOK'
    BY <1>25, VuelveATipo, EntraEnTipo DEF LazoOK, SubMenu
  <2> QED
    BY <1>25, <2>1 DEF LazoOK, SubMenu
<1>26. ASSUME NEW k \in Teclas \cup {NINGUNA}, PinTarget(k)
      PROVE  MefTypeOK'
  <2>1. LazoOK'
    BY <1>26, SigueTipo, VuelveATipo DEF LazoOK, BorraHuellaDe, PinTarget
  <2> QED
    BY <1>26, <2>1 DEF LazoOK, PinTarget
<1>27. ASSUME NEW k \in Teclas \cup {NINGUNA}, RegistroPin(k)
      PROVE  MefTypeOK'
  <2>1. LazoOK'
    BY <1>27, SigueTipo, RegistroPruebaTipo, TrasTipo DEF LazoOK, RegistroPin
  <2> QED
    BY <1>27, <2>1 DEF LazoOK, RegistroPin
<1>28. ASSUME NEW r \in Rfids \cup {VACIO}, RegistroTarjeta(r)
      PROVE  MefTypeOK'
  BY <1>28 DEF RegistroTarjeta, VuelveA
<1>29. CASE GPIO0_IRQHandler
  BY <1>29 DEF GPIO0_IRQHandler
<1>30. CASE PulsoPresencia
  BY <1>30 DEF PulsoPresencia
<1>31. ASSUME NEW c \in Relojes, Vence(c)
      PROVE  MefTypeOK'
  BY <1>31 DEF Vence, Esperando, LeyendoHuella
<1>32. CASE HuellaEntorno
  BY <1>32 DEF HuellaEntorno, SensorResponde, VenceCmd, varsMef
<1>33. CASE UNCHANGED vars
  BY <1>33 DEF vars, varsMef
<1> QED
  BY <1>1, <1>2, <1>3, <1>4, <1>5, <1>6, <1>7, <1>8, <1>9, <1>10, <1>11, <1>12,
     <1>13, <1>14, <1>15, <1>16, <1>17, <1>18, <1>19, <1>20, <1>21, <1>22, <1>23,
     <1>24, <1>25, <1>26, <1>27, <1>28, <1>29, <1>30, <1>31, <1>32, <1>33 DEF Next, mefUpdate

\* A registration past its PIN prompt goes on for a user of the list.
LEMMA PasoRegistro ==
    ASSUME IInv, [Next]_vars
    PROVE  RegistroConUsuario'
<1> USE DEF IInv, RegistroConUsuario, validarPin, IndicesPin, Sueno, Preguntas, varsResto
<1>1. CASE entrarModoSleep
  BY <1>1 DEF entrarModoSleep
<1>2. CASE WFI
  BY <1>2 DEF WFI
<1>3. CASE Despierta
  BY <1>3 DEF Despierta
<1>4. CASE HuellaAbre
  BY <1>4 DEF HuellaAbre, LeyendoHuella, ScanTermina, abrirCerradura
<1>5. CASE HuellaSigue
  BY <1>5 DEF HuellaSigue, LeyendoHuella
<1>6. CASE HuellaSuelta
  BY <1>6 DEF HuellaSuelta, LeyendoHuella, ScanTermina
<1>7. CASE ValidarRfid
  BY <1>7 DEF ValidarRfid, abrirCerradura
<1>8. CASE ValidarAbre
  BY <1>8 DEF ValidarAbre, abrirCerradura
<1>9. CASE ValidarNiega
  BY <1>9 DEF ValidarNiega
<1>10. ASSUME NEW cerrada \in BOOLEAN, SensorCierre(cerrada)
      PROVE  RegistroConUsuario'
  BY <1>10 DEF SensorCierre, cerrarCerradura
<1>11. CASE RegistrarInicia
  BY <1>11 DEF RegistrarInicia, EntraEn
<1>12. CASE RegistroEnrola
  BY <1>12 DEF RegistroEnrola, VuelveA
<1>13. ASSUME NEW k \in Teclas \cup {NINGUNA}, EsperandoPin(k)
      PROVE  RegistroConUsuario'
  BY <1>13 DEF EsperandoPin, Esperando, VencidoEspera
<1>14. ASSUME NEW k \in Teclas \cup {NINGUNA}, EsperandoAsterisco(k)
      PROVE  RegistroConUsuario'
  BY <1>14 DEF EsperandoAsterisco, Esperando, VencidoEspera
<1>15. ASSUME NEW k \in Teclas \cup {NINGUNA}, EsperandoVence(k)
      PROVE  RegistroConUsuario'
  BY <1>15 DEF EsperandoVence, Esperando, VencidoEspera
<1>16. ASSUME NEW k \in Teclas \cup {NINGUNA}, NEW r \in Rfids \cup {VACIO},
              EsperandoTarjeta(k, r)
      PROVE  RegistroConUsuario'
  BY <1>16 DEF EsperandoTarjeta, Esperando, VencidoEspera
<1>17. ASSUME NEW k \in Teclas \cup {NINGUNA}, NEW r \in Rfids \cup {VACIO},
              EsperandoEscaneo(k, r)
      PROVE  RegistroConUsuario'
  BY <1>17 DEF EsperandoEscaneo, as608ScanReset, Esperando, VencidoEspera
<1>18. ASSUME NEW k \in Teclas \cup {NINGUNA}, PinAdmin(k)
      PROVE  RegistroConUsuario'
  BY <1>18 DEF PinAdmin, NiegaAdmin, VuelveA
<1>19. ASSUME NEW k \in Teclas \cup {NINGUNA}, MenuEspera(k)
      PROVE  RegistroConUsuario'
  BY <1>19 DEF MenuEspera, EnMenu
<1>20. ASSUME NEW k \in Teclas \cup {NINGUNA}, MenuRegistrar(k)
      PROVE  RegistroConUsuario'
  BY <1>20 DEF MenuRegistrar, EnMenu
<1>21. ASSUME NEW k \in Teclas \cup {NINGUNA}, MenuSale(k)
      PROVE  RegistroConUsuario'
  BY <1>21 DEF MenuSale, EnMenu, VuelveA
<1>22. ASSUME NEW k \in Teclas \cup {NINGUNA}, MenuSincroniza(k)
      PROVE  RegistroConUsuario'
  BY <1>22 DEF MenuSincroniza, EnMenu, VuelveA
<1>23. ASSUME NEW k \in Teclas \cup {NINGUNA}, MenuBorrar(k)
      PROVE  RegistroConUsuario'
  BY <1>23 DEF MenuBorrar, EnMenu, EntraEn
<1>24. ASSUME NEW k \in Teclas \cup {NINGUNA}, PinAuth(k)
      PROVE  RegistroConUsuario'
  BY <1>24 DEF PinAuth, SigueTecleando, SigueEsperando, EntraEn
<1>25. ASSUME NEW k \in Teclas \cup {NINGUNA}, SubMenu(k)
      PROVE  RegistroConUsuario'
  BY <1>25 DEF SubMenu, VuelveA, EntraEn
<1>26. ASSUME NEW k \in Teclas \cup {NINGUNA}, PinTarget(k)
      PROVE  RegistroConUsuario'
  BY <1>26 DEF PinTarget, SigueTecleando, SigueEsperando, BorraHuellaDe, VuelveA
<1>27. ASSUME NEW k \in Teclas \cup {NINGUNA}, RegistroPin(k)
      PROVE  RegistroConUsuario'
  BY <1>27 DEF RegistroPin, SigueTecleando, SigueEsperando, RegistroPrueba, RegistroSigue,
     VuelveA
<1>28. ASSUME NEW r \in Rfids \cup {VACIO}, RegistroTarjeta(r)
      PROVE  RegistroConUsuario'
  BY <1>28 DEF RegistroTarjeta, VuelveA
<1>29. CASE GPIO0_IRQHandler
  BY <1>29 DEF GPIO0_IRQHandler
<1>30. CASE PulsoPresencia
  BY <1>30 DEF PulsoPresencia
<1>31. ASSUME NEW c \in Relojes, Vence(c)
      PROVE  RegistroConUsuario'
  BY <1>31 DEF Vence, Esperando, LeyendoHuella
<1>32. CASE HuellaEntorno
  BY <1>32 DEF HuellaEntorno, SensorResponde, VenceCmd, varsMef
<1>33. CASE UNCHANGED vars
  BY <1>33 DEF vars, varsMef
<1> QED
  BY <1>1, <1>2, <1>3, <1>4, <1>5, <1>6, <1>7, <1>8, <1>9, <1>10, <1>11, <1>12,
     <1>13, <1>14, <1>15, <1>16, <1>17, <1>18, <1>19, <1>20, <1>21, <1>22, <1>23,
     <1>24, <1>25, <1>26, <1>27, <1>28, <1>29, <1>30, <1>31, <1>32, <1>33 DEF Next, mefUpdate

\* The list keeps its shape when nobody writes it.
LEMMA ListaIgual ==
    ASSUME ValidacionTypeOK, UNCHANGED listaPins
    PROVE  ValidacionTypeOK'
BY DEF ValidacionTypeOK

\* So does the keypad's buffer,
LEMMA TecladoIgual ==
    ASSUME TecladoTypeOK, UNCHANGED varsTeclado
    PROVE  TecladoTypeOK'
BY DEF TecladoTypeOK, varsTeclado

\* and so do the scan and the sensor.
LEMMA SensorIgual ==
    ASSUME As608TypeOK, UNCHANGED varsAs608
    PROVE  As608TypeOK'
BY DEF As608TypeOK, varsAs608

\* A blocking command changes only the templates.
LEMMA PlantillasTipo ==
    ASSUME As608TypeOK, UNCHANGED varsScan, plantillas' \subseteq 0..CAPACIDAD
    PROVE  As608TypeOK'
BY DEF As608TypeOK, varsScan

\* The user list, the keypad and the sensor keep their types.
LEMMA PasoDatos ==
    ASSUME IInv, [Next]_vars
    PROVE  ValidacionTypeOK' /\ TecladoTypeOK' /\ As608TypeOK'
<1> USE DEF IInv, TypeOK
<1>1. CASE entrarModoSleep
  BY <1>1, ListaIgual, TecladoIgual, SensorIgual DEF entrarModoSleep
<1>2. CASE WFI
  BY <1>2, ListaIgual, TecladoIgual, SensorIgual DEF WFI
<1>3. CASE Despierta
  BY <1>3, ListaIgual, ActualizarTipo, TecladoIgual, SensorIgual DEF Despierta,
     sincronizacionFalla
<1>4. CASE HuellaAbre
  BY <1>4, ListaIgual, TecladoIgual, EscaneoTipo DEF HuellaAbre, ScanTermina, Fin
<1>5. CASE HuellaSigue
  BY <1>5, ListaIgual, TecladoIgual, EscaneoTipo DEF HuellaSigue, Fin
<1>6. CASE HuellaSuelta
  BY <1>6, ListaIgual, TecladoIgual, EscaneoTipo DEF HuellaSuelta, ScanTermina, Fin
<1>7. CASE ValidarRfid
  BY <1>7, ListaIgual, TecladoIgual, TecladoResetTipo, SensorIgual DEF ValidarRfid,
     varsTeclado
<1>8. CASE ValidarAbre
  BY <1>8, ListaIgual, TecladoIgual, SensorIgual DEF ValidarAbre
<1>9. CASE ValidarNiega
  BY <1>9, ListaIgual, TecladoResetTipo, SensorIgual DEF ValidarNiega
<1>10. ASSUME NEW cerrada \in BOOLEAN, SensorCierre(cerrada)
      PROVE  ValidacionTypeOK' /\ TecladoTypeOK' /\ As608TypeOK'
  BY <1>10, ListaIgual, TecladoIgual, SensorIgual DEF SensorCierre
<1>11. CASE RegistrarInicia
  BY <1>11, ListaIgual, TecladoIgual, SensorIgual DEF RegistrarInicia
<1>12. CASE RegistroEnrola
  <2> DEFINE id == atoi(obtenerHuellaAsignadaPorPin(pin))
  <2>1. id \in Nat /\ formato04(id) \in TextosHuella
    BY <1>12, IdAsignadoTipo DEF RegistroEnrola, RegistroConUsuario
  <2>2. ValidacionTypeOK'
    BY <1>12, <2>1, ListaIgual, AsociarHuellaTipo DEF RegistroEnrola
  <2>3. plantillas' \subseteq 0..CAPACIDAD
    <3>1. plantillas' = plantillas \/ (id <= CAPACIDAD /\ plantillas' = plantillas \cup {id})
      BY <1>12 DEF RegistroEnrola, as608EnrollAtId, as608EnrollAtIdFalla
    <3>2. plantillas \subseteq 0..CAPACIDAD /\ CAPACIDAD \in Nat
      BY As608Assumption DEF As608TypeOK
    <3>3. id <= CAPACIDAD => id \in 0..CAPACIDAD
      BY <2>1, <3>2
    <3> QED
      BY <3>1, <3>2, <3>3, Zenon
  <2> QED
    BY <1>12, <2>2, <2>3, TecladoIgual, PlantillasTipo DEF RegistroEnrola
<1>13. ASSUME NEW k \in Teclas \cup {NINGUNA}, EsperandoPin(k)
      PROVE  ValidacionTypeOK' /\ TecladoTypeOK' /\ As608TypeOK'
  BY <1>13, ListaIgual, TecladoTipo, SensorIgual DEF EsperandoPin
<1>14. ASSUME NEW k \in Teclas \cup {NINGUNA}, EsperandoAsterisco(k)
      PROVE  ValidacionTypeOK' /\ TecladoTypeOK' /\ As608TypeOK'
  BY <1>14, ListaIgual, TecladoTipo, SensorIgual DEF EsperandoAsterisco
<1>15. ASSUME NEW k \in Teclas \cup {NINGUNA}, EsperandoVence(k)
      PROVE  ValidacionTypeOK' /\ TecladoTypeOK' /\ As608TypeOK'
  BY <1>15, ListaIgual, TecladoTipo, SensorIgual DEF EsperandoVence
<1>16. ASSUME NEW k \in Teclas \cup {NINGUNA}, NEW r \in Rfids \cup {VACIO},
              EsperandoTarjeta(k, r)
      PROVE  ValidacionTypeOK' /\ TecladoTypeOK' /\ As608TypeOK'
  BY <1>16, ListaIgual, TecladoTipo, SensorIgual DEF EsperandoTarjeta
<1>17. ASSUME NEW k \in Teclas \cup {NINGUNA}, NEW r \in Rfids \cup {VACIO},
              EsperandoEscaneo(k, r)
      PROVE  ValidacionTypeOK' /\ TecladoTypeOK' /\ As608TypeOK'
  BY <1>17, ListaIgual, TecladoTipo, EscaneoTipo, SensorIgual DEF EsperandoEscaneo,
     as608ScanReset, varsScan, varsAs608
<1>18. ASSUME NEW k \in Teclas \cup {NINGUNA}, PinAdmin(k)
      PROVE  ValidacionTypeOK' /\ TecladoTypeOK' /\ As608TypeOK'
  BY <1>18, ListaIgual, TecladoTipo, TecladoResetTipo, SensorIgual DEF PinAdmin
<1>19. ASSUME NEW k \in Teclas \cup {NINGUNA}, MenuEspera(k)
      PROVE  ValidacionTypeOK' /\ TecladoTypeOK' /\ As608TypeOK'
  BY <1>19, ListaIgual, TecladoTipo, SensorIgual DEF MenuEspera
<1>20. ASSUME NEW k \in Teclas \cup {NINGUNA}, MenuRegistrar(k)
      PROVE  ValidacionTypeOK' /\ TecladoTypeOK' /\ As608TypeOK'
  BY <1>20, ListaIgual, TecladoTipo, SensorIgual DEF MenuRegistrar
<1>21. ASSUME NEW k \in Teclas \cup {NINGUNA}, MenuSale(k)
      PROVE  ValidacionTypeOK' /\ TecladoTypeOK' /\ As608TypeOK'
  BY <1>21, ListaIgual, TecladoTipo, SensorIgual DEF MenuSale
<1>22. ASSUME NEW k \in Teclas \cup {NINGUNA}, MenuSincroniza(k)
      PROVE  ValidacionTypeOK' /\ TecladoTypeOK' /\ As608TypeOK'
  BY <1>22, ListaIgual, ActualizarTipo, TecladoTipo, SensorIgual DEF MenuSincroniza,
     sincronizacionFalla
<1>23. ASSUME NEW k \in Teclas \cup {NINGUNA}, MenuBorrar(k)
      PROVE  ValidacionTypeOK' /\ TecladoTypeOK' /\ As608TypeOK'
  BY <1>23, ListaIgual, TecladoTipo, SensorIgual DEF MenuBorrar
<1>24. ASSUME NEW k \in Teclas \cup {NINGUNA}, PinAuth(k)
      PROVE  ValidacionTypeOK' /\ TecladoTypeOK' /\ As608TypeOK'
  BY <1>24, ListaIgual, TecladoTipo, SensorIgual DEF PinAuth, SigueTecleando,
     SigueEsperando, VencePregunta
<1>25. ASSUME NEW k \in Teclas \cup {NINGUNA}, SubMenu(k)
      PROVE  ValidacionTypeOK' /\ TecladoTypeOK' /\ As608TypeOK'
  <2>1. ValidacionTypeOK'
    BY <1>25, ListaIgual, EliminarTodasTipo DEF SubMenu
  <2>2. TecladoTypeOK'
    BY <1>25, TecladoTipo, TecladoIgual DEF SubMenu
  <2>3. plantillas' \subseteq 0..CAPACIDAD
    BY <1>25 DEF SubMenu, as608ClearAllTemplates, as608ClearAllTemplatesFalla, As608TypeOK
  <2> QED
    BY <1>25, <2>1, <2>2, <2>3, PlantillasTipo DEF SubMenu
<1>26. ASSUME NEW k \in Teclas \cup {NINGUNA}, PinTarget(k)
      PROVE  ValidacionTypeOK' /\ TecladoTypeOK' /\ As608TypeOK'
  <2>1. ValidacionTypeOK'
    BY <1>26, ListaIgual, EliminarHuellaTipo DEF PinTarget, BorraHuellaDe
  <2>2. TecladoTypeOK'
    BY <1>26, TecladoTipo DEF PinTarget, SigueTecleando, SigueEsperando, VencePregunta
  <2>3. plantillas' \subseteq 0..CAPACIDAD
    BY <1>26 DEF PinTarget, BorraHuellaDe, as608DeleteId, as608DeleteIdFalla, As608TypeOK
  <2> QED
    BY <1>26, <2>1, <2>2, <2>3, PlantillasTipo DEF PinTarget
<1>27. ASSUME NEW k \in Teclas \cup {NINGUNA}, RegistroPin(k)
      PROVE  ValidacionTypeOK' /\ TecladoTypeOK' /\ As608TypeOK'
  BY <1>27, ListaIgual, TecladoTipo, SensorIgual DEF RegistroPin, SigueTecleando,
     SigueEsperando, VencePregunta
<1>28. ASSUME NEW r \in Rfids \cup {VACIO}, RegistroTarjeta(r)
      PROVE  ValidacionTypeOK' /\ TecladoTypeOK' /\ As608TypeOK'
  BY <1>28, ListaIgual, AsociarRfidTipo, TecladoIgual, SensorIgual DEF RegistroTarjeta
<1>29. CASE GPIO0_IRQHandler
  BY <1>29, ListaIgual, TecladoIgual, SensorIgual DEF GPIO0_IRQHandler
<1>30. CASE PulsoPresencia
  BY <1>30, ListaIgual, TecladoIgual, SensorIgual DEF PulsoPresencia
<1>31. ASSUME NEW c \in Relojes, Vence(c)
      PROVE  ValidacionTypeOK' /\ TecladoTypeOK' /\ As608TypeOK'
  BY <1>31, ListaIgual, TecladoIgual, SensorIgual DEF Vence
<1>32. CASE HuellaEntorno
  BY <1>32, ListaIgual, TecladoIgual, EntornoTipo DEF HuellaEntorno, SensorResponde,
     VenceCmd, varsMef
<1>33. CASE UNCHANGED vars
  BY <1>33, ListaIgual, TecladoIgual, SensorIgual DEF vars
<1> QED
  BY <1>1, <1>2, <1>3, <1>4, <1>5, <1>6, <1>7, <1>8, <1>9, <1>10, <1>11, <1>12,
     <1>13, <1>14, <1>15, <1>16, <1>17, <1>18, <1>19, <1>20, <1>21, <1>22, <1>23,
     <1>24, <1>25, <1>26, <1>27, <1>28, <1>29, <1>30, <1>31, <1>32, <1>33 DEF Next, mefUpdate

-----------------------------------------------------------------------------
(* The inductive invariant. *)

\* mefInit establishes the invariant.
LEMMA IInvInicial == Init => IInv
<1> SUFFICES ASSUME Init PROVE IInv
  OBVIOUS
<1>1. MefTypeOK
  <2>1. /\ 0 \in 0..(MAX_INTENTOS - 1) /\ 0 \in 0..(MAX_INTENTOS_ENROLL - 1)
        /\ 0 \in Int /\ 0 \in Nat /\ PinVacio \in Seq(Digitos)
    BY DEF MAX_INTENTOS, MAX_INTENTOS_ENROLL, PinVacio
  <2> QED
    BY <2>1, Zenon DEF Init, MefTypeOK, Estados, Puntos
<1>2. ValidacionTypeOK
  BY ListasAssumption, CopiaTipo DEF Init, ValidacionTypeOK
<1>3. TecladoTypeOK
  BY TeclasAssumption DEF Init, TecladoInit, TecladoTypeOK
<1>4. As608TypeOK
  <2>1. 0 \in 0..CAPACIDAD /\ PlantillasIniciales \subseteq 0..CAPACIDAD
    BY As608Assumption
  <2> QED
    BY <2>1, Zenon DEF Init, As608Init, As608TypeOK, EstadosScan
<1>5. Control
  BY DEF Init, As608Init, Control, PuntoSegunEstado, EstadosDe, IrqSegunPunto,
         CerrojoSegunEstado, EscaneoConDueno, EscaneoSinDueno, Estados, Sueno
<1>6. RegistroConUsuario
  BY DEF Init, RegistroConUsuario
<1> QED
  BY <1>1, <1>2, <1>3, <1>4, <1>5, <1>6 DEF IInv, TypeOK

\* Every step keeps it.
LEMMA IInvPaso == IInv /\ [Next]_vars => IInv'
BY PasoMefTipo, PasoDatos, PasoControl, PasoRegistro DEF IInv, TypeOK

\* Every state of the machine satisfies the inductive invariant: the loop the
\* program is in, the bolt, the interrupt and the scan agree with estadoActual.
THEOREM Invariante == Spec => []IInv
BY IInvInicial, IInvPaso, PTL DEF Spec

\* Types: among others the counts of wrong PINs and of enrolments stay below
\* their limits, the shared keypad buffer never holds a whole PIN between two
\* polls, and every page a template is stored to is within the sensor's range.
THEOREM TiposCorrectos == Spec => []TypeOK
<1>1. IInv => TypeOK
  BY DEF IInv
<1> QED
  BY <1>1, Invariante, PTL

\* The bolt is open exactly in SENSOR_CIERRE, whatever the motor's number of
\* steps: relative moves never pile up.
THEOREM CerrojoSiempreSegunEstado == Spec => []CerrojoSegunEstado
<1>1. IInv => CerrojoSegunEstado
  BY DEF IInv, Control
<1> QED
  BY <1>1, Invariante, PTL

\* The processor stops only with the bolt closed and its wake-up interrupt on,
\* and the interrupt is on only while the machine rests.
THEOREM DuermeSiempreDespertable == Spec => []DuermeDespertable
<1>1. IInv => DuermeDespertable
  BY DEF IInv, Control, DuermeDespertable, PuntoSegunEstado, EstadosDe, IrqSegunPunto,
         CerrojoSegunEstado, Sueno
<1> QED
  BY <1>1, Invariante, PTL

\* A scan is never started over one that still waits for an answer.
THEOREM EscaneoSiempreSinDueno == Spec => []EscaneoSinDueno
<1>1. IInv => EscaneoSinDueno
  BY DEF IInv, Control
<1> QED
  BY <1>1, Invariante, PTL

\* The user list changes only on waking up, in the menu, or in a registration
\* that was not given up at its PIN prompt.
THEOREM RegistroSiempreAbandonado == Spec => RegistroAbandonado
<1> DEFINE Permitidos == {"REPOSO", "MENU_ADMIN", "REGISTRAR_RFID", "REGISTRAR_HUELLA"}
           A == listaPins' # listaPins => estadoActual \in Permitidos
<1>1. IInv /\ [Next]_vars => [A]_vars
  <2> SUFFICES ASSUME IInv, Next, listaPins' # listaPins
               PROVE  estadoActual \in Permitidos
    OBVIOUS
  <2>1. \/ punto \in {"despierta", "subMenu", "pinTarget", "tarjeta", "enrola"}
        \/ estadoActual = "MENU_ADMIN"
    <3> USE DEF varsResto
    <3>1. CASE Despierta \/ RegistroEnrola \/ \E r \in Rfids \cup {VACIO} : RegistroTarjeta(r)
      BY <3>1 DEF Despierta, RegistroEnrola, RegistroTarjeta
    <3>2. ASSUME NEW k \in Teclas \cup {NINGUNA},
                 SubMenu(k) \/ PinTarget(k) \/ MenuSincroniza(k)
          PROVE  \/ punto \in {"despierta", "subMenu", "pinTarget", "tarjeta", "enrola"}
                 \/ estadoActual = "MENU_ADMIN"
      BY <3>2 DEF SubMenu, PinTarget, MenuSincroniza, EnMenu
    <3>3. ~(\/ entrarModoSleep \/ WFI \/ GPIO0_IRQHandler \/ PulsoPresencia \/ HuellaEntorno
            \/ HuellaAbre \/ HuellaSigue \/ HuellaSuelta
            \/ ValidarRfid \/ ValidarAbre \/ ValidarNiega \/ RegistrarInicia)
      BY DEF entrarModoSleep, WFI, GPIO0_IRQHandler, PulsoPresencia, HuellaEntorno,
             HuellaAbre, HuellaSigue, HuellaSuelta, ValidarRfid, ValidarAbre, ValidarNiega,
             RegistrarInicia
    <3>4. ASSUME NEW k \in Teclas \cup {NINGUNA}
          PROVE  ~(\/ EsperandoPin(k) \/ EsperandoAsterisco(k) \/ EsperandoVence(k)
                   \/ PinAdmin(k) \/ MenuEspera(k) \/ MenuRegistrar(k) \/ MenuSale(k)
                   \/ MenuBorrar(k) \/ PinAuth(k) \/ RegistroPin(k))
      BY DEF EsperandoPin, EsperandoAsterisco, EsperandoVence, PinAdmin, MenuEspera,
             MenuRegistrar, MenuSale, MenuBorrar, PinAuth, RegistroPin
    <3>5. ASSUME NEW k \in Teclas \cup {NINGUNA}, NEW r \in Rfids \cup {VACIO}
          PROVE  ~(EsperandoTarjeta(k, r) \/ EsperandoEscaneo(k, r))
      BY DEF EsperandoTarjeta, EsperandoEscaneo
    <3>6. /\ \A cerrada \in BOOLEAN : ~SensorCierre(cerrada)
          /\ \A c \in Relojes : ~Vence(c)
      BY DEF SensorCierre, Vence
    <3> QED
      BY <3>1, <3>2, <3>3, <3>4, <3>5, <3>6 DEF Next, mefUpdate
  <2> QED
    BY <2>1 DEF IInv, Control, PuntoSegunEstado, EstadosDe, Sueno
<1> QED
  BY <1>1, Invariante, PTL DEF Spec, RegistroAbandonado

\* The scan and the template store of the driver alone keep their types: the page
\* of a blocking command is looked at before a template is stored (as608.c:356).
THEOREM As608Tipos == As608Spec => []As608TypeOK
<1>1. As608Init => As608TypeOK
  <2>1. 0 \in 0..CAPACIDAD /\ PlantillasIniciales \subseteq 0..CAPACIDAD
    BY As608Assumption
  <2> QED
    BY <2>1, Zenon DEF As608Init, As608TypeOK, EstadosScan
<1>2. As608TypeOK /\ [As608Next]_varsAs608 => As608TypeOK'
  <2> SUFFICES ASSUME As608TypeOK, [As608Next]_varsAs608 PROVE As608TypeOK'
    OBVIOUS
  <2>1. CASE UNCHANGED plantillas /\ (as608ScanStep \/ as608ScanReset)
    BY <2>1, EscaneoTipo DEF as608ScanStep
  <2>2. CASE SensorResponde \/ VenceCmd
    BY <2>2, EntornoTipo
  <2>3. CASE /\ UNCHANGED varsScan
             /\ \/ \E id \in 0..(CAPACIDAD + 1) :
                      \/ as608EnrollAtId(id)
                      \/ as608EnrollAtIdFalla(id)
                      \/ as608DeleteId(id)
                      \/ as608DeleteIdFalla(id)
                \/ as608ClearAllTemplates
                \/ as608ClearAllTemplatesFalla
    <3>1. plantillas' \subseteq 0..CAPACIDAD
      <4>1. ASSUME NEW id \in 0..(CAPACIDAD + 1), id <= CAPACIDAD
            PROVE  plantillas \cup {id} \subseteq 0..CAPACIDAD
        BY <4>1, As608Assumption DEF As608TypeOK
      <4>2. /\ plantillas \subseteq 0..CAPACIDAD
            /\ \A id : plantillas \ {id} \subseteq 0..CAPACIDAD
        BY DEF As608TypeOK
      <4> QED
        BY <2>3, <4>1, <4>2, Zenon
           DEF as608EnrollAtId, as608EnrollAtIdFalla, as608DeleteId,
               as608DeleteIdFalla, as608ClearAllTemplates, as608ClearAllTemplatesFalla
    <3> QED
      BY <2>3, <3>1, PlantillasTipo
  <2>4. CASE UNCHANGED varsAs608
    BY <2>4, SensorIgual
  <2> QED
    BY <2>1, <2>2, <2>3, <2>4 DEF As608Next
<1> QED
  BY <1>1, <1>2, PTL DEF As608Spec

=============================================================================
