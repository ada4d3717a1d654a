------------------------- MODULE MEFReinicioProofs -------------------------
(***************************************************************************)
(* CerrojoDesdeInicio for every value of the constants and any number of   *)
(* losses of the supply.  The invariant of MEFProofs does not survive a    *)
(* reset with the bolt open, so the part that does is proved again, with   *)
(* the bolt measured from where it was when the program started.           *)
(***************************************************************************)
EXTENDS MEFReinicio, MEFProofs

CerrojoInv ==
    /\ estadoActual \in Estados
    /\ punto \in Puntos
    /\ PuntoSegunEstado
    /\ inicio \in Int
    /\ CerrojoDesdeInicio

\* Every step of the program moves the bolt exactly when the state says so.
LEMMA PasoCerrojo ==
    ASSUME CerrojoInv, [Next]_vars, UNCHANGED inicio
    PROVE  CerrojoInv'
<1> USE StepsEntero DEF CerrojoInv, PuntoSegunEstado, EstadosDe, CerrojoDesdeInicio, Estados,
           Puntos, Preguntas, Sueno, varsSueno, varsResto
<1>1. CASE entrarModoSleep
  BY <1>1 DEF entrarModoSleep
<1>2. CASE WFI
  BY <1>2 DEF WFI
<1>3. CASE Despierta
  BY <1>3 DEF Despierta
<1>4. CASE HuellaAbre
  BY <1>4, StepsEntero DEF HuellaAbre, LeyendoHuella, ScanTermina, abrirCerradura
<1>5. CASE HuellaSigue
  BY <1>5 DEF HuellaSigue, LeyendoHuella
<1>6. CASE HuellaSuelta
  BY <1>6 DEF HuellaSuelta, LeyendoHuella, ScanTermina
<1>7. CASE ValidarRfid
  BY <1>7, StepsEntero DEF ValidarRfid, abrirCerradura
<1>8. CASE ValidarAbre
  BY <1>8, StepsEntero DEF ValidarAbre, abrirCerradura
<1>9. CASE ValidarNiega
  BY <1>9 DEF ValidarNiega
<1>10. ASSUME NEW cerrada \in BOOLEAN, SensorCierre(cerrada)
      PROVE  CerrojoInv'
  BY <1>10 DEF SensorCierre, cerrarCerradura
<1>11. CASE RegistrarInicia
  BY <1>11 DEF RegistrarInicia, EntraEn
<1>12. CASE RegistroEnrola
  BY <1>12 DEF RegistroEnrola, VuelveA
<1>13. ASSUME NEW k \in Teclas \cup {NINGUNA}, EsperandoPin(k)
      PROVE  CerrojoInv'
  BY <1>13 DEF EsperandoPin, Esperando, VencidoEspera
<1>14. ASSUME NEW k \in Teclas \cup {NINGUNA}, EsperandoAsterisco(k)
      PROVE  CerrojoInv'
  BY <1>14 DEF EsperandoAsterisco, Esperando, VencidoEspera
<1>15. ASSUME NEW k \in Teclas \cup {NINGUNA}, EsperandoVence(k)
      PROVE  CerrojoInv'
  BY <1>15 DEF EsperandoVence, Esperando, VencidoEspera
<1>16. ASSUME NEW k \in Teclas \cup {NINGUNA}, NEW r \in Rfids \cup {VACIO},
              EsperandoTarjeta(k, r)
      PROVE  CerrojoInv'
  BY <1>16 DEF EsperandoTarjeta, Esperando, VencidoEspera
<1>17. ASSUME NEW k \in Teclas \cup {NINGUNA}, NEW r \in Rfids \cup {VACIO},
              EsperandoEscaneo(k, r)
      PROVE  CerrojoInv'
  BY <1>17 DEF EsperandoEscaneo, as608ScanReset, Esperando, VencidoEspera
<1>18. ASSUME NEW k \in Teclas \cup {NINGUNA}, PinAdmin(k)
      PROVE  CerrojoInv'
  BY <1>18 DEF PinAdmin, NiegaAdmin, VuelveA
<1>19. ASSUME NEW k \in Teclas \cup {NINGUNA}, MenuEspera(k)
      PROVE  CerrojoInv'
  BY <1>19 DEF MenuEspera, EnMenu
<1>20. ASSUME NEW k \in Teclas \cup {NINGUNA}, MenuRegistrar(k)
      PROVE  CerrojoInv'
  BY <1>20 DEF MenuRegistrar, EnMenu
<1>21. ASSUME NEW k \in Teclas \cup {NINGUNA}, MenuSale(k)
      PROVE  CerrojoInv'
  BY <1>21 DEF MenuSale, EnMenu, VuelveA
<1>22. ASSUME NEW k \in Teclas \cup {NINGUNA}, MenuSincroniza(k)
      PROVE  CerrojoInv'
  BY <1>22 DEF MenuSincroniza, EnMenu, VuelveA
<1>23. ASSUME NEW k \in Teclas \cup {NINGUNA}, MenuBorrar(k)
      PROVE  CerrojoInv'
  BY <1>23 DEF MenuBorrar, EnMenu, EntraEn
<1>24. ASSUME NEW k \in Teclas \cup {NINGUNA}, PinAuth(k)
      PROVE  CerrojoInv'
  BY <1>24 DEF PinAuth, SigueTecleando, SigueEsperando, EntraEn
<1>25. ASSUME NEW k \in Teclas \cup {NINGUNA}, SubMenu(k)
      PROVE  CerrojoInv'
  BY <1>25 DEF SubMenu, VuelveA, EntraEn
<1>26. ASSUME NEW k \in Teclas \cup {NINGUNA}, PinTarget(k)
      PROVE  CerrojoInv'
  BY <1>26 DEF PinTarget, SigueTecleando, SigueEsperando, BorraHuellaDe, VuelveA
<1>27. ASSUME NEW k \in Teclas \cup {NINGUNA}, RegistroPin(k)
      PROVE  CerrojoInv'
  BY <1>27 DEF RegistroPin, SigueTecleando, SigueEsperando, RegistroPrueba, RegistroSigue,
     VuelveA
<1>28. ASSUME NEW r \in Rfids \cup {VACIO}, RegistroTarjeta(r)
      PROVE  CerrojoInv'
  BY <1>28 DEF RegistroTarjeta, VuelveA
<1>29. CASE GPIO0_IRQHandler
  BY <1>29 DEF GPIO0_IRQHandler
<1>30. CASE PulsoPresencia
  BY <1>30 DEF PulsoPresencia
<1>31. ASSUME NEW c \in Relojes, Vence(c)
      PROVE  CerrojoInv'
  BY <1>31 DEF Vence, Esperando, LeyendoHuella
<1>32. CASE HuellaEntorno
  BY <1>32 DEF HuellaEntorno, SensorResponde, VenceCmd, varsMef
<1>33. CASE UNCHANGED vars
  BY <1>33 DEF vars, varsMef
<1> QED
  BY <1>1, <1>2, <1>3, <1>4, <1>5, <1>6, <1>7, <1>8, <1>9, <1>10, <1>11, <1>12,
     <1>13, <1>14, <1>15, <1>16, <1>17, <1>18, <1>19, <1>20, <1>21, <1>22, <1>23,
     <1>24, <1>25, <1>26, <1>27, <1>28, <1>29, <1>30, <1>31, <1>32, <1>33 DEF Next, mefUpdate

\* A reset takes the bolt where it is for the start.
LEMMA ReinicioCerrojo ==
    ASSUME CerrojoInv, reinicio, inicio' = cerrojo
    PROVE  CerrojoInv'
<1>1. cerrojo \in Int
  BY StepsEntero DEF CerrojoInv, CerrojoDesdeInicio
<1>2. estadoActual' = "ESPERANDO_ACCION" /\ punto' = "mef" /\ cerrojo' = cerrojo
  BY DEF reinicio
<1>3. CerrojoDesdeInicio' /\ inicio' \in Int
  BY <1>1, <1>2 DEF CerrojoDesdeInicio
<1>4. estadoActual' \in Estados /\ punto' \in Puntos
  BY <1>2 DEF Estados, Puntos
<1>5. PuntoSegunEstado'
  BY <1>2, <1>4 DEF PuntoSegunEstado, EstadosDe, Sueno
<1> QED
  BY <1>3, <1>4, <1>5 DEF CerrojoInv

\* However often the supply is lost, and wherever, the bolt is where it was when the
\* program last started, or one opening further in SENSOR_CIERRE (stepperMotor.c:62-84).
THEOREM CerrojoSiempreDesdeInicio == ReinicioSpec => []CerrojoDesdeInicio
<1>1. ReinicioInit => CerrojoInv
  BY DEF ReinicioInit, Init, CerrojoInv, PuntoSegunEstado, EstadosDe, CerrojoDesdeInicio,
         Estados, Puntos, Sueno
<1>2. CerrojoInv /\ [ReinicioNext]_varsReinicio => CerrojoInv'
  <2> SUFFICES ASSUME CerrojoInv, [ReinicioNext]_varsReinicio PROVE CerrojoInv'
    OBVIOUS
  <2>1. CASE Next /\ UNCHANGED inicio
    BY <2>1, PasoCerrojo
  <2>2. CASE reinicio /\ inicio' = cerrojo
    BY <2>2, ReinicioCerrojo
  <2>3. CASE UNCHANGED varsReinicio
    BY <2>3, PasoCerrojo DEF varsReinicio
  <2> QED
    BY <2>1, <2>2, <2>3 DEF ReinicioNext
<1>3. CerrojoInv => CerrojoDesdeInicio
  BY DEF CerrojoInv
<1> QED
  BY <1>1, <1>2, <1>3, PTL DEF ReinicioSpec

=============================================================================
