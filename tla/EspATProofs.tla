---------------------------- MODULE EspATProofs ----------------------------
(* Safety of EspAT for every length of the wait and of the association. *)
EXTENDS EspAT, TLAPS

\* The flags stay flags.
Banderas ==
    /\ red \in BOOLEAN /\ credenciales \in BOOLEAN /\ vivo \in BOOLEAN
    /\ blufi \in BOOLEAN /\ conectado \in BOOLEAN

LEMMA BanderasTipo == EspTypeOK <=> /\ Banderas
                                    /\ edad \in 0..ASOCIA
                                    /\ punto \in {"AT", "CIPSTATUS", "fuera"}
                                    /\ count \in 0..(VENTANA - 1)
                                    /\ llamador \in {"mefInit", "despierta", "resetear", "menu"}
BY Zenon DEF EspTypeOK, Banderas

LEMMA BanderasPaso ==
    ASSUME Banderas, [EspNext]_varsEsp
    PROVE  Banderas'
BY Zenon DEF Banderas, EspNext, inicializarESP, Mundo, varsEsp, varsEntornoEsp, respondeAT,
   sinRespuestaAT, hayIP, noHayIP, vence, reconecta, resetearCredencialesESP, reset,
   cambiaRed, cambiaEsp, daCredenciales, arrancaEsp

\* The counters stay within their limits: the questions fit the 15 seconds.
LEMMA EspPaso ==
    ASSUME EspTypeOK, [EspNext]_varsEsp
    PROVE  EspTypeOK'
<1>1. Banderas'
  BY BanderasTipo, BanderasPaso
<1>2. edad' \in 0..ASOCIA
  <2>1. edad \in 0..ASOCIA /\ 0 \in 0..ASOCIA
    BY BanderasTipo, EspAssumption
  <2>2. ASSUME NEW n \in Nat, pasan(n)
        PROVE  edad' \in 0..ASOCIA
    BY <2>1, <2>2, EspAssumption DEF pasan
  <2>3. 1 \in Nat /\ 3 \in Nat /\ 4 \in Nat
    OBVIOUS
  <2>4. pasan(1) \/ pasan(3) \/ pasan(4) \/ edad' = 0 \/ UNCHANGED edad
    BY Zenon DEF EspNext, inicializarESP, Mundo, varsEsp, respondeAT, sinRespuestaAT, hayIP,
         noHayIP, vence, reconecta, resetearCredencialesESP, reset, cambiaRed, cambiaEsp,
         daCredenciales, arrancaEsp
  <2> QED
    BY <2>1, <2>2, <2>3, <2>4
<1>3. count' \in 0..(VENTANA - 1) /\ punto' \in {"AT", "CIPSTATUS", "fuera"}
  BY BanderasTipo, EspAssumption
     DEF EspNext, inicializarESP, Mundo, varsEsp, respondeAT, sinRespuestaAT, hayIP, noHayIP,
         vence, reconecta, resetearCredencialesESP, reset, cambiaRed, cambiaEsp,
         daCredenciales, vuelve, llama
<1>4. llamador' \in {"mefInit", "despierta", "resetear", "menu"}
  BY BanderasTipo
     DEF EspNext, inicializarESP, Mundo, varsEsp, respondeAT, sinRespuestaAT, hayIP, noHayIP,
         vence, reconecta, resetearCredencialesESP, reset, cambiaRed, cambiaEsp,
         daCredenciales, vuelve, llama
<1> QED
  BY <1>1, <1>2, <1>3, <1>4, Zenon DEF EspTypeOK, Banderas

\* The connection procedure stays within its window, whoever calls it and whatever
\* the router, the ESP and people do (espAT.c:77-104).
THEOREM EspTipos == EspSpec => []EspTypeOK
<1>1. EspInit => EspTypeOK
  <2> SUFFICES ASSUME EspInit PROVE EspTypeOK
    OBVIOUS
  <2>1. edad \in 0..ASOCIA /\ count \in 0..(VENTANA - 1)
    BY EspAssumption DEF EspInit
  <2> QED
    BY <2>1, Zenon DEF EspInit, EspTypeOK
<1> QED
  BY <1>1, EspPaso, PTL DEF EspSpec

=============================================================================
