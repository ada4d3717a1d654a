---------------------------- MODULE MEFHistoria ----------------------------
(***************************************************************************)
(* MEF with history variables: whether the match the scan holds was found  *)
(* since the bolt last moved and since the machine last slept, and how     *)
(* many of the digits in the keypad's buffer were typed before it slept.   *)
(***************************************************************************)
EXTENDS MEF

VARIABLES coincidenciaFresca, digitosViejos

varsHistoria == <<vars, coincidenciaFresca, digitosViejos>>

HistoriaInit == Init /\ coincidenciaFresca = FALSE /\ digitosViejos = 0

HistoriaNext ==
    /\ Next
    /\ coincidenciaFresca' =
          \/ scanSt # "ST_DONE_MATCH" /\ scanSt' = "ST_DONE_MATCH"
          \/ coincidenciaFresca /\ cerrojo' = cerrojo /\ estadoActual' # "REPOSO"
    /\ digitosViejos' =
          IF estadoActual' = "REPOSO" THEN Len(digitos')
          ELSE IF digitos' = << >> THEN 0 ELSE digitosViejos

HistoriaSpec == HistoriaInit /\ [][HistoriaNext]_varsHistoria

\* "AS608_SCAN_INPROGRESS: continuar llamando en el próximo ciclo" (as608.h:59):
\* the step that reports a match follows the step that found it, so the bolt
\* opens for a finger found since it last moved and since the machine last slept,
\* never for one left over from before.
AperturaFresca ==
    [][estadoActual = "LEER_Y_VALIDAR_HUELLA" /\ estadoActual' = "SENSOR_CIERRE"
         => coincidenciaFresca]_varsHistoria

\* "ms para ingresar PIN" (mef_config.h:8): a PIN that is judged was typed whole since
\* the machine last slept; digits left when TIMEOUT_MS ran out are not part of it.
PinFresco ==
    [][Esperando /\ estadoActual' = "VALIDAR" => digitosViejos = 0]_varsHistoria

=============================================================================
