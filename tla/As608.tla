------------------------------- MODULE As608 -------------------------------
(***************************************************************************)
(* The fingerprint sensor driver (src/as608.c): the non-blocking scan      *)
(* ("mini MEF" g_scan, as608ScanStep) and the blocking commands that store *)
(* and delete templates.                                                   *)
(*                                                                         *)
(* The sensor itself is external.  The bytes it has answered to the last   *)
(* command are abstracted to what as608TryParseAck and the frame length    *)
(* check see in them: no acknowledge yet, a confirmation code, or a code 0 *)
(* whose search frame is not complete.  Time is abstracted to whether the  *)
(* limit of the current waiting state has passed since tCmdStart.          *)
(***************************************************************************)
EXTENDS Naturals

CONSTANTS
    CAPACIDAD,      \* 0x00A3: pages searched by a scan, and the largest page stored to
    Acks,           \* the answers the sensor may give
    PlantillasIniciales   \* pages that hold a template when the program starts

VARIABLES
    scanSt,         \* g_scan.st
    resp,           \* g_scan.resp: what the bytes read so far amount to
    respId,         \* the page number those bytes carry, for a search
    lastId,         \* g_scan.lastId
    cmdVencido,     \* tickRead() - tCmdStart is past the limit of this state
    plantillas      \* pages of the sensor's flash that hold a template (external)

varsScan == <<scanSt, resp, respId, lastId, cmdVencido>>
varsAs608 == <<scanSt, resp, respId, lastId, cmdVencido, plantillas>>

SIN_ACK == "sin ack"        \* as608TryParseAck returns 0xFF
ACK_OK == "0x00"
ACK_SIN_DEDO == "0x02"
ACK_OTRO == "otro"
ACK_PARCIAL == "0x00 parcial"   \* code 0, but fewer bytes than the header announces

EsperaAck == {"ST_WAIT_GETIMAGE", "ST_WAIT_IMAGE2TZ", "ST_WAIT_SEARCH"}
Fin == {"ST_DONE_NOFINGER", "ST_DONE_MATCH", "ST_DONE_NOMATCH", "ST_DONE_ERROR"}
EstadosScan ==
    EsperaAck \cup Fin \cup
    {"ST_IDLE", "ST_SEND_GETIMAGE", "ST_PREDLY_IMAGE2TZ", "ST_SEND_IMAGE2TZ",
     "ST_SEND_SEARCH"}

ASSUME As608Assumption ==
    /\ CAPACIDAD \in Nat \ {0}
    /\ Acks \subseteq {ACK_OK, ACK_SIN_DEDO, ACK_OTRO, ACK_PARCIAL}
    /\ PlantillasIniciales \subseteq 0..CAPACIDAD

As608TypeOK ==
    /\ scanSt \in EstadosScan
    /\ resp \in Acks \cup {SIN_ACK, ACK_OK}
    /\ respId \in 0..CAPACIDAD
    /\ lastId \in 0..CAPACIDAD
    /\ cmdVencido \in BOOLEAN
    /\ plantillas \subseteq 0..CAPACIDAD

-----------------------------------------------------------------------------
(* The scan. *)

\* as608Init leaves the scan idle and mefInit calls as608ScanReset.
As608Init ==
    /\ scanSt = "ST_SEND_GETIMAGE"
    /\ resp = SIN_ACK /\ respId = 0 /\ lastId = 0
    /\ cmdVencido = FALSE
    /\ plantillas = PlantillasIniciales

as608ScanReset ==
    /\ scanSt' = "ST_SEND_GETIMAGE"
    /\ resp' = SIN_ACK /\ respId' = 0 /\ lastId' = 0
    /\ cmdVencido' = FALSE

\* A SEND state: flush, write the packet, start the clock.
ScanEnvia ==
    /\ \/ scanSt = "ST_SEND_GETIMAGE" /\ scanSt' = "ST_WAIT_GETIMAGE"
       \/ scanSt = "ST_SEND_IMAGE2TZ" /\ scanSt' = "ST_WAIT_IMAGE2TZ"
       \/ scanSt = "ST_SEND_SEARCH" /\ scanSt' = "ST_WAIT_SEARCH"
    /\ resp' = SIN_ACK /\ respId' = 0
    /\ cmdVencido' = FALSE
    /\ UNCHANGED lastId

\* Mutant: GetImage waits for an answer without a limit.
TrasGetImageSinLimite ==
    CASE resp \in {ACK_OK, ACK_PARCIAL} -> "ST_PREDLY_IMAGE2TZ"
      [] resp = ACK_SIN_DEDO -> "ST_DONE_NOFINGER"
      [] resp = ACK_OTRO -> "ST_DONE_ERROR"
      [] resp = SIN_ACK -> scanSt

\* The state after a WAIT state has looked at the bytes read so far.
TrasGetImage ==
    CASE resp \in {ACK_OK, ACK_PARCIAL} -> "ST_PREDLY_IMAGE2TZ"
      [] resp = ACK_SIN_DEDO -> "ST_DONE_NOFINGER"
      [] resp = ACK_OTRO -> "ST_DONE_ERROR"
      [] resp = SIN_ACK -> IF cmdVencido THEN "ST_DONE_NOFINGER" ELSE scanSt

TrasImage2Tz ==
    CASE resp \in {ACK_OK, ACK_PARCIAL} -> "ST_SEND_SEARCH"
      [] resp \in {ACK_SIN_DEDO, ACK_OTRO} -> "ST_DONE_ERROR"
      [] resp = SIN_ACK -> IF cmdVencido THEN "ST_DONE_ERROR" ELSE scanSt

TrasSearch ==
    CASE resp = ACK_OK -> "ST_DONE_MATCH"
      [] resp = ACK_PARCIAL -> scanSt      \* no time limit here
      [] resp \in {ACK_SIN_DEDO, ACK_OTRO} -> "ST_DONE_NOMATCH"
      [] resp = SIN_ACK -> IF cmdVencido THEN "ST_DONE_NOFINGER" ELSE scanSt

\* A WAIT state.  GetImage restarts the clock for the pre-delay.
ScanEspera ==
    /\ \/ scanSt = "ST_WAIT_GETIMAGE" /\ scanSt' = TrasGetImage
       \/ scanSt = "ST_WAIT_IMAGE2TZ" /\ scanSt' = TrasImage2Tz
       \/ scanSt = "ST_WAIT_SEARCH" /\ scanSt' = TrasSearch
    /\ lastId' = IF scanSt' = "ST_DONE_MATCH" THEN respId ELSE lastId
    /\ cmdVencido' = (cmdVencido /\ scanSt' # "ST_PREDLY_IMAGE2TZ")
    /\ UNCHANGED <<resp, respId>>

\* The pre-delay before Image2Tz, and the idle state that starts over.
ScanAvanza ==
    /\ \/ scanSt = "ST_IDLE" /\ scanSt' = "ST_SEND_GETIMAGE"
       \/ /\ scanSt = "ST_PREDLY_IMAGE2TZ"
          /\ scanSt' = IF cmdVencido THEN "ST_SEND_IMAGE2TZ" ELSE scanSt
    /\ UNCHANGED <<resp, respId, lastId, cmdVencido>>

\* as608ScanStep returning AS608_SCAN_INPROGRESS.  The call that finds the
\* match is one of these: the match itself is returned by the next call.
ScanEnCurso == ScanEnvia \/ ScanEspera \/ ScanAvanza

\* as608ScanStep returning the result that the DONE state st stands for; the
\* page is lastId.
ScanTermina(st) ==
    /\ scanSt = st
    /\ scanSt' = "ST_IDLE"
    /\ UNCHANGED <<resp, respId, lastId, cmdVencido>>

as608ScanStep == ScanEnCurso \/ \E st \in Fin : ScanTermina(st)

-----------------------------------------------------------------------------
(* The sensor and the clock. *)

\* Bytes arrive.  A search answers with a page that holds a template, among
\* the pages 0 .. 0xA2 the command asked for (start 0, count 0xA3).
SensorResponde ==
    /\ scanSt \in EsperaAck
    /\ \/ resp = SIN_ACK /\ resp' \in Acks
       \/ resp = ACK_PARCIAL /\ resp' = ACK_OK
    /\ IF scanSt = "ST_WAIT_SEARCH" /\ resp' = ACK_OK
       THEN respId' \in plantillas \cap 0..(CAPACIDAD - 1)
       ELSE respId' = respId
    /\ UNCHANGED <<scanSt, lastId, cmdVencido, plantillas>>

VenceCmd ==
    /\ scanSt \in EsperaAck \cup {"ST_PREDLY_IMAGE2TZ"}
    /\ ~cmdVencido
    /\ cmdVencido' = TRUE
    /\ UNCHANGED <<scanSt, resp, respId, lastId, plantillas>>

-----------------------------------------------------------------------------
(* Commands on the template store.  A command whose acknowledge is lost    *)
(* fails although the sensor carried it out.                               *)

\* Mutant: the page number is not checked.
as608EnrollAtIdSinRango(id) == plantillas' = plantillas \cup {id}

as608EnrollAtId(id) ==
    /\ id <= CAPACIDAD
    /\ plantillas' = plantillas \cup {id}

as608EnrollAtIdFalla(id) ==
    \/ UNCHANGED plantillas
    \/ id <= CAPACIDAD /\ plantillas' = plantillas \cup {id}

as608ClearAllTemplates == plantillas' = {}

as608ClearAllTemplatesFalla == plantillas' \in {plantillas, {}}

as608DeleteId(id) == plantillas' = plantillas \ {id}

as608DeleteIdFalla(id) == plantillas' \in {plantillas, plantillas \ {id}}

-----------------------------------------------------------------------------
(* The driver alone: the scan polled without pause, started over whenever  *)
(* it is idle, and the blocking commands issued between two polls.         *)

As608Next ==
    \/ as608ScanStep /\ UNCHANGED plantillas
    \/ scanSt = "ST_IDLE" /\ as608ScanReset /\ UNCHANGED plantillas
    \/ SensorResponde
    \/ VenceCmd
    \/ /\ UNCHANGED varsScan
       /\ \/ \E id \in 0..(CAPACIDAD + 1) :
                \/ as608EnrollAtId(id)
                \/ as608EnrollAtIdFalla(id)
                \/ as608DeleteId(id)
                \/ as608DeleteIdFalla(id)
          \/ as608ClearAllTemplates
          \/ as608ClearAllTemplatesFalla

As608Spec ==
    /\ As608Init /\ [][As608Next]_varsAs608
    /\ WF_varsAs608(as608ScanStep /\ UNCHANGED plantillas)
    /\ WF_varsAs608(VenceCmd)

\* A scan that has begun comes to a result, whatever the sensor answers or
\* fails to answer: "evitar bloqueo indefinido" (as608.c:515).  MEF.c starts
\* the next scan only after a result, so a scan that never ends leaves the
\* fingerprint reader dead.
EscaneoTermina == (scanSt # "ST_IDLE") ~> (scanSt = "ST_IDLE")

=============================================================================
