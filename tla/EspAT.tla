------------------------------- MODULE EspAT --------------------------------
(***************************************************************************)
(* The connection of the lock to the WiFi (espAT.c): the ESP module, the   *)
(* procedure inicializarESP and its callers: mefInit, which repeats it     *)
(* until it succeeds (MEF.c:150-156), the wake-up, which tries it once     *)
(* when the server did not answer (MEF.c:92), and the option of the menu   *)
(* that forgets the credentials (MEF.c:498-526), which tries it twice:     *)
(* once inside resetearCredencialesESP and once after it.                  *)
(*                                                                         *)
(* The ESP by itself joins the network it has credentials for, some time   *)
(* after it started.  Time is counted in exchanges of an AT command and    *)
(* its answer, of one to two seconds each: 15 seconds hold VENTANA         *)
(* questions for the state of the connection.                              *)
(***************************************************************************)
EXTENDS Naturals

CONSTANTS
    VENTANA,       \* how many times AT+CIPSTATUS is asked in 15 seconds
    ASOCIA         \* exchanges from a start of the ESP until it has an address

VARIABLES
    red,           \* the router is there
    credenciales,  \* the ESP has credentials in its flash
    vivo,          \* the ESP answers
    edad,          \* exchanges since the ESP started or the router came, up to ASOCIA
    blufi,         \* the ESP accepts credentials over Bluetooth
    conectado,     \* the variable of espAT.c
    punto,         \* where inicializarESP is; "fuera" when it is not running
    count,         \* its counter of questions
    llamador       \* who called it

varsEntornoEsp == <<red, vivo>>
varsEsp == <<red, credenciales, vivo, edad, blufi, conectado, punto, count, llamador>>

ASSUME EspAssumption ==
    /\ VENTANA \in Nat /\ VENTANA > 4
    /\ ASOCIA \in Nat \ {0}

\* The flags are flags, the clock of the association and the number of questions
\* asked stay within the time inicializarESP waits (espAT.c:77-104).
EspTypeOK ==
    /\ {red, credenciales, vivo, blufi, conectado} \subseteq BOOLEAN
    /\ edad \in 0..ASOCIA
    /\ punto \in {"AT", "CIPSTATUS", "fuera"}
    /\ count \in 0..(VENTANA - 1)
    /\ llamador \in {"mefInit", "despierta", "resetear", "menu"}

-----------------------------------------------------------------------------
(* The ESP. *)

\* STATUS:2 or STATUS:3
tieneIP == red /\ credenciales /\ vivo /\ edad = ASOCIA

\* n exchanges later
pasan(n) == edad' = IF edad + n < ASOCIA THEN edad + n ELSE ASOCIA

\* AT+RST, AT+RESTORE or a power cycle: BluFi is off until it is enabled again.
arrancaEsp == edad' = 0 /\ blufi' = FALSE

-----------------------------------------------------------------------------
(* inicializarESP. *)

llama(quien) ==
    /\ punto' = "AT"
    /\ count' = 0
    /\ llamador' = quien

\* Back to the caller: mefInit repeats a call that failed (MEF.c:151), and the menu,
\* whatever the call of resetearCredencialesESP gave, makes another (MEF.c:511).
vuelve(ok) ==
    CASE llamador = "mefInit" /\ ~ok -> llama("mefInit")
      [] llamador = "resetear"       -> llama("menu")
      [] OTHER                       -> punto' = "fuera" /\ count' = 0 /\ UNCHANGED llamador

\* Lines 47-74: OK, and the three commands of the configuration.
respondeAT ==
    /\ punto = "AT" /\ vivo
    /\ punto' = "CIPSTATUS"
    /\ count' = 0
    /\ pasan(4)
    /\ UNCHANGED <<varsEntornoEsp, credenciales, blufi, conectado, llamador>>

\* Lines 61-64: no OK in timeoutMs.
sinRespuestaAT ==
    /\ punto = "AT" /\ ~vivo
    /\ vuelve(FALSE)
    /\ UNCHANGED <<varsEntornoEsp, credenciales, edad, blufi, conectado>>

\* Lines 86-96 and 107-109.
hayIP ==
    /\ punto = "CIPSTATUS" /\ tieneIP
    /\ conectado' = TRUE
    /\ vuelve(TRUE)
    /\ pasan(1)
    /\ UNCHANGED <<varsEntornoEsp, credenciales, blufi>>

\* Mutant: the ESP is restarted after every question from the fourth on.
noHayIPReinicia ==
    /\ punto = "CIPSTATUS" /\ ~tieneIP
    /\ count + 1 < VENTANA
    /\ count' = count + 1
    /\ IF count + 1 >= 2 THEN arrancaEsp ELSE pasan(1) /\ UNCHANGED blufi
    /\ UNCHANGED <<varsEntornoEsp, credenciales, conectado, punto, llamador>>

\* Mutant: one question more than fits.
noHayIPDeMas ==
    /\ punto = "CIPSTATUS" /\ ~tieneIP
    /\ count' = count + 1
    /\ pasan(1)
    /\ UNCHANGED <<varsEntornoEsp, credenciales, blufi, conectado, punto, llamador>>

\* Lines 97-103: ask again; after the fourth question the ESP is restarted.
noHayIP ==
    /\ punto = "CIPSTATUS" /\ ~tieneIP
    /\ count + 1 < VENTANA
    /\ count' = count + 1
    /\ IF count + 1 = 4 THEN arrancaEsp ELSE pasan(1) /\ UNCHANGED blufi
    /\ UNCHANGED <<varsEntornoEsp, credenciales, conectado, punto, llamador>>

\* Mutant: the limit of 15 seconds is not looked at, and the questions go on.
venceSinLimite ==
    /\ punto = "CIPSTATUS" /\ ~tieneIP
    /\ count + 1 = VENTANA
    /\ pasan(1)
    /\ UNCHANGED <<varsEntornoEsp, credenciales, blufi, conectado, punto, count, llamador>>

\* Mutant: the branch that shows "REVISE ROUTER" returns before it enables BluFi.
venceSinBluFi ==
    /\ punto = "CIPSTATUS" /\ ~tieneIP
    /\ count + 1 = VENTANA
    /\ vuelve(conectado)
    /\ pasan(1)
    /\ UNCHANGED <<varsEntornoEsp, credenciales, blufi, conectado>>

\* The 15 seconds have passed.  Line 107 looks at conectado, which an earlier call
\* may have set; otherwise BluFi is enabled (lines 126, 132).
vence ==
    /\ punto = "CIPSTATUS" /\ ~tieneIP
    /\ count + 1 = VENTANA
    /\ IF conectado
       THEN vuelve(TRUE) /\ pasan(1) /\ UNCHANGED blufi
       ELSE vuelve(FALSE) /\ pasan(3) /\ blufi' = vivo
    /\ UNCHANGED <<varsEntornoEsp, credenciales, conectado>>

-----------------------------------------------------------------------------
(* The callers. *)

\* The version of the server could not be read.
reconecta ==
    /\ punto = "fuera"
    /\ llama("despierta")
    /\ UNCHANGED <<varsEntornoEsp, credenciales, edad, blufi, conectado>>

\* AT+RESTORE is carried out or not, and "OK" is found or not, in any combination:
\* the answer may be late or cut, and after an answer of fewer than three bytes the
\* loop of line 156, whose limit n - 3 wraps around, reads past it.
resetearCredencialesESP ==
    /\ punto = "fuera"
    /\ \/ vivo /\ credenciales' = FALSE /\ arrancaEsp
       \/ UNCHANGED <<credenciales, edad, blufi>>
    /\ \/ llama("resetear")
       \/ UNCHANGED <<punto, count, llamador>>
    /\ UNCHANGED <<varsEntornoEsp, conectado>>

\* The board starts: espATInit restarts the ESP, and mefInit calls.
reset ==
    /\ conectado' = FALSE
    /\ llama("mefInit")
    /\ IF vivo THEN arrancaEsp ELSE UNCHANGED <<edad, blufi>>
    /\ UNCHANGED <<varsEntornoEsp, credenciales>>

-----------------------------------------------------------------------------
(* The world: the router, the ESP's supply, and the BluFi application. *)

cambiaRed ==
    /\ red' = ~red
    /\ edad' = 0
    /\ UNCHANGED <<vivo, credenciales, blufi, conectado, punto, count, llamador>>

cambiaEsp ==
    /\ vivo' = ~vivo
    /\ arrancaEsp
    /\ UNCHANGED <<red, credenciales, conectado, punto, count, llamador>>

daCredenciales ==
    /\ blufi /\ vivo /\ ~credenciales
    /\ credenciales' = TRUE
    /\ edad' = 0
    /\ UNCHANGED <<varsEntornoEsp, blufi, conectado, punto, count, llamador>>

-----------------------------------------------------------------------------

EspInit ==
    /\ red \in BOOLEAN /\ credenciales \in BOOLEAN /\ vivo \in BOOLEAN
    /\ edad = 0
    /\ blufi = FALSE
    /\ conectado = FALSE
    /\ punto = "AT" /\ count = 0 /\ llamador = "mefInit"

inicializarESP ==
    respondeAT \/ sinRespuestaAT \/ hayIP \/ noHayIP \/ vence

Mundo == cambiaRed \/ cambiaEsp \/ daCredenciales

EspNext == inicializarESP \/ reconecta \/ resetearCredencialesESP \/ reset \/ Mundo

\* Each loop of inicializarESP has a limit, so the program goes on; nothing is
\* assumed of the router, the ESP or people.
EspSpec == EspInit /\ [][EspNext]_varsEsp /\ WF_varsEsp(inicializarESP)

-----------------------------------------------------------------------------
(* Properties. *)

\* With the router, the ESP and the credentials there to stay, and no more resets,
\* the start-up ends and so does every later call: the restart of the ESP in the
\* middle of the wait (espAT.c:100-103), which throws away the connection it is
\* waiting for, still leaves it the time it needs before the next one.
Conecta ==
    <>[](red /\ vivo /\ credenciales) /\ <>[][~reset]_varsEsp => []<>(punto = "fuera")

\* A wake-up never hangs on the WiFi (MEF.c:92): whatever the network does, the call
\* ends.
DespiertaVuelve == (llamador = "despierta") ~> (punto = "fuera" \/ llamador # "despierta")

\* A lock that cannot connect for the first time keeps inviting people to give it
\* credentials: "Si falla, habilita BluFi para provisioning manual" (espAT.c:41).
\* Every attempt of the start-up restarts the ESP (espAT.c:102) and so ends the BluFi
\* session of the attempt before it, but each one enables it again.
OfreceBluFi ==
    <>[](vivo /\ ~conectado) /\ <>[][~reset]_varsEsp => []<>blufi

=============================================================================
