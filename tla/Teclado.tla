------------------------------ MODULE Teclado ------------------------------
(***************************************************************************)
(* The keypad driver (src/teclado.c).  Its state is the buffer of digits   *)
(* shared by every prompt of the program and the key seen by the last      *)
(* poll.  tecladoLeerPin(k) is the poll that finds key k down (NINGUNA if  *)
(* no key is); its return values are the four actions below, told apart    *)
(* also by whether they renew the caller's *ultimaActividad.               *)
(***************************************************************************)
EXTENDS Naturals, Sequences

CONSTANTS
    PIN_LENGTH,     \* digits of a PIN
    Digitos,        \* the digit keys in use
    Teclas          \* every key in use

VARIABLES
    digitos,        \* pinIngresado[0..pos-1] of teclado.c
    teclaPrevia     \* lastIndex while keyHeld, NINGUNA otherwise

varsTeclado == <<digitos, teclaPrevia>>

NINGUNA == "ninguna"
ASTERISCO == "*"

ASSUME TeclasAssumption ==
    /\ PIN_LENGTH \in Nat \ {0}
    /\ Digitos \subseteq Teclas
    /\ ASTERISCO \in Teclas \ Digitos
    /\ NINGUNA \notin Teclas

TecladoTypeOK ==
    /\ digitos \in Seq(Digitos)
    /\ Len(digitos) < PIN_LENGTH
    /\ teclaPrevia \in Teclas \cup {NINGUNA}

TecladoInit == digitos = << >> /\ teclaPrevia = NINGUNA

tecladoReset == digitos' = << >>

\* Edge detection: a key counts when it is first seen down.
Nueva(k) == k # NINGUNA /\ k # teclaPrevia

\* The buffer once key k has been taken: '#' adds nothing.
Tras(k) == IF k \in Digitos THEN Append(digitos, k) ELSE digitos

\* Returns 0: no key, or a key still held.
LeerPinNada(k) ==
    /\ ~Nueva(k)
    /\ teclaPrevia' = k
    /\ UNCHANGED digitos

\* Mutant: the length is compared before the digit is counted.
LeerPinParcialTarde(k) ==
    /\ Nueva(k) /\ k # ASTERISCO
    /\ Len(digitos) < PIN_LENGTH
    /\ teclaPrevia' = k
    /\ digitos' = Tras(k)

\* Returns 0 and renews *ultimaActividad: a key, but the PIN is not complete.
LeerPinParcial(k) ==
    /\ Nueva(k) /\ k # ASTERISCO
    /\ Len(Tras(k)) < PIN_LENGTH
    /\ teclaPrevia' = k
    /\ digitos' = Tras(k)

\* Returns 1 and renews *ultimaActividad: the PIN is Tras(k), the buffer is emptied.
LeerPinCompleto(k) ==
    /\ Nueva(k) /\ k # ASTERISCO
    /\ Len(Tras(k)) = PIN_LENGTH
    /\ teclaPrevia' = k
    /\ tecladoReset

\* Returns -1 and renews *ultimaActividad: '*' empties the buffer.
LeerPinAsterisco(k) ==
    /\ Nueva(k) /\ k = ASTERISCO
    /\ teclaPrevia' = k
    /\ tecladoReset

\* tecladoLeerTecla: the same edge detection, the digit buffer is not touched.
\* It returns whether Nueva(k).
tecladoLeerTecla(k) ==
    /\ teclaPrevia' = k
    /\ UNCHANGED digitos

=============================================================================
