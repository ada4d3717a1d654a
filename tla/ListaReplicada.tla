--------------------------- MODULE ListaReplicada ---------------------------
(***************************************************************************)
(* What a lock that works from a copy of a list of users promises, without *)
(* versions, clocks, threads, requests or phases.                          *)
(*                                                                         *)
(* The original changes by one user at a time, and only the PIN of the     *)
(* first, the master, ever changes.  What travels is a beginning of the    *)
(* original as it was when it was sent; it may be lost, overtaken or late. *)
(* The copy becomes, in one step, a list that travelled, or as much as     *)
(* fits of two that arrived one after the other: nothing of the copy it    *)
(* replaces stays, and nobody is in it who was not sent.  At the door the  *)
(* cards and fingers of its users change, but not who they are; a reset    *)
(* brings back the list of the factory.                                    *)
(***************************************************************************)
EXTENDS Naturals

CONSTANT Fabrica   \* the copy before anything arrived

VARIABLES
    original,      \* the list of users, from the number of a user to the user
    copia,         \* the list that the lock works from
    enCamino       \* the lists on their way

vars == <<original, copia, enCamino>>

\* l is m up to some user, the master at least
EsPrincipio(l, m) ==
    /\ 1 \in DOMAIN l /\ DOMAIN l \subseteq DOMAIN m
    /\ \A i \in DOMAIN l : /\ l[i] = m[i]
                           /\ \A j \in DOMAIN m : j < i => j \in DOMAIN l

\* l and m have the same users, with the same PINs
MismosUsuarios(l, m) ==
    /\ DOMAIN l = DOMAIN m
    /\ \A i \in DOMAIN l : l[i].codigo = m[i].codigo

SinElMaestro(l) == [i \in DOMAIN l \ {1} |-> l[i]]

Init ==
    /\ DOMAIN original = {1}
    /\ copia = Fabrica
    /\ enCamino = {}

Alta ==
    /\ EsPrincipio(original, original')
    /\ \E i \in DOMAIN original' : DOMAIN original' = DOMAIN original \cup {i}
    /\ UNCHANGED <<copia, enCamino>>

Baja ==
    /\ \E i \in DOMAIN original \ {1} :
          original' = [j \in DOMAIN original \ {i} |-> original[j]]
    /\ UNCHANGED <<copia, enCamino>>

Cambio ==
    /\ DOMAIN original' = DOMAIN original
    /\ MismosUsuarios(SinElMaestro(original'), SinElMaestro(original))
    /\ UNCHANGED <<copia, enCamino>>

\* A list sets out; others may get lost.
Envia ==
    /\ \E l \in enCamino' : EsPrincipio(l, original) /\ enCamino' \subseteq enCamino \cup {l}
    /\ UNCHANGED <<original, copia>>

Pierde ==
    /\ enCamino' \subseteq enCamino
    /\ UNCHANGED <<original, copia>>

\* What is installed is l, perhaps cut, or l followed by users of m.
Instala ==
    /\ \E l, m \in enCamino :
          \/ EsPrincipio(copia', l)
          \/ /\ EsPrincipio(l, copia')
             /\ \A i \in DOMAIN copia' \ DOMAIN l : \E j \in DOMAIN m : copia'[i] = m[j]
    /\ enCamino' \subseteq enCamino
    /\ UNCHANGED original

EnLaPuerta ==
    /\ MismosUsuarios(copia', copia)
    /\ UNCHANGED <<original, enCamino>>

Reinicia ==
    /\ copia' = Fabrica
    /\ enCamino' = {}
    /\ UNCHANGED original

Next ==
    \/ Alta \/ Baja \/ Cambio
    \/ Envia \/ Pierde \/ Instala
    \/ EnLaPuerta
    \/ Reinicia

Spec == Init /\ [][Next]_vars

=============================================================================
