---------------------------- MODULE MCValidacion ----------------------------
(***************************************************************************)
(* Small instances of Validacion: three entries, three PINs, two cards.    *)
(***************************************************************************)
EXTENDS Validacion

CONSTANTS r1, r2, ana, beto

Entrada(codigo, rfid, huella, tag) ==
    [codigo |-> codigo, activo |-> TRUE, rfid |-> rfid, huella |-> huella, tag |-> tag]

MCPines == {<<1, 1>>, <<1, 2>>, <<2, 2>>}

\* the image starts with the master in entry 0, as validacion.c:7-14
MCListaInicial ==
    [i \in Indices |->
        IF i = 0 THEN Entrada(<<1, 1>>, VACIO, TextoVacio, ana) ELSE UsuarioNulo]

\* a number typed on the web page without the leading zeros
TextoWeb(n) == [forma |-> "web", id |-> n]

\* Lists whose fingerprints the lock itself numbered, the last one longer than
\* MAX_PINS; then lists edited on the web page: a number in another form, and
\* two users with one number.
ListasRecibidas ==
    { <<Entrada(<<1, 1>>, VACIO, formato04(1), ana)>>,
      <<Entrada(<<1, 1>>, VACIO, TextoVacio, ana),
        Entrada(<<1, 2>>, r1, formato04(2), beto)>>,
      <<Entrada(<<1, 1>>, r1, formato04(2), ana),
        Entrada(<<1, 2>>, VACIO, TextoVacio, beto),
        Entrada(<<2, 2>>, r2, formato04(1), ana),
        Entrada(<<1, 2>>, r2, formato04(3), beto)>>,
      <<Entrada(<<1, 1>>, VACIO, TextoWeb(1), ana),
        Entrada(<<1, 2>>, VACIO, TextoVacio, VACIO)>>,
      <<Entrada(<<1, 1>>, VACIO, TextoVacio, ana),
        Entrada(<<1, 2>>, r1, formato04(2), beto),
        Entrada(<<2, 2>>, r1, TextoWeb(2), VACIO)>> }

=============================================================================
