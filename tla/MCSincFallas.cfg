SPECIFICATION SincSpec
CONSTANTS
    Hilos = {h1}
    Codigos <- MCCodigos
    MAESTRO <- MCMaestro
    Tarjetas <- MCTarjetas
    HuellasWeb <- SinHuella
    PAGINAS = 1
    RutasWeb <- AltasYBajas
    MAX_FILAS = 2
    MAX_HORA = 2
    RETROCEDE = TRUE
    CABEN = 2
    Imagen <- MCImagen
    CORTA = TRUE
    PIERDE <- RutasCerradura
    TARDA = TRUE
    REINICIA = TRUE
    EdicionesRfid <- MCTarjetas
INVARIANT AdministradorEsMaestro
PROPERTY ImplementaLista
