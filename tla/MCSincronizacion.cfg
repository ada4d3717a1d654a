SPECIFICATION SincFairSpec
CONSTANTS
    Hilos = {h1}
    Codigos <- MCCodigos
    MAESTRO <- MCMaestro
    Tarjetas <- MCTarjetas
    HuellasWeb <- SinHuella
    PAGINAS = 1
    RutasWeb <- ConTarjetas
    MAX_FILAS = 3
    MAX_HORA = 4
    RETROCEDE = FALSE
    CABEN = 2
    Imagen <- MCImagen
    CORTA = FALSE
    PIERDE <- RutasCerradura
    TARDA = TRUE
    REINICIA = TRUE
    EdicionesRfid <- MCTarjetas
INVARIANT SincTypeOK
INVARIANT Actualizada
PROPERTY Converge
