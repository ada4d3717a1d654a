SPECIFICATION HuellasSpec
CONSTANTS
    Hilos = {h1, h2}
    Codigos <- MCCodigos
    MAESTRO <- MCMaestro
    Tarjetas <- SinTarjetas
    HuellasWeb <- SinONumero
    PAGINAS = 2
    RutasWeb <- ConAdministrador
    MAX_FILAS = 3
    MAX_HORA = 4
    RETROCEDE = FALSE
    CABEN = 2
    Imagen <- MCImagen
    CORTA = FALSE
    PIERDE <- RutasCerradura
    TARDA = TRUE
    REINICIA = TRUE
    EdicionesRfid <- SinTarjetas
INVARIANT HuellaDeSuDueno
INVARIANT Actualizada
INVARIANT MaestroPrimero
PROPERTY BorradoDefinitivo
SYMMETRY Simetria
CONSTRAINT SinIncidente
