SPECIFICATION FairSpec
CONSTANTS
    MAX_PINS = 2
    r1 = r1
    ana = ana
    beto = beto
    Pines <- MCPines
    Rfids = {r1}
    Etiquetas = {ana, beto}
    IdsHuella = {0, 1, 2}
    ListaInicial <- ListaAdmin
    ListasServidor <- ListasAdmin
    PIN_LENGTH = 1
    Digitos = {"1", "2"}
    Teclas = {"1", "2", "4", "5", "*"}
    CAPACIDAD = 1
    Acks <- SinAcks
    PlantillasIniciales = {1}
    STEPS = 100
    Versiones = {}
INVARIANT TypeOK
PROPERTY RegistroAbandonado
PROPERTY QuietudDuerme
