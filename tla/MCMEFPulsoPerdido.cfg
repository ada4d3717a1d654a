SPECIFICATION Spec
CONSTANTS
    MAX_PINS = 2
    r1 = r1
    ana = ana
    beto = beto
    Pines <- MCPines
    Rfids = {r1}
    Etiquetas = {ana, beto}
    IdsHuella = {0, 1, 2}
    ListaInicial <- ListaAcceso
    ListasServidor <- ListasAcceso
    PIN_LENGTH = 2
    Digitos = {"1"}
    Teclas = {"1", "*"}
    CAPACIDAD = 2
    Acks <- AcksTodos
    PlantillasIniciales = {1}
    STEPS = 100
    Versiones = {1}
INVARIANT PresenciaDespierta
