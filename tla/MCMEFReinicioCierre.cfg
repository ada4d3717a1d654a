SPECIFICATION ReinicioSpec
CONSTANTS
    MAX_PINS = 2
    r1 = r1
    ana = ana
    beto = beto
    Pines <- MCPines
    Rfids = {r1}
    Etiquetas = {ana, beto}
    IdsHuella = {0, 1, 2}
    ListaInicial <- ListaAcceso
    ListasServidor <- ListasAcceso
    PIN_LENGTH = 1
    Digitos = {"1"}
    Teclas = {"1", "*"}
    CAPACIDAD = 2
    Acks <- AcksTodos
    PlantillasIniciales = {1}
    STEPS = 100
    MAX_CORRIDO = 1
    Versiones = {1}
PROPERTY CierraDeVerdad
