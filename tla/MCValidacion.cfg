SPECIFICATION ValidacionSpec
CONSTANTS
    MAX_PINS = 3
    r1 = r1
    r2 = r2
    ana = ana
    beto = beto
    Pines <- MCPines
    Rfids = {r1, r2}
    Etiquetas = {ana, beto}
    IdsHuella = {0, 1, 2, 3, 4}
    ListaInicial <- MCListaInicial
    ListasServidor <- ListasRecibidas
INVARIANT ValidacionTypeOK
INVARIANT SaludoConNombre
PROPERTY EnrolarNoPisa
