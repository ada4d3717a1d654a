SPECIFICATION EspSpec
CONSTANTS
    VENTANA = 7
    ASOCIA = 12
INVARIANT EspTypeOK
PROPERTY Conecta
PROPERTY DespiertaVuelve
PROPERTY OfreceBluFi
