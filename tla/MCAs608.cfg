SPECIFICATION As608Spec
CONSTANTS
    CAPACIDAD = 3
    Acks <- AcksCompletos
    PlantillasIniciales = {1, 2}
INVARIANT As608TypeOK
PROPERTY EscaneoTermina
