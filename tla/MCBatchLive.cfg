SPECIFICATION LiveSpec
CONSTANTS
    Items = {i1, i2}
    Groups = {g}
    Pids = {p}
    i1 = i1
    i2 = i2
    g = g
    p = p
    Nobody = Nobody
    MaxAttempts = 2
    Once = {}
    MaxId = 3
PROPERTIES EveryItemSettles
