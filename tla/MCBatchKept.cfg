SPECIFICATION Spec
CONSTANTS
    Items = {i1, i2}
    Groups = {g}
    Pids = {p}
    i1 = i1
    i2 = i2
    g = g
    p = p
    Nobody = Nobody
    MaxAttempts = 2
    Once = {i2}
    MaxId = 4
INVARIANTS TypeOK ItemsKept
VIEW KeptView
