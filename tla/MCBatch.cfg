SPECIFICATION CoreSpec
CONSTANTS
    Items = {i1, i2, i3}
    Groups = {g}
    Pids = {p, q}
    i1 = i1
    i2 = i2
    i3 = i3
    g = g
    p = p
    q = q
    Nobody = Nobody
    MaxAttempts = 2
    Once = {}
    MaxId = 4
INVARIANTS OncePerItem InOrder
SYMMETRY Symmetries
