SPECIFICATION Spec
CONSTANTS
    Conns = {v1, v2}
    NRows = 2
    Pics = {p1, p2}
    Blank = Blank
INVARIANT NoTornFrame
