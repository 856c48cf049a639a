SPECIFICATION Spec
CONSTANTS
    Tokens = {t1, t2, t3}
    Projects = {p1, p2}
    Handshakes = {h1, h2}
    Rotations = {r1, r2}
    None = None
CHECK_DEADLOCK FALSE
SYMMETRY Symmetry
INVARIANTS TypeOK SingleUse SameProject
PROPERTY TicketSpec
