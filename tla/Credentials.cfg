SPECIFICATION Spec
SYMMETRY Symmetric
CONSTANTS
    Owners = {o1, o2}
    Versions = {1, 2}
    MasterKeys = {k0, k1}
    DefaultKey = k0
    Rows = {r1, r2}
    Processes = {p1, p2}
    Handlers = {h1, h2}
    None = None
INVARIANTS SecretsStayWithOwner ProductionNeverDefault
PROPERTIES WithdrawnRunsOut
