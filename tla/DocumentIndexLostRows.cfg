CONSTANTS
    d1 = d1  d2 = d2  text = text  other = other
    r1 = r1  r2 = r2  r3 = r3  w1 = w1  w2 = w2
    None = None
    Sources <- TwoSources
    Contents <- TwoContents
    Blank <- NoBlank
    Requests <- TwoRequests
    Workers <- TwoWorkers
    MaxFaults = 0
SPECIFICATION Spec
PROPERTY OthersUntouched
SYMMETRY Symmetry
