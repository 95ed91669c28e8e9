\* Two workers, two sources, two techniques; three alerts over two throttle windows.
CONSTANTS
    w1 = w1
    w2 = w2
    src1 = src1
    src2 = src2
    scan = scan
    flood = flood
    Workers <- MCWorkers
    Sources <- MCSources
    Techniques <- MCTechniques
    NoTechnique = NoTechnique
    Throttle = 2
    MaxTime = 4
    MaxAlerts = 3
SYMMETRY MCSymmetry
SPECIFICATION AlertsSpec
INVARIANTS NoStorm NewTechniqueIsFirst NoTechniqueMissed
CHECK_DEADLOCK FALSE
