SPECIFICATION Spec
CONSTANTS
    Host = h
    a = a
    b = b
    Others = {a, b}
    MaxGroups = 1
    MaxOps = 2
    Scenarios <- AllScenarios
INVARIANTS
    Accounting
    QuietMeansDone
    Agreement
    IndicatedOnce
PROPERTIES
    PairsAreSafe
    NoRevival
    SeenBeforeDone
