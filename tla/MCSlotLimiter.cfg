CONSTANTS
    Owners = {p1, p2, p3, p4}
    Anonymous = anonymous
    Capacity = 2
    Sessions <- MCSessions
SPECIFICATION Spec
INVARIANTS
    TypeOK
    SlotsAccounted
    LineMatchesIndex
PROPERTIES
    NoOvertaking
    OrderKept
