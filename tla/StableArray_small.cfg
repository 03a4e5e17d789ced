CONSTANTS
    Element = {a, b}
    IndexValues = 8
    MaxLength = 7
SPECIFICATION Spec
INVARIANTS TypeOK HolesAreTheFreeIndices
PROPERTY ImplementsStableMap
