SPECIFICATION Spec
CONSTANTS
    getId <- MCgetId
    Programs <- TestPrograms
    Samples = {}
    SymbolCount = 3
    HeapPointer = 1431671456
INVARIANTS ProductsFirst
