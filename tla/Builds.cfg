\* Two runs of the compiler in all combinations, and three with one text file.
SPECIFICATION Spec
CONSTANTS
    Names <- MCNames
    Orders <- MCOrders
INVARIANTS ExecutablesExplained
