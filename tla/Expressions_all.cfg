\* Every text of up to five tokens, every sum of products of up to four
\* operators, pairs and triples of expressions, constants with odd bytes.
SPECIFICATION Spec
CONSTANTS
    getId <- MCgetId
    Programs <- AllPrograms
    Samples <- SumsOfProducts
    SymbolCount = 3
    HeapPointer = 1431671456
INVARIANTS WrittenOrder UnbalancedWarns GroupsKept SumsAndProducts FirstComparison FaultsExplained
