\* All programs of up to four statements, in every order of generation, and
\* longer ones whose chains reach three nodes.
SPECIFICATION FairSpec
CONSTANTS
    TableSize = 5
    Names <- MCNames
    StrName <- MCStrName
    Hash <- MCHash
    Programs <- MCPrograms
INVARIANTS TableSound SlotPerVariable PrintsAreRight FaultsExplained
PROPERTIES BumpsAddressSlots RodataEnds
