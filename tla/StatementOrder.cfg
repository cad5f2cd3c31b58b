\* All programs of up to three lines, longer ones of fewer kinds of lines, every
\* arrangement of up to five line numbers, and programs that reach the limits.
SPECIFICATION FairSpec
CONSTANTS
    Capacity = 6
    GotoCap = 8
    MaxGotos = 2
    Sources <- AllFiles
INVARIANTS FaultsExplained TextIsTheProgram WellFormedNeverFaults SortedByNumber IInv
PROPERTIES Halts ImplementsListing
