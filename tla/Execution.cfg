\* All programs of up to three statements of most kinds, up to four of loops,
\* up to five of WHILE and WEND, and nests of IF, each with a subroutine.
SPECIFICATION Spec
CONSTANTS
    Vars = {"A", "I", "J"}
    WhileSize = 2
    CounterRange = 4
    Programs <- MCPrograms
    MaxWords = 10
    MaxCount = 3
INVARIANTS CompileStops LabelsExplained ReadsAreCurrent ReturnsHome LoopsCount BranchesAreTaken
