\* All files of up to four characters of every class, longer ones of fewer.
SPECIFICATION Spec
CONSTANTS
    TokenLen = 3
    MaxTokens = 4
    Letters = {"a", "A"}
    Lower = {"a"}
    Upper <- MCUpper
    Operators = {"+"}
    Digits = {"1", "."}
    Puncts = {";"}
    Others = {"#"}
    Files <- MCFiles
INVARIANTS TokensAreRuns LinesAreLines FaultsExplained
