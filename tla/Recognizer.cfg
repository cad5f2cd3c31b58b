\* Each automaton on each text, after any other automaton.
SPECIFICATION Spec
CONSTANTS
    Texts <- MCTexts
    MaxCalls = 2
    DEFAULT_STACK_SIZE = 50
INVARIANTS Recognizes TokensClassified FaultsExplained
