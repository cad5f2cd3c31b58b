\* PRINT and INPUT in every order, on small words and buffers.
SPECIFICATION FairSpec
CONSTANTS
    Modulus = 128
    Scale = 8
    DigitSpace = 6
    StringSpace = 4
    Precision = 2
    Scripts <- MCScripts
INVARIANTS PrintedText InputsRead
PROPERTIES Returns
