\* Texts of statements with IF in IF, and all short lines over small vocabularies.
SPECIFICATION Spec
CONSTANTS
    getId <- MCgetId
    HeapPointer = 1431655765
    Programs <- MCPrograms
INVARIANTS ReadAsWritten SameSum ComplaintsExplained ReadInOrder JumpsPushed
