SPECIFICATION Spec
CONSTANTS
    Width = 20
    Words = 1048576
    Parse <- parse
    Evaluate <- evaluate
    Alphabets <- MCAlphabets
    MaxText = 6
INVARIANTS TypeOK TreeIsTheMeaning ViewIsTheText
CHECK_DEADLOCK FALSE
