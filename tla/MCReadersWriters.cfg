\* The threads of the program; ints of four bits.
CONSTANTS
    Readers = {r1, r2, r3, r4, r5}
    Writers = {w1, w2}
    IntSize = 16
SPECIFICATION Spec
INVARIANTS
    Exclusion
    ReaderPreference
    WritesNotLost
PROPERTIES
    SomebodyWorks
