SPECIFICATION Spec
CONSTANTS
    W = 3
    N = 4
    Sbox <- Table
    FK <- Tk
    CK <- Tk
    Chunk = 8
    MaxKeysize = 5
    Keysizes = {3, 4, 6}
    KeyChars = {{0}, {0, 2}}
    MaxLen = 8
    Texts <- AllTexts
    Four = {2}
    Behind = {{}, {1}}
INVARIANTS
    FileComesBack
    DataComesBack
PROPERTIES
    CommandEnds
