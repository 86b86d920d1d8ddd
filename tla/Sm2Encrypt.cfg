SPECIFICATION Spec
CONSTANTS
    Order = 4
    MaxLen = 3
    Kdf <- Streams
INVARIANTS
    TypeOK
    CipherDecrypts
    OnlyC2Leaks
PROPERTIES
    EncryptionEnds
