CONSTANTS
    long = long
    short = short
    name = name
    NoCode = NoCode
    Codes <- MCCodes
    Names <- MCNames
    CodeOf <- MCCodeOf
    Length <- MCLength
    Pages = {p1, p2}
SPECIFICATION Spec
INVARIANT TypeOK
INVARIANT AckedCodeKept
