SPECIFICATION Spec
CONSTANTS
    k1 = k1
    k2 = k2
    h1 = h1
    Keys = {k1, k2}
    NoKey = NoKey
    Handlers = {h1}
    CommandsOf <- AllCommands
    MaxTries = 2
    Texts <- MCTexts
SYMMETRY MCSymmetry
INVARIANTS
    TypeOK
    AnswersOfNamedKey
    EnvelopeOfNamedKey
    RefusalKeepsPlaintext
    OneTryOfNamedKey
    VerdictComesFromAVerifier
