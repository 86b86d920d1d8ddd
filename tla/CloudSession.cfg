SPECIFICATION Spec
CONSTANTS
    Handlers = {h1}
    Trans = {t1}
INVARIANTS
    TypeOK
    EffectsWereGranted
PROPERTIES
    CredentialAsAsked
    DecisionComesBack
