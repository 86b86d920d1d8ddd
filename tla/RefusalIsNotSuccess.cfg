SPECIFICATION Spec
CONSTANTS
    Handlers = {h1}
    Trans = {t1}
INVARIANT RefusalIsNotSuccess
