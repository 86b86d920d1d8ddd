CONSTANTS
    k1 = k1
    k2 = k2
    k3 = k3
    skf = skf
    sof = sof
    NoEngine = NoEngine
    Devices <- MCDevices
    Engines <- MCEngines
    EngineOf <- MCEngineOf
    Requests = {r1}
    MaxChanges = 2
SPECIFICATION Spec
INVARIANT TypeOK
INVARIANT NoLostChange
INVARIANT SettledAgreement
INVARIANT FallbackOnlyWithoutKey
PROPERTY EventuallyPublished
PROPERTY CancelEndsTask
