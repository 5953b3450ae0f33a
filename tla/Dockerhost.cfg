SPECIFICATION FairSpec
CONSTANTS
    Sessions <- MCSessions
    Verbs <- MCVerbs
    Configs <- MCConfigs
    PinSets = {1, 2}
    Images = {1, 2}
    MinIdle = 1
    MaxMaxAge = 2
    Grace = 1
    CertValidity = 4
    IdleCap = 2
    Faults = {"image", "boot", "setup", "daemon", "crash", "stuck", "ssh", "kill"}
INVARIANT ReadyGuestReachable
INVARIANT GuestAccounted
PROPERTY CertsOutliveReuse
PROPERTY LeaseHonoured
PROPERTY SessionsEnd
PROPERTY ForgottenPowersOff
