CONSTANT Cases <- AllCases
SPECIFICATION Spec
INVARIANTS
    TypeOK
    AcceptedIsOneBuild
    TamperNeverAccepted
    ModesAgree
    ProvedIsSound
PROPERTIES
    FailureIsLeans
    ReplayEnds
