SPECIFICATION Spec
CONSTANTS
    Scenarios <- MCScenarios
    MaxReadErrors = 1
    MaxAttempts = 2
INVARIANTS
    TypeOK
    SubnetsUniform
    AddressesDistinct
    EveryServerServed
    SuccessMeansPlanned
    AttachmentsHaveVPC
    ReadyMeansApplied
    DeletionsSettled
    RequestsHonoured
PROPERTY
    EveryCallEnds
