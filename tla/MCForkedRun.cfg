CONSTANTS
    Cases = 4
    Outputs <- ShortOutputs
    PipeCap = 2
    TextCap = 2
    TallyKinds = 3
SPECIFICATION Spec
INVARIANTS TypeOK TallyFaithful
PROPERTY ImplementsSweep
