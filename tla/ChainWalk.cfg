SPECIFICATION Spec
CONSTANT N = 4
INVARIANTS
    TypeOK
    FindsTheHistory
    AgreesWithChain
