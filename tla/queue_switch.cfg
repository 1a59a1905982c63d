SPECIFICATION SwitchSpec
CONSTANTS
    j1 = j1
    j2 = j2
    r1 = r1
    r2 = r2
    Job = {j1, j2}
    Broker = {r1, r2}
SYMMETRY Interchangeable
INVARIANTS
    SwitchTypeOK
    SwitchIsAllOrNothing
    StrandedOnlyByRace
