SPECIFICATION AssistantSpec
CONSTANTS
    c1 = c1
    c2 = c2
    s1 = s1
    s2 = s2
    s3 = s3
    Chat = {c1, c2}
    Session = {s1, s2, s3}
SYMMETRY Interchangeable
INVARIANTS
    AssistantTypeOK
    TranscriptWhole
