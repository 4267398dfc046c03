\* Four events leave at most three TCP connections (see README).
SPECIFICATION FairSpec
CONSTANTS
    GCS = {a, b}
    MaxLinks = 3
    MaxEvents = 4
    None = None
INVARIANTS
    ListeningServes
PROPERTIES
    Connects
    Rests
