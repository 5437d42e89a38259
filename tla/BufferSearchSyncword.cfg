\* A syncword in the last WordSize bytes is not found.
CONSTANTS
    Bytes = {0, 1}
    MaxM = 5
    MaxN = 2
    WordSize = 2
SPECIFICATION Spec
INVARIANTS
    SyncwordFirst
