CONSTANTS
    Bits = {0, 1}
    Syncword <- MCSyncword
    SizeOf <- MCSizeOf
    SidBits = {0}
    Uids <- MCUids
    Bodies <- MCBodies
    Reserved <- MCReserved
    Times <- MCTimes
    Noise <- MCNoise
    DamageBits = {1}
    MaxTroubles = 1
SPECIFICATION Spec
INVARIANT
    SealedIsValid
