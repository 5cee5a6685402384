SPECIFICATION Spec
CONSTANTS
    Bodies <- MCBodies
    MaxPackets = 3
    MaxDelays = 2
    ScanLimit = 3
INVARIANTS InOrder PunctualMeansComplete DelaysCostOnePacket BlamedOnSilence
CHECK_DEADLOCK FALSE
