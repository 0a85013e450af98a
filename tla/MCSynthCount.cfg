CONSTANTS
    Null = Null
    Voices = {v1, v2}
    Instrument <- MCHat
    Description <- HatDescription
    DefaultSwitch = Null
    Channels = {1}
    Notes = {1, 2}
    Velocities = {100}
    Rands = {0}
    CCs = {64}
    CCValues = {0}
    GateCloses = FALSE
    MaxNotes = 4
CHECK_DEADLOCK FALSE
SPECIFICATION SafeSpec
INVARIANT NotesPlayingNotNegative
