CONSTANTS
    Null = Null
    Voices = {v1, v2}
    Instrument <- MCBand
    Description <- BandDescription
    DefaultSwitch = Null
    Channels = {1}
    Notes = {1, 2}
    Velocities = {100}
    Rands = {0}
    CCs = {64}
    CCValues = {0, 127}
    GateCloses = TRUE
    MaxNotes = 2
CHECK_DEADLOCK FALSE
SPECIFICATION Spec
INVARIANTS ChokedBeforeStart PlaysOnlyUnderPedal NoStuckNotes
PROPERTY HandlersEnd
