CONSTANTS
    Null = Null
    Regions <- MCRegions
    Description <- MCDescription
    Channels = {1, 2}
    Notes = {0, 1, 2, 3}
    Velocities = {0, 100}
    Rands = {0, 60}
    CCs = {1, 2}
    CCValues = {0, 100}
    Bends <- MCBends
    Aftertouches = {0, 100}
    Tempos <- MCTempos
    DefaultSwitch = 0
    Sequences <- MCSequences
    Articulations <- MCArticulations
    Phrases <- MCPhrases
    MaxNotes = 4
CHECK_DEADLOCK FALSE
SPECIFICATION Spec
CONSTRAINT OneKindOfInput
INVARIANTS OneOfASequence FirstOrLegato LastSwitchWins SwitchesFollowInputs
