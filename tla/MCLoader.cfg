SPECIFICATION Spec
CONSTANTS
    Null = Null
    Largest = 200
    Disks <- MCDisks
    HostFiles <- MCHostFiles
    WorkingDirectory <- MCWorkingDirectory
    Generators <- MCGenerators
    PreloadSize = 4
    Garbage <- MCGarbage
    Notes = {1, 2, 50, 60, 61}
    CCs = {7, 64}
    MaxLoads = 2
CHECK_DEADLOCK FALSE
INVARIANTS OpcodesTakeEffect InstrumentIsComplete SoundsAreReady ReloadIsSame
