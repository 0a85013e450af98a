CONSTANT BlockSizes <- MCBlockSizes
SPECIFICATION Spec
INVARIANTS Exclusion GateRestored BlockFitsUnlessOvertaken
PROPERTIES WaitDrains EntryReturns
