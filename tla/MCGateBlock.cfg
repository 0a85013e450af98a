CONSTANT BlockSizes <- MCBlockSizes
SPECIFICATION SafeSpec
INVARIANT BlockFits
