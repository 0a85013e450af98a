CONSTANTS
    Voices = {v1}
    Samples = {s1, s2}
    Missing = {}
    Generator = Generator
    NoRegion = NoRegion
    NoFile = NoFile
    QueueCapacity = 2
    TicketMod = 4
    MaxTickets = 2
    MaxSessions = 1
SPECIFICATION SafeSpec
INVARIANT SingleConsumer
