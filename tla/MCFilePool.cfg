CONSTANTS
    Voices = {v1}
    Samples = {s1, s2}
    Missing = {s2}
    Generator = Generator
    NoRegion = NoRegion
    NoFile = NoFile
    QueueCapacity = 1
    TicketMod = 4
    MaxTickets = 2
    MaxSessions = 1
SPECIFICATION Spec
INVARIANTS PlaysRequestedSample Pinned StaleJobsReserved
PROPERTIES RequestsAnswered HandlesReclaimed
