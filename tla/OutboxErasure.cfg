SPECIFICATION Spec
CONSTANTS
    Facts <- TwoFacts
    Tombs <- TwoTombs
    Commands <- AllCommands
    Deletions <- TwoDeletions
    ScopeOf <- OneEach
    TombOf <- DeletionTomb
    CommandOf <- DeletionCommand
    RescueOf <- FactRescue
    TooLarge = {}
    MaxCopies = 3
    MaxFaults = 1
    AckLoss = FALSE
    SessionLoss = TRUE
    Crashing = FALSE
    Expiring = TRUE
INVARIANTS
    TypeOK
    DeletedCopiesAreNamed
    PublishedRowsRecordTheirCopies
    ObligationsSurviveDeletions
