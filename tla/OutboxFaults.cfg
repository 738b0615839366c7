SPECIFICATION FairSpec
CONSTANTS
    Facts <- TwoFacts
    Tombs <- OneTomb
    Commands <- SomeCommands
    Deletions <- OneDeletion
    ScopeOf <- Both
    TombOf <- DeletionTomb
    CommandOf <- DeletionCommand
    RescueOf <- FactRescue
    TooLarge <- SecondFact
    MaxCopies = 3
    MaxFaults = 2
    AckLoss = TRUE
    SessionLoss = TRUE
    Crashing = TRUE
    Expiring = TRUE
PROPERTIES
    NothingPublishedAfterDeletion
    DeletedCopiesAreErased
    TombstonesAreAcknowledged
