\* A login beside two setups, one fault, under fairness.
CONSTANTS
    None = None
    Clients = {"default", "own"}  Hosts = {"github", "ghes", "a b"}
    Malformed = {"a b"}
    DefaultClient = "default"  DefaultHost = "github"
    Callers = {c1}
    Settings <- SomeSettings
    ServerSettings <- SomeServerSettings
    Around <- SomeEnvironments
    MaxSetups = 3  MaxFaults = 1
SPECIFICATION FairSpec
INVARIANTS TypeOK Equipped ConfigSound AcceptedOffered
PROPERTIES OutcomeExplained LoginReturns
