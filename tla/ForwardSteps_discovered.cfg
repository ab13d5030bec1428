SPECIFICATION Spec
CONSTANTS
    Tasks <- MCTasks
    Business <- MCBusiness
    Queries <- MCQueries
INVARIANTS
    DiscoveredIsBusiness
