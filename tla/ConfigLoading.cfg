SPECIFICATION Spec
CONSTANTS
    Loads <- MCLoads
    Root <- MCRoot
    Overrides <- MCOverrides
    Paths <- MCPaths
    IdentityOf <- MCIdentityOf
    Documents <- MCDocuments
    Declarations <- MCDeclarations
    Characters <- MCCharacters
    FirstDisks <- MCFirstDisks
    Edits <- MCEdits
    EditLimit = 1
    AbortLimit = 1
    MaxSources = 3
    MaxDepth = 3
    MaxCharacters = 5
    MaxDeclarations = 8
INVARIANTS
    LoaderInv
    ResultIsExpansion
PROPERTIES
    LoadsEnd
