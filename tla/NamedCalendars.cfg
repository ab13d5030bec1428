SPECIFICATION Spec
CONSTANTS
    Callers <- MCCallers
    Ids <- MCIds
    Scripts <- MCScripts
    LoaderCount = 2
    LoadCount = 3
    Wishes <- MCWishes
    Retirable = {"a"}
    Replacements <- MCReplacements
INVARIANTS
    CalendarInv
PROPERTIES
    RetirementComplete
    EveryUseAnswered
