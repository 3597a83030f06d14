SPECIFICATION Spec
CONSTANTS
    Parts <- AllParts
    Calls <- MCCalls
    Docs <- MCDocs
    Objects <- MCObjects
    Configurations <- MCConfigurations
    Account <- MCAccount
    Unquotable = {"quoted"}
    Quota = 2
INVARIANTS
    TypeOK
    ResultsAreTrue
    OutcomesAreTrue
