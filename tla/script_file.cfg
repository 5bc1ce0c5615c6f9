\* Tables of up to 6 lines with counts that wrap at 4.
CONSTANTS
    CountLimit = 4
    NoName = ""
    Images <- MCImages
    Queries <- MCQueries
    MaxLines = 6
    MaxHandlers = 2
    Nothing = Nothing
SPECIFICATION Spec
INVARIANTS
    TypeOK
    AllOrNothing
    FoundIfDetectable
    LookupsAreRight
    NamesAgree
