CONSTANTS
    Clients <- MCClients
    Names <- MCNames
    DataSets <- MCData
    Networks <- Kind
    NoName = NoName
    NoBoundary = NoBoundary
SPECIFICATION Spec
INVARIANTS HandleDiscipline
PROPERTIES SuccessIsTrue NothingLost OldOrNew
