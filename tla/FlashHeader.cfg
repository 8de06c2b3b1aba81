CONSTANTS
    Clients <- MCOneClient
    Names <- MCNames
    DataSets <- MCData
    Networks <- HeaderCut
    NoName = NoName
    NoBoundary = NoBoundary
SPECIFICATION Spec
PROPERTIES DoneMeansStored
