\* Texts of two letters and quotes, queries of two letters and wildcards; and up to
\* three objects of five types, pushed and popped at both ends, cut anywhere.
SPECIFICATION DataSpec
CONSTANTS
    Letters = {1, 2}
    Quote = 3
    Star = 4
    MaxText = 6
    MaxQuery = 4
    Base = 4
    SizeLen = 1
    WideLen = 2
    MaxPlain = 2
    CipherLen = 3
    BlockSize = 3
    Values <- SomeValues
    FrontKinds = {"byte", "string", "vector", "vectors"}
    MaxItems = 3
    NoItem = NoItem
INVARIANTS
    BodyHoldsItems
    SplitsAndTrims
    ListsTheLocations
    LeftmostPlacesAreEnough
    VectorsKeepTheirValues
    StreamsDecryptToTheFront
    CutMessagesDecryptToTheFront
PROPERTIES
    ImplementsTypedDeque
\* Texts and queries have a largest length.
CHECK_DEADLOCK FALSE
