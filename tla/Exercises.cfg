\* The books: five orders over three prices and a display of two; positions in and
\* out of range.  The array: two values, up to five elements, two capacities, so
\* that the block grows up to three times; every index is tried from -1 on.  The
\* parser: messages of up to two lines, and up to five tokens of anything else.
\* The books stop when the vector has thrown or gone wrong, the array when the
\* program exits.
CONSTANTS
    Prices = {1, 2, 3}
    Top = 2
    MaxOrders = 5
    Values = {1, 2}
    Nothing = Nothing
    Capacities = {1, 3}
    MaxLength = 5
    Messages <- SomeMessages
    Noise <- SomeNoise
CHECK_DEADLOCK FALSE
SPECIFICATION ExercisesSpec
INVARIANTS OrderBookTypeOK PriceThenArrival BooksAgree ArrayTypeOK ParsedAsSent
PROPERTIES BestShown ImplementsList ParserReturns
