CONSTANTS
    Order <- MCOrder
    Wrapped = {"attic"}
    Suites <- MCSuites
    Answers <- MCAnswers
SPECIFICATION Spec
INVARIANTS TypeOK RecordsTellTheWire ZeroIsEarned ClassIsTable StartedIsStopped
PROPERTY Ends
