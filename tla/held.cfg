\* Three calls, nested two deep, and one handle for each of them; or a piece of
\* data, or the names of an adaptor.
SPECIFICATION DeliverySpec
CONSTANTS
    Calls = {c1, c2, c3}
    MaxNesting = 2
    MaxHandles = 3
    NoHandle = NoHandle
    MaxDepth = 2
    MaxLength = 7
    PoolSize = 2
    FdLimit = 2
    QtTypes <- MCQtTypes
    MapKeys <- MCMapKeys
    Types <- MCTypes
    Jobs <- MCJobs
    Surfaces <- MCSurfaces
    WireNames <- MCWireNames
    AliasMaps <- MCAliasMaps
    SignalSpecs <- MCSignalSpecs
    OptionSpecs <- MCOptionSpecs
    Catalogs <- MCCatalogs
    Mechanisms <- MCMechanisms
INVARIANTS TypeOK NobodyForgotten ContextIsOwn AllOrNothing ServedAsAdvertised
PROPERTIES ImplementsOneReply TimedHoldEnds TeardownAnswers
\* An adaptor that is gone does nothing more.
CHECK_DEADLOCK FALSE
