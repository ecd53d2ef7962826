\* Four adaptors of two interfaces on a chain of three paths and one beside it.
SPECIFICATION Spec
CONSTANTS
    a1 = a1
    a2 = a2
    a3 = a3
    a4 = a4
    Paths <- MCPaths
    Above <- MCAbove
    Adaptors <- MCAdaptors
    Iface <- MCIface
    LooksDeep = TRUE
    NoPath = NoPath
SYMMETRY Symm
INVARIANTS TypeOK CaptureAgrees NothingLeaks AnswersAsPlain AdvertisedIsServed Discoverable
