SPECIFICATION Spec
CONSTANTS
    c1 = c1
    c2 = c2
    None = None
    Clients <- AllClients
    MayRead <- Readers
    MayPublish <- Publishers
    Requests = {c1}
INVARIANTS
    TypeOK
    NoGhosts
    ListIsTrue
    ClosedIsEmpty
PROPERTIES
    PublishersWereChecked
    Ends
CHECK_DEADLOCK FALSE
