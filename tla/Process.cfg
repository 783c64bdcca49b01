SPECIFICATION ProcessFairSpec
CONSTANTS
    none = none
    text = text
    empty = empty
    array = array
    LowerCase <- Lower
    NoPayload = none
    Opaque = {array}
    EmptyString = empty
    Messages <- FourMessages
    Documents <- TwoDocuments
    Callers = {c1}
    RetentionDays = 2555
    LegalHoldDefault = FALSE
    Buffer = 1
    MaxAccepted = 2
    MaxEdits = 1
    MaxReloads = 1
INVARIANTS StoredAsDocumented RedactedTells Accounted
PROPERTIES AcceptedIsHandled ShutdownEnds
CHECK_DEADLOCK FALSE
