SPECIFICATION ProcessSpec
CONSTANTS
    none = none
    text = text
    empty = empty
    array = array
    LowerCase <- Lower
    NoPayload = none
    Opaque = {array}
    EmptyString = empty
    Messages <- OneMessage
    Documents <- ShoutedOnly
    Callers = {c1}
    RetentionDays = 2555
    LegalHoldDefault = FALSE
    Buffer = 1
    MaxAccepted = 1
    MaxEdits = 0
    MaxReloads = 0
INVARIANT NoNamedFieldInClear
CHECK_DEADLOCK FALSE
