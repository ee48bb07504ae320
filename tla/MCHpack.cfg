\* Both directions of one connection, a client that resizes its table.
CONSTANTS
    None = None
    Name <- MCName
    Value <- MCValue
    Static <- MCStatic
    Used <- MCUsed
    Sensitive <- MCSensitive
    Big = 45
    MaxSize = 110
    Updates = {0, 31, 68, 110}
SPECIFICATION Spec
INVARIANTS TypeOK TableInStep FieldsArrive RepliesArrive SensitiveNotIndexed
