SPECIFICATION Spec
CONSTANTS
    Sbox <- MCSbox
    FK <- MCFK
    CK <- MCCK
    Message <- Messages
    Key <- Keys
    Known <- Answers
INVARIANTS
    TypeOK
    RoundTrip
    KnownAnswers
CHECK_DEADLOCK FALSE
