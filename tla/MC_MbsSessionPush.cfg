CONSTANTS
    ACTIVE = ACTIVE
    INACTIVE = INACTIVE
    DELETE = DELETE
    NOTHING = NOTHING
SPECIFICATION FairSpec
INVARIANTS NoOvertaking Settled DoneIsLast
PROPERTIES ImplementsRegister CatchesUp DeleteDelivered
CHECK_DEADLOCK FALSE
