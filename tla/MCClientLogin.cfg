\* One account, and forms that are not filled in; the main window may have two requests unanswered.
CONSTANTS
    Forms = {alice}
    Blank = Blank
    Nobody = Nobody
    UnderWay = 2
SPECIFICATION Spec
INVARIANT
    AgreesWithServer
PROPERTY
    AttemptsEnd
CHECK_DEADLOCK FALSE
