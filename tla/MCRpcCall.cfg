CONSTANTS
    NumberOf <- MCNumberOf
    IntBits = 8
    Answers <- MCAnswers
SPECIFICATION Spec
INVARIANTS
    RequestIsReadable
PROPERTIES
    ResultIsTrue
    CompleteResultsAreRead
    NodeErrorsAreReported
    ErrorsStick
