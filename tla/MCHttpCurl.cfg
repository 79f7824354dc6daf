SPECIFICATION Spec
CONSTANTS
    None = None
    Garbage = Garbage
    d1 = d1
    d2 = d2
    d3 = d3
    eureka = eureka
    alice = alice
    Calls <- MCCalls
    Answers <- MCAnswers
    Pieces = {d1, d2, d3}
    MaxPieces = 2
    CurlErrors = {7}
    ErrorText <- MCErrorText
INVARIANTS
    TypeOK
    UploadIsAlive
PROPERTIES
    ImplementsExchange
