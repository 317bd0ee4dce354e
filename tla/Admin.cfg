SPECIFICATION FairSpec
CONSTANTS
    Calls <- SomeCalls
    Answers <- SomeAnswers
    MaxLine = 10
    MaxCalls = 2
INVARIANTS TypeOK InStep
PROPERTIES AnswersItsCall NoShortList CallsReturn
CHECK_DEADLOCK FALSE
