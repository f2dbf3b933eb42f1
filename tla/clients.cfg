SPECIFICATION FairSpec
CONSTANTS
    Clients = {c1, c2, c3}
    MaxMessages = 3
    Capacity = 2
    Null = Null
INVARIANTS TypeOK OpenIsCurrent AnsweredInOrder
PROPERTIES Served AnswerToAskerOrSuccessor
CHECK_DEADLOCK FALSE
