SPECIFICATION FairSpec
CONSTANTS
    Nodes = {n1, n2}
    Specs = {s1}
    Requests = {1, 2}
INVARIANTS IInv OneConnection
PROPERTIES AnswersAreCurrent RequestsEnd
