\* Two connections of a project, with two messages and one.
CONSTANTS
    c1 = c1
    c2 = c2
    Conns = {c1, c2}
    MaxMessages <- TwoAndOne
SPECIFICATION FairSpec
INVARIANTS TypeOK AnswersInOrder OneInDoubt CountersBalance BanReachesOpenConnections
PROPERTIES MessagesAnswered ClosedConnectionsEnd
