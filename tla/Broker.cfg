\* Three requests; the process and its connection may fail at any point, again and again.
CONSTANTS
    m1 = m1
    m2 = m2
    m3 = m3
    m4 = m4
    Messages = {m1, m2, m3}
    NoMessage = NoMessage
SPECIFICATION FairSpec
INVARIANTS TypeOK Accounted
PROPERTIES LossHasACause ImplementsHandoff HandlersMoveOn Settled DeadLinkIsFatal
