SPECIFICATION Spec
CONSTANTS
    m1 = m1
    m2 = m2
    Workers = {w1, w2}
    Msgs = {m1, m2}
    NoMsg = NoMsg
    MsgTopic <- MCMsgTopic
    SubTopics <- MCSubTopics
    MaxSubs = 2
    MaxPublishes = 3
    Cap = 1
SYMMETRY Symmetry
INVARIANTS TypeOK NoLostMessage OnlyShutdownPanics TopicIsolation
PROPERTY RefinesPubSub
CHECK_DEADLOCK FALSE
