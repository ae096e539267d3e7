SPECIFICATION FairSpec
CONSTANTS
    m1 = m1
    m2 = m2
    Workers = {w1}
    Msgs = {m1, m2}
    NoMsg = NoMsg
    MsgTopic <- MCMsgTopic
    SubTopics <- MCSubTopics
    MaxSubs = 2
    MaxPublishes = 2
    Cap = 1
PROPERTIES Delivery StartReturnsUnlessWriter
CHECK_DEADLOCK FALSE
