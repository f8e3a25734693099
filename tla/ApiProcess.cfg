SPECIFICATION FairProcess
CONSTANTS
    Unset = Unset
    Malformed = Malformed
    BlankEntry = BlankEntry
    Text = Text
    Default = Default
    KeyLengths <- MCKeyLengths
    Numbers <- MCNumbers
    BrokerLists <- MCBrokerLists
    HttpRequests = {h1}
    Rpcs = {g1}
    Nil = Nil
INVARIANTS EveryProcessBoots AcceptedAnswered AnsweredAsLogged NoTimeoutAnswered
PROPERTY ShutdownEnds
CHECK_DEADLOCK FALSE
