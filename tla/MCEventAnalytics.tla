--------------------------- MODULE MCEventAnalytics ---------------------------
(* TLC instance of EventAnalytics. The messages on the topic are what the   *)
(* watcher makes of a log that it publishes again an hour later, and the    *)
(* envelope of a future schema. The functions of TransferEvents are         *)
(* evaluated for more logs than that.                                       *)
EXTENDS EventAnalytics

(* Of two addresses the database holds one in checksum spelling; two        *)
(* wallets have the first. Any of the wallets may be missing.               *)
MCWallets ==
    {[id |-> "w1", address |-> <<"alice", Lower>>],
     [id |-> "w2", address |-> <<"bob", Mixed>>],
     [id |-> "w3", address |-> <<"alice", Mixed>>]}

MCTransfers == {<<TransferTopic, f, t>> : f \in {<<"alice", Lower>>, <<"carol", Lower>>},
                                          t \in {<<"alice", Mixed>>, <<"bob", Lower>>,
                                                 <<"carol", Lower>>, ShortTopic}}
MCOtherTopics ==
    {<<TransferTopic>>, <<Spelled("Approval"), <<"alice", Lower>>, <<"bob", Lower>>>>,
     <<TransferTopic, <<"alice", Lower>>, <<"carol", Lower>>, <<"token", Lower>>>>}

(* Four places in the chain, and what a node may say of one of them.        *)
MCLogs ==
    [txHash : {"t1", "t2"}, logIndex : {0, 1}, blockNumber : {1},
     address : {<<"usdc", Mixed>>}, topics : MCTransfers, data : {5}, removed : {FALSE}]
    \cup
    [txHash : {"t1"}, logIndex : {0}, blockNumber : {1, Malformed},
     address : {<<"usdc", Mixed>>, <<"usdc", Lower>>, <<"other", Lower>>},
     topics : MCTransfers \cup MCOtherTopics, data : {5, Malformed}, removed : BOOLEAN]

(* Before and after the full hour.                                          *)
MCTimes == {59, 60}

MCLog == [txHash |-> "t1", logIndex |-> 0, blockNumber |-> 1,
          address |-> <<"usdc", Mixed>>, removed |-> FALSE, data |-> 5,
          topics |-> <<TransferTopic, Spelled("carol"), Spelled("alice")>>]

MCPublished(now) == Published(MCLog, [a \in {Spelled("alice")} |-> "w1"], now).value
MCFuture         == [MCPublished(59) EXCEPT !.schemaVersion = SchemaCurrent + 1]

MCMessages    == {MCPublished(59), MCPublished(60), MCFuture}
MCUndecodable == {MCFuture}
=============================================================================
