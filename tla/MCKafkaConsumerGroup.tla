-------------------------- MODULE MCKafkaConsumerGroup --------------------------
(* Instances of KafkaConsumerGroup for TLC: consumers c1, c2, c3 and      *)
(* partitions p1, p2.                                                     *)
EXTENDS KafkaConsumerGroup, TLC

CONSTANTS c1, c2, c3, p1, p2

TwoConsumers == {c1, c2}
ThreeConsumers == {c1, c2, c3}
OnePartition == {p1}
TwoPartitions == {p1, p2}
AllFaults == {"crash", "slow", "connloss"}
CrashOnly == {"crash"}
Symmetric == Permutations(Consumer) \cup Permutations(Partition)
=============================================================================
