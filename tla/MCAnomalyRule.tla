---------------------------- MODULE MCAnomalyRule ----------------------------
\* An instance of AnomalyRule. A price that doubles from 1 triggers, one that
\* triples exceeds the largest ratio; a total that grows by 1 triggers.
EXTENDS AnomalyRule, TLC

MCTrigger == [price |-> 50, cumulative |-> 1]
MCRearm == [price |-> 0, cumulative |-> 0]

=============================================================================
