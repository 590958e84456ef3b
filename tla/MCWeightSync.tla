---------------------------- MODULE MCWeightSync ----------------------------
(* Two trainer ranks, two vLLM ranks. *)
EXTENDS WeightSync

MCSenders == {0, 1}
MCReceivers == {2, 3}

F32 == [name |-> "float32", size |-> 4]
BF16 == [name |-> "bfloat16", size |-> 2]

MCDTypePairs == {[send |-> F32, recv |-> BF16]}

Agreed == [r \in Agents |-> 1]

MCCases ==
  {[hurry |-> FALSE, impatient |-> FALSE, layouts |-> Agreed],
   [hurry |-> TRUE, impatient |-> FALSE, layouts |-> Agreed],
   [hurry |-> FALSE, impatient |-> TRUE, layouts |-> Agreed],
   [hurry |-> FALSE, impatient |-> FALSE, layouts |-> [Agreed EXCEPT ![3] = 2]],
   [hurry |-> FALSE, impatient |-> FALSE, layouts |-> [Agreed EXCEPT ![2] = 2, ![3] = 2]]}
=============================================================================
