--------------------------- MODULE MCSessionTasks ---------------------------
(* A response task, the speech task it leads to and a third task that      *)
(* shares the key of the first, over two lanes.                            *)
EXTENDS SessionTasks

CONSTANTS initial, speech, retry, keyA, keyB, cap

MCShape ==
  [t \in Tasks |->
    [key     |-> IF t = speech THEN keyB ELSE keyA,
     session |-> "session",
     parent  |-> IF t = speech THEN initial ELSE NoTask,
     kind    |-> IF t = retry THEN "maintenance" ELSE "interactive",
     retry   |-> 0,
     speech  |-> t = speech]]

MCPriority == <<"interactive", "maintenance">>
=============================================================================
