----------------------------- MODULE TaskStatus ------------------------------
(***************************************************************************)
(* What a caller may observe of its tasks: the abstract life of a task as  *)
(* told by the records its progress callback receives.  A step may move    *)
(* several tasks at once (the end of one task lets another one start, and  *)
(* close speaks for all of them) and may deliver two records of one task   *)
(* (Pending, then Transmission when a slot is free).                       *)
(***************************************************************************)
CONSTANT Task

VARIABLE status

Open == {"None", "Pending", "Transmission", "Paused"}

\* Paused is only left by a resume or a cancel; a terminal record is the last.
Move ==
  [ None         |-> {"Pending", "Transmission", "Paused", "Duplicate"},
    Pending      |-> {"Transmission", "Paused", "Complete", "Failed", "Canceled"},
    Transmission |-> {"Paused", "Complete", "Failed", "Canceled"},
    Paused       |-> {"Pending", "Transmission", "Canceled"} ]

Init == status = [t \in Task |-> "None"]

Step ==
  /\ status' \in [Task -> Open \cup {"Complete", "Failed", "Canceled", "Duplicate"}]
  /\ \A t \in Task : status'[t] # status[t]
        => status[t] \in Open /\ status'[t] \in Move[status[t]]

Spec == Init /\ [][Step]_status
=============================================================================
