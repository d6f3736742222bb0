------------------------------ MODULE MCJobRun ------------------------------
EXTENDS JobRun
MCTasks == [p \in Phases |-> IF p \in {"beforeBoot", "onCancel"} THEN 1 ELSE 2]
=============================================================================
