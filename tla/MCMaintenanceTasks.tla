------------------------- MODULE MCMaintenanceTasks -------------------------
\* Small instances of MaintenanceTasks: a sensitive runbook that writes and a
\* low-risk one that only reads, as SAFE_RUNBOOKS has both.
EXTENDS MaintenanceTasks, TLC

MCRisk == [rb \in Runbooks |-> IF rb \in Mutating THEN "high" ELSE "low"]

MCAlertHost == [a \in Alerts |-> CHOOSE h \in Hosts : TRUE]

MCAlertRunbooks == [a \in Alerts |-> Runbooks]

\* Tasks, users and workers are interchangeable in the initial state and in Next.
MCSymmetry == {f @@ g @@ h : f \in Permutations(Tasks), g \in Permutations(Users),
                             h \in Permutations(Workers)}
=============================================================================
