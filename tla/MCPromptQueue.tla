----------------------------- MODULE MCPromptQueue -----------------------------
(* Instances of PromptQueue: a budget gives the inputs of each kind, and   *)
(* the order asked for puts the later prompt first.                        *)
EXTENDS PromptQueue

Budget(users, asides, completions_, resumes, notices_) ==
    [k \in {"user", "aside", "completion", "resume", "notice"} |->
        CASE k = "user" -> users [] k = "aside" -> asides
          [] k = "completion" -> completions_ [] k = "resume" -> resumes
          [] k = "notice" -> notices_]

B1 == {Budget(2, 1, 1, 0, 0)}
B2 == {Budget(1, 1, 0, 1, 0)}
B3 == {Budget(1, 0, 1, 1, 0)}
B4 == {Budget(1, 1, 0, 0, 1)}
B5 == {Budget(1, 0, 1, 0, 1)}
B6 == {Budget(2, 0, 0, 1, 0)}
B7 == {Budget(1, 0, 0, 1, 1)}
B8 == {Budget(1, 2, 0, 0, 0)}
MCBudgets == B1 \cup B2 \cup B3 \cup B4 \cup B5 \cup B6 \cup B7 \cup B8

MCOrders == {<<<<"user", 1>>, <<"user", 2>>>>}
=============================================================================
