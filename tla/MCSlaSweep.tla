------------------------------ MODULE MCSlaSweep ------------------------------
\* Instances of SlaSweep for TLC: the policies an organization may have.
EXTENDS SlaSweep

\* Response and resolution are due together, or far apart; and the two policies of
\* the figures.
Prompt == [response |-> 1, resolution |-> 1, percent |-> 50, active |-> TRUE]
Patient == [response |-> 1, resolution |-> 3, percent |-> 50, active |-> TRUE]
Strict == [response |-> 1, resolution |-> 2, percent |-> 50, active |-> TRUE]
Lenient == [response |-> 2, resolution |-> 3, percent |-> 90, active |-> TRUE]

\* Policies at rest.
PromptForHigh == [p \in Priorities |-> IF p = "high" THEN Prompt ELSE Lenient]
PromptOnly == [p \in Priorities |-> {PromptForHigh[p]}]

PatientForAll == [p \in Priorities |-> Patient]
PatientOnly == [p \in Priorities |-> {Patient}]

\* The policy of the high priority may be exchanged for another, which is switched
\* off, and back.
StrictForHigh == [p \in Priorities |-> IF p = "high" THEN Strict ELSE Lenient]
EditableForHigh ==
    [p \in Priorities |->
        IF p = "high" THEN {Strict, [Lenient EXCEPT !.active = FALSE]} ELSE {Lenient}]
=============================================================================
