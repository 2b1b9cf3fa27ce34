---------------------------- MODULE ConfigService ----------------------------
(***************************************************************************)
(* What the control plane promises about configurations: each gets a       *)
(* version of its own, above the ones before; the device runs what it      *)
(* booted with or a stored configuration that is valid, and changes only   *)
(* to a newer one until it is restarted; the table tells how the device    *)
(* answered and forgets an answer only for the newest row, which is the    *)
(* only one that is pushed again.                                          *)
(***************************************************************************)
EXTENDS Integers, Sequences

CONSTANT BootCfg        \* version the device boots with

VARIABLES
    rows,       \* stored configurations, oldest first
    running     \* what the device runs, and whether it was pushed

vars == <<rows, running>>

Boot == [ver |-> BootCfg, pushed |-> FALSE]

\* What the device answers to a configuration, valid or not.
Verdict(row) == IF row.ok THEN "applied" ELSE "rejected"

Init == rows = <<>> /\ running = Boot

\* Any version above the stored ones will do.
Store ==
    /\ Len(rows') = Len(rows) + 1
    /\ LET row == rows'[Len(rows')]
       IN  /\ rows' = Append(rows, row)
           /\ row.answer = "none"
           /\ \A i \in DOMAIN rows : rows[i].ver < row.ver
    /\ UNCHANGED running

Run(i) ==
    /\ rows[i].ok
    /\ rows[i].ver > running.ver
    /\ running' = [ver |-> rows[i].ver, pushed |-> TRUE]
    /\ UNCHANGED rows

Answered(i) ==
    /\ rows' = [rows EXCEPT ![i].answer = Verdict(rows[i])]
    /\ UNCHANGED running

PushedAgain ==
    /\ rows # <<>>
    /\ rows' = [rows EXCEPT ![Len(rows)].answer = "none"]
    /\ UNCHANGED running

Restart == running' = Boot /\ UNCHANGED rows

Next ==
    \/ Store
    \/ \E i \in DOMAIN rows : Run(i) \/ Answered(i)
    \/ PushedAgain
    \/ Restart

Spec == Init /\ [][Next]_vars
==============================================================================
