---------------------------- MODULE MCOperations ----------------------------
(***************************************************************************)
(* Instances of Operations: a training task and a second one while the     *)
(* first may be late; training, then prediction; the retention; backups    *)
(* over a few days; a backup beside a task.                                *)
(***************************************************************************)
EXTENDS Operations

CONSTANTS s1, s2, m1, o1, o2, o3

Both(type1, type2) == [s \in Starters |-> IF s = s1 THEN type1 ELSE type2]
Quiet ==
    [wants |-> Both("TRAIN", "PREDICT"), starters |-> {}, speaking |-> Tasks,
     failing |-> {}, apart |-> TRUE,
     owners |-> {}, verify |-> FALSE, retention |-> FALSE, failures |-> 0, crashes |-> 0]

TrainTwice   == [Quiet EXCEPT !.starters = {s1, s2}, !.wants = Both("TRAIN", "TRAIN"),
                              !.apart = FALSE, !.speaking = {1}, !.failing = {1}]
TrainCrash   == [Quiet EXCEPT !.starters = {s1}, !.failing = Tasks, !.failures = 1, !.crashes = 1]
TrainPredict == [Quiet EXCEPT !.starters = {s1, s2}, !.retention = TRUE, !.failures = 1]
BackupDays   == [Quiet EXCEPT !.owners = {o1, o2, o3}, !.failures = 1, !.crashes = 1, !.verify = TRUE]
BackupBeside == [Quiet EXCEPT !.starters = {s1}, !.owners = {o1}]

MCScenes == {TrainTwice, TrainCrash, TrainPredict, BackupDays, BackupBeside}
=============================================================================
