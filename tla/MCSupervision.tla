--------------------------- MODULE MCSupervision ---------------------------
(* A small instance of Supervision for TLC.                                   *)
EXTENDS Supervision

Plain == [section |-> TRUE, secret |-> "own", interval |-> "five", cloud |-> TRUE,
          snapshots |-> FALSE, watchdog |-> FALSE, beat |-> TRUE, metrics |-> FALSE,
          rules |-> TRUE]

MCConfigs ==
    {[Plain EXCEPT !.section = FALSE],
     [Plain EXCEPT !.interval = "garbage", !.watchdog = TRUE],
     [Plain EXCEPT !.metrics = TRUE, !.interval = "unset"],
     [Plain EXCEPT !.secret = "unset", !.snapshots = TRUE],
     [Plain EXCEPT !.secret = "placeholder"],
     [Plain EXCEPT !.secret = "default"],
     [Plain EXCEPT !.cloud = FALSE, !.watchdog = TRUE, !.beat = FALSE]}
============================================================================
