----------------------------- MODULE MCJobQueue -----------------------------
(* JobQueue on small instances.                                             *)
EXTENDS JobQueue, TLC

CONSTANTS w1, w2, c1, c2, kScan, kHarvest

TwoWorkers == {w1, w2}
OneCaller == {c1}
TwoCallers == {c1, c2}
OneKey == {kScan}
TwoKeys == {kScan, kHarvest}
TwoPriorities == {0, 1}
OnePriority == {0}
=============================================================================
