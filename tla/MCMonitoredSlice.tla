-------------------------- MODULE MCMonitoredSlice --------------------------
(* Instances of MonitoredSlice for TLC: a moderate and a heavy operation     *)
(* (WEIGHT_MODERATE, WEIGHT_HEAVY) against the thresholds.                   *)
EXTENDS MonitoredSlice

Moderate == 10
Heavy    == 50
High     == 50
Medium   == 10

TwoWeights == {Moderate, Heavy}
=============================================================================
