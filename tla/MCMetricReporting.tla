-------------------------- MODULE MCMetricReporting --------------------------
(* Instances of MetricReporting for TLC: an instance without an asset ID,  *)
(* and others with one each or all with the same.                          *)
EXTENDS MetricReporting

CONSTANTS a1, a2, a3

OwnAsset == [a \in Apis |-> IF a = a3 THEN None ELSE a]
SameAsset == [a \in Apis |-> a1]
=============================================================================
