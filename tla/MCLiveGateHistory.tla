----------------------- MODULE MCLiveGateHistory -----------------------
(* Instances of LiveGate: a provider's fingerprint and a radius one.      *)
EXTENDS LiveGateHistory

CONSTANTS esi, radius, c1, c2

MCCooldowns == [fp \in Fingerprints |-> IF fp = esi THEN 2 ELSE 1]
=============================================================================
