----------------------------- MODULE MCInference -----------------------------
(* A service with a better and a worse key, and a service to fall back on.   *)
EXTENDS Inference

CONSTANTS s1, s2, k1, k2

Key(id, p) == [key_id |-> id, priority |-> p]

MCRoute == <<[service_id |-> s1, priority |-> 1, keys |-> <<Key(k1, 1), Key(k2, 0)>>],
             [service_id |-> s2, priority |-> 0, keys |-> <<Key(k1, 0)>>]>>

MCRetries == {"key", "service"}
=============================================================================
