---- MODULE MCSecrets ----
(* Three usable master keys, two of which share a fingerprint, and one of    *)
(* the wrong size.  A second is two ticks and the default step four, so a    *)
(* step of three ticks is a second and a half and one of one tick panics.    *)
EXTENDS Secrets

CONSTANTS k1, k2, k3, short, a, b

MCFingerprint == [k \in Keys |-> IF k = k3 THEN k2 ELSE k]
MCConfigs ==
  {[step |-> 0, grace |-> 1, length |-> 0],    \* the defaults, with a grace period
   [step |-> 4, grace |-> -1, length |-> 6],   \* none, by a negative one
   [step |-> 3, grace |-> 1, length |-> 9],    \* a fraction, and too many digits
   [step |-> 1, grace |-> 0, length |-> 0]}    \* less than a second
MCOrders == {[n |-> n, length |-> 1] : n \in {0, 2, 3}} \cup {[n |-> 1, length |-> 0]}
============================
