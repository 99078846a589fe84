------------------------------- MODULE KeyStore -------------------------------
(***************************************************************************)
(* What jwtkeys promises to those who verify tokens: the keys they are     *)
(* given are those of one of the authservice's rotations, never older than *)
(* the keys they were given before.  How old they may be, it does not say. *)
(***************************************************************************)
EXTENDS Integers

CONSTANTS MaxGen     \* bound: the number of rotations

VARIABLES
    keys,            \* the rotation whose keys are cached, 0 for none
    authGen          \* the authservice's latest rotation

Init == keys = 0 /\ authGen = 0

Rotate == authGen < MaxGen /\ authGen' = authGen + 1 /\ UNCHANGED keys

Refresh == keys' \in keys..authGen /\ UNCHANGED authGen

Next == Rotate \/ Refresh

Spec == Init /\ [][Next]_<<keys, authGen>>
=============================================================================
