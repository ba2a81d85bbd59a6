---------------------------- MODULE MC_Admission ----------------------------
(* One developer with one app; an end user with one session; a key of the   *)
(* developer's and one of the user's; requests that run at once.            *)
EXTENDS Admission, TLC

CONSTANTS d1, a1, u1, s1, kd, ku, c1, c2, f1

MCDeveloperOf == [a \in App |-> d1]
MCAppOf       == [u \in User |-> a1]
MCUserOf      == [s \in Session |-> u1]
MCOwnerOf     == [k \in Key |-> IF k = ku THEN u1 ELSE d1]

\* Requests differ in nothing but their names.
Requests == Permutations(Chat)
=============================================================================
