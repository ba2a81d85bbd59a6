---------------------------- MODULE MC_SdkClient ----------------------------
(* Two chat requests of different features, a createSession of the app       *)
(* without a feature, two sessions, two reports and two flushes.            *)
EXTENDS SdkClient, TLC

CONSTANTS c1, c2, o1, fA, fB

MCFeatureOf == [c \in Call |-> CASE c = c1 -> fA
                                 [] c = c2 -> fB
                                 [] OTHER -> AnyFeature]

Symmetry == Permutations(Token) \cup Permutations(Report) \cup Permutations(Flush)
=============================================================================
