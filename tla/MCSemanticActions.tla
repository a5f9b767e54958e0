-------------------------- MODULE MCSemanticActions --------------------------
(* Small instances of SemanticActions for TLC. *)
EXTENDS SemanticActions, TLC

CONSTANTS c1, c2, s1, s2, person

Together == c1 :> s1 @@ c2 :> s1

Apart == c1 :> s1 @@ c2 :> s2

TogetherOrApart == {Together, Apart}

OnlyApart == {Apart}
=============================================================================
