--------------------------- MODULE MCReviewRounds ---------------------------
(* One phase, three byte strings, two rounds, one human decision, one      *)
(* failed or interrupted attempt and one editorial triage.                 *)
EXTENDS ReviewRounds
=============================================================================
