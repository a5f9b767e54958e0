--------------------------- MODULE MCWorkSubmission ---------------------------
(* Small instances of WorkSubmission for TLC: the primary has a file and room  *)
(* for another, the secondary as well.                                        *)
EXTENDS WorkSubmission, TLC

Tree(a, b, c, d) == (<<1, 1>> :> a) @@ (<<1, 2>> :> b) @@ (<<2, 1>> :> c) @@ (<<2, 2>> :> d)

Committed == Tree("x", "absent", "x", "absent")

(* Files modified, deleted, added, moved and left as they were. *)
Working == {Tree("y", "absent", "absent", "y"), Tree("absent", "x", "y", "absent"),
            Tree("x", "y", "x", "absent")}

Moved == {Tree("absent", "x", "x", "absent")}
=============================================================================
