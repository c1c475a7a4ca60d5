------------------------------ MODULE MCReports ------------------------------
(***************************************************************************)
(* Reports for TLC: two archives with a top directory, and reviews of them *)
(* that repeat, overlap and contradict each other.                         *)
(***************************************************************************)
EXTENDS Reports

A == <<"top", "a">>
B == <<"top", "b">>
Lock == <<"top", "lock">>
Root == <<"README">>

MCWalk == <<Root, A, B, Lock>>

MCExcluded == {Lock}

(* A file of one line, files that are cut, and one with a secret and a     *)
(* Windows line end.                                                       *)
Short == <<"x">>
Long  == <<"x", "LF", "y", "LF", "x", "y">>
Mixed == <<"y", "CRLF", "secret", "LF", "z">>

MCArchives ==
  {(Root :> Short) @@ (A :> Long) @@ (B :> Short) @@ (Lock :> Short),
   (Root :> Long) @@ (A :> Mixed)}

MCSelections == {{}, {A}, {Lock}, {A, B}}

OneSelection == {{A}}

Issue(file, from, to, severity, category, words, patch) ==
  [file |-> file, start |-> from, end |-> to, severity |-> severity,
   category |-> category, words |-> words, patch |-> patch]

FixAt(from, to, before, after) ==
  {[before |-> before, after |-> after, start |-> from, end |-> to]}

Fix(before, after) == FixAt(0, 0, before, after)

(* Descriptions of which each resembles the next, but the first not the    *)
(* last.                                                                   *)
Words == <<1 .. 6, 1 .. 7, 2 .. 7>>

Vague(k) == Issue(A, 1, 1, "LOW", "BUG", Words[k], {})

MCReviews ==
  {<<>>,
   <<Vague(1), Vague(2), Vague(3),
     Issue(A, 0, 0, "HIGH", "STYLE", Words[1], FixAt(2, 3, <<"y", "LF", "x", "y">>, <<"z">>)),
     Issue(Root, 0, 0, "LOW", "BUG", Words[1], FixAt(1, 0, <<"x">>, <<"z">>))>>,
   <<Issue(A, 1, 1, "HIGH", "BUG", Words[1], Fix(<<"x">>, <<"z">>)),
     Issue(A, 2, 2, "INFO", "STYLE", Words[1], Fix(<<"y">>, <<>>))>>,
   <<Issue(A, 1, 2, "HIGH", "BUG", Words[1], Fix(<<"x", "LF", "y">>, <<"z", "LF", "z">>)),
     Issue(<<"a">>, 3, 3, "HIGH", "BUG", Words[1], Fix(<<"x", "y">>, <<"z">>))>>,
   <<Issue(A, 1, 2, "LOW", "SECURITY", Words[2], Fix(<<"y", "LF", "redacted">>, <<"z">>)),
     Issue(B, 1, 1, "LOW", "BUG", Words[1], Fix(<<"x">>, <<"y", "LF", "$$">>))>>}
=============================================================================
