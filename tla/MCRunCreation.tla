--------------------------- MODULE MCRunCreation ----------------------------
(* One chat request sent twice, another one, and a resume sent twice. *)
EXTENDS RunCreation, TLC

CONSTANTS c1, c2, c3, c4, c5

McCalls == {c1, c2, c3, c4, c5}
McRequestId == c1 :> "a" @@ c2 :> "a" @@ c3 :> "b" @@ c4 :> "c" @@ c5 :> "c"
McKind == c1 :> "chat" @@ c2 :> "chat" @@ c3 :> "chat" @@ c4 :> "resume" @@ c5 :> "resume"
=============================================================================
