--------------------------- MODULE MCClientActor ---------------------------
(* Small instances of ClientActor for TLC. *)
EXTENDS ClientActor, TLC

CONSTANTS f1, f2, f3, b1, x1, s1, u, h1

\* Three foreground submissions of one unique id.
CoalescingKind == f1 :> "fg" @@ f2 :> "fg" @@ f3 :> "fg"
CoalescingUnique == f1 :> u @@ f2 :> u @@ f3 :> u
NoQueries == <<>>

\* A foreground and a background submission, one whose packet is too large,
\* and a query about the job of the second.
CallsKind == f1 :> "fg" @@ b1 :> "bg" @@ x1 :> "bg" @@ s1 :> "status"
CallsUnique == [r \in {f1, b1, x1, s1} |-> NoUnique]
CallsAbout == s1 :> b1

SoloKind == f1 :> "fg"
SoloUnique == f1 :> u

CoalescingSymmetry == Permutations(Requests)
=============================================================================
