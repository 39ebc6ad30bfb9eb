------------------------------ MODULE MCScreening ------------------------------
(* Small instances of Screening for TLC. *)
EXTENDS Screening, TLC

CONSTANTS b1, b2, a1, f1, f2, x1

\* Both batches ask for the same application.
SameApplication == {<<b1, a1>>, <<b2, a1>>}

\* Two uploads of the same file.
TwoUploads == (f1 :> b1) @@ (f2 :> b2)
SameFile == (f1 :> x1) @@ (f2 :> x1)
\* One upload of one file.
OneUpload == f1 :> b1
OneFile == f1 :> x1
Nothing == <<>>

\* Who does something is interchangeable, as long as all are the same ...
Symmetry == Permutations(Reviewers)

\* ... and so are the two uploads together with their files.
Exchange == (b1 :> b2) @@ (b2 :> b1) @@ (f1 :> f2) @@ (f2 :> f1)
ImportSymmetry == Permutations(Workers) \cup {Exchange} \cup {Exchange @@ q: q \in Permutations(Workers)}
=============================================================================
