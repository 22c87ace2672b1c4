----------------------------- MODULE MCDownload -----------------------------
(* Small instances of Download for TLC. *)
EXTENDS Download, TLC

CONSTANTS r1, r2, r3, h1, h2

\* All ask for the same file.
SameFile == {[r \in Requests |-> h1]}

\* The second asks for the file of the first, or for another one.
OneOrTwoFiles == {(r1 :> h1) @@ (r2 :> h) : h \in {h1, h2}}

\* Not of the items, which NewItem chooses among.
Symmetry == Permutations(Requests)
=============================================================================
