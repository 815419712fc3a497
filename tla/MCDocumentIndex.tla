--------------------------- MODULE MCDocumentIndex ---------------------------
(* Instances of DocumentIndex for TLC. *)
EXTENDS DocumentIndex, TLC

CONSTANTS d1, d2, text, other, r1, r2, r3, w1, w2

TwoSources == {d1, d2}
TwoContents == {text, other}
OneBlank == {other}
NoBlank == {}
TwoRequests == {r1, r2}
ThreeRequests == {r1, r2, r3}
TwoWorkers == {w1, w2}

\* Sources and requests are interchangeable, and so are the workers.
Symmetry == Permutations(Sources) \cup Permutations(Requests) \cup Permutations(Workers)
=============================================================================
