--------------------------- MODULE MCDocumentUpload ---------------------------
(* Small instances of DocumentUpload for TLC. *)
EXTENDS DocumentUpload, TLC

\* Requests and documents are interchangeable.
Symmetry == Permutations(Request) \cup Permutations(Doc)
=============================================================================
