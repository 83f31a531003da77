--------------------------- MODULE DocumentHistory ---------------------------
(***************************************************************************)
(* The aggregate Document of the documents domain: a logical document is   *)
(* an append-only sequence of immutable versions, contiguous from one,     *)
(* whose source hashes are all different.  DocumentUpload implements it    *)
(* with tables, locks and an object store.                                 *)
(***************************************************************************)
EXTENDS Sequences

CONSTANTS
    Doc,     \* logical documents
    File     \* source contents, identified by their SHA-256

VARIABLE history    \* the version history of each document; <<>> before it exists

Init == history = [d \in Doc |-> <<>>]

Hashes(d) == {history[d][i] : i \in DOMAIN history[d]}

\* Document.create: the required first version.
Create(d, h) ==
    /\ history[d] = <<>>
    /\ history' = [history EXCEPT ![d] = <<h>>]

\* Document.append: exactly the next distinct version.
AppendVersion(d, h) ==
    /\ history[d] # <<>>
    /\ h \notin Hashes(d)
    /\ history' = [history EXCEPT ![d] = Append(@, h)]

Next == \E d \in Doc, h \in File : Create(d, h) \/ AppendVersion(d, h)

Spec == Init /\ [][Next]_history
=============================================================================
