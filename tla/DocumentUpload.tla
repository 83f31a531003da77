--------------------------- MODULE DocumentUpload ---------------------------
(***************************************************************************)
(* Concurrent document uploads: the use case that stages, screens and      *)
(* converts a file, the content-addressed object store it writes to, and   *)
(* the repository transaction that creates a document or appends a version *)
(* to one.  A source file is identified by its SHA-256, and so is the      *)
(* canonical PDF that LibreOffice produces from an office file: two        *)
(* conversions of one source need not give the same bytes.                 *)
(***************************************************************************)
EXTENDS Naturals, FiniteSets

CONSTANTS
    Request,      \* uploads the API serves concurrently
    Doc,          \* logical documents
    File,         \* contents that clients upload
    Pdf,          \* the files that are PDFs; the others are DOCX or PPTX
    Oversized,    \* files that are empty, too large or badly named
    Unsupported,  \* files that are neither PDF, DOCX nor PPTX, or unsafe archives
    Unreadable,   \* PDFs that cannot be read or whose page count is out of range
    Encrypted,    \* encrypted PDFs
    Infected,     \* files clamd reports as FOUND
    Rendition,    \* canonical PDFs that conversions may produce
    NoRequest, NoDoc, NoKey

ASSUME FileAssumption ==
    /\ Pdf \subseteq File
    /\ Encrypted \subseteq Pdf /\ Unreadable \subseteq Pdf
    /\ Oversized \subseteq File /\ Unsupported \subseteq File /\ Infected \subseteq File
    /\ Rendition \cap File = {}

ASSUME NoValueAssumption ==
    /\ NoRequest \notin Request
    /\ NoDoc \notin Doc
    /\ NoKey \notin File \cup Rendition

Key == File \cup Rendition

VARIABLES
    store,     \* the objects of the bucket: "absent", "intact" or "altered"
    docs,      \* rows of documents.document
    table,     \* rows of documents.document_version
    lock,      \* the transaction that holds each document row
    pc,        \* the step each upload executes next
    target,    \* the document an upload appends to, or NoDoc for a new one
    file,      \* the uploaded content
    pdf,       \* its canonical PDF
    seq,       \* the version number an append has computed
    draft,     \* the version row an upload has flushed and not committed
    late       \* object writes whose request is gone but whose thread is not

upload == <<pc, target, file, pdf, seq, draft>>
vars == <<store, docs, table, lock, upload, late>>

\* The steps of the short transaction.
Transaction == {"create", "lock", "read", "insert", "commit"}

Pc == {"idle", "stage", "detect", "inspect", "scan", "parse",
       "statSource", "putSource", "statPdf", "putPdf"} \cup Transaction

\* DocumentVersion: a PDF is its own canonical PDF.
VersionRow == {v \in [doc : Doc, version : Nat \ {0}, hash : File, pdf : Key] :
                 IF v.hash \in Pdf THEN v.pdf = v.hash ELSE v.pdf \in Rendition}

TypeOK ==
    /\ store \in [Key -> {"absent", "intact", "altered"}]
    /\ docs \in SUBSET Doc
    /\ \A v \in table : v \in VersionRow /\ v.doc \in docs
    /\ lock \in [Doc -> Request \cup {NoRequest}]
    /\ pc \in [Request -> Pc]
    /\ target \in [Request -> Doc \cup {NoDoc}]
    /\ file \in [Request -> File \cup {NoKey}]
    /\ pdf \in [Request -> Key \cup {NoKey}]
    /\ seq \in [Request -> Nat]
    /\ \A r \in Request : draft[r] \subseteq VersionRow
    /\ late \in SUBSET Key

Init ==
    /\ store = [k \in Key |-> "absent"]
    /\ docs = {}
    /\ table = {}
    /\ lock = [d \in Doc |-> NoRequest]
    /\ pc = [r \in Request |-> "idle"]
    /\ target = [r \in Request |-> NoDoc]
    /\ file = [r \in Request |-> NoKey]
    /\ pdf = [r \in Request |-> NoKey]
    /\ seq = [r \in Request |-> 0]
    /\ draft = [r \in Request |-> {}]
    /\ late = {}

-----------------------------------------------------------------------------
(* The end of an upload *)

\* The workspace is removed, the transaction, if any, is closed.
Close(r) ==
    /\ lock' = [d \in Doc |-> IF lock[d] = r THEN NoRequest ELSE lock[d]]
    /\ pc' = [pc EXCEPT ![r] = "idle"]
    /\ target' = [target EXCEPT ![r] = NoDoc]
    /\ file' = [file EXCEPT ![r] = NoKey]
    /\ pdf' = [pdf EXCEPT ![r] = NoKey]
    /\ seq' = [seq EXCEPT ![r] = 0]
    /\ draft' = [draft EXCEPT ![r] = {}]

\* The use case raises: nothing is stored in the database.
Refuse(r) ==
    /\ Close(r)
    /\ UNCHANGED <<store, docs, table, late>>

\* The object that an upload is writing in a thread of its own.
Writing(r) ==
    CASE pc[r] = "putSource" -> {file[r]}
      [] pc[r] = "putPdf"    -> {pdf[r]}
      [] OTHER               -> {}

\* The request is cancelled, a service is unavailable, the commit fails or the
\* process dies, at any point.  A thread inside put_object may outlive it.
Abandon(r) ==
    /\ pc[r] # "idle"
    /\ \E left \in SUBSET Writing(r) : late' = late \cup left
    /\ Close(r)
    /\ UNCHANGED <<store, docs, table>>

LateWrite(k) ==
    /\ k \in late
    /\ late' = late \ {k}
    /\ \/ store' = [store EXCEPT ![k] = "intact"]
       \/ UNCHANGED store
    /\ UNCHANGED <<docs, table, lock, upload>>

-----------------------------------------------------------------------------
(* UploadDocumentHandler.handle *)

Goto(r, label) == pc' = [pc EXCEPT ![r] = label]

\* Bound: uploads in progress create no more documents than Doc has left.
RoomForDocument ==
    Cardinality({q \in Request : pc[q] # "idle" /\ target[q] = NoDoc})
      < Cardinality(Doc \ docs)

\* A client uploads a file, for a new document or for one it names.  A form or
\* a principal that the endpoint refuses begins no upload.
Receive(r, d, f) ==
    /\ pc[r] = "idle"
    /\ d = NoDoc => RoomForDocument
    /\ target' = [target EXCEPT ![r] = d]
    /\ file' = [file EXCEPT ![r] = f]
    /\ Goto(r, "stage")
    /\ UNCHANGED <<store, docs, table, lock, pdf, seq, draft, late>>

\* One check of the file: it goes on, or the upload is refused.
Check(r, here, refused, next) ==
    /\ pc[r] = here
    /\ \/ /\ file[r] \notin refused
          /\ Goto(r, next)
          /\ UNCHANGED <<store, docs, table, lock, target, file, pdf, seq, draft, late>>
       \/ file[r] \in refused /\ Refuse(r)

\* The file is copied within its limits.
Stage(r) == Check(r, "stage", Oversized, "detect")

\* Its format is detected from its content.
Detect(r) == Check(r, "detect", Unsupported, "inspect")

Inspect(r) == Check(r, "inspect", Encrypted, "scan")

\* Variant: a file passes whatever clamd answers.
ScanFailOpen(r) == Check(r, "scan", {}, "parse")

\* clamd streams the file; every answer but OK refuses it.
Scan(r) == Check(r, "scan", Infected, "parse")

\* What LibreOffice makes of an office file.
Converted(f) == IF f \in Pdf THEN {f} ELSE Rendition

\* An office file is converted, a PDF is kept, and the pages are counted.  A
\* conversion may fail, or give a PDF whose page count is out of range.
Parse(r) ==
    /\ pc[r] = "parse"
    /\ \/ /\ file[r] \notin Unreadable
          /\ \E k \in Converted(file[r]) : pdf' = [pdf EXCEPT ![r] = k]
          /\ Goto(r, "statSource")
          /\ UNCHANGED <<store, docs, table, lock, target, file, seq, draft, late>>
       \/ file[r] \in Unreadable \cup (File \ Pdf) /\ Refuse(r)

AfterPut(r) == IF target[r] = NoDoc THEN "create" ELSE "lock"

\* Variant: the canonical PDF of an office file is not uploaded.
AfterSourceSkipsPdf(r) == AfterPut(r)

\* A PDF is its own canonical PDF, and is stored once.
AfterSource(r) == IF file[r] \in Pdf THEN AfterPut(r) ELSE "statPdf"

\* MinioDocumentBlobStore.put, first half: an object of the right size is
\* taken as it is, one of another size fails the upload.
Stat(r, here, k, put, next) ==
    /\ pc[r] = here
    /\ \/ /\ store[k] # "altered"
          /\ Goto(r, IF store[k] = "intact" THEN next ELSE put)
          /\ UNCHANGED <<store, docs, table, lock, target, file, pdf, seq, draft, late>>
       \/ store[k] = "altered" /\ Refuse(r)

\* Second half: the bytes are written, whatever another upload wrote since.
Put(r, here, k, next) ==
    /\ pc[r] = here
    /\ store' = [store EXCEPT ![k] = "intact"]
    /\ Goto(r, next)
    /\ UNCHANGED <<docs, table, lock, target, file, pdf, seq, draft, late>>

StatSource(r) == Stat(r, "statSource", file[r], "putSource", AfterSource(r))
PutSource(r) == Put(r, "putSource", file[r], AfterSource(r))
StatPdf(r) == Stat(r, "statPdf", pdf[r], "putPdf", AfterPut(r))
PutPdf(r) == Put(r, "putPdf", pdf[r], AfterPut(r))

-----------------------------------------------------------------------------
(* SqlAlchemyDocumentRepository *)

Versions(d) == {v \in table : v.doc = d}

RowOf(r, d, n) == [doc |-> d, version |-> n, hash |-> file[r], pdf |-> pdf[r]]

\* The unique constraints on document and version, and document and hash.
Clash(v, w) == v.doc = w.doc /\ (v.version = w.version \/ v.hash = w.hash)

\* Variant: versions are counted from zero.
FirstVersionZero == 0

FirstVersion == 1

\* create: a fresh document and its first version are flushed together.
CreateDocument(r, d) ==
    /\ pc[r] = "create"
    /\ d \notin docs
    /\ \A q \in Request : \A v \in draft[q] : v.doc # d
    /\ draft' = [draft EXCEPT ![r] = {RowOf(r, d, FirstVersion)}]
    /\ Goto(r, "commit")
    /\ UNCHANGED <<store, docs, table, lock, target, file, pdf, seq, late>>

\* Variant: the document row is read without FOR UPDATE.
ReadDocument(r) ==
    /\ pc[r] = "lock"
    /\ \/ /\ target[r] \in docs
          /\ Goto(r, "read")
          /\ UNCHANGED <<store, docs, table, lock, target, file, pdf, seq, draft, late>>
       \/ target[r] \notin docs /\ Refuse(r)

\* append: the document row is locked, or does not exist.
LockDocument(r) ==
    /\ pc[r] = "lock"
    /\ \/ /\ target[r] \in docs
          /\ lock[target[r]] = NoRequest
          /\ lock' = [lock EXCEPT ![target[r]] = r]
          /\ Goto(r, "read")
          /\ UNCHANGED <<store, docs, table, target, file, pdf, seq, draft, late>>
       \/ target[r] \notin docs /\ Refuse(r)

\* max(version) of the document, as a set: empty when it has no version.
Latest(d) ==
    {n \in {v.version : v \in Versions(d)} : \A w \in Versions(d) : w.version <= n}

\* Variant: a number is left out.
FollowingSkips(n) == n + 2

\* The version number of the next version.
Following(n) == n + 1

\* Variant: a refused duplicate leaves its transaction open.
ReadLatestLeak(r) ==
    /\ pc[r] = "read"
    /\ \A v \in Versions(target[r]) : v.hash # file[r]
    /\ \E n \in Latest(target[r]) : seq' = [seq EXCEPT ![r] = Following(n)]
    /\ Goto(r, "insert")
    /\ UNCHANGED <<store, docs, table, lock, target, file, pdf, draft, late>>

\* append: content the document already has is refused, and so would be a
\* document without a version; else the next version number is computed.
ReadLatest(r) ==
    /\ pc[r] = "read"
    /\ \/ /\ \A v \in Versions(target[r]) : v.hash # file[r]
          /\ \E n \in Latest(target[r]) : seq' = [seq EXCEPT ![r] = Following(n)]
          /\ Goto(r, "insert")
          /\ UNCHANGED <<store, docs, table, lock, target, file, pdf, draft, late>>
       \/ /\ \A n \in Latest(target[r]) :
                \E v \in Versions(target[r]) : v.hash = file[r]
          /\ Refuse(r)

NextRow(r) == RowOf(r, target[r], seq[r])

\* append: the row is flushed.  The INSERT waits for an uncommitted row it
\* clashes with, and fails on a committed one.
InsertVersion(r) ==
    /\ pc[r] = "insert"
    /\ \A q \in Request : \A v \in draft[q] : ~Clash(v, NextRow(r))
    /\ IF \E v \in table : Clash(v, NextRow(r))
         THEN Refuse(r)
         ELSE /\ draft' = [draft EXCEPT ![r] = {NextRow(r)}]
              /\ Goto(r, "commit")
              /\ UNCHANGED <<store, docs, table, lock, target, file, pdf, seq, late>>

\* The short transaction commits.
Commit(r) ==
    /\ pc[r] = "commit"
    /\ table' = table \cup draft[r]
    /\ docs' = docs \cup {v.doc : v \in draft[r]}
    /\ Close(r)
    /\ UNCHANGED <<store, late>>

\* External corruption or manual replacement of an object.
Alter(k) ==
    /\ store[k] = "intact"
    /\ store' = [store EXCEPT ![k] = "altered"]
    /\ UNCHANGED <<docs, table, lock, upload, late>>

IngestStep(r) ==
    \/ Stage(r) \/ Detect(r) \/ Inspect(r) \/ Scan(r) \/ Parse(r)
    \/ StatSource(r) \/ PutSource(r) \/ StatPdf(r) \/ PutPdf(r)

TransactionStep(r) ==
    \/ \E d \in Doc : CreateDocument(r, d)
    \/ LockDocument(r) \/ ReadLatest(r) \/ InsertVersion(r) \/ Commit(r)

Next ==
    \/ \E r \in Request :
          \/ \E d \in Doc \cup {NoDoc}, f \in File : Receive(r, d, f)
          \/ IngestStep(r) \/ TransactionStep(r) \/ Abandon(r)
    \/ \E k \in Key : LateWrite(k) \/ Alter(k)

Spec == Init /\ [][Next]_vars

\* PostgreSQL answers and queues the waiters of a row lock.  Nothing is
\* assumed of the object store, whose connection pool sets no timeout, nor of
\* clamd and LibreOffice.
Fairness == \A r \in Request : SF_vars(TransactionStep(r))

FairSpec == Spec /\ Fairness

-----------------------------------------------------------------------------
(* Properties *)

\* Every committed version refers to objects that are in the bucket: the
\* source and the canonical PDF are stored before the row is, whatever fails,
\* is abandoned or finishes late (UploadDocumentHandler.handle).
NoDanglingReference ==
    \A v \in table : store[v.hash] # "absent" /\ store[v.pdf] # "absent"

\* Nothing is stored that the limits, detection, the encryption check, clamd
\* or the parser refused, not even by a thread that outlives its request
\* (UploadDocumentHandler.handle puts objects after every check).
StoredContentWasScreened ==
    \A f \in Oversized \cup Unsupported \cup Encrypted \cup Infected \cup Unreadable :
        store[f] = "absent"

\* Concurrent appends to a document are serialised by its row lock, so the
\* row an append inserts meets neither unique constraint: the answer "version
\* conflict" is never given (SqlAlchemyDocumentRepository.append).
AppendsNeverConflict ==
    \A r \in Request : pc[r] = "insert" =>
        \A v \in table \cup UNION {draft[q] : q \in Request} : ~Clash(v, NextRow(r))

\* The transaction of an upload ends although another upload may hang in
\* clamd, LibreOffice or the object store for ever: no row lock is held there
\* (TransactionalDocumentRepository: "Open a short database transaction only
\* after all object writes complete").
TransactionsEnd == \A r \in Request : pc[r] \in Transaction ~> pc[r] \notin Transaction

\* The hashes of a document's versions, by version number.
History(d) ==
    [n \in {v.version : v \in Versions(d)} |->
        (CHOOSE v \in Versions(d) : v.version = n).hash]

Documents == INSTANCE DocumentHistory WITH history <- [d \in Doc |-> History(d)]

\* The tables implement the aggregate Document: versions are contiguous from
\* one, their hashes distinct, and a version, once committed, never changes.
KeepsHistory == Documents!Spec
=============================================================================
