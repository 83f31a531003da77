----------------------- MODULE DocumentUpload_proofs -----------------------
(***************************************************************************)
(* Proofs about DocumentUpload, for every number of requests, documents    *)
(* and files: type correctness, NoDanglingReference,                       *)
(* StoredContentWasScreened and AppendsNeverConflict, from one inductive   *)
(* invariant, and the refinement of DocumentHistory.                       *)
(***************************************************************************)
EXTENDS DocumentUpload, SequenceTheorems, TLAPS

-----------------------------------------------------------------------------
(* The inductive invariant *)

Refused == Oversized \cup Unsupported \cup Encrypted \cup Infected \cup Unreadable

\* The steps that follow every check of the file.
Storing == {"statSource", "putSource", "statPdf", "putPdf"} \cup Transaction

\* The checks an upload has passed, by the step it executes next.
Screened(r) ==
    /\ pc[r] # "idle" => file[r] \in File
    /\ pc[r] \notin {"idle", "stage"} => file[r] \notin Oversized
    /\ pc[r] \notin {"idle", "stage", "detect"} => file[r] \notin Unsupported
    /\ pc[r] \notin {"idle", "stage", "detect", "inspect"} => file[r] \notin Encrypted
    /\ pc[r] \in {"parse"} \cup Storing => file[r] \notin Infected
    /\ pc[r] \in Storing => file[r] \notin Unreadable /\ pdf[r] \in Converted(file[r])

\* The objects an upload has found or put in the bucket.
Stored(r) ==
    /\ pc[r] \in {"statPdf", "putPdf"} => store[file[r]] # "absent"
    /\ pc[r] \in Transaction => store[file[r]] # "absent" /\ store[pdf[r]] # "absent"

\* An append holds its document from the SELECT FOR UPDATE to the commit.
Holds(r) ==
    /\ pc[r] = "create" => target[r] = NoDoc
    /\ pc[r] \in {"lock", "read", "insert"} => target[r] \in Doc
    /\ pc[r] \in {"read", "insert", "commit"} /\ target[r] # NoDoc =>
          target[r] \in docs /\ lock[target[r]] = r

\* The number an append has computed is still the next one, and its content
\* is still new to the document.
Numbered(r) ==
    pc[r] \in {"insert", "commit"} /\ target[r] # NoDoc =>
        /\ \A v \in Versions(target[r]) : v.version < seq[r] /\ v.hash # file[r]
        /\ \E v \in Versions(target[r]) : seq[r] = Following(v.version)

\* A transaction writes one row, just before it commits.
Drafted(r) ==
    /\ pc[r] # "commit" => draft[r] = {}
    /\ pc[r] = "commit" /\ target[r] # NoDoc => draft[r] = {NextRow(r)}
    /\ pc[r] = "commit" /\ target[r] = NoDoc =>
          \E d \in Doc \ docs : draft[r] = {RowOf(r, d, FirstVersion)}

RequestOK(r) == Screened(r) /\ Stored(r) /\ Holds(r) /\ Numbered(r) /\ Drafted(r)

\* No two transactions write to one document.
DraftsApart ==
    /\ draft \in [Request -> SUBSET VersionRow]
    /\ \A q, r \in Request : \A v \in draft[q], w \in draft[r] : v.doc = w.doc => q = r

Numbers(d) == {v.version : v \in Versions(d)}

\* The unique constraints hold, and the versions of a document count from one.
TableOK ==
    /\ \A v, w \in table : Clash(v, w) => v = w
    /\ \A d \in Doc : \E n \in Nat : Numbers(d) = 1..n /\ (d \in docs <=> n > 0)

StoreOK ==
    /\ NoDanglingReference
    /\ StoredContentWasScreened
    /\ late \cap Refused = {}

IInv ==
    /\ TypeOK
    /\ DraftsApart
    /\ TableOK
    /\ StoreOK
    /\ \A r \in Request : RequestOK(r)

-----------------------------------------------------------------------------
(* Facts about the states of the invariant *)

LEMMA InitIInv == Init => IInv
<1>1. SUFFICES ASSUME Init PROVE IInv
  OBVIOUS
<1>2. TypeOK
  BY <1>1 DEF Init, TypeOK, Pc
<1>3. DraftsApart
  BY <1>1 DEF Init, DraftsApart
<1>4. TableOK
  <2>1. \A d \in Doc : Numbers(d) = 1..0 /\ d \notin docs
    BY <1>1 DEF Init, Numbers, Versions
  <2>2. QED
    BY <1>1, <2>1 DEF Init, TableOK
<1>5. StoreOK
  BY <1>1, FileAssumption
  DEF Init, StoreOK, NoDanglingReference, StoredContentWasScreened, Key
<1>6. ASSUME NEW r \in Request PROVE RequestOK(r)
  BY <1>1 DEF Init, RequestOK, Screened, Stored, Holds, Numbered, Drafted, Storing, Transaction
<1>7. QED
  BY <1>2, <1>3, <1>4, <1>5, <1>6 DEF IInv

\* A step that leaves the upload of q, the rows it holds and the objects of
\* the bucket in place leaves what the invariant says of q.
LEMMA OtherRequest ==
  ASSUME IInv, NEW q \in Request,
         pc'[q] = pc[q], target'[q] = target[q], file'[q] = file[q],
         pdf'[q] = pdf[q], seq'[q] = seq[q], draft'[q] = draft[q],
         \A k \in Key : store[k] # "absent" => store'[k] # "absent",
         docs \subseteq docs',
         \A v \in draft[q] : v.doc \notin docs => v.doc \notin docs',
         \A d \in docs : lock[d] = q => lock'[d] = q /\ Versions(d)' = Versions(d)
  PROVE  RequestOK(q)'
<1>1. RequestOK(q) /\ TypeOK
  BY DEF IInv
<1>2. Screened(q)'
  BY <1>1 DEF RequestOK, Screened
<1>3. Stored(q)'
  BY <1>1 DEF RequestOK, Stored, Screened, Storing, Converted, TypeOK, Key, Transaction
<1>4. Holds(q)'
  BY <1>1 DEF RequestOK, Holds, TypeOK
<1>5. Numbered(q)'
  BY <1>1 DEF RequestOK, Numbered, Holds, TypeOK
<1>6. Drafted(q)'
  <2>1. CASE pc[q] = "commit" /\ target[q] = NoDoc
    <3>1. PICK d \in Doc \ docs : draft[q] = {RowOf(q, d, FirstVersion)}
      BY <1>1, <2>1 DEF RequestOK, Drafted
    <3>2. RowOf(q, d, FirstVersion) \in draft[q] /\ RowOf(q, d, FirstVersion).doc = d
      BY <3>1 DEF RowOf
    <3>3. d \in Doc \ docs'
      BY <3>2
    <3>4. RowOf(q, d, FirstVersion)' = RowOf(q, d, FirstVersion)
      BY DEF RowOf, FirstVersion
    <3>5. QED
      BY <2>1, <3>1, <3>3, <3>4 DEF Drafted
  <2>2. CASE ~(pc[q] = "commit" /\ target[q] = NoDoc)
    BY <1>1, <2>2 DEF RequestOK, Drafted, RowOf, NextRow
  <2>3. QED
    BY <2>1, <2>2
<1>7. QED
  BY <1>2, <1>3, <1>4, <1>5, <1>6 DEF RequestOK

\* What is left to show of a step of r that writes no row.
LEMMA LocalStep ==
  ASSUME IInv, NEW r \in Request, TypeOK', StoreOK', RequestOK(r)',
         UNCHANGED <<docs, table, draft>>,
         \A q \in Request : q # r =>
            /\ pc'[q] = pc[q] /\ target'[q] = target[q] /\ file'[q] = file[q]
            /\ pdf'[q] = pdf[q] /\ seq'[q] = seq[q]
            /\ \A d \in Doc : lock[d] = q => lock'[d] = q,
         \A k \in Key : store[k] # "absent" => store'[k] # "absent"
  PROVE  IInv'
<1>1. DraftsApart' /\ TableOK'
  BY DEF IInv, DraftsApart, TableOK, Numbers, Versions
<1>2. ASSUME NEW q \in Request PROVE RequestOK(q)'
  BY OtherRequest DEF Versions, IInv, TypeOK
<1>3. QED
  BY <1>1, <1>2 DEF IInv

\* An upload that only moves on to its next step.
LEMMA Advance ==
  ASSUME IInv, NEW r \in Request, NEW next \in Pc, Goto(r, next),
         UNCHANGED <<store, docs, table, lock, target, file, pdf, seq, draft, late>>,
         RequestOK(r)'
  PROVE  IInv'
<1>1. TypeOK'
  BY DEF IInv, TypeOK, Goto
<1>2. StoreOK'
  BY DEF IInv, StoreOK, NoDanglingReference, StoredContentWasScreened
<1>3. \A q \in Request : q # r => pc'[q] = pc[q]
  BY DEF IInv, TypeOK, Goto
<1>4. QED
  BY <1>1, <1>2, <1>3, LocalStep

\* The keys an upload writes are of content that passed every check.
LEMMA WritesScreened ==
  ASSUME IInv, NEW r \in Request, pc[r] \in Storing
  PROVE  /\ file[r] \in Key /\ file[r] \notin Refused
         /\ pdf[r] \in Key /\ pdf[r] \notin Refused
         /\ file[r] \in Pdf => pdf[r] = file[r]
BY FileAssumption
DEF IInv, RequestOK, Screened, Storing, Transaction, Converted, Refused, Key

\* A closed upload leaves no trace but what was committed or is being written.
LEMMA CloseIInv ==
  ASSUME IInv, NEW r \in Request, Close(r), UNCHANGED <<store, docs, table>>,
         late' \in SUBSET Key, late' \cap Refused = {}
  PROVE  IInv'
<1>1. TypeOK /\ DraftsApart /\ TableOK /\ StoreOK
  BY DEF IInv
<1>2. TypeOK'
  BY <1>1 DEF TypeOK, Close, Pc, DraftsApart
<1>3. DraftsApart'
  BY <1>1 DEF DraftsApart, Close
<1>4. TableOK' /\ StoreOK'
  BY <1>1 DEF TableOK, Numbers, Versions, StoreOK, NoDanglingReference, StoredContentWasScreened
<1>5. ASSUME NEW q \in Request PROVE RequestOK(q)'
  <2>1. CASE q = r
    BY <1>1, <2>1 DEF Close, TypeOK, DraftsApart, RequestOK, Screened, Stored, Holds,
                      Numbered, Drafted, Storing, Transaction
  <2>2. CASE q # r
    BY <1>1, <2>2, OtherRequest DEF Close, TypeOK, DraftsApart, Versions
  <2>3. QED
    BY <2>1, <2>2
<1>6. QED
  BY <1>2, <1>3, <1>4, <1>5 DEF IInv

LEMMA RefuseIInv ==
  ASSUME IInv, NEW r \in Request, Refuse(r)
  PROVE  IInv'
BY CloseIInv DEF Refuse, IInv, TypeOK, StoreOK

-----------------------------------------------------------------------------
(* The actions, one lemma each *)

LEMMA AbandonIInv ==
  ASSUME IInv, NEW r \in Request, Abandon(r)
  PROVE  IInv'
<1>1. PICK left \in SUBSET Writing(r) : late' = late \cup left
  BY DEF Abandon
<1>2. Writing(r) \subseteq Key /\ Writing(r) \cap Refused = {}
  BY WritesScreened DEF Writing, Storing
<1>3. late' \in SUBSET Key /\ late' \cap Refused = {}
  BY <1>1, <1>2 DEF IInv, TypeOK, StoreOK
<1>4. QED
  BY <1>3, CloseIInv DEF Abandon

LEMMA LateWriteIInv ==
  ASSUME IInv, NEW k \in Key, LateWrite(k)
  PROVE  IInv'
<1>1. TypeOK /\ DraftsApart /\ TableOK /\ StoreOK
  BY DEF IInv
<1>2. UNCHANGED <<docs, table, lock, pc, target, file, pdf, seq, draft>>
  BY DEF LateWrite, upload
<1>3. TypeOK'
  BY <1>1, <1>2 DEF TypeOK, LateWrite
<1>4. DraftsApart' /\ TableOK'
  BY <1>1, <1>2 DEF DraftsApart, TableOK, Numbers, Versions
<1>5. \A j \in Key : store[j] # "absent" => store'[j] # "absent"
  BY <1>1 DEF LateWrite, TypeOK
<1>6. StoreOK'
  BY <1>1, <1>2, <1>5, FileAssumption
  DEF StoreOK, NoDanglingReference, StoredContentWasScreened, Refused, LateWrite,
      TypeOK, VersionRow, Key
<1>7. \A q \in Request : RequestOK(q)'
  BY <1>2, <1>5, OtherRequest DEF Versions
<1>8. QED
  BY <1>3, <1>4, <1>6, <1>7 DEF IInv

LEMMA AlterIInv ==
  ASSUME IInv, NEW k \in Key, Alter(k)
  PROVE  IInv'
<1>1. TypeOK /\ DraftsApart /\ TableOK /\ StoreOK
  BY DEF IInv
<1>2. UNCHANGED <<docs, table, lock, pc, target, file, pdf, seq, draft, late>>
  BY DEF Alter, upload
<1>3. TypeOK'
  BY <1>1, <1>2 DEF TypeOK, Alter
<1>4. DraftsApart' /\ TableOK'
  BY <1>1, <1>2 DEF DraftsApart, TableOK, Numbers, Versions
<1>5. \A j \in Key : store[j] # "absent" <=> store'[j] # "absent"
  BY <1>1 DEF Alter, TypeOK
<1>6. StoreOK'
  BY <1>1, <1>2, <1>5, FileAssumption
  DEF StoreOK, NoDanglingReference, StoredContentWasScreened, TypeOK, VersionRow, Key
<1>7. \A q \in Request : RequestOK(q)'
  BY <1>2, <1>5, OtherRequest DEF Versions
<1>8. QED
  BY <1>3, <1>4, <1>6, <1>7 DEF IInv

LEMMA ReceiveIInv ==
  ASSUME IInv, NEW r \in Request, NEW d \in Doc \cup {NoDoc}, NEW f \in File,
         Receive(r, d, f)
  PROVE  IInv'
<1>1. TypeOK /\ StoreOK /\ RequestOK(r)
  BY DEF IInv
<1>2. TypeOK'
  BY <1>1 DEF TypeOK, Receive, Goto, Pc
<1>3. StoreOK'
  BY <1>1 DEF StoreOK, NoDanglingReference, StoredContentWasScreened, Receive
<1>4. RequestOK(r)'
  BY <1>1 DEF RequestOK, Screened, Stored, Holds, Numbered, Drafted, Storing, Transaction,
              Receive, Goto, TypeOK
<1>5. QED
  BY <1>1, <1>2, <1>3, <1>4, LocalStep DEF Receive, Goto, TypeOK

\* The four checks: the next step assumes one more check than this one.
LEMMA CheckIInv ==
  ASSUME IInv, NEW r \in Request, Stage(r) \/ Detect(r) \/ Inspect(r) \/ Scan(r)
  PROVE  IInv'
<1>1. TypeOK /\ RequestOK(r)
  BY DEF IInv
<1>2. CASE Refuse(r)
  BY <1>2, RefuseIInv
<1>3. ASSUME NEW next \in {"detect", "inspect", "scan", "parse"}, Goto(r, next),
             UNCHANGED <<store, docs, table, lock, target, file, pdf, seq, draft, late>>
      PROVE  pc'[r] = next /\ next \in Pc
  BY <1>1, <1>3 DEF Goto, TypeOK, Pc
<1> USE DEF RequestOK, Screened, Stored, Holds, Numbered, Drafted, Storing, Transaction
<1>4. CASE Stage(r) /\ ~Refuse(r)
  BY <1>1, <1>3, <1>4, Advance DEF Stage, Check
<1>5. CASE Detect(r) /\ ~Refuse(r)
  BY <1>1, <1>3, <1>5, Advance DEF Detect, Check
<1>6. CASE Inspect(r) /\ ~Refuse(r)
  BY <1>1, <1>3, <1>6, Advance DEF Inspect, Check
<1>7. CASE Scan(r) /\ ~Refuse(r)
  BY <1>1, <1>3, <1>7, Advance DEF Scan, Check
<1>8. QED
  BY <1>2, <1>4, <1>5, <1>6, <1>7

LEMMA ParseIInv ==
  ASSUME IInv, NEW r \in Request, Parse(r)
  PROVE  IInv'
<1>1. TypeOK /\ StoreOK /\ RequestOK(r)
  BY DEF IInv
<1>2. CASE Refuse(r)
  BY <1>2, RefuseIInv
<1>3. CASE ~Refuse(r)
  <2>1. PICK k \in Converted(file[r]) : pdf' = [pdf EXCEPT ![r] = k]
    BY <1>3 DEF Parse
  <2>2. /\ file[r] \notin Unreadable /\ Goto(r, "statSource")
        /\ UNCHANGED <<store, docs, table, lock, target, file, seq, draft, late>>
    BY <1>3 DEF Parse
  <2>3. k \in Key
    BY <1>1 DEF Converted, Key, RequestOK, Screened, Parse
  <2>4. TypeOK'
    BY <1>1, <2>1, <2>2, <2>3 DEF TypeOK, Goto, Pc
  <2>5. StoreOK'
    BY <1>1, <2>2 DEF StoreOK, NoDanglingReference, StoredContentWasScreened
  <2>6. pc'[r] = "statSource" /\ pdf'[r] = k
    BY <1>1, <2>1, <2>2 DEF TypeOK, Goto
  <2>7. RequestOK(r)'
    BY <1>1, <2>2, <2>6 DEF RequestOK, Screened, Stored, Holds, Numbered, Drafted, Storing,
                            Transaction, Converted, Parse
  <2>8. QED
    BY <1>1, <2>1, <2>2, <2>4, <2>5, <2>7, LocalStep DEF Goto, TypeOK
<1>4. QED
  BY <1>2, <1>3

\* Where an upload goes once its objects are stored.
LEMMA NextStep ==
  ASSUME IInv, NEW r \in Request
  PROVE  /\ AfterPut(r) \in {"create", "lock"}
         /\ AfterPut(r) = "create" => target[r] = NoDoc
         /\ AfterPut(r) = "lock" => target[r] \in Doc
         /\ AfterSource(r) = IF file[r] \in Pdf THEN AfterPut(r) ELSE "statPdf"
BY DEF IInv, TypeOK, AfterPut, AfterSource

\* An upload that is past the stat or the put of the object it was at.
LEMMA PastObject ==
  ASSUME IInv, NEW r \in Request, NEW next,
         \/ pc[r] \in {"statSource", "putSource"} /\ next \in {"putSource", AfterSource(r)}
         \/ pc[r] \in {"statPdf", "putPdf"} /\ next \in {"putPdf", AfterPut(r)},
         pc'[r] = next, UNCHANGED <<docs, table, lock, target, file, pdf, seq, draft>>,
         \A k \in Key : store[k] # "absent" => store'[k] # "absent",
         next = AfterSource(r) /\ pc[r] \in {"statSource", "putSource"} =>
            store'[file[r]] # "absent",
         next = AfterPut(r) /\ pc[r] \in {"statPdf", "putPdf"} => store'[pdf[r]] # "absent"
  PROVE  next \in Pc /\ RequestOK(r)'
<1>1. RequestOK(r) /\ pc[r] \in Storing
  BY DEF IInv, Storing
<1>2. next \in {"putSource", "statPdf", "putPdf", "create", "lock"}
  BY NextStep
<1>3. Screened(r)'
  BY <1>1, <1>2 DEF RequestOK, Screened, Storing, Transaction
<1>4. Stored(r)'
  BY <1>1, <1>2, NextStep, WritesScreened DEF RequestOK, Stored, Transaction
<1>5. Holds(r)'
  BY <1>1, <1>2, NextStep DEF RequestOK, Holds
<1>6. Numbered(r)' /\ Drafted(r)'
  BY <1>1, <1>2 DEF RequestOK, Numbered, Drafted
<1>7. QED
  BY <1>2, <1>3, <1>4, <1>5, <1>6 DEF RequestOK, Pc, Transaction

LEMMA StatIInv ==
  ASSUME IInv, NEW r \in Request, StatSource(r) \/ StatPdf(r)
  PROVE  IInv'
<1>1. TypeOK /\ pc[r] \in Storing
  BY DEF IInv, StatSource, StatPdf, Stat, Storing
<1>2. CASE Refuse(r)
  BY <1>2, RefuseIInv
<1>3. CASE StatSource(r) /\ ~Refuse(r)
  <2>1. PICK next \in {"putSource", AfterSource(r)} :
          Goto(r, next) /\ (next = "putSource" \/ store[file[r]] = "intact")
    BY <1>1, <1>3, WritesScreened DEF StatSource, Stat, TypeOK
  <2>2. UNCHANGED <<store, docs, table, lock, target, file, pdf, seq, draft, late>>
    BY <1>3 DEF StatSource, Stat
  <2>3. pc'[r] = next /\ pc[r] = "statSource" /\ AfterSource(r) # "putSource"
    BY <1>1, <1>3, <2>1, NextStep DEF Goto, TypeOK, StatSource, Stat
  <2>4. QED
    BY <2>1, <2>2, <2>3, PastObject, Advance
<1>4. CASE StatPdf(r) /\ ~Refuse(r)
  <2>1. PICK next \in {"putPdf", AfterPut(r)} :
          Goto(r, next) /\ (next = "putPdf" \/ store[pdf[r]] = "intact")
    BY <1>1, <1>4, WritesScreened DEF StatPdf, Stat, TypeOK
  <2>2. UNCHANGED <<store, docs, table, lock, target, file, pdf, seq, draft, late>>
    BY <1>4 DEF StatPdf, Stat
  <2>3. pc'[r] = next /\ pc[r] = "statPdf" /\ AfterPut(r) # "putPdf"
    BY <1>1, <1>4, <2>1, NextStep DEF Goto, TypeOK, StatPdf, Stat
  <2>4. QED
    BY <2>1, <2>2, <2>3, PastObject, Advance
<1>5. QED
  BY <1>2, <1>3, <1>4

\* Writing an object of screened content is sound for every other upload.
LEMMA PutIInv ==
  ASSUME IInv, NEW r \in Request, PutSource(r) \/ PutPdf(r)
  PROVE  IInv'
<1>1. TypeOK /\ StoreOK /\ pc[r] \in Storing
  BY DEF IInv, PutSource, PutPdf, Put, Storing
<1>2. PICK k \in {file[r], pdf[r]}, next \in {AfterSource(r), AfterPut(r)} :
        /\ store' = [store EXCEPT ![k] = "intact"]
        /\ Goto(r, next)
        /\ \/ pc[r] = "putSource" /\ k = file[r] /\ next = AfterSource(r)
           \/ pc[r] = "putPdf" /\ k = pdf[r] /\ next = AfterPut(r)
  BY DEF PutSource, PutPdf, Put
<1>3. UNCHANGED <<docs, table, lock, target, file, pdf, seq, draft, late>>
  BY DEF PutSource, PutPdf, Put
<1>4. k \in Key /\ k \notin Refused
  BY <1>1, <1>2, WritesScreened
<1>5. /\ pc'[r] = next /\ store'[k] # "absent"
      /\ \A j \in Key : store[j] # "absent" => store'[j] # "absent"
      /\ \A j \in Key : j # k => store'[j] = store[j]
  BY <1>1, <1>2, <1>4 DEF Goto, TypeOK
<1>6. RequestOK(r)' /\ next \in Pc
  BY <1>2, <1>3, <1>5, PastObject
<1>7. TypeOK'
  BY <1>1, <1>2, <1>3, <1>6 DEF TypeOK, Goto
<1>8. StoreOK'
  BY <1>1, <1>3, <1>4, <1>5, FileAssumption
  DEF StoreOK, NoDanglingReference, StoredContentWasScreened, Refused, TypeOK, VersionRow, Key
<1>9. QED
  BY <1>1, <1>2, <1>3, <1>5, <1>6, <1>7, <1>8, LocalStep DEF Goto, TypeOK

LEMMA LockDocumentIInv ==
  ASSUME IInv, NEW r \in Request, LockDocument(r)
  PROVE  IInv'
<1>1. TypeOK /\ StoreOK /\ RequestOK(r) /\ pc[r] = "lock"
  BY DEF IInv, LockDocument
<1>2. CASE Refuse(r)
  BY <1>2, RefuseIInv
<1>3. CASE ~Refuse(r)
  <2>1. /\ target[r] \in docs /\ target[r] \in Doc /\ lock[target[r]] = NoRequest
        /\ lock' = [lock EXCEPT ![target[r]] = r] /\ Goto(r, "read")
        /\ UNCHANGED <<store, docs, table, target, file, pdf, seq, draft, late>>
    BY <1>1, <1>3 DEF LockDocument, RequestOK, Holds
  <2>2. TypeOK'
    BY <1>1, <2>1 DEF TypeOK, Goto, Pc, Transaction
  <2>3. StoreOK'
    BY <1>1, <2>1 DEF StoreOK, NoDanglingReference, StoredContentWasScreened
  <2>4. pc'[r] = "read" /\ lock'[target[r]] = r
    BY <1>1, <2>1 DEF TypeOK, Goto
  <2>5. RequestOK(r)'
    BY <1>1, <2>1, <2>4 DEF RequestOK, Screened, Stored, Holds, Numbered, Drafted, Storing, Transaction
  <2>6. QED
    BY <1>1, <2>1, <2>2, <2>3, <2>5, LocalStep, NoValueAssumption DEF Goto, TypeOK
<1>4. QED
  BY <1>2, <1>3

LEMMA ReadLatestIInv ==
  ASSUME IInv, NEW r \in Request, ReadLatest(r)
  PROVE  IInv'
<1>1. TypeOK /\ StoreOK /\ RequestOK(r) /\ pc[r] = "read"
  BY DEF IInv, ReadLatest
<1>2. CASE Refuse(r)
  BY <1>2, RefuseIInv
<1>3. CASE ~Refuse(r)
  <2>1. PICK n \in Latest(target[r]) : seq' = [seq EXCEPT ![r] = Following(n)]
    BY <1>3 DEF ReadLatest
  <2>2. /\ \A v \in Versions(target[r]) : v.hash # file[r]
        /\ Goto(r, "insert")
        /\ UNCHANGED <<store, docs, table, lock, target, file, pdf, draft, late>>
    BY <1>3 DEF ReadLatest
  <2>3. PICK top \in Versions(target[r]) : top.version = n
    BY DEF Latest
  <2>4. /\ n \in Nat /\ Following(n) \in Nat
        /\ \A v \in Versions(target[r]) : v.version \in Nat /\ v.version < Following(n)
    BY <1>1, <2>3 DEF Latest, Versions, TypeOK, VersionRow, Following
  <2>5. TypeOK'
    BY <1>1, <2>1, <2>2, <2>4 DEF TypeOK, Goto, Pc, Transaction
  <2>6. StoreOK'
    BY <1>1, <2>2 DEF StoreOK, NoDanglingReference, StoredContentWasScreened
  <2>7. pc'[r] = "insert" /\ seq'[r] = Following(n) /\ \A d : Versions(d)' = Versions(d)
    BY <1>1, <2>1, <2>2 DEF TypeOK, Goto, Versions
  <2>8. Numbered(r)'
    BY <2>2, <2>3, <2>4, <2>7 DEF Numbered, Following
  <2>9. RequestOK(r)'
    BY <1>1, <2>2, <2>7, <2>8 DEF RequestOK, Screened, Stored, Holds, Drafted, Storing, Transaction
  <2>10. QED
    BY <1>1, <2>1, <2>2, <2>5, <2>6, <2>9, LocalStep DEF Goto, TypeOK
<1>4. QED
  BY <1>2, <1>3

\* A row that is flushed and not committed is of a document nobody has seen,
\* or of one that its transaction has locked.
LEMMA DraftOwner ==
  ASSUME IInv, NEW q \in Request, NEW v \in draft[q]
  PROVE  /\ pc[q] = "commit" /\ draft[q] = {v} /\ v \in VersionRow
         /\ v.hash = file[q] /\ v.pdf = pdf[q]
         /\ target[q] = NoDoc => v.doc \in Doc \ docs /\ v.version = FirstVersion
         /\ target[q] # NoDoc =>
               /\ v.doc = target[q] /\ v.doc \in docs /\ v.version = seq[q]
               /\ lock[v.doc] = q
BY DEF IInv, DraftsApart, RequestOK, Drafted, Holds, NextRow, RowOf

\* The row an upload flushes is a row of the table.
LEMMA RowType ==
  ASSUME IInv, NEW r \in Request, pc[r] \in Transaction, NEW d \in Doc, NEW n \in Nat \ {0}
  PROVE  RowOf(r, d, n) \in VersionRow
<1>1. pc[r] \in Storing /\ Screened(r) /\ pc[r] # "idle"
  BY DEF IInv, RequestOK, Storing, Transaction
<1>2. pdf[r] \in Converted(file[r]) /\ file[r] \in File
  BY <1>1 DEF Screened
<1>3. QED
  BY <1>2 DEF RowOf, VersionRow, Converted, Key

\* What is left to show of a step in which r flushes its row.
LEMMA FlushIInv ==
  ASSUME IInv, NEW r \in Request, NEW v \in VersionRow, pc[r] \in Transaction,
         pc[r] # "commit", draft' = [draft EXCEPT ![r] = {v}], Goto(r, "commit"),
         UNCHANGED <<store, docs, table, lock, target, file, pdf, seq, late>>,
         \A q \in Request : \A w \in draft[q] : w.doc # v.doc,
         Holds(r)', Numbered(r)', Drafted(r)'
  PROVE  IInv'
<1>1. TypeOK /\ DraftsApart /\ TableOK /\ StoreOK /\ RequestOK(r)
  BY DEF IInv
<1>2. pc'[r] = "commit" /\ draft'[r] = {v}
  BY <1>1 DEF Goto, TypeOK, DraftsApart
<1>3. \A q \in Request : q # r => pc'[q] = pc[q] /\ draft'[q] = draft[q]
  BY <1>1 DEF Goto, TypeOK, DraftsApart
<1>4. DraftsApart'
  BY <1>1, <1>2, <1>3 DEF DraftsApart
<1>5. TypeOK'
  BY <1>1, <1>4 DEF TypeOK, Goto, Pc, Transaction, DraftsApart
<1>6. TableOK' /\ StoreOK'
  BY <1>1 DEF TableOK, Numbers, Versions, StoreOK, NoDanglingReference, StoredContentWasScreened
<1>7. ASSUME NEW q \in Request PROVE RequestOK(q)'
  <2>1. CASE q = r
    BY <1>1, <1>2, <2>1 DEF RequestOK, Screened, Stored, Storing, Transaction
  <2>2. CASE q # r
    BY <1>1, <1>3, <2>2, OtherRequest DEF Versions
  <2>3. QED
    BY <2>1, <2>2
<1>8. QED
  BY <1>4, <1>5, <1>6, <1>7 DEF IInv

LEMMA CreateDocumentIInv ==
  ASSUME IInv, NEW r \in Request, NEW d \in Doc, CreateDocument(r, d)
  PROVE  IInv'
<1> DEFINE v == RowOf(r, d, FirstVersion)
<1>1. /\ pc[r] = "create" /\ pc[r] \in Transaction /\ target[r] = NoDoc
      /\ UNCHANGED <<store, docs, table, lock, target, file, pdf, seq, late>>
      /\ Goto(r, "commit") /\ draft' = [draft EXCEPT ![r] = {v}]
  BY DEF CreateDocument, Transaction, IInv, RequestOK, Holds
<1>2. v \in VersionRow /\ v.doc = d
  BY <1>1, RowType DEF FirstVersion, RowOf
<1>3. v' = v
  BY <1>1 DEF RowOf, FirstVersion
<1>4. pc'[r] = "commit" /\ draft'[r] = {v} /\ target'[r] = NoDoc
  BY <1>1 DEF IInv, TypeOK, Goto, DraftsApart
<1>5. Holds(r)' /\ Numbered(r)'
  BY <1>4 DEF Holds, Numbered
<1>6. Drafted(r)'
  BY <1>1, <1>3, <1>4 DEF Drafted, CreateDocument
<1>7. \A q \in Request : \A w \in draft[q] : w.doc # v.doc
  BY <1>2 DEF CreateDocument
<1> HIDE DEF v
<1>8. QED
  BY <1>1, <1>2, <1>5, <1>6, <1>7, FlushIInv

\* The row of an append clashes with no row, committed or not: the row lock
\* keeps every other append out of the document, and a new document is not
\* visible to one.
LEMMA NoClash ==
  ASSUME IInv, NEW r \in Request, pc[r] = "insert"
  PROVE  /\ \A v \in table : ~Clash(v, NextRow(r))
         /\ \A q \in Request : \A v \in draft[q] : v.doc # target[r]
<1>1. TypeOK /\ Holds(r) /\ Numbered(r)
  BY DEF IInv, RequestOK
<1>2. /\ target[r] \in Doc /\ target[r] # NoDoc /\ target[r] \in docs
      /\ lock[target[r]] = r
  BY <1>1, NoValueAssumption DEF Holds
<1>3. ASSUME NEW v \in table PROVE ~Clash(v, NextRow(r))
  <2>1. CASE v.doc = target[r]
    <3>1. v.version \in Nat /\ seq[r] \in Nat /\ v.version < seq[r] /\ v.hash # file[r]
      BY <1>1, <1>2, <2>1 DEF Numbered, Versions, TypeOK, VersionRow
    <3>2. QED
      BY <3>1 DEF Clash, NextRow, RowOf
  <2>2. CASE v.doc # target[r]
    BY <2>2 DEF Clash, NextRow, RowOf
  <2>3. QED
    BY <2>1, <2>2
<1>4. ASSUME NEW q \in Request, NEW v \in draft[q] PROVE v.doc # target[r]
  BY <1>2, DraftOwner
<1>5. QED
  BY <1>3, <1>4

LEMMA InsertVersionIInv ==
  ASSUME IInv, NEW r \in Request, InsertVersion(r)
  PROVE  IInv'
<1>1. TypeOK /\ Holds(r) /\ Numbered(r) /\ pc[r] = "insert" /\ pc[r] \in Transaction
  BY DEF IInv, RequestOK, InsertVersion, Transaction
<1>2. /\ UNCHANGED <<store, docs, table, lock, target, file, pdf, seq, late>>
      /\ Goto(r, "commit") /\ draft' = [draft EXCEPT ![r] = {NextRow(r)}]
  BY <1>1, NoClash DEF InsertVersion
<1>3. target[r] \in Doc /\ target[r] # NoDoc /\ seq[r] \in Nat \ {0}
  BY <1>1, NoValueAssumption DEF Holds, Numbered, TypeOK, Versions, VersionRow, Following
<1>4. NextRow(r) \in VersionRow /\ NextRow(r).doc = target[r]
  BY <1>1, <1>3, RowType DEF NextRow, RowOf
<1>5. NextRow(r)' = NextRow(r)
  BY <1>2 DEF NextRow, RowOf
<1>6. pc'[r] = "commit" /\ draft'[r] = {NextRow(r)}
  BY <1>2 DEF IInv, TypeOK, Goto, DraftsApart
<1>7. Holds(r)' /\ Numbered(r)'
  BY <1>1, <1>2, <1>3, <1>6 DEF Holds, Numbered, Versions, Following
<1>8. Drafted(r)'
  BY <1>2, <1>3, <1>5, <1>6 DEF Drafted
<1>9. \A q \in Request : \A w \in draft[q] : w.doc # NextRow(r).doc
  BY <1>1, <1>4, NoClash
<1>10. QED
  BY <1>1, <1>2, <1>4, <1>7, <1>8, <1>9, FlushIInv

\* The committed row carries the number after the last one of its document,
\* one for a new document, and content that the document does not have.
LEMMA CommitsNext ==
  ASSUME IInv, NEW r \in Request, NEW v \in draft[r]
  PROVE  \E n \in Nat :
           /\ Numbers(v.doc) = 1..n /\ v.version = n + 1
           /\ v.doc \in docs <=> n > 0
           /\ \A w \in Versions(v.doc) : w.hash # v.hash
<1>1. TypeOK /\ TableOK /\ Numbered(r)
  BY DEF IInv, RequestOK
<1>2. v \in VersionRow /\ v.doc \in Doc
  BY DraftOwner DEF VersionRow
<1>3. PICK n \in Nat : Numbers(v.doc) = 1..n /\ (v.doc \in docs <=> n > 0)
  BY <1>1, <1>2 DEF TableOK
<1>4. CASE target[r] = NoDoc
  <2>1. v.doc \notin docs /\ v.version = 1
    BY <1>4, DraftOwner DEF FirstVersion
  <2>2. n = 0
    BY <1>3, <2>1
  <2>3. Versions(v.doc) = {}
    BY <1>1, <2>1 DEF Versions, TypeOK
  <2>4. QED
    BY <1>3, <2>1, <2>2, <2>3
<1>5. CASE target[r] # NoDoc
  <2>1. /\ v.doc = target[r] /\ v.version = seq[r] /\ v.hash = file[r]
        /\ pc[r] = "commit"
    BY <1>5, DraftOwner
  <2>2. /\ \A w \in Versions(v.doc) : w.version < seq[r] /\ w.hash # v.hash
        /\ \E w \in Versions(v.doc) : seq[r] = w.version + 1
    BY <1>1, <1>5, <2>1 DEF Numbered, Following
  <2>3. \A i \in 1..n : i < seq[r]
    BY <1>3, <2>2 DEF Numbers
  <2>4. \E i \in 1..n : seq[r] = i + 1
    BY <1>3, <2>2 DEF Numbers
  <2>5. seq[r] = n + 1
    BY <1>1, <2>3, <2>4 DEF TypeOK
  <2>6. QED
    BY <1>3, <2>1, <2>2, <2>5
<1>6. QED
  BY <1>4, <1>5

\* What a commit does to the tables: one row is added to one document.
LEMMA CommitEffect ==
  ASSUME IInv, NEW r \in Request, Commit(r)
  PROVE  \E v \in draft[r] :
           /\ draft[r] = {v} /\ v \in VersionRow /\ v.doc \in Doc
           /\ table' = table \cup {v} /\ docs' = docs \cup {v.doc}
           /\ Versions(v.doc)' = Versions(v.doc) \cup {v}
           /\ \A d : d # v.doc => Versions(d)' = Versions(d)
<1>1. PICK v : v \in draft[r]
  BY DEF IInv, RequestOK, Drafted, Commit
<1>2. draft[r] = {v} /\ v \in VersionRow
  BY <1>1, DraftOwner
<1>3. table' = table \cup {v} /\ docs' = docs \cup {v.doc}
  BY <1>2 DEF Commit
<1>4. QED
  BY <1>1, <1>2, <1>3 DEF Versions, VersionRow

LEMMA CommitIInv ==
  ASSUME IInv, NEW r \in Request, Commit(r)
  PROVE  IInv'
<1>1. TypeOK /\ DraftsApart /\ TableOK /\ StoreOK /\ RequestOK(r)
  BY DEF IInv
<1>2. PICK v \in draft[r] :
        /\ draft[r] = {v} /\ v \in VersionRow /\ v.doc \in Doc
        /\ table' = table \cup {v} /\ docs' = docs \cup {v.doc}
        /\ Versions(v.doc)' = Versions(v.doc) \cup {v}
        /\ \A d : d # v.doc => Versions(d)' = Versions(d)
  BY CommitEffect
<1>3. PICK n \in Nat :
        /\ Numbers(v.doc) = 1..n /\ v.version = n + 1
        /\ v.doc \in docs <=> n > 0
        /\ \A w \in Versions(v.doc) : w.hash # v.hash
  BY CommitsNext
<1>4. Close(r) /\ UNCHANGED <<store, late>> /\ pc[r] = "commit"
  BY DEF Commit
<1>5. TypeOK'
  BY <1>1, <1>2, <1>4 DEF TypeOK, Close, Pc, DraftsApart
<1>6. DraftsApart'
  BY <1>1, <1>4 DEF DraftsApart, Close
<1>7. TableOK'
  <2>1. ASSUME NEW w \in table, Clash(w, v) PROVE FALSE
    <3>1. w \in Versions(v.doc)
      BY <2>1 DEF Versions, Clash
    <3>2. w.version \in 1..n /\ w.hash # v.hash
      BY <1>3, <3>1 DEF Numbers
    <3>3. QED
      BY <1>3, <2>1, <3>2 DEF Clash
  <2>2. \A w \in table : ~Clash(v, w)
    BY <2>1 DEF Clash
  <2>3. \A u, w \in table' : Clash(u, w) => u = w
    BY <1>1, <1>2, <2>1, <2>2 DEF TableOK, Clash
  <2>4. ASSUME NEW d \in Doc
        PROVE  \E m \in Nat : Numbers(d)' = 1..m /\ (d \in docs' <=> m > 0)
    <3>1. CASE d = v.doc
      <4>1. Numbers(d)' = 1..n \cup {n + 1}
        BY <1>2, <1>3, <3>1 DEF Numbers
      <4>2. 1..n \cup {n + 1} = 1..(n + 1)
        OBVIOUS
      <4>3. QED
        BY <1>2, <3>1, <4>1, <4>2
    <3>2. CASE d # v.doc
      BY <1>1, <1>2, <3>2 DEF TableOK, Numbers
    <3>3. QED
      BY <3>1, <3>2
  <2>5. QED
    BY <2>3, <2>4 DEF TableOK, Clash
<1>8. StoreOK'
  <2>1. store[v.hash] # "absent" /\ store[v.pdf] # "absent"
    BY <1>1, <1>4, DraftOwner DEF RequestOK, Stored, Transaction
  <2>2. QED
    BY <1>1, <1>2, <1>4, <2>1 DEF StoreOK, NoDanglingReference, StoredContentWasScreened
<1>9. ASSUME NEW q \in Request PROVE RequestOK(q)'
  <2>1. CASE q = r
    BY <1>1, <1>4, <2>1 DEF Close, TypeOK, DraftsApart, RequestOK, Screened, Stored, Holds,
                            Numbered, Drafted, Storing, Transaction
  <2>2. CASE q # r
    <3>1. \A w \in draft[q] : w.doc # v.doc
      BY <1>1, <2>2 DEF DraftsApart
    <3>2. \A d \in docs : lock[d] = q => d # v.doc
      BY <2>2, DraftOwner
    <3>3. \A d \in docs : lock[d] = q => lock'[d] = q
      BY <1>1, <1>4, <2>2 DEF Close, TypeOK
    <3>4. /\ pc'[q] = pc[q] /\ target'[q] = target[q] /\ file'[q] = file[q]
          /\ pdf'[q] = pdf[q] /\ seq'[q] = seq[q] /\ draft'[q] = draft[q]
      BY <1>1, <1>4, <2>2 DEF Close, TypeOK, DraftsApart
    <3>5. QED
      BY <1>2, <1>4, <3>1, <3>2, <3>3, <3>4, OtherRequest
  <2>3. QED
    BY <2>1, <2>2
<1>10. QED
  BY <1>5, <1>6, <1>7, <1>8, <1>9 DEF IInv

-----------------------------------------------------------------------------
(* The theorems *)

LEMMA NextIInv ==
  ASSUME IInv, [Next]_vars
  PROVE  IInv'
<1>1. CASE UNCHANGED vars
  <2>1. UNCHANGED <<store, docs, table, lock, pc, target, file, pdf, seq, draft, late>>
    BY <1>1 DEF vars, upload
  <2>2. TypeOK' /\ DraftsApart' /\ TableOK' /\ StoreOK'
    BY <2>1 DEF IInv, TypeOK, DraftsApart, TableOK, Numbers, Versions, StoreOK,
                NoDanglingReference, StoredContentWasScreened
  <2>3. \A q \in Request : RequestOK(q)'
    BY <2>1, OtherRequest DEF Versions
  <2>4. QED
    BY <2>2, <2>3 DEF IInv
<1>2. ASSUME NEW k \in Key, LateWrite(k) \/ Alter(k)
      PROVE  IInv'
  BY <1>2, LateWriteIInv, AlterIInv
<1>3. ASSUME NEW r \in Request, NEW d \in Doc \cup {NoDoc}, NEW f \in File, Receive(r, d, f)
      PROVE  IInv'
  BY <1>3, ReceiveIInv
<1>4. ASSUME NEW r \in Request, IngestStep(r)
      PROVE  IInv'
  BY <1>4, CheckIInv, ParseIInv, StatIInv, PutIInv DEF IngestStep
<1>5. ASSUME NEW r \in Request, TransactionStep(r)
      PROVE  IInv'
  BY <1>5, CreateDocumentIInv, LockDocumentIInv, ReadLatestIInv, InsertVersionIInv, CommitIInv
  DEF TransactionStep
<1>6. ASSUME NEW r \in Request, Abandon(r)
      PROVE  IInv'
  BY <1>6, AbandonIInv
<1>7. QED
  BY <1>1, <1>2, <1>3, <1>4, <1>5, <1>6 DEF Next

\* The inductive invariant holds in every state, however uploads overlap and
\* wherever they are abandoned.
THEOREM Invariance == Spec => []IInv
<1>1. Init => IInv
  BY InitIInv
<1>2. IInv /\ [Next]_vars => IInv'
  BY NextIInv
<1>3. QED
  BY <1>1, <1>2, PTL DEF Spec

\* Every reachable state of the uploads is well typed.
THEOREM TypeCorrectness == Spec => []TypeOK
<1>1. IInv => TypeOK
  BY DEF IInv
<1>2. QED
  BY <1>1, Invariance, PTL

\* A committed version never refers to an object that is not in the bucket:
\* handle stores both objects before it opens the transaction, and nothing
\* deletes an object.
THEOREM ReferencesResolve == Spec => []NoDanglingReference
<1>1. IInv => NoDanglingReference
  BY DEF IInv, StoreOK
<1>2. QED
  BY <1>1, Invariance, PTL

\* Nothing is stored that one of the checks of handle refused, not even by
\* the write of an abandoned upload.
THEOREM OnlyScreenedContent == Spec => []StoredContentWasScreened
<1>1. IInv => StoredContentWasScreened
  BY DEF IInv, StoreOK
<1>2. QED
  BY <1>1, Invariance, PTL

\* The row lock of append makes its number and its hash new among all rows,
\* flushed or committed, whatever other uploads do.
THEOREM AppendsAreSerialised == Spec => []AppendsNeverConflict
<1>1. ASSUME IInv PROVE AppendsNeverConflict
  <2>1. SUFFICES ASSUME NEW r \in Request, pc[r] = "insert",
                        NEW v \in table \cup UNION {draft[q] : q \in Request}
                 PROVE  ~Clash(v, NextRow(r))
    BY DEF AppendsNeverConflict
  <2>2. CASE v \in table
    BY <1>1, <2>1, <2>2, NoClash
  <2>3. ASSUME NEW q \in Request, v \in draft[q] PROVE ~Clash(v, NextRow(r))
    BY <1>1, <2>1, <2>3, NoClash DEF Clash, NextRow, RowOf
  <2>4. QED
    BY <2>1, <2>2, <2>3
<1>2. QED
  BY <1>1, Invariance, PTL

-----------------------------------------------------------------------------
(* The tables implement DocumentHistory *)

\* The hashes of a set of rows, by version number.
HashesOf(T) ==
    [n \in {v.version : v \in T} |-> (CHOOSE v \in T : v.version = n).hash]

\* Rows that are numbered one to n, each number once, are a sequence of hashes.
LEMMA RowsAsSequence ==
  ASSUME NEW T, \A v \in T : v.hash \in File,
         \A v, w \in T : v.version = w.version => v = w,
         NEW n \in Nat, {v.version : v \in T} = 1..n
  PROVE  /\ HashesOf(T) \in Seq(File) /\ Len(HashesOf(T)) = n
         /\ \A v \in T : HashesOf(T)[v.version] = v.hash
<1>1. ASSUME NEW v \in T PROVE (CHOOSE w \in T : w.version = v.version) = v
  OBVIOUS
<1>2. \A v \in T : HashesOf(T)[v.version] = v.hash
  BY <1>1 DEF HashesOf
<1>3. ASSUME NEW m \in 1..n PROVE HashesOf(T)[m] \in File
  <2>1. PICK v \in T : v.version = m
    OBVIOUS
  <2>2. QED
    BY <1>2, <2>1
<1>4. HashesOf(T) = [m \in 1..n |-> HashesOf(T)[m]]
  BY DEF HashesOf
<1>5. HashesOf(T) \in [1..n -> File]
  BY <1>3, <1>4
<1>6. HashesOf(T) \in Seq(File) /\ Len(HashesOf(T)) = n
  BY <1>5, SeqDef
<1>7. QED
  BY <1>2, <1>6

\* One more row, with the next number, is one more hash.
LEMMA RowAppends ==
  ASSUME NEW T, NEW v, v.hash \in File, \A w \in T : w.hash \in File,
         \A u, w \in T : u.version = w.version => u = w,
         NEW n \in Nat, {w.version : w \in T} = 1..n, v.version = n + 1
  PROVE  HashesOf(T \cup {v}) = Append(HashesOf(T), v.hash)
<1> DEFINE U == T \cup {v}
<1>1. \A w \in T : w.version \in 1..n
  OBVIOUS
<1>2. /\ \A w \in U : w.hash \in File
      /\ \A u, w \in U : u.version = w.version => u = w
  BY <1>1
<1>3. {w.version : w \in U} = 1..(n + 1)
  <2>1. {w.version : w \in U} = {w.version : w \in T} \cup {v.version}
    OBVIOUS
  <2>2. 1..n \cup {n + 1} = 1..(n + 1)
    OBVIOUS
  <2>3. QED
    BY <2>1, <2>2
<1>4. /\ HashesOf(T) \in Seq(File) /\ Len(HashesOf(T)) = n
      /\ \A w \in T : HashesOf(T)[w.version] = w.hash
  BY RowsAsSequence
<1>5. /\ HashesOf(U) \in Seq(File) /\ Len(HashesOf(U)) = n + 1
      /\ \A w \in U : HashesOf(U)[w.version] = w.hash
  <2> HIDE DEF U
  <2>1. n + 1 \in Nat
    OBVIOUS
  <2>2. QED
    BY <1>2, <1>3, <2>1, RowsAsSequence
<1>6. /\ Append(HashesOf(T), v.hash) \in Seq(File)
      /\ Len(Append(HashesOf(T), v.hash)) = n + 1
  BY <1>4
<1>7. ASSUME NEW i \in 1..(n + 1)
      PROVE  HashesOf(U)[i] = Append(HashesOf(T), v.hash)[i]
  <2>1. CASE i = n + 1
    <3>1. HashesOf(U)[v.version] = v.hash
      BY <1>5
    <3>2. Append(HashesOf(T), v.hash)[n + 1] = v.hash
      BY <1>4
    <3>3. QED
      BY <2>1, <3>1, <3>2
  <2>2. CASE i \in 1..n
    <3>1. PICK w \in T : w.version = i
      BY <2>2
    <3>2. HashesOf(U)[i] = w.hash /\ HashesOf(T)[i] = w.hash
      BY <1>4, <1>5, <3>1
    <3>3. QED
      BY <1>4, <2>2, <3>2
  <2>3. i = n + 1 \/ i \in 1..n
    OBVIOUS
  <2>4. QED
    BY <2>1, <2>2, <2>3
<1> HIDE DEF U
<1>8. HashesOf(U) = Append(HashesOf(T), v.hash)
  BY <1>5, <1>6, <1>7, SeqEqual
<1>9. QED
  BY <1>8 DEF U

\* A commit is Create or AppendVersion of its document.
LEMMA CommitExtendsHistory ==
  ASSUME IInv, NEW r \in Request, Commit(r)
  PROVE  Documents!Next
<1>1. TypeOK /\ TableOK
  BY DEF IInv
<1>2. PICK v \in draft[r] :
        /\ draft[r] = {v} /\ v \in VersionRow /\ v.doc \in Doc
        /\ table' = table \cup {v} /\ docs' = docs \cup {v.doc}
        /\ Versions(v.doc)' = Versions(v.doc) \cup {v}
        /\ \A d : d # v.doc => Versions(d)' = Versions(d)
  BY CommitEffect
<1>3. PICK n \in Nat :
        /\ Numbers(v.doc) = 1..n /\ v.version = n + 1
        /\ v.doc \in docs <=> n > 0
        /\ \A w \in Versions(v.doc) : w.hash # v.hash
  BY CommitsNext
<1> DEFINE T == Versions(v.doc)
           history == [d \in Doc |-> History(d)]
<1>4. \A d : History(d) = HashesOf(Versions(d)) /\ History(d)' = HashesOf(Versions(d)')
  BY DEF History, HashesOf
<1>5. /\ v.hash \in File /\ \A w \in T : w.hash \in File
      /\ \A u, w \in T : u.version = w.version => u = w
      /\ {w.version : w \in T} = 1..n
  BY <1>1, <1>2, <1>3 DEF TypeOK, TableOK, Versions, VersionRow, Clash, Numbers
<1> HIDE DEF T
<1>6. /\ HashesOf(T) \in Seq(File) /\ Len(HashesOf(T)) = n
      /\ \A w \in T : HashesOf(T)[w.version] = w.hash
  BY <1>5, RowsAsSequence
<1>7. HashesOf(T \cup {v}) = Append(HashesOf(T), v.hash)
  BY <1>3, <1>5, RowAppends
<1>8. history' = [history EXCEPT ![v.doc] = Append(@, v.hash)]
  BY <1>2, <1>4, <1>7 DEF T
<1>9. history[v.doc] = HashesOf(T)
  BY <1>2, <1>4 DEF T
<1> HIDE DEF history
<1>10. CASE n = 0
  <2>1. HashesOf(T) = <<>>
    BY <1>6, <1>10, EmptySeq
  <2>2. Append(<<>>, v.hash) = <<v.hash>>
    OBVIOUS
  <2>3. history[v.doc] = <<>> /\ history' = [history EXCEPT ![v.doc] = <<v.hash>>]
    BY <1>8, <1>9, <2>1, <2>2
  <2>4. Documents!Create(v.doc, v.hash)
    BY <2>3 DEF Documents!Create, history
  <2>5. QED
    BY <1>2, <1>5, <2>4 DEF Documents!Next
<1>11. CASE n > 0
  <2>1. history[v.doc] # <<>> /\ DOMAIN history[v.doc] = 1..n
    BY <1>6, <1>9, <1>11
  <2>2. ASSUME NEW i \in 1..n PROVE history[v.doc][i] # v.hash
    <3>1. PICK w \in T : w.version = i
      BY <1>5
    <3>2. QED
      BY <1>3, <1>6, <1>9, <3>1 DEF T
  <2>3. Documents!AppendVersion(v.doc, v.hash)
    BY <1>8, <2>1, <2>2 DEF Documents!AppendVersion, Documents!Hashes, history
  <2>4. QED
    BY <1>2, <1>5, <2>3 DEF Documents!Next
<1>12. QED
  BY <1>10, <1>11

\* Only a commit changes the table.
LEMMA OnlyCommitWrites ==
  ASSUME [Next]_vars
  PROVE  UNCHANGED table \/ \E r \in Request : Commit(r)
<1>1. ASSUME NEW r \in Request, Abandon(r) \/ Refuse(r) PROVE UNCHANGED table
  BY <1>1 DEF Abandon, Refuse
<1>2. ASSUME NEW r \in Request, IngestStep(r) PROVE UNCHANGED table
  BY <1>1, <1>2 DEF IngestStep, Stage, Detect, Inspect, Scan, Check, Parse, StatSource, StatPdf,
                    Stat, PutSource, PutPdf, Put
<1>3. ASSUME NEW r \in Request, TransactionStep(r), ~Commit(r) PROVE UNCHANGED table
  BY <1>1, <1>3 DEF TransactionStep, CreateDocument, LockDocument, ReadLatest, InsertVersion
<1>4. ASSUME NEW r \in Request, NEW d \in Doc \cup {NoDoc}, NEW f \in File, Receive(r, d, f)
      PROVE  UNCHANGED table
  BY <1>4 DEF Receive
<1>5. ASSUME NEW k \in Key, LateWrite(k) \/ Alter(k) PROVE UNCHANGED table
  BY <1>5 DEF LateWrite, Alter
<1>6. CASE UNCHANGED vars
  BY <1>6 DEF vars
<1>7. QED
  BY <1>1, <1>2, <1>3, <1>4, <1>5, <1>6 DEF Next

\* The tables, locks and transactions implement the aggregate Document for
\* every number of concurrent uploads: versions are contiguous from one, their
\* hashes distinct, and a committed version never changes.
THEOREM Refinement == Spec => KeepsHistory
<1>1. Init => Documents!Init
  <2>1. SUFFICES ASSUME Init PROVE Documents!Init
    OBVIOUS
  <2>2. ASSUME NEW d \in Doc PROVE History(d) = <<>>
    <3>1. Versions(d) = {}
      BY <2>1 DEF Init, Versions
    <3>2. History(d) = [n \in {} |-> (CHOOSE v \in {} : v.version = n).hash]
      BY <3>1 DEF History
    <3>3. QED
      BY <3>2
  <2>3. QED
    BY <2>2 DEF Documents!Init
<1>2. IInv /\ [Next]_vars => [Documents!Next]_([d \in Doc |-> History(d)])
  <2>1. SUFFICES ASSUME IInv, [Next]_vars
                 PROVE  [Documents!Next]_([d \in Doc |-> History(d)])
    OBVIOUS
  <2>2. CASE UNCHANGED table
    BY <2>2 DEF History, Versions
  <2>3. QED
    BY <2>1, <2>2, OnlyCommitWrites, CommitExtendsHistory
<1>3. QED
  BY <1>1, <1>2, Invariance, PTL DEF Spec, KeepsHistory, Documents!Spec
=============================================================================
