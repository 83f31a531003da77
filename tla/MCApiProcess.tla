---------------------------- MODULE MCApiProcess ----------------------------
(***************************************************************************)
(* An API process: its container and lifespan (ContainerLifecycle), the    *)
(* readiness probes of a process that serves (Readiness), and the uploads  *)
(* that it serves (DocumentUpload).  Probes ask the dependencies anew and  *)
(* leave the container alone, and uploads see neither; one of the three    *)
(* moves in each behaviour, so that their state spaces add up.             *)
(***************************************************************************)
EXTENDS ContainerLifecycle, FiniteSets

CONSTANTS Request, Threads, Upload, Doc, File, NoUpload, NoDoc, NoKey

VARIABLES
    part,
    dep, probe, answer, stuck, job, seenUp,
    store, docs, table, lock, at, target, file, pdf, seq, draft, late

readiness == <<dep, probe, answer, stuck, job, seenUp>>
uploads == <<store, docs, table, lock, at, target, file, pdf, seq, draft, late>>
all == <<part, vars, readiness, uploads>>

\* The resources of ApplicationContainer.start; the HTTP clients are lazy.
MCOrder == <<"database", "redis", "minio", "http">>
MCLazy == {"http"}

Probes == INSTANCE Readiness

\* Every file is a PDF that passes the checks.
Uploads == INSTANCE DocumentUpload WITH
    Request <- Upload, NoRequest <- NoUpload, Pdf <- File, Rendition <- {}, Oversized <- {},
    Unsupported <- {}, Unreadable <- {}, Encrypted <- {}, Infected <- {}, pc <- at

ASSUME ProbesAssumption == Probes!ThreadsAssumption

MCInit ==
    /\ part \in {"container", "readiness", "uploads"}
    /\ Init /\ Probes!Init /\ Uploads!Init
    /\ part # "readiness" => \A d \in Probes!Dep : dep[d] = "up"
    /\ part # "container" => caller = "lifespan"

\* Only the part named moves.
OfContainer == part = "container" /\ UNCHANGED <<part, readiness, uploads>>
OfReadiness == part = "readiness" /\ UNCHANGED <<part, vars, uploads>>
OfUploads == part = "uploads" /\ UNCHANGED <<part, vars, readiness>>

MCNext ==
    \/ OfContainer /\ Next
    \/ OfReadiness /\ Probes!Next
    \/ OfUploads /\ Uploads!Next

\* The fairness of the part that moves: of the FairSpec of
\* ContainerLifecycle, Readiness or DocumentUpload.
MCSpec ==
    /\ MCInit /\ [][MCNext]_all
    /\ WF_all(OfContainer /\ (Container \/ Caller))
    /\ \A r \in Request :
         /\ WF_all(OfReadiness /\ Probes!Handle(r) /\ Probes!Observe)
         /\ SF_all(OfReadiness /\ Probes!StartCall(r) /\ Probes!Observe)
         /\ WF_all(OfReadiness /\ Probes!Ask(r) /\ Probes!Observe)
    /\ WF_all(OfReadiness /\ Probes!JobSteps /\ Probes!Observe)
    /\ SF_all(OfReadiness /\ Probes!JobStarts /\ Probes!Observe)
    /\ \A r \in Upload : SF_all(OfUploads /\ Uploads!TransactionStep(r))

-----------------------------------------------------------------------------
\* "ready" is said only when every dependency was up at some time while the
\* request was handled (readiness).
ReadyIsFresh == Probes!ReadyIsFresh

\* The state of the container and of the probes; no more threads are busy
\* than the pool has.
WellTyped == TypeOK /\ Probes!TypeOK

\* Every readiness request is answered although abandoned calls hold the
\* pool, and only "ready" is answered once the outage is over (_probe).
ReadinessRecovers == Probes!ReadinessRecovers

\* The transaction of an upload ends although another upload may hang in the
\* object store for ever: no row lock is held there
\* (TransactionalDocumentRepository).
TransactionsEnd == Uploads!TransactionsEnd
=============================================================================
