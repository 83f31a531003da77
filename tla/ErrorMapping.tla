---------------------------- MODULE ErrorMapping ----------------------------
(***************************************************************************)
(* How an exception becomes a status: the class hierarchy of the public    *)
(* errors, the handlers that are registered on the application, and the    *)
(* ordered table that maps business errors.                                *)
(***************************************************************************)
EXTENDS Naturals, Sequences

\* The bases of the exception classes; "Unknown" stands for every class that
\* no handler knows, "Cancelled" is no Exception at all.
Parent ==
    [Exception |-> "Exception", Cancelled |-> "Cancelled", Unknown |-> "Exception",
     RequestBodyTooLargeError |-> "Exception", RequestValidationError |-> "Exception",
     HTTPException |-> "Exception", SQLAlchemyError |-> "Exception",
     BidSystemError |-> "Exception",
     DomainError |-> "BidSystemError", ApplicationError |-> "BidSystemError",
     ResourceNotFoundError |-> "ApplicationError", AuthenticationError |-> "ApplicationError",
     PermissionDeniedError |-> "ApplicationError", ExternalServiceError |-> "ApplicationError",
     BusinessConflictError |-> "DomainError", StateTransitionError |-> "DomainError",
     FileSizeLimitExceededError |-> "DomainError", UnsupportedDocumentTypeError |-> "DomainError",
     DuplicateDocumentContentError |-> "DomainError",
     InvalidDocumentUploadRequestError |-> "DomainError", PageLimitExceededError |-> "DomainError",
     EncryptedDocumentError |-> "DomainError", MalwareDetectedError |-> "DomainError",
     InvalidDocumentError |-> "DomainError"]

ErrorClass == DOMAIN Parent

Depth == 3      \* of the hierarchy below Exception

\* The class n steps up from c.
Ancestor[n \in 0 .. Depth] ==
    [c \in ErrorClass |-> IF n = 0 THEN c ELSE Parent[Ancestor[n - 1][c]]]

\* isinstance
IsA(c, d) == \E n \in 0 .. Depth : Ancestor[n][c] = d

\* EXCEPTION_HTTP_MAPPINGS
Mappings ==
    << <<"FileSizeLimitExceededError", 413>>, <<"UnsupportedDocumentTypeError", 415>>,
       <<"DuplicateDocumentContentError", 409>>, <<"ResourceNotFoundError", 404>>,
       <<"BusinessConflictError", 409>>, <<"StateTransitionError", 409>>,
       <<"AuthenticationError", 401>>, <<"PermissionDeniedError", 403>>,
       <<"ExternalServiceError", 503>>, <<"ApplicationError", 400>>, <<"DomainError", 422>> >>

\* _business_exception_mapping: the first row that c is an instance of.
BusinessStatus(c) ==
    LET rows == {i \in DOMAIN Mappings : IsA(c, Mappings[i][1])}
    IN  IF rows = {} THEN 500
        ELSE Mappings[CHOOSE i \in rows : \A j \in rows : i <= j][2]

\* register_exception_handlers: the classes with a handler of their own.
Registered == {"RequestValidationError", "HTTPException", "BidSystemError", "SQLAlchemyError"}

Handled(c) == \E h \in Registered : IsA(c, h)

\* The status each handler answers; an HTTPException brings its own, http.
StatusOf(c, http) ==
    CASE IsA(c, "RequestValidationError") -> 422
      [] IsA(c, "HTTPException") -> http
      [] IsA(c, "BidSystemError") -> BusinessStatus(c)
      [] IsA(c, "SQLAlchemyError") -> 503

\* What the table means: the row of the nearest base of c that has one.
NearestBaseStatus(c) ==
    LET steps == {n \in 0 .. Depth : \E i \in DOMAIN Mappings : Mappings[i][1] = Ancestor[n][c]}
        nearest == CHOOSE n \in steps : \A m \in steps : n <= m
    IN  IF steps = {} THEN {500}
        ELSE {Mappings[i][2] : i \in {j \in DOMAIN Mappings : Mappings[j][1] = Ancestor[nearest][c]}}
=============================================================================
