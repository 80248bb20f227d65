------------------------------ MODULE Documents ------------------------------
(***************************************************************************)
(* Source documents of one user: handleUploadDocument and                  *)
(* handleDeleteDocument of internal/http/documents.go over the documents   *)
(* table, the S3 bucket and the Redis list document_queue.                 *)
(*                                                                         *)
(* A document d is one upload; d also stands for the storage key and for   *)
(* the row's id.  The quota is read, compared and acted upon in separate   *)
(* steps, row and object are written and removed one after the other, and  *)
(* no lock or transaction spans two of these steps.                        *)
(***************************************************************************)
EXTENDS Naturals, FiniteSets

CONSTANTS
    Docs,           \* uploads
    Size,           \* the size of each file
    Deleters,       \* DELETE requests
    MaxFiles,       \* config.go: MaxFiles
    MaxTotal,       \* config.go: MaxTotalMB
    MaxFile,        \* config.go: MaxFileMB
    MaxConcurrent,  \* how many uploads the user has between check and insert
    FaultKinds,     \* the kinds of failure that may happen
    MaxFaults,      \* how many failures one behaviour may contain
    NoDoc           \* "this DELETE has not named a document yet"

AllFaultKinds ==
    { "db_error",       \* a statement fails and is not applied
      "db_ambiguous",   \* a statement is applied, its reply is an error
      "s3_error",       \* a bucket operation fails and is not applied
      "s3_ambiguous",   \* PutObject stores the object, its reply is an error
      "redis_error",    \* the push fails
      "api_abort" }     \* the API process dies, and every handler with it

ASSUME SizeAssumption == Size \in [Docs -> Nat]
ASSUME QuotaAssumption ==
    MaxFiles \in Nat \ {0} /\ MaxTotal \in Nat /\ MaxFile \in Nat /\ MaxConcurrent \in Nat \ {0}
ASSUME DocFaultAssumption == FaultKinds \subseteq AllFaultKinds /\ MaxFaults \in Nat
ASSUME NoDocAssumption == NoDoc \notin Docs

VARIABLES
    upload,     \* how far handleUploadDocument is with each upload
    row,        \* the documents that have a row
    object,     \* the documents that have an object in the bucket
    queued,     \* the documents pushed to document_queue; nothing reads it
    delete,     \* how far handleDeleteDocument is with each DELETE
    target,     \* the document each DELETE names
    faults      \* failures so far

vars == <<upload, row, object, queued, delete, target, faults>>

\* "saved" and "undoing" follow the insert: it has succeeded, or failed.
\* "failed" has been answered with an error, "aborted" ended between two calls.
UploadStages == {"idle", "admitted", "stored", "saved", "undoing",
                 "created", "refused", "failed", "aborted"}
DeleteStages == {"idle", "found", "row_deleted", "ok", "not_found", "failed", "aborted"}

TypeOK ==
    /\ upload \in [Docs -> UploadStages]
    /\ row \subseteq Docs
    /\ object \subseteq Docs
    /\ queued \subseteq Docs
    /\ delete \in [Deleters -> DeleteStages]
    /\ target \in [Deleters -> Docs \cup {NoDoc}]
    /\ faults \in Nat

Init ==
    /\ upload = [d \in Docs |-> "idle"]
    /\ row = {}
    /\ object = {}
    /\ queued = {}
    /\ delete = [x \in Deleters |-> "idle"]
    /\ target = [x \in Deleters |-> NoDoc]
    /\ faults = 0

Fault(kind) ==
    /\ kind \in FaultKinds
    /\ faults < MaxFaults
    /\ faults' = faults + 1

-------------------------------------------------------------------------------
(***************************************************************************)
(* handleUploadDocument.                                                   *)
(***************************************************************************)
\* The bytes that the documents of S take, each with the number it has in its
\* file; GetDocumentUsage answers how many they are.
Bytes(S) == UNION {{d} \X (1 .. Size[d]) : d \in S}
TotalSize(S) == Cardinality(Bytes(S))

\* Uploads that have passed the checks and have no row yet: GetDocumentUsage
\* does not count them.
InFlight == {d \in Docs : upload[d] \in {"admitted", "stored"}}

\* Mutant: the number of files is not looked at.
WithinQuotaOfBytes(d) ==
    /\ Size[d] <= MaxFile
    /\ TotalSize(row) + Size[d] <= MaxTotal

\* Mutant: the bytes of the other files are not looked at.
WithinQuotaOfFiles(d) ==
    /\ Cardinality(row) < MaxFiles
    /\ Size[d] <= MaxFile

WithinQuota(d) ==
    /\ Cardinality(row) < MaxFiles
    /\ Size[d] <= MaxFile
    /\ TotalSize(row) + Size[d] <= MaxTotal

\* One read of the usage serves both limits; what follows it is local.
Admit(d) ==
    /\ upload[d] = "idle"
    /\ Cardinality(InFlight) < MaxConcurrent
    /\ WithinQuota(d)
    /\ upload' = [upload EXCEPT ![d] = "admitted"]
    /\ UNCHANGED <<row, object, queued, delete, target, faults>>

\* Mutant: an answer the handler does not have.
RefuseOtherwise(d) ==
    /\ upload[d] = "idle"
    /\ upload' = [upload EXCEPT ![d] = "rejected"]
    /\ UNCHANGED <<row, object, queued, delete, target, faults>>

\* Over a limit, or not a valid upload at all (a bad form, an extension that is
\* not allowed), or the usage could not be read.
Refuse(d) ==
    /\ upload[d] = "idle"
    /\ \/ upload' = [upload EXCEPT ![d] = "refused"] /\ UNCHANGED faults
       \/ Fault("db_error") /\ upload' = [upload EXCEPT ![d] = "failed"]
    /\ UNCHANGED <<row, object, queued, delete, target>>

PutObject(d) ==
    /\ upload[d] = "admitted"
    /\ upload' = [upload EXCEPT ![d] = "stored"]
    /\ object' = object \cup {d}
    /\ UNCHANGED <<row, queued, delete, target, faults>>

\* Mutant: the error is not looked at.
PutObjectFailsUnchecked(d) ==
    /\ upload[d] = "admitted"
    /\ upload' = [upload EXCEPT ![d] = "stored"]
    /\ Fault("s3_error")
    /\ UNCHANGED <<row, object, queued, delete, target>>

PutObjectFails(d) ==
    /\ upload[d] = "admitted"
    /\ upload' = [upload EXCEPT ![d] = "failed"]
    /\ \/ Fault("s3_error") /\ UNCHANGED object
       \/ Fault("s3_ambiguous") /\ object' = object \cup {d}
    /\ UNCHANGED <<row, queued, delete, target>>

CreateDocument(d) ==
    /\ upload[d] = "stored"
    /\ upload' = [upload EXCEPT ![d] = "saved"]
    /\ row' = row \cup {d}
    /\ UNCHANGED <<object, queued, delete, target, faults>>

CreateDocumentFails(d) ==
    /\ upload[d] = "stored"
    /\ upload' = [upload EXCEPT ![d] = "undoing"]
    /\ \/ Fault("db_error") /\ UNCHANGED row
       \/ Fault("db_ambiguous") /\ row' = row \cup {d}
    /\ UNCHANGED <<object, queued, delete, target>>

\* The error of RemoveObject is dropped.
UndoPut(d) ==
    /\ upload[d] = "undoing"
    /\ upload' = [upload EXCEPT ![d] = "failed"]
    /\ \/ object' = object \ {d} /\ UNCHANGED faults
       \/ Fault("s3_error") /\ UNCHANGED object
    /\ UNCHANGED <<row, queued, delete, target>>

\* The error of the push is dropped too.
EnqueueDocument(d) ==
    /\ upload[d] = "saved"
    /\ upload' = [upload EXCEPT ![d] = "created"]
    /\ \/ queued' = queued \cup {d} /\ UNCHANGED faults
       \/ Fault("redis_error") /\ UNCHANGED queued
    /\ UNCHANGED <<row, object, delete, target>>

-------------------------------------------------------------------------------
(***************************************************************************)
(* handleDeleteDocument.                                                   *)
(***************************************************************************)
GetDocument(x) ==
    /\ delete[x] = "idle"
    /\ \E d \in Docs :
          /\ target' = [target EXCEPT ![x] = d]
          /\ delete' = [delete EXCEPT ![x] = IF d \in row THEN "found" ELSE "not_found"]
    /\ UNCHANGED <<upload, row, object, queued, faults>>

\* Mutant: the number of deleted rows is not looked at.
DeleteDocumentAnyCount(x) ==
    /\ delete[x] = "found"
    /\ delete' = [delete EXCEPT ![x] = "row_deleted"]
    /\ row' = row \ {target[x]}
    /\ UNCHANGED <<upload, object, queued, target, faults>>

\* No row was deleted: another DELETE was faster, and this one is answered 500.
DeleteDocument(x) ==
    /\ delete[x] = "found"
    /\ delete' = [delete EXCEPT ![x] = IF target[x] \in row THEN "row_deleted" ELSE "failed"]
    /\ row' = row \ {target[x]}
    /\ UNCHANGED <<upload, object, queued, target, faults>>

\* The lookup or the delete fails.
DeleteFails(x) ==
    /\ \/ delete[x] = "idle" /\ Fault("db_error") /\ UNCHANGED row
       \/ delete[x] = "found" /\ Fault("db_error") /\ UNCHANGED row
       \/ delete[x] = "found" /\ Fault("db_ambiguous") /\ row' = row \ {target[x]}
    /\ delete' = [delete EXCEPT ![x] = "failed"]
    /\ UNCHANGED <<upload, object, queued, target>>

\* Mutant: the handler answers without removing the object.
RemoveObjectForgotten(x) ==
    /\ delete[x] = "row_deleted"
    /\ delete' = [delete EXCEPT ![x] = "ok"]
    /\ UNCHANGED <<upload, row, object, queued, target, faults>>

RemoveObject(x) ==
    /\ delete[x] = "row_deleted"
    /\ delete' = [delete EXCEPT ![x] = "ok"]
    /\ \/ object' = object \ {target[x]} /\ UNCHANGED faults
       \/ Fault("s3_error") /\ UNCHANGED object
    /\ UNCHANGED <<upload, row, queued, target>>

-------------------------------------------------------------------------------
\* One process serves every request: when it dies, all its handlers end where
\* they are, a DELETE that has removed its row before it removes the object.
AbortHandlers ==
    /\ \/ \E d \in Docs : upload[d] \in {"admitted", "stored", "saved", "undoing"}
       \/ \E x \in Deleters : delete[x] \in {"found", "row_deleted"}
    /\ Fault("api_abort")
    /\ upload' = [d \in Docs |->
                    IF upload[d] \in {"admitted", "stored", "saved", "undoing"}
                    THEN "aborted" ELSE upload[d]]
    /\ delete' = [x \in Deleters |->
                    CASE delete[x] = "found" -> "failed"
                      [] delete[x] = "row_deleted" -> "aborted"
                      [] OTHER -> delete[x]]
    /\ UNCHANGED <<row, object, queued, target>>

-------------------------------------------------------------------------------
UploadStep(d) ==
    \/ PutObject(d) \/ PutObjectFails(d)
    \/ CreateDocument(d) \/ CreateDocumentFails(d)
    \/ UndoPut(d)
    \/ EnqueueDocument(d)

DeleteStep(x) == DeleteDocument(x) \/ DeleteFails(x) \/ RemoveObject(x)

Next ==
    \/ \E d \in Docs : Admit(d) \/ Refuse(d) \/ UploadStep(d)
    \/ \E x \in Deleters : GetDocument(x) \/ DeleteStep(x)
    \/ AbortHandlers

Spec == Init /\ [][Next]_vars

\* A handler that has begun runs to its end; no request has to be made.
Fairness ==
    /\ \A d \in Docs : WF_vars(UploadStep(d))
    /\ \A x \in Deleters : WF_vars(delete[x] # "idle" /\ DeleteStep(x))

FairSpec == Spec /\ Fairness

-------------------------------------------------------------------------------
(***************************************************************************)
(* Properties.                                                             *)
(***************************************************************************)

\* TASK.md:17, "each user has a limit (for example 20 files, 100 MB)".
FileLimit == Cardinality(row) <= MaxFiles

\* The limit is overrun by no more than the other uploads that were in flight
\* when the last one was admitted (documents.go:31-36 against documents.go:92);
\* a user who uploads one file at a time never overruns it.
OverrunIsBounded == Cardinality(row) <= MaxFiles + MaxConcurrent - 1

\* The same of the bytes: every other upload in flight adds at most MaxFile
\* (documents.go:59-63).
ByteOverrunIsBounded == TotalSize(row) <= MaxTotal + (MaxConcurrent - 1) * MaxFile

\* A document that is listed can be fetched, whatever interleaves and fails,
\* unless its upload was answered with an error: the object is written before
\* the row, documents.go:77 and 92, and removed after it, documents.go:210-215.
\* The exception is an insert that was applied although it reported an error.
NoDanglingRow == \A d \in row \ object : upload[d] = "failed"

\* An object without a row that no handler is about to name or to remove, and
\* that was not left by a handler which ended between two of its calls.
Leaked ==
    {d \in object \ row :
        /\ upload[d] \in {"saved", "created", "failed"}
        /\ \A x \in Deleters : ~(target[x] = d /\ delete[x] \in {"row_deleted", "aborted"})}

\* Some handler has ended that way: the process has died.
Died == (\E d \in Docs : upload[d] = "aborted") \/ (\E x \in Deleters : delete[x] = "aborted")

\* Handlers that run to their ends leave garbage in the bucket only through
\* failed calls, one object per failure at most, and a death of the process is
\* none of these: racing deletions of one document still remove its object, and
\* a failed insert is undone (documents.go:77-97 and 210-215).
OneLeakPerFailure == Cardinality(Leaked) + (IF Died THEN 1 ELSE 0) <= faults

\* At most one DELETE of a document is answered 200, and no document that one
\* DELETE reports as deleted is listed again (documents.go:210 looks at the
\* number of rows; uploads never reuse an id).
DeletedOnce ==
    /\ \A x, y \in Deleters :
          {delete[x], delete[y]} \subseteq {"row_deleted", "ok"} /\ target[x] = target[y] => x = y
    /\ \A x \in Deleters : delete[x] \in {"row_deleted", "ok"} => target[x] \notin row

\* Without failures an object without a row is on its way to one or on its way
\* out: it never stays (documents.go:77-112 and 210-215 run to their ends).
ObjectsFindRows ==
    \A d \in Docs : d \in object \ row ~> d \notin object \ row

-------------------------------------------------------------------------------
(***************************************************************************)
(* The inductive invariants that DocumentsProofs proves.  They hold        *)
(* whatever fails.                                                         *)
(***************************************************************************)
Inserted == {"saved", "undoing", "created", "failed", "aborted"}

DocInv ==
    /\ TypeOK
    /\ \A d \in row : upload[d] \in Inserted
    /\ \A d \in Docs : upload[d] \in {"idle", "admitted"} => d \notin object
    /\ \A x \in Deleters :
          delete[x] \in {"found", "row_deleted", "ok"} =>
              target[x] \in Docs /\ upload[target[x]] \in Inserted
    /\ DeletedOnce

\* Documents that have a row or may still get one count against the limit.
Charged == row \cup InFlight
ChargedIsBounded == Cardinality(Charged) <= MaxFiles + MaxConcurrent - 1

\* Their bytes count against the limit too, and none is larger than MaxFile.
BytesAreBounded ==
    /\ \A d \in Charged : Size[d] <= MaxFile
    /\ TotalSize(Charged) <= MaxTotal + (MaxConcurrent - 1) * MaxFile

ObjectInv ==
    /\ DocInv
    /\ NoDanglingRow
    /\ \A d \in Docs : upload[d] = "stored" => d \in object
==============================================================================
