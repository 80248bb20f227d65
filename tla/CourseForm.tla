------------------------------ MODULE CourseForm ------------------------------
(***************************************************************************)
(* The creation form (src/src/app/screens/CourseCreation.tsx) and the      *)
(* documents that the server keeps for it.                                 *)
(*                                                                         *)
(* Lists of documents are asked for by the effect on sourceMode and after  *)
(* each upload, and each answer replaces what is shown.  Once the form is  *)
(* left its requests go on for nobody; while it is not mounted its state   *)
(* is that with which it will be mounted.                                  *)
(***************************************************************************)
EXTENDS Integers, Sequences, FiniteSets

CONSTANTS
    Docs,           \* the documents the user may upload, or has uploaded before
    OldDocs,        \* those uploaded before, newest first
    SourceTypes,    \* the preferred source types that are tried
    Loads,          \* bound on the list requests of the effect in flight
    PageLimit,      \* rows in a list, when no limit is given: 20
    MaxErrors       \* bound on the requests that are refused or fail

ASSUME FormAssumption ==
    /\ OldDocs \in Seq(Docs)
    /\ "documents" \notin SourceTypes
    /\ PageLimit \in Nat \ {0}
    /\ MaxErrors \in Nat

VARIABLES
    mode,               \* sourceMode
    filled,             \* topic and goal are not blank
    picked,             \* selectedDocuments
    listed,             \* documents
    loadingDocuments,
    generating,
    load,               \* the list requests of the effect
    upload,             \* how far handleUpload is with each document
    stored,             \* the server: the documents of the user, newest first
    errors              \* requests that were refused or have failed

fields == <<mode, filled, picked>>
documents == <<listed, loadingDocuments, load, upload, stored>>
form == <<fields, documents, generating, errors>>

At(s) == [stage |-> s]
Idle == At("idle")
Answered(items) == [stage |-> "answered", items |-> items]

Error ==
    /\ errors < MaxErrors
    /\ errors' = errors + 1

RowsOf(table) == {table[i] : i \in DOMAIN table}

\* A list as it is asked for here, without a limit: ORDER BY created_at DESC.
Page(table) == {table[i] : i \in {j \in DOMAIN table : j <= PageLimit}}

FormInit ==
    /\ mode = "internet"
    /\ filled = FALSE
    /\ picked = {}
    /\ listed = {}
    /\ loadingDocuments = FALSE
    /\ generating = FALSE
    /\ load = [i \in Loads |-> Idle]
    /\ upload = [d \in Docs |-> IF d \in RowsOf(OldDocs) THEN At("done") ELSE Idle]
    /\ stored = OldDocs
    /\ errors = 0

\* A file that is on its way still reaches the server.
FormUnmounts ==
    /\ mode' = "internet"
    /\ filled' = FALSE
    /\ picked' = {}
    /\ listed' = {}
    /\ loadingDocuments' = FALSE
    /\ generating' = FALSE
    /\ load' = [i \in Loads |-> Idle]
    /\ upload' = [d \in Docs |->
                    CASE upload[d].stage = "sent" -> At("orphan")
                      [] upload[d].stage \in {"listing", "answered"} -> At("done")
                      [] OTHER -> upload[d]]

-------------------------------------------------------------------------------
(***************************************************************************)
(* The fields.                                                             *)
(***************************************************************************)
FillIn ==   \* of the fields, only topic and goal are looked at
    /\ filled' = ~filled
    /\ UNCHANGED <<mode, picked, listed, loadingDocuments, generating, load, upload,
                   stored, errors>>

\* The effect asks for the documents whenever sourceMode has become documents.
SetMode(m) ==
    /\ m # mode
    /\ mode' = m
    /\ IF m = "documents"
       THEN \E i \in Loads :
               /\ load[i] = Idle
               /\ load' = [load EXCEPT ![i] = At("asked")]
               /\ loadingDocuments' = TRUE
       ELSE UNCHANGED <<load, loadingDocuments>>
    /\ UNCHANGED <<filled, picked, listed, generating, upload, stored, errors>>

DocumentShown(d) == mode = "documents" /\ d \in listed

\* toggleDocumentSelection.  A document that is no longer listed stays selected.
ToggleDocument(d) ==
    /\ DocumentShown(d)
    /\ picked' = IF d \in picked THEN picked \ {d} ELSE picked \cup {d}
    /\ UNCHANGED <<mode, filled, listed, loadingDocuments, generating, load, upload,
                   stored, errors>>

-------------------------------------------------------------------------------
(***************************************************************************)
(* The lists of documents.                                                 *)
(***************************************************************************)
AnswerLoad(i) ==
    /\ load[i] = At("asked")
    /\ \/ load' = [load EXCEPT ![i] = Answered(Page(stored))] /\ UNCHANGED errors
       \/ Error /\ load' = [load EXCEPT ![i] = At("failed")]
    /\ UNCHANGED <<fields, listed, loadingDocuments, generating, upload, stored>>

\* Mutant: only a list that arrives takes the label away.
DeliverLoadNoFinally(i) ==
    /\ load[i].stage \in {"answered", "failed"}
    /\ load' = [load EXCEPT ![i] = Idle]
    /\ IF load[i].stage = "answered"
       THEN listed' = load[i].items /\ loadingDocuments' = FALSE
       ELSE UNCHANGED <<listed, loadingDocuments>>
    /\ UNCHANGED <<fields, generating, upload, stored, errors>>

\* Whatever the mode is now, and although a later list may be under way.
DeliverLoad(i) ==
    /\ load[i].stage \in {"answered", "failed"}
    /\ load' = [load EXCEPT ![i] = Idle]
    /\ listed' = IF load[i].stage = "answered" THEN load[i].items ELSE listed
    /\ loadingDocuments' = FALSE
    /\ UNCHANGED <<fields, generating, upload, stored, errors>>

-------------------------------------------------------------------------------
(***************************************************************************)
(* handleUpload.                                                           *)
(***************************************************************************)
ChooseFile(d) ==
    /\ mode = "documents"
    /\ upload[d] = Idle
    /\ upload' = [upload EXCEPT ![d] = At("sent")]
    /\ UNCHANGED <<fields, listed, loadingDocuments, generating, load, stored, errors>>

Store(d) == stored' = <<d>> \o stored

\* Mutant: the list is asked for along with the upload, and read before it.
ServerUploadsListing(d) ==
    /\ upload[d].stage \in {"sent", "orphan"}
    /\ \/ /\ Store(d)
          /\ upload' = [upload EXCEPT ![d] =
                IF @ = At("sent") THEN Answered(Page(stored)) ELSE At("done")]
          /\ UNCHANGED errors
       \/ /\ Error
          /\ Store(d) \/ UNCHANGED stored
          /\ upload' = [upload EXCEPT ![d] = At("done")]
    /\ UNCHANGED <<fields, listed, loadingDocuments, generating, load>>

\* The upload is stored, and its answer makes the form ask for the list; or it
\* is refused, or the answer is lost.
ServerUploads(d) ==
    /\ upload[d].stage \in {"sent", "orphan"}
    /\ \/ /\ Store(d)
          /\ upload' = [upload EXCEPT ![d] = IF @ = At("sent") THEN At("listing") ELSE At("done")]
          /\ UNCHANGED errors
       \/ /\ Error
          /\ Store(d) \/ UNCHANGED stored
          /\ upload' = [upload EXCEPT ![d] = At("done")]
    /\ UNCHANGED <<fields, listed, loadingDocuments, generating, load>>

AnswerUpload(d) ==
    /\ upload[d] = At("listing")
    /\ \/ upload' = [upload EXCEPT ![d] = Answered(Page(stored))] /\ UNCHANGED errors
       \/ Error /\ upload' = [upload EXCEPT ![d] = At("done")]
    /\ UNCHANGED <<fields, listed, loadingDocuments, generating, load, stored>>

DeliverUpload(d) ==
    /\ upload[d].stage = "answered"
    /\ listed' = upload[d].items
    /\ upload' = [upload EXCEPT ![d] = At("done")]
    /\ UNCHANGED <<fields, loadingDocuments, generating, load, stored, errors>>

-------------------------------------------------------------------------------
(***************************************************************************)
(* handleGenerate.                                                         *)
(***************************************************************************)
Ready == filled /\ (mode = "documents" => picked # {})      \* isReady

\* Mutant: the button stays enabled while a course is generated.
CanGenerateAgain == Ready

CanGenerate == Ready /\ ~generating

\* sourceTypes: the toggle buttons lead to any set of them, and nothing but the
\* request looks at it.
TypesToggled == SUBSET SourceTypes

\* Mutant: the selected documents are always sent.
PayloadWithDocuments(types) ==
    [structure |-> IF mode = "internet" THEN types ELSE {"documents"},
     documents |-> picked]

Payload(types) ==   \* preferred_structure and source_document_ids
    [structure |-> IF mode = "internet" THEN types ELSE {"documents"},
     documents |-> IF mode = "documents" THEN picked ELSE {}]

Payloads == [structure : SUBSET (SourceTypes \cup {"documents"}), documents : SUBSET Docs]

-------------------------------------------------------------------------------
FieldStep ==
    \/ FillIn
    \/ \E m \in {"internet", "documents"} : SetMode(m)
    \/ \E d \in Docs : ToggleDocument(d) \/ ChooseFile(d)

RequestStep ==
    \/ \E i \in Loads : AnswerLoad(i) \/ DeliverLoad(i)
    \/ \E d \in Docs : ServerUploads(d) \/ AnswerUpload(d) \/ DeliverUpload(d)

FormTypeOK ==
    /\ mode \in {"internet", "documents"}
    /\ filled \in BOOLEAN
    /\ picked \subseteq Docs /\ listed \subseteq Docs
    /\ loadingDocuments \in BOOLEAN /\ generating \in BOOLEAN
    /\ load \in [Loads -> {Idle, At("asked"), At("failed")} \cup
          [stage : {"answered"}, items : SUBSET Docs]]
    /\ upload \in [Docs -> {At(s) : s \in {"idle", "sent", "orphan", "listing", "done"}} \cup
          [stage : {"answered"}, items : SUBSET Docs]]
    /\ stored \in Seq(Docs)
    /\ errors \in 0 .. MaxErrors
===============================================================================
