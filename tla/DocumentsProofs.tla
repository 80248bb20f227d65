--------------------------- MODULE DocumentsProofs ---------------------------
(***************************************************************************)
(* Theorems about Documents, for any number of uploads, of DELETE requests *)
(* and of failures, and for any quota.                                     *)
(***************************************************************************)
EXTENDS Documents, FiniteSetTheorems, TLAPS

\* DocInv holds at the start.
LEMMA InitDoc == Init => DocInv
BY DEF Init, DocInv, TypeOK, DeletedOnce, UploadStages, DeleteStages

\* One upload takes a step.
LEMMA UploadDoc ==
    ASSUME DocInv, NEW d \in Docs, Admit(d) \/ Refuse(d) \/ UploadStep(d)
    PROVE  DocInv'
<1> USE DEF DocInv, TypeOK, Inserted, DeletedOnce, UploadStages, DeleteStages, Fault
<1>1. CASE Admit(d) \/ Refuse(d)
  BY <1>1 DEF Admit, Refuse
<1>2. CASE PutObject(d) \/ PutObjectFails(d)
  BY <1>2 DEF PutObject, PutObjectFails
<1>3. CASE CreateDocument(d)
  BY <1>3 DEF CreateDocument
<1>4. CASE CreateDocumentFails(d)
  BY <1>4 DEF CreateDocumentFails
<1>5. CASE UndoPut(d) \/ EnqueueDocument(d)
  BY <1>5 DEF UndoPut, EnqueueDocument
<1> QED
  BY <1>1, <1>2, <1>3, <1>4, <1>5 DEF UploadStep

\* One DELETE takes a step.
LEMMA DeleteDoc ==
    ASSUME DocInv, NEW x \in Deleters, GetDocument(x) \/ DeleteStep(x)
    PROVE  DocInv'
<1> USE DEF DocInv, TypeOK, Inserted, DeletedOnce, UploadStages, DeleteStages, Fault
<1>1. CASE GetDocument(x)
  BY <1>1 DEF GetDocument
<1>2. CASE DeleteDocument(x)
  BY <1>2 DEF DeleteDocument
<1>3. CASE DeleteFails(x)
  BY <1>3 DEF DeleteFails
<1>4. CASE RemoveObject(x)
  BY <1>4 DEF RemoveObject
<1> QED
  BY <1>1, <1>2, <1>3, <1>4 DEF DeleteStep

\* The death of the process leaves table and bucket as they are; uploads that were
\* under way have ended, and so have the DELETE requests.
LEMMA AbortChanges ==
    ASSUME TypeOK, AbortHandlers
    PROVE  /\ UNCHANGED <<row, object, queued, target>> /\ faults' = faults + 1
           /\ upload' \in [Docs -> UploadStages] /\ delete' \in [Deleters -> DeleteStages]
           /\ \A d \in Docs :
                 \/ /\ upload[d] \in {"admitted", "stored", "saved", "undoing"}
                    /\ upload'[d] = "aborted"
                 \/ /\ upload[d] \notin {"admitted", "stored", "saved", "undoing"}
                    /\ upload'[d] = upload[d]
           /\ \A x \in Deleters :
                 \/ delete[x] = "found" /\ delete'[x] = "failed"
                 \/ delete[x] = "row_deleted" /\ delete'[x] = "aborted"
                 \/ delete[x] \notin {"found", "row_deleted"} /\ delete'[x] = delete[x]
BY DEF TypeOK, AbortHandlers, Fault, UploadStages, DeleteStages

\* DocInv is inductive.
LEMMA NextDoc == DocInv /\ [Next]_vars => DocInv'
<1>1. DocInv /\ UNCHANGED vars => DocInv'
  BY DEF vars, DocInv, TypeOK, DeletedOnce
<1>2. DocInv /\ AbortHandlers => DocInv'
  <2> SUFFICES ASSUME DocInv, AbortHandlers PROVE DocInv'
    OBVIOUS
  <2>1. TypeOK'
    BY AbortChanges DEF DocInv, TypeOK
  <2>2. DeletedOnce'
    BY AbortChanges DEF DocInv, TypeOK, DeletedOnce
  <2> QED
    BY <2>1, <2>2, AbortChanges DEF DocInv, TypeOK, Inserted
<1> QED
  BY <1>1, <1>2, UploadDoc, DeleteDoc DEF Next

\* DocInv is an invariant of every behaviour, whatever fails.
THEOREM DocInvariance == Spec => []DocInv
BY InitDoc, NextDoc, PTL DEF Spec

\* Every variable keeps its type.
THEOREM DocumentsTypeCorrectness == Spec => []TypeOK
<1>1. DocInv => TypeOK
  BY DEF DocInv
<1> QED
  BY <1>1, DocInvariance, PTL

\* However many DELETE requests race for a document, one at most is answered
\* 200, and what it reports as deleted is never listed again.
THEOREM DeletionIsExclusive == Spec => []DeletedOnce
<1>1. DocInv => DeletedOnce
  BY DEF DocInv
<1> QED
  BY <1>1, DocInvariance, PTL

-------------------------------------------------------------------------------
(***************************************************************************)
(* The quota.                                                              *)
(***************************************************************************)

\* Only an admission adds a document to Charged, and it requires that fewer
\* than MaxFiles documents have a row.
LEMMA StepCharges ==
    ASSUME DocInv, [Next]_vars
    PROVE  \/ Charged' \subseteq Charged
           \/ /\ row' = row
              /\ Cardinality(row) < MaxFiles
              /\ Cardinality(InFlight) < MaxConcurrent
              /\ \E d \in Docs : InFlight' = InFlight \cup {d}
<1> USE DEF DocInv, TypeOK, Charged, InFlight
<1>1. ASSUME NEW d \in Docs, Admit(d)
      PROVE  /\ row' = row /\ Cardinality(row) < MaxFiles
             /\ Cardinality(InFlight) < MaxConcurrent /\ InFlight' = InFlight \cup {d}
  BY <1>1 DEF Admit, WithinQuota
<1>2. ASSUME NEW d \in Docs, Refuse(d) \/ UploadStep(d)
      PROVE  Charged' \subseteq Charged
  BY <1>2 DEF Refuse, UploadStep, PutObject, PutObjectFails, CreateDocument, CreateDocumentFails,
              UndoPut, EnqueueDocument
<1>3. ASSUME NEW x \in Deleters, GetDocument(x) \/ DeleteStep(x)
      PROVE  Charged' \subseteq Charged
  BY <1>3 DEF GetDocument, DeleteStep, DeleteDocument, DeleteFails, RemoveObject
<1>4. CASE UNCHANGED vars
  BY <1>4 DEF vars
<1>5. CASE AbortHandlers
  BY <1>5, AbortChanges
<1> QED
  BY <1>1, <1>2, <1>3, <1>4, <1>5 DEF Next

\* No step lets the charged documents exceed the bound.
LEMMA NextCharged ==
    ASSUME IsFiniteSet(Docs)
    PROVE  /\ Init => ChargedIsBounded
           /\ DocInv /\ ChargedIsBounded /\ [Next]_vars => ChargedIsBounded'
<1>1. ASSUME Init PROVE ChargedIsBounded
  <2>1. Charged = {}
    BY <1>1 DEF Init, Charged, InFlight
  <2> QED
    BY <2>1, FS_EmptySet, QuotaAssumption DEF ChargedIsBounded
<1>2. ASSUME DocInv, ChargedIsBounded, [Next]_vars PROVE ChargedIsBounded'
  <2>1. DocInv'
    BY <1>2, NextDoc
  <2>2. /\ IsFiniteSet(Charged) /\ IsFiniteSet(row) /\ IsFiniteSet(InFlight)
        /\ Cardinality(Charged) \in Nat /\ Cardinality(row) \in Nat /\ Cardinality(InFlight) \in Nat
    BY <1>2, FS_Subset, FS_CardinalityType DEF DocInv, TypeOK, Charged, InFlight
  <2>3. CASE Charged' \subseteq Charged
    <3>1. IsFiniteSet(Charged') /\ Cardinality(Charged') <= Cardinality(Charged)
      BY <2>2, <2>3, FS_Subset
    <3>2. Cardinality(Charged') \in Nat
      BY <3>1, FS_CardinalityType
    <3> QED
      BY <1>2, <2>2, <3>1, <3>2, QuotaAssumption DEF ChargedIsBounded
  <2>4. CASE /\ row' = row /\ Cardinality(row) < MaxFiles
             /\ Cardinality(InFlight) < MaxConcurrent
             /\ \E d \in Docs : InFlight' = InFlight \cup {d}
    <3>1. PICK d \in Docs : InFlight' = InFlight \cup {d}
      BY <2>4
    <3>2. /\ IsFiniteSet(InFlight')
          /\ Cardinality(InFlight') \in {Cardinality(InFlight), Cardinality(InFlight) + 1}
      BY <2>2, <3>1, FS_AddElement
    <3>3. /\ IsFiniteSet(row \cup InFlight') /\ IsFiniteSet(row \cap InFlight')
          /\ Cardinality(row \cup InFlight') =
                Cardinality(row) + Cardinality(InFlight') - Cardinality(row \cap InFlight')
      BY <2>2, <3>2, FS_Union, FS_Intersection
    <3>4. Cardinality(row \cap InFlight') \in Nat
      BY <3>3, FS_CardinalityType
    <3> QED
      BY <2>2, <2>4, <3>2, <3>3, <3>4, QuotaAssumption DEF ChargedIsBounded, Charged
  <2> QED
    BY <1>2, <2>3, <2>4, StepCharges
<1> QED
  BY <1>1, <1>2

\* The number of a user's documents exceeds the limit by less than the number
\* of uploads the user has in flight at once; with one at a time it never does.
THEOREM OverrunBound ==
    ASSUME IsFiniteSet(Docs)
    PROVE  Spec => []OverrunIsBounded
<1>1. DocInv /\ ChargedIsBounded => OverrunIsBounded
  <2> SUFFICES ASSUME DocInv, ChargedIsBounded PROVE OverrunIsBounded
    OBVIOUS
  <2>1. IsFiniteSet(Charged) /\ row \subseteq Charged
    BY FS_Subset DEF DocInv, TypeOK, Charged, InFlight
  <2>2. /\ Cardinality(row) <= Cardinality(Charged)
        /\ Cardinality(row) \in Nat /\ Cardinality(Charged) \in Nat
    BY <2>1, FS_Subset, FS_CardinalityType
  <2> QED
    BY <2>2, QuotaAssumption DEF ChargedIsBounded, OverrunIsBounded
<1> QED
  BY <1>1, NextCharged, DocInvariance, PTL DEF Spec

-------------------------------------------------------------------------------
(***************************************************************************)
(* The bytes of the quota.                                                 *)
(***************************************************************************)

\* Finitely many files of at most MaxFile bytes take at most MaxFile bytes each,
\* and one file takes its size.
LEMMA BytesOfFiles ==
    ASSUME NEW S \in SUBSET Docs, IsFiniteSet(S), \A d \in S : Size[d] <= MaxFile
    PROVE  /\ IsFiniteSet(Bytes(S))
           /\ TotalSize(S) \in Nat
           /\ Cardinality(S) \in Nat
           /\ TotalSize(S) <= Cardinality(S) * MaxFile
<1>1. Bytes(S) \subseteq S \X (1 .. MaxFile)
  BY SizeAssumption, QuotaAssumption DEF Bytes
<1>2. IsFiniteSet(1 .. MaxFile) /\ Cardinality(1 .. MaxFile) = MaxFile
  BY FS_Interval, QuotaAssumption
<1>3. IsFiniteSet(S \X (1 .. MaxFile)) /\ Cardinality(S \X (1 .. MaxFile)) = Cardinality(S) * MaxFile
  BY <1>2, FS_Product
<1>4. IsFiniteSet(Bytes(S)) /\ TotalSize(S) <= Cardinality(S) * MaxFile
  BY <1>1, <1>3, FS_Subset DEF TotalSize
<1> QED
  BY <1>4, FS_CardinalityType DEF TotalSize

LEMMA BytesOfFile ==
    ASSUME NEW d \in Docs
    PROVE  IsFiniteSet(Bytes({d})) /\ TotalSize({d}) = Size[d]
<1>1. Size[d] \in Nat
  BY SizeAssumption
<1>2. IsFiniteSet(1 .. Size[d]) /\ Cardinality(1 .. Size[d]) = Size[d]
  BY <1>1, FS_Interval
<1>3. IsFiniteSet({d}) /\ Cardinality({d}) = 1
  BY FS_Singleton
<1>4. Bytes({d}) = {d} \X (1 .. Size[d])
  BY DEF Bytes
<1>5. /\ IsFiniteSet({d} \X (1 .. Size[d]))
      /\ Cardinality({d} \X (1 .. Size[d])) = Cardinality({d}) * Cardinality(1 .. Size[d])
  BY <1>2, <1>3, FS_Product
<1>6. IsFiniteSet(Bytes({d})) /\ TotalSize({d}) = 1 * Size[d]
  BY <1>2, <1>3, <1>4, <1>5 DEF TotalSize
<1> QED
  BY <1>1, <1>6

\* Two sets of files take no more bytes together than one after the other.
LEMMA BytesOfUnion ==
    ASSUME NEW S, NEW T, IsFiniteSet(Bytes(S)), IsFiniteSet(Bytes(T))
    PROVE  /\ IsFiniteSet(Bytes(S \cup T))
           /\ TotalSize(S \cup T) <= TotalSize(S) + TotalSize(T)
<1>1. Bytes(S \cup T) = Bytes(S) \cup Bytes(T)
  BY DEF Bytes
<1>2. /\ IsFiniteSet(Bytes(S) \cup Bytes(T))
      /\ Cardinality(Bytes(S) \cup Bytes(T)) =
            TotalSize(S) + TotalSize(T) - Cardinality(Bytes(S) \cap Bytes(T))
  BY FS_Union DEF TotalSize
<1>3. Cardinality(Bytes(S) \cap Bytes(T)) \in Nat
  BY FS_Intersection, FS_CardinalityType
<1>4. TotalSize(S) \in Nat /\ TotalSize(T) \in Nat
  BY FS_CardinalityType DEF TotalSize
<1>5. TotalSize(S \cup T) = Cardinality(Bytes(S) \cup Bytes(T))
  BY <1>1 DEF TotalSize
<1>6. IsFiniteSet(Bytes(S \cup T))
  BY <1>1, <1>2
<1>7. TotalSize(S \cup T) <= TotalSize(S) + TotalSize(T)
  BY <1>2, <1>3, <1>4, <1>5
<1> QED
  BY <1>6, <1>7

\* Fewer files take no more bytes.
LEMMA BytesOfSubset ==
    ASSUME NEW S, NEW T, T \subseteq S, IsFiniteSet(Bytes(S))
    PROVE  IsFiniteSet(Bytes(T)) /\ TotalSize(T) <= TotalSize(S)
<1>1. Bytes(T) \subseteq Bytes(S)
  BY DEF Bytes
<1> QED
  BY <1>1, FS_Subset DEF TotalSize

\* Multiplication is monotone.
LEMMA ProductIsMonotone ==
    ASSUME NEW a \in Nat, NEW b \in Nat, NEW k \in Nat, a <= b
    PROVE  a * k <= b * k
<1>1. PICK e \in Nat : b = a + e
  <2>1. b - a \in Nat /\ b = a + (b - a)
    OBVIOUS
  <2> QED
    BY <2>1
<1>2. b * k = a * k + e * k
  BY <1>1
<1>3. e * k \in Nat /\ a * k \in Nat
  OBVIOUS
<1> QED
  BY <1>2, <1>3

\* Only an admission charges new bytes: those of one file within both limits.
LEMMA StepChargesBytes ==
    ASSUME DocInv, [Next]_vars
    PROVE  \/ Charged' \subseteq Charged
           \/ \E d \in Docs :
                 /\ Charged' = Charged \cup {d}
                 /\ Size[d] <= MaxFile
                 /\ TotalSize(row) + Size[d] <= MaxTotal
                 /\ Cardinality(InFlight) < MaxConcurrent
<1> USE DEF DocInv, TypeOK, Charged, InFlight
<1>1. ASSUME NEW d \in Docs, Admit(d)
      PROVE  /\ Charged' = Charged \cup {d}
             /\ Size[d] <= MaxFile
             /\ TotalSize(row) + Size[d] <= MaxTotal
             /\ Cardinality(InFlight) < MaxConcurrent
  BY <1>1 DEF Admit, WithinQuota
<1>2. ASSUME NEW d \in Docs, Refuse(d) \/ UploadStep(d)
      PROVE  Charged' \subseteq Charged
  BY <1>2 DEF Refuse, UploadStep, PutObject, PutObjectFails, CreateDocument, CreateDocumentFails,
              UndoPut, EnqueueDocument
<1>3. ASSUME NEW x \in Deleters, GetDocument(x) \/ DeleteStep(x)
      PROVE  Charged' \subseteq Charged
  BY <1>3 DEF GetDocument, DeleteStep, DeleteDocument, DeleteFails, RemoveObject
<1>4. CASE UNCHANGED vars
  BY <1>4 DEF vars
<1>5. CASE AbortHandlers
  BY <1>5, AbortChanges
<1> QED
  BY <1>1, <1>2, <1>3, <1>4, <1>5 DEF Next

\* No step lets the charged bytes exceed their bound.
LEMMA NextChargedBytes ==
    ASSUME IsFiniteSet(Docs)
    PROVE  /\ Init => BytesAreBounded
           /\ DocInv /\ BytesAreBounded /\ [Next]_vars => BytesAreBounded'
<1> DEFINE Others == (MaxConcurrent - 1) * MaxFile
<1>0. MaxConcurrent - 1 \in Nat /\ Others \in Nat
  BY QuotaAssumption
<1>1. ASSUME Init PROVE BytesAreBounded
  <2>1. Charged = {} /\ Bytes(Charged) = {}
    BY <1>1 DEF Init, Charged, InFlight, Bytes
  <2>2. TotalSize(Charged) = 0
    BY <2>1, FS_EmptySet DEF TotalSize
  <2>3. 0 <= MaxTotal + Others
    BY <1>0, QuotaAssumption
  <2> QED
    BY <2>1, <2>2, <2>3 DEF BytesAreBounded
<1>2. ASSUME DocInv, BytesAreBounded, [Next]_vars PROVE BytesAreBounded'
  <2>1. /\ Charged \in SUBSET Docs /\ row \in SUBSET Charged /\ InFlight \in SUBSET Charged
        /\ IsFiniteSet(Charged) /\ IsFiniteSet(InFlight)
    BY <1>2, FS_Subset DEF DocInv, TypeOK, Charged, InFlight
  <2>2. IsFiniteSet(Bytes(Charged)) /\ TotalSize(Charged) \in Nat
    BY <1>2, <2>1, BytesOfFiles DEF BytesAreBounded
  <2>3. CASE Charged' \subseteq Charged
    <3>1. TotalSize(Charged') <= TotalSize(Charged) /\ IsFiniteSet(Bytes(Charged'))
      BY <2>2, <2>3, BytesOfSubset
    <3>2. TotalSize(Charged') \in Nat
      BY <3>1, FS_CardinalityType DEF TotalSize
    <3>3. TotalSize(Charged') <= MaxTotal + Others
      BY <1>0, <1>2, <2>2, <3>1, <3>2, QuotaAssumption DEF BytesAreBounded
    <3>4. TotalSize(Charged)' = TotalSize(Charged')
      BY DEF TotalSize, Bytes
    <3> QED
      BY <1>2, <2>3, <3>3, <3>4 DEF BytesAreBounded
  <2>4. ASSUME NEW d \in Docs,
               Charged' = Charged \cup {d},
               Size[d] <= MaxFile,
               TotalSize(row) + Size[d] <= MaxTotal,
               Cardinality(InFlight) < MaxConcurrent
        PROVE  BytesAreBounded'
    <3>1. /\ IsFiniteSet(Bytes(row)) /\ IsFiniteSet(Bytes(InFlight)) /\ IsFiniteSet(Bytes({d}))
          /\ TotalSize({d}) = Size[d]
      BY <2>1, <2>2, BytesOfSubset, BytesOfFile
    <3>2. /\ IsFiniteSet(Bytes(row \cup {d}))
          /\ TotalSize(row \cup {d}) <= TotalSize(row) + Size[d]
      BY <3>1, BytesOfUnion
    <3>3. /\ IsFiniteSet(Bytes((row \cup {d}) \cup InFlight))
          /\ TotalSize((row \cup {d}) \cup InFlight) <= TotalSize(row \cup {d}) + TotalSize(InFlight)
      BY <3>1, <3>2, BytesOfUnion
    <3>4. Charged' = (row \cup {d}) \cup InFlight
      BY <2>4 DEF Charged
    <3>5. TotalSize(InFlight) <= Others
      <4>1. /\ Cardinality(InFlight) \in Nat
            /\ TotalSize(InFlight) <= Cardinality(InFlight) * MaxFile
        BY <1>2, <2>1, BytesOfFiles DEF BytesAreBounded
      <4>2. Cardinality(InFlight) <= MaxConcurrent - 1
        BY <2>4, <4>1, QuotaAssumption
      <4>3. Cardinality(InFlight) * MaxFile <= Others
        BY <1>0, <4>1, <4>2, ProductIsMonotone, QuotaAssumption
      <4>4. TotalSize(InFlight) \in Nat /\ Cardinality(InFlight) * MaxFile \in Nat
        BY <3>1, <4>1, FS_CardinalityType, QuotaAssumption DEF TotalSize
      <4> QED
        BY <1>0, <4>1, <4>3, <4>4
    <3>6. /\ TotalSize(row) \in Nat /\ TotalSize(row \cup {d}) \in Nat /\ TotalSize(InFlight) \in Nat
          /\ TotalSize(Charged') \in Nat /\ Size[d] \in Nat
      BY <3>1, <3>2, <3>3, <3>4, FS_CardinalityType, SizeAssumption DEF TotalSize
    <3>7. TotalSize(Charged') <= MaxTotal + Others
      <4>1. TotalSize(row \cup {d}) <= MaxTotal
        BY <2>4, <3>2, <3>6, QuotaAssumption
      <4>2. TotalSize(Charged') <= TotalSize(row \cup {d}) + TotalSize(InFlight)
        BY <3>3, <3>4
      <4> HIDE DEF Others
      <4> QED
        BY <1>0, <3>5, <3>6, <4>1, <4>2, QuotaAssumption
    <3>8. \A e \in Charged' : Size[e] <= MaxFile
      BY <1>2, <2>4 DEF BytesAreBounded
    <3>9. TotalSize(Charged)' = TotalSize(Charged')
      BY DEF TotalSize, Bytes
    <3> QED
      BY <3>7, <3>8, <3>9 DEF BytesAreBounded
  <2> QED
    BY <1>2, <2>3, <2>4, StepChargesBytes
<1> QED
  BY <1>1, <1>2

\* The bytes of a user's documents exceed the limit by less than MaxFile for
\* every upload the user has in flight at once; with one at a time they never do.
THEOREM ByteOverrunBound ==
    ASSUME IsFiniteSet(Docs)
    PROVE  Spec => []ByteOverrunIsBounded
<1>1. DocInv /\ BytesAreBounded => ByteOverrunIsBounded
  <2> SUFFICES ASSUME DocInv, BytesAreBounded PROVE ByteOverrunIsBounded
    OBVIOUS
  <2>1. Charged \in SUBSET Docs /\ row \subseteq Charged /\ IsFiniteSet(Charged)
    BY FS_Subset DEF DocInv, TypeOK, Charged, InFlight
  <2>2. IsFiniteSet(Bytes(Charged)) /\ TotalSize(Charged) \in Nat
    BY <2>1, BytesOfFiles DEF BytesAreBounded
  <2>3. TotalSize(row) <= TotalSize(Charged) /\ TotalSize(row) \in Nat
    BY <2>1, <2>2, BytesOfSubset, FS_CardinalityType DEF TotalSize
  <2>4. MaxTotal + (MaxConcurrent - 1) * MaxFile \in Nat
    BY QuotaAssumption
  <2> QED
    BY <2>2, <2>3, <2>4 DEF BytesAreBounded, ByteOverrunIsBounded
<1> QED
  BY <1>1, NextChargedBytes, DocInvariance, PTL DEF Spec

-------------------------------------------------------------------------------
(***************************************************************************)
(* Rows and objects.                                                       *)
(***************************************************************************)

\* ObjectInv is inductive.
LEMMA NextObject ==
    ObjectInv /\ [Next]_vars => ObjectInv'
<1> SUFFICES ASSUME ObjectInv, [Next]_vars PROVE ObjectInv'
  OBVIOUS
<1>1. DocInv'
  BY NextDoc DEF ObjectInv
<1> USE <1>1 DEF ObjectInv, DocInv, TypeOK, DeletedOnce, Inserted, NoDanglingRow, Fault
<1>2. ASSUME NEW d \in Docs, Admit(d) \/ Refuse(d) \/ UploadStep(d)
      PROVE  ObjectInv'
  <2>1. CASE Admit(d) \/ Refuse(d)
    BY <2>1 DEF Admit, Refuse
  <2>2. CASE PutObject(d) \/ PutObjectFails(d)
    BY <2>2 DEF PutObject, PutObjectFails
  <2>3. CASE CreateDocument(d) \/ CreateDocumentFails(d)
    BY <2>3 DEF CreateDocument, CreateDocumentFails
  <2>4. CASE UndoPut(d)
    BY <2>4 DEF UndoPut
  <2>5. CASE EnqueueDocument(d)
    BY <2>5 DEF EnqueueDocument
  <2> QED
    BY <1>2, <2>1, <2>2, <2>3, <2>4, <2>5 DEF UploadStep
<1>3. ASSUME NEW x \in Deleters, GetDocument(x) \/ DeleteStep(x)
      PROVE  ObjectInv'
  BY <1>3 DEF GetDocument, DeleteStep, DeleteDocument, DeleteFails, RemoveObject
<1>4. CASE UNCHANGED vars
  BY <1>4 DEF vars
<1>5. CASE AbortHandlers
  BY <1>5, AbortChanges
<1> QED
  BY <1>2, <1>3, <1>4, <1>5 DEF Next

\* Every listed document whose upload was not answered with an error has its
\* object, however uploads and deletions interleave and fail.
THEOREM NoDanglingRows == Spec => []NoDanglingRow
<1>1. Init => ObjectInv
  BY InitDoc DEF Init, ObjectInv, NoDanglingRow
<1>2. ObjectInv => NoDanglingRow
  BY DEF ObjectInv
<1> QED
  BY <1>1, <1>2, NextObject, PTL DEF Spec

-------------------------------------------------------------------------------
\* A step leaks no object, or it is a failed call and leaks one at most, or it is
\* the death of the process, which leaks none.
LEMMA StepLeaks ==
    ASSUME DocInv, [Next]_vars
    PROVE  \/ Leaked' \subseteq Leaked /\ faults' \in {faults, faults + 1} /\ (Died' => Died)
           \/ /\ \E d \in Docs : Leaked' \subseteq Leaked \cup {d}
              /\ faults' = faults + 1
              /\ Died' => Died
           \/ Leaked' \subseteq Leaked /\ faults' = faults + 1
<1> USE DEF DocInv, TypeOK, Leaked, DeletedOnce, Inserted
<1>1. ASSUME NEW d \in Docs, Admit(d) \/ Refuse(d) \/ UploadStep(d)
      PROVE  \/ Leaked' \subseteq Leaked /\ faults' \in {faults, faults + 1}
             \/ Leaked' \subseteq Leaked \cup {d} /\ faults' = faults + 1
  <2>1. CASE Admit(d) \/ Refuse(d)
    BY <2>1 DEF Admit, Refuse, Fault
  <2>2. CASE PutObject(d) \/ PutObjectFails(d)
    BY <2>2 DEF PutObject, PutObjectFails, Fault
  <2>3. CASE CreateDocument(d) \/ CreateDocumentFails(d)
    BY <2>3 DEF CreateDocument, CreateDocumentFails, Fault
  <2>4. CASE UndoPut(d)
    BY <2>4 DEF UndoPut, Fault
  <2>5. CASE EnqueueDocument(d)
    BY <2>5 DEF EnqueueDocument, Fault
  <2> QED
    BY <1>1, <2>1, <2>2, <2>3, <2>4, <2>5 DEF UploadStep
<1>2. ASSUME NEW x \in Deleters, GetDocument(x) \/ DeleteStep(x)
      PROVE  \/ Leaked' \subseteq Leaked /\ faults' \in {faults, faults + 1}
             \/ /\ \E d \in Docs : Leaked' \subseteq Leaked \cup {d}
                /\ faults' = faults + 1
  <2>1. CASE GetDocument(x)
    BY <2>1 DEF GetDocument
  <2>2. CASE DeleteDocument(x)
    BY <2>2 DEF DeleteDocument
  <2>3. CASE DeleteFails(x)
    <3>1. delete[x] = "idle" \/ target[x] \in Docs
      BY <2>3 DEF DeleteFails
    <3> QED
      BY <2>3, <3>1 DEF DeleteFails, Fault
  <2>4. CASE RemoveObject(x)
    <3>1. target[x] \in Docs
      BY <2>4 DEF RemoveObject
    <3> QED
      BY <2>4, <3>1 DEF RemoveObject, Fault
  <2> QED
    BY <1>2, <2>1, <2>2, <2>3, <2>4 DEF DeleteStep
<1>3. CASE UNCHANGED vars
  BY <1>3 DEF vars, Died
<1>4. CASE AbortHandlers
  BY <1>4, AbortChanges
<1>5. ASSUME NEW d \in Docs, Admit(d) \/ Refuse(d) \/ UploadStep(d)
      PROVE  Died' => Died
  BY <1>5 DEF Died, Admit, Refuse, UploadStep, PutObject, PutObjectFails, CreateDocument,
              CreateDocumentFails, UndoPut, EnqueueDocument
<1>6. ASSUME NEW x \in Deleters, GetDocument(x) \/ DeleteStep(x)
      PROVE  Died' => Died
  BY <1>6 DEF Died, GetDocument, DeleteStep, DeleteDocument, DeleteFails, RemoveObject
<1> QED
  BY <1>1, <1>2, <1>3, <1>4, <1>5, <1>6 DEF Next

\* Whatever handlers that ran to their ends have left in the bucket is paid for by
\* failed calls, one object each; the objects of handlers that the process took
\* with it are not among them, and neither is the death itself.
THEOREM LeaksAreCounted ==
    ASSUME IsFiniteSet(Docs)
    PROVE  Spec => []OneLeakPerFailure
<1> DEFINE Counted == DocInv /\ OneLeakPerFailure
<1>1. Init => Counted
  <2>1. Init => Leaked = {} /\ faults = 0 /\ ~Died
    BY DEF Init, Leaked, Died
  <2> QED
    BY <2>1, InitDoc, FS_EmptySet DEF OneLeakPerFailure
<1>2. Counted /\ [Next]_vars => Counted'
  <2> SUFFICES ASSUME Counted, [Next]_vars PROVE Counted'
    OBVIOUS
  <2>1. DocInv'
    BY NextDoc
  <2>2. IsFiniteSet(Leaked) /\ IsFiniteSet(Leaked')
    BY <2>1, FS_Subset DEF Leaked, DocInv, TypeOK
  <2>3. faults \in Nat /\ Cardinality(Leaked) \in Nat /\ Cardinality(Leaked') \in Nat
    BY <2>2, FS_CardinalityType DEF DocInv, TypeOK
  <2>4. ASSUME Leaked' \subseteq Leaked
        PROVE  Cardinality(Leaked') <= Cardinality(Leaked)
    BY <2>2, <2>4, FS_Subset
  <2>5. ASSUME NEW d \in Docs, Leaked' \subseteq Leaked \cup {d}
        PROVE  Cardinality(Leaked') <= Cardinality(Leaked) + 1
    <3>1. /\ IsFiniteSet(Leaked \cup {d})
          /\ Cardinality(Leaked \cup {d}) \in {Cardinality(Leaked), Cardinality(Leaked) + 1}
      BY <2>2, <2>3, FS_AddElement
    <3>2. Cardinality(Leaked') <= Cardinality(Leaked \cup {d})
      BY <2>5, <3>1, FS_Subset
    <3> QED
      BY <2>3, <3>1, <3>2
  <2>6. Cardinality(Leaked) + (IF Died THEN 1 ELSE 0) <= faults
    BY DEF OneLeakPerFailure
  <2>7. Cardinality(Leaked') + (IF Died' THEN 1 ELSE 0) <= faults'
    <3>1. CASE Leaked' \subseteq Leaked /\ faults' \in {faults, faults + 1} /\ (Died' => Died)
      BY <2>3, <2>4, <2>6, <3>1
    <3>2. CASE (\E d \in Docs : Leaked' \subseteq Leaked \cup {d}) /\ faults' = faults + 1
               /\ (Died' => Died)
      BY <2>3, <2>5, <2>6, <3>2
    <3>3. CASE Leaked' \subseteq Leaked /\ faults' = faults + 1
      BY <2>3, <2>4, <2>6, <3>3
    <3> QED
      BY <3>1, <3>2, <3>3, StepLeaks
  <2> QED
    BY <2>1, <2>7 DEF OneLeakPerFailure
<1>3. Counted => OneLeakPerFailure
  OBVIOUS
<1> QED
  BY <1>1, <1>2, <1>3, PTL DEF Spec
==============================================================================
