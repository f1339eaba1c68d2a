----------------------- MODULE SellerPublicationProofs -----------------------
(***************************************************************************)
(* Theorems of SellerPublication, for any number of actors, fields,        *)
(* sources, upload handlers and idempotency keys, every roles table and    *)
(* any number of revisions.                                                *)
(***************************************************************************)
EXTENDS SellerPublication, TLAPS

(***************************************************************************)
(* The inductive invariant.                                                *)
(***************************************************************************)
ProductRow == [state: ProductStates, owner: Actors \cup {NoActor}]

\* The rows have their types, and the logs of rows are sequences.
Tables ==
  /\ seeded \in BOOLEAN
  /\ product \in [Products -> ProductRow]
  /\ draftState \in DraftStates
  /\ revisions \in Seq(RevisionRow)
  /\ Attached \subseteq Sources
  /\ \A s \in Attached : evidence[s] \in AttachmentRow
  /\ submissions \in Seq(SubmissionRow)
  /\ packs \in Seq(PackRow)
  /\ currentPack \in 0..Len(packs)
  /\ suspensions \subseteq DOMAIN packs
  /\ sourceRows \in [Objects -> {"NONE", "PARSED", "PUBLISHED"}]
  /\ store \subseteq Objects
  /\ keys \in [Keys -> KeyRow \cup {FreeKey}]
  /\ uploads \in [Callers -> UploadRow \cup {NoUpload}]
  /\ clock \in 0..MaxTime

\* A draft that left its editor shows exactly what was submitted last.
FrozenIsSubmitted ==
  draftState \notin EditableStates =>
    /\ submissions # <<>>
    /\ Latest.content = Current.content

\* Only a decided submission is approved, so a later decision undoes none.
ApprovalIsDecided ==
  \A j \in DOMAIN submissions :
    submissions[j].decision = "APPROVE" => submissions[j].status = "COMPLETED"

ReviewInv == FrozenIsSubmitted /\ ApprovalIsDecided /\ PublishedIsReviewed

\* Before the first request no version and no recorded outcome exists.
EmptyTenant == ~seeded => packs = <<>> /\ keys = NoKeys

StoryInv == EmptyTenant /\ OneStory

\* What a handler says it stored is in the bucket.
StoredIsThere ==
  \A c \in Callers : uploads[c] # NoUpload /\ uploads[c].stored =>
    uploads[c].request.object \in store

EvidenceInv == StoredIsThere /\ EvidenceExists

Inv == Tables /\ ReviewInv /\ StoryInv /\ EvidenceInv

(***************************************************************************)
(* What the handlers write, row by row.                                    *)
(***************************************************************************)
\* The seeded content, its version and the rows of an empty tenant.
LEMMA SeedRows ==
  /\ NoRevision \in Content
  /\ FirstPack \in PackRow /\ Cited(FirstPack.content) = {} /\ FirstPack.supersededBy = 0
  /\ NoProducts \in [Products -> ProductRow] /\ Drafted \in Products
  /\ NoKeys \in [Keys -> KeyRow \cup {FreeKey}]
  /\ DOMAIN NoEvidence = {} /\ StartTime \in 0..MaxTime /\ 1 \in 0..MaxTime
<1>1. StaleSource \in Sources
  BY SellerAssumption DEF Sources
<1>2. NoRevision \in Content
  BY <1>1 DEF NoRevision, Content
<1>3. FirstPack.content
        = [filled |-> FALSE, agreed |-> TRUE, cites |-> [f \in Fields |-> {}]]
  BY DEF FirstPack, NoRevision
<1>4. FirstPack.content \in Content /\ \A f \in Fields : FirstPack.content.cites[f] = {}
  BY <1>3 DEF Content
<1>5. Cited(FirstPack.content) = {}
  BY <1>4 DEF Cited
<1>6. FirstPack = [content |-> FirstPack.content,
                   observed |-> [s \in Sources |-> NotObserved], supersededBy |-> 0]
  BY DEF FirstPack
<1>7. FirstPack \in PackRow /\ FirstPack.supersededBy = 0
  BY <1>4, <1>6, SellerAssumption DEF PackRow, NotObserved
<1>8. NoProducts \in [Products -> ProductRow] /\ Drafted \in Products
  BY DEF NoProducts, Products, ProductRow, ProductStates
<1>9. StartTime \in 0..MaxTime /\ 1 \in 0..MaxTime
  BY SellerAssumption DEF StartTime
<1> QED
  BY <1>2, <1>5, <1>7, <1>8, <1>9 DEF NoKeys, NoEvidence

\* A new state is written to the draft and to its product, and to no other.
LEMMA SetStateEffect ==
  ASSUME NEW s \in DraftStates, product \in [Products -> ProductRow], SetState(s)
  PROVE  /\ draftState' = s /\ draftState' \in DraftStates
         /\ product' \in [Products -> ProductRow]
         /\ product'[Drafted].state = s
<1>1. Drafted \in Products
  BY DEF Products
<1>2. \A r \in ProductRow : [r EXCEPT !.state = s] = [state |-> s, owner |-> r.owner]
  BY DEF ProductRow
<1>3. product' = [product EXCEPT ![Drafted] = [state |-> s, owner |-> product[Drafted].owner]]
  BY <1>1, <1>2 DEF SetState
<1>4. [state |-> s, owner |-> product[Drafted].owner] \in ProductRow
  BY <1>1 DEF ProductRow, ProductStates
<1> QED
  BY <1>1, <1>3, <1>4 DEF SetState

\* An attachment is one new row.
LEMMA AttachEffect ==
  ASSUME NEW s, NEW fields, NEW observed, Attach(s, fields, observed), s \notin Attached
  PROVE  /\ Attached' = Attached \cup {s}
         /\ evidence'[s] = [fields |-> fields, observed |-> observed]
         /\ \A x \in Attached : evidence'[x] = evidence[x]
  BY DEF Attach, Attached

\* Evidence that is attached is a row of its table.
LEMMA AttachType ==
  ASSUME Tables, NEW s \in Sources, NEW fields \in SUBSET Fields, NEW observed \in 0..MaxTime,
         Attach(s, fields, observed), s \notin Attached
  PROVE  Attached' \subseteq Sources /\ \A x \in Attached' : evidence'[x] \in AttachmentRow
<1> DEFINE row == [fields |-> fields, observed |-> observed]
<1>1. row \in AttachmentRow
  BY DEF AttachmentRow
<1>2. /\ Attached' = Attached \cup {s} /\ evidence'[s] = row
      /\ \A x \in Attached : evidence'[x] = evidence[x]
  BY AttachEffect
<1>3. Attached \subseteq Sources /\ \A x \in Attached : evidence[x] \in AttachmentRow
  BY DEF Tables
<1> HIDE DEF row
<1> QED
  BY <1>1, <1>2, <1>3

\* A new idempotency record changes the record of its key only.
LEMMA KeyEffect ==
  ASSUME NEW k \in Keys, NEW r \in UploadRequest, NEW st \in {"STARTED", "COMPLETED"},
         keys \in [Keys -> KeyRow \cup {FreeKey}],
         keys' = [keys EXCEPT ![k] = [state |-> st, request |-> r]]
  PROVE  /\ keys' \in [Keys -> KeyRow \cup {FreeKey}]
         /\ \A q \in Keys : keys'[q] = IF q = k THEN [state |-> st, request |-> r] ELSE keys[q]
<1>1. [state |-> st, request |-> r] \in KeyRow
  BY DEF KeyRow
<1> QED
  BY <1>1

\* A row is not an empty cell.
LEMMA RowsAreNotEmpty == \A r \in KeyRow \cup UploadRow : r # FreeKey /\ r # NoUpload
  BY DEF KeyRow, UploadRow, FreeKey, NoUpload

\* The upload a handler has under way keeps its request; storing sets a flag.
LEMMA StoredUpdate ==
  ASSUME NEW u \in UploadRow
  PROVE  [u EXCEPT !.stored = TRUE] = [key |-> u.key, request |-> u.request, stored |-> TRUE]
<1>1. PICK k \in Keys, r \in UploadRequest, b \in BOOLEAN :
        u = [key |-> k, request |-> r, stored |-> b]
  BY Zenon DEF UploadRow
<1>2. u.key = k /\ u.request = r
  BY <1>1
<1>3. \A x, y : [[key |-> k, request |-> r, stored |-> x] EXCEPT !.stored = y]
        = [key |-> k, request |-> r, stored |-> y]
  OBVIOUS
<1> QED
  BY <1>1, <1>2, <1>3, Zenon

\* What a decision writes into the newest submission.
LEMMA DecisionUpdate ==
  ASSUME NEW r \in SubmissionRow, NEW d, NEW a
  PROVE  [r EXCEPT !.status = "COMPLETED", !.decision = d, !.reviewer = a]
           = [content |-> r.content, by |-> r.by, status |-> "COMPLETED",
              decision |-> d, reviewer |-> a]
<1> DEFINE r1 == [content |-> r.content, by |-> r.by, status |-> "COMPLETED",
                  decision |-> r.decision, reviewer |-> r.reviewer]
           r2 == [content |-> r.content, by |-> r.by, status |-> "COMPLETED",
                  decision |-> d, reviewer |-> r.reviewer]
<1>1. [r EXCEPT !.status = "COMPLETED"] = r1
  BY DEF SubmissionRow
<1>2. [r1 EXCEPT !.decision = d] = r2
  OBVIOUS
<1>3. [r2 EXCEPT !.reviewer = a]
        = [content |-> r.content, by |-> r.by, status |-> "COMPLETED",
           decision |-> d, reviewer |-> a]
  OBVIOUS
<1> QED
  BY <1>1, <1>2, <1>3, Zenon

\* The decision is about the newest submission, and only about it.
LEMMA ReviewEffect ==
  ASSUME Tables, NEW a \in Actors, NEW content,
         NEW d \in {"APPROVE", "REJECT", "REQUEST_CHANGES"}, ReviewDecision(a, content, d)
  PROVE  /\ submissions' \in Seq(SubmissionRow)
         /\ Len(submissions') = Len(submissions) /\ Len(submissions) \in Nat \ {0}
         /\ submissions'[Len(submissions)].content = Latest.content
         /\ submissions'[Len(submissions)].status = "COMPLETED"
         /\ \A j \in DOMAIN submissions : j # Len(submissions) => submissions'[j] = submissions[j]
<1> DEFINE n == Len(submissions)
<1>1. submissions \in Seq(SubmissionRow) /\ n \in Nat \ {0} /\ n \in DOMAIN submissions
  BY DEF Tables, ReviewDecision
<1>2. submissions[n] \in SubmissionRow
  BY <1>1
<1> DEFINE row == [content |-> submissions[n].content, by |-> submissions[n].by,
                   status |-> "COMPLETED", decision |-> d, reviewer |-> a]
<1>3. submissions' = [submissions EXCEPT ![n] = row]
  BY <1>2, DecisionUpdate DEF ReviewDecision
<1>4. row \in SubmissionRow /\ row.content = submissions[n].content /\ row.status = "COMPLETED"
  BY <1>2 DEF SubmissionRow
<1> HIDE DEF row
<1> QED
  BY <1>1, <1>3, <1>4 DEF Latest

\* The payload dates every source.
LEMMA PayloadType ==
  ASSUME Tables, NEW content
  PROVE  Payload(content) \in [Sources -> 0..MaxTime]
  BY SellerAssumption DEF Tables, Payload, NotObserved, AttachmentRow

\* A publication appends its version and marks the one it supersedes.
LEMMA PublishEffect ==
  ASSUME Tables, seeded, OneStory, NEW a, NEW content \in Content, Publish(a, content)
  PROVE  /\ packs' \in Seq(PackRow) /\ Len(packs) \in Nat /\ Len(packs') = Len(packs) + 1
         /\ packs'[Len(packs) + 1].content = content
         /\ packs'[Len(packs) + 1].supersededBy = 0
         /\ \A i \in 1..Len(packs) :
              /\ packs'[i].content = packs[i].content
              /\ packs'[i].supersededBy = IF i = Len(packs) THEN Len(packs) + 1
                                                            ELSE packs[i].supersededBy
<1> DEFINE n   == Len(packs)
           new == [content |-> content, observed |-> Payload(content), supersededBy |-> 0]
           old == Supersede(packs, n + 1)
<1>1. packs \in Seq(PackRow) /\ n \in Nat /\ DOMAIN packs = 1..n /\ currentPack = n
  BY DEF Tables, OneStory, PackChain
<1>2. new \in PackRow /\ new.content = content /\ new.supersededBy = 0
  BY PayloadType DEF PackRow
<1>3. /\ old \in Seq(PackRow) /\ Len(old) = n
      /\ \A i \in 1..n : /\ old[i].content = packs[i].content
                         /\ old[i].supersededBy = IF i = n THEN n + 1 ELSE packs[i].supersededBy
  <2>1. CASE n = 0
    BY <1>1, <2>1 DEF Supersede
  <2>2. CASE n # 0
    <3>1. \A r \in PackRow : [r EXCEPT !.supersededBy = n + 1]
                = [content |-> r.content, observed |-> r.observed, supersededBy |-> n + 1]
      BY DEF PackRow
    <3> DEFINE row == [content |-> packs[n].content, observed |-> packs[n].observed,
                       supersededBy |-> n + 1]
    <3>2. packs[n] \in PackRow
      BY <1>1, <2>2
    <3>3. row \in PackRow /\ row.content = packs[n].content /\ row.supersededBy = n + 1
      BY <1>1, <3>2 DEF PackRow
    <3>4. old = [packs EXCEPT ![n] = row]
      BY <1>1, <2>2, <3>1, <3>2 DEF Supersede
    <3> HIDE DEF row, old
    <3>5. old \in Seq(PackRow) /\ Len(old) = n /\ old[n] = row
      BY <1>1, <2>2, <3>3, <3>4
    <3>6. \A i \in 1..n : i # n => old[i] = packs[i]
      BY <1>1, <2>2, <3>4
    <3> QED
      BY <1>1, <2>2, <3>3, <3>5, <3>6
  <2> QED
    BY <2>1, <2>2
<1>4. packs' = Append(old, new)
  BY DEF Publish
<1>5. old \in Seq(PackRow) /\ new \in PackRow /\ Len(old) = n /\ n \in Nat
  BY <1>1, <1>2, <1>3
<1> HIDE DEF old, new, n
<1>6. packs' \in Seq(PackRow) /\ Len(packs') = n + 1 /\ packs'[n + 1] = new
  BY <1>4, <1>5
<1>7. \A i \in 1..n : packs'[i] = old[i]
  BY <1>4, <1>5
<1> USE DEF n
<1> QED
  BY <1>1, <1>2, <1>3, <1>6, <1>7

\* The request of an upload has its type.
LEMMA RequestType ==
  ASSUME Tables, NEW a \in Actors, NEW o \in Objects, NEW fs \in Scopes[o]
  PROVE  [actor |-> a, object |-> o, fields |-> fs, observed |-> ObservedAt(o)] \in UploadRequest
<1>1. o \in Sources
  BY DEF Sources
<1>2. fs \in SUBSET Fields
  BY <1>1, SellerAssumption
<1>3. ObservedAt(o) \in 0..MaxTime
  BY SellerAssumption DEF Tables, ObservedAt, NotObserved
<1> QED
  BY <1>2, <1>3 DEF UploadRequest

\* The first transaction of an upload: the key is taken, and the handler either
\* answers from the attachment it found or has an object to store.
LEMMA ReserveEffect ==
  ASSUME Tables, NEW c \in Callers, NEW k \in Keys, NEW r \in UploadRequest,
         ReserveUpload(c, k, r)
  PROVE  /\ keys' \in [Keys -> KeyRow \cup {FreeKey}]
         /\ uploads' \in [Callers -> UploadRow \cup {NoUpload}]
         /\ \A q \in Keys : keys'[q] # keys[q] =>
              \/ keys'[q].state = "STARTED"
              \/ /\ keys'[q].request = r
                 /\ r.object \in Attached /\ evidence[r.object].fields = r.fields
         /\ \A d \in Callers :
              uploads'[d] = uploads[d] \/ (uploads'[d] \in UploadRow /\ ~uploads'[d].stored)
<1>1. keys \in [Keys -> KeyRow \cup {FreeKey}] /\ uploads \in [Callers -> UploadRow \cup {NoUpload}]
  BY DEF Tables
<1>2. CASE /\ r.object \in Attached /\ evidence[r.object].fields = r.fields
           /\ complete_idempotency(k, r) /\ UNCHANGED uploads
  <2>1. keys' = [keys EXCEPT ![k] = [state |-> "COMPLETED", request |-> r]]
    BY <1>2 DEF complete_idempotency
  <2>2. /\ keys' \in [Keys -> KeyRow \cup {FreeKey}]
        /\ \A q \in Keys : keys'[q] # keys[q] => keys'[q].request = r
    BY <1>1, <2>1, KeyEffect
  <2> QED
    BY <1>1, <1>2, <2>2
<1>3. CASE /\ keys' = [keys EXCEPT ![k] = [state |-> "STARTED", request |-> r]]
           /\ uploads' = [uploads EXCEPT ![c] = [key |-> k, request |-> r, stored |-> FALSE]]
  <2>1. /\ keys' \in [Keys -> KeyRow \cup {FreeKey}]
        /\ \A q \in Keys : keys'[q] # keys[q] => keys'[q].state = "STARTED"
    BY <1>1, <1>3, KeyEffect
  <2> DEFINE row == [key |-> k, request |-> r, stored |-> FALSE]
  <2>2. row \in UploadRow /\ ~row.stored
    BY DEF UploadRow
  <2> HIDE DEF row
  <2>3. uploads' = [uploads EXCEPT ![c] = row]
    BY <1>3 DEF row
  <2>4. \A d \in Callers : uploads'[d] = IF d = c THEN row ELSE uploads[d]
    BY <1>1, <2>3
  <2>5. uploads' \in [Callers -> UploadRow \cup {NoUpload}]
    BY <1>1, <2>2, <2>3
  <2> QED
    BY <2>1, <2>2, <2>4, <2>5
<1> QED
  BY <1>2, <1>3 DEF ReserveUpload

\* A handler stores the object it was asked to store.
LEMMA PutEffect ==
  ASSUME Tables, NEW c \in Callers, PutObject(c)
  PROVE  /\ uploads[c] \in UploadRow /\ uploads[c].request.object \in Objects
         /\ uploads' \in [Callers -> UploadRow \cup {NoUpload}]
         /\ store' = store \cup {uploads[c].request.object}
         /\ uploads'[c].request = uploads[c].request
         /\ \A d \in Callers : d # c => uploads'[d] = uploads[d]
<1>1. uploads \in [Callers -> UploadRow \cup {NoUpload}] /\ uploads[c] \in UploadRow
  BY DEF Tables, PutObject
<1> DEFINE u   == uploads[c]
           row == [key |-> u.key, request |-> u.request, stored |-> TRUE]
<1>2. u.key \in Keys /\ u.request \in UploadRequest
  BY <1>1 DEF UploadRow
<1>3. row \in UploadRow /\ row.request = u.request /\ u.request.object \in Objects
  BY <1>2 DEF UploadRow, UploadRequest
<1>4. uploads' = [uploads EXCEPT ![c] = row]
  BY <1>1, StoredUpdate DEF PutObject
<1> HIDE DEF row
<1>5. uploads'[c] = row /\ uploads' \in [Callers -> UploadRow \cup {NoUpload}]
  BY <1>1, <1>3, <1>4
<1> QED
  BY <1>1, <1>3, <1>4, <1>5 DEF PutObject

\* The three outcomes of the second transaction of an upload: the object is
\* attached, it was attached meanwhile, or nothing of the draft changes.
FinalizeOutcome(c, r, k) ==
  /\ uploads[c] \in UploadRow /\ uploads[c].stored /\ uploads[c].request = r
  /\ r.object \in Objects /\ r.fields \in SUBSET Fields /\ r.observed \in 0..MaxTime
  /\ uploads' = [uploads EXCEPT ![c] = NoUpload]
  /\ \/ /\ seeded /\ StillEditable /\ r.object \notin Attached
        /\ Attach(r.object, r.fields, r.observed) /\ StoreParsed(r.object)
        /\ complete_idempotency(k, r)
     \/ /\ seeded /\ r.object \in Attached /\ evidence[r.object].fields = r.fields
        /\ complete_idempotency(k, r) /\ UNCHANGED <<evidence, sourceRows>>
     \/ UNCHANGED <<keys, evidence, sourceRows>>

\* The second transaction of an upload has one of these outcomes.
LEMMA FinalizeEffect ==
  ASSUME Tables, NEW c \in Callers, FinalizeUpload(c)
  PROVE  \E r \in UploadRequest, k \in Keys : FinalizeOutcome(c, r, k)
<1> DEFINE u == uploads[c]
<1>1. u \in UploadRow /\ u.stored
  BY DEF Tables, FinalizeUpload
<1>2. u.key \in Keys /\ u.request \in UploadRequest
  BY <1>1 DEF UploadRow
<1>3. /\ u.request.object \in Objects /\ u.request.fields \in SUBSET Fields
      /\ u.request.observed \in 0..MaxTime
  BY <1>2 DEF UploadRequest
<1> USE <1>2
<1> WITNESS u.request \in UploadRequest, u.key \in Keys
<1> QED
  BY <1>1, <1>2, <1>3, Zenon DEF FinalizeUpload, FinalizeOutcome

\* A parsed source is kept, and only its own row changes.
LEMMA ParsedEffect ==
  ASSUME sourceRows \in [Objects -> {"NONE", "PARSED", "PUBLISHED"}], NEW o \in Objects, StoreParsed(o)
  PROVE  /\ sourceRows' \in [Objects -> {"NONE", "PARSED", "PUBLISHED"}]
         /\ sourceRows'[o] # "NONE"
         /\ \A x \in Objects : sourceRows[x] # "NONE" => sourceRows'[x] = sourceRows[x]
  BY DEF StoreParsed

(***************************************************************************)
(* The rows keep their types.                                              *)
(***************************************************************************)
LEMMA TypeStep ==
  ASSUME Inv, [Next]_vars
  PROVE  Tables'
<1> USE DEF draftVars, packVars, uploadVars
<1>a. Tables /\ OneStory
  BY DEF Inv, StoryInv
<1>b. /\ Len(revisions) \in Nat /\ Len(packs) \in Nat /\ DOMAIN packs = 1..Len(packs)
      /\ DOMAIN revisions = 1..Len(revisions)
  BY <1>a DEF Tables
<1>c. \A i \in DOMAIN revisions : revisions[i].content \in Content
  <2>1. \A i \in DOMAIN revisions : revisions[i] \in RevisionRow
    BY <1>a DEF Tables
  <2> QED
    BY <2>1 DEF RevisionRow
<1>1. CASE EnsureDemo
  <2> DEFINE prow == [state |-> "SELLER_DRAFT", owner |-> Editor]
             rrow == [content |-> NoRevision, author |-> Editor]
             erow == [fields |-> {Summary}, observed |-> 1]
  <2>1. prow \in ProductRow /\ rrow \in RevisionRow /\ erow \in AttachmentRow
    BY SeedRows, SellerAssumption
    DEF ProductRow, ProductStates, DraftStates, EditableStates, RevisionRow, AttachmentRow
  <2> HIDE DEF prow, rrow, erow
  <2>2. product' \in [Products -> ProductRow]
    BY <1>1, <1>a, <2>1 DEF EnsureDemo, Tables, prow
  <2>3. revisions' \in Seq(RevisionRow)
    BY <1>1, <2>1 DEF EnsureDemo, rrow
  <2>4. Attached' = {StaleSource} /\ evidence'[StaleSource] = erow
    BY <1>1 DEF EnsureDemo, erow, Attached
  <2>5. StaleSource \in Sources
    BY SellerAssumption DEF Sources
  <2>6. packs' \in Seq(PackRow) /\ Len(packs') = 1 /\ DOMAIN packs' = {1}
    BY <1>1, SeedRows DEF EnsureDemo
  <2>7. suspensions' = {}
    BY <1>1, <1>a DEF EnsureDemo, Tables, Inv, StoryInv, EmptyTenant
  <2>8. currentPack' \in 0..Len(packs') /\ draftState' \in DraftStates /\ seeded' \in BOOLEAN
    BY <1>1, <2>6 DEF EnsureDemo, DraftStates, EditableStates
  <2> QED
    BY <1>1, <1>a, <2>1, <2>2, <2>3, <2>4, <2>5, <2>6, <2>7, <2>8 DEF EnsureDemo, Tables
<1>2. CASE ResetDemo
  <2>1. /\ revisions' \in Seq(RevisionRow) /\ submissions' \in Seq(SubmissionRow)
        /\ packs' \in Seq(PackRow) /\ Len(packs') = 0
    BY <1>2 DEF ResetDemo
  <2>2. Attached' = {} /\ draftState' \in DraftStates /\ product' \in [Products -> ProductRow]
    BY <1>2, SeedRows DEF ResetDemo, Attached, DraftStates, EditableStates
  <2>3. currentPack' \in 0..Len(packs') /\ suspensions' = {}
    BY <1>2, <2>1 DEF ResetDemo
  <2>4. keys' \in [Keys -> KeyRow \cup {FreeKey}]
    BY <1>2, SeedRows DEF ResetDemo
  <2> QED
    BY <1>2, <1>a, <2>1, <2>2, <2>3, <2>4 DEF ResetDemo, Tables
<1>3. ASSUME NEW a \in Actors, NEW p \in Products, ClaimProduct(a, p) PROVE Tables'
  <2>1. [state |-> "CLAIM_PENDING", owner |-> a] \in ProductRow
    BY DEF ProductRow, ProductStates
  <2>2. product' \in [Products -> ProductRow]
    BY <1>3, <1>a, <2>1 DEF ClaimProduct, Tables
  <2> QED
    BY <1>3, <1>a, <2>2 DEF ClaimProduct, Tables, Attached
<1>4. ASSUME NEW a \in Actors, NEW b, NEW content \in Bodies, PatchDraft(a, b, content)
      PROVE  Tables'
  <2>1. [content |-> content, author |-> a] \in RevisionRow
    BY SellerAssumption DEF RevisionRow
  <2>2. revisions' \in Seq(RevisionRow)
    BY <1>4, <1>a, <2>1 DEF PatchDraft, Tables
  <2>3. product' \in [Products -> ProductRow] /\ draftState' \in DraftStates
    BY <1>4, <1>a, SetStateEffect DEF PatchDraft, Tables, DraftStates, EditableStates
  <2> QED
    BY <1>4, <1>a, <2>2, <2>3 DEF PatchDraft, Tables, Attached
<1>5. ASSUME NEW a \in Actors, NEW s \in References, NEW fs \in Scopes[s],
             AttachEvidence(a, s, fs, ObservedAt(s))
      PROVE  Tables'
  <2>1. s \in Sources /\ ObservedAt(s) \in 0..MaxTime
    BY <1>a, SellerAssumption DEF Sources, ObservedAt, Tables, NotObserved
  <2>2. fs \in SUBSET Fields
    BY <2>1, SellerAssumption
  <2>3. Attached' \subseteq Sources /\ \A x \in Attached' : evidence'[x] \in AttachmentRow
    BY <1>5, <1>a, <2>1, <2>2, AttachType DEF AttachEvidence
  <2> QED
    BY <1>5, <1>a, <2>3 DEF AttachEvidence, Tables
<1>6. ASSUME NEW c \in Callers, NEW k \in Keys, NEW r \in UploadRequest, ReserveUpload(c, k, r)
      PROVE  Tables'
  BY <1>6, <1>a, ReserveEffect DEF ReserveUpload, Tables, Attached
<1>7. ASSUME NEW c \in Callers, PutObject(c) PROVE Tables'
  BY <1>7, <1>a, PutEffect DEF PutObject, Tables, Attached
<1>8. ASSUME NEW c \in Callers, AbandonUpload(c) PROVE Tables'
  BY <1>8, <1>a DEF AbandonUpload, Tables, Attached
<1>9. ASSUME NEW c \in Callers, FinalizeUpload(c) PROVE Tables'
  <2>1. PICK r \in UploadRequest, k \in Keys : FinalizeOutcome(c, r, k)
    BY <1>9, <1>a, FinalizeEffect
  <2>2. uploads' \in [Callers -> UploadRow \cup {NoUpload}]
    BY <1>a, <2>1 DEF FinalizeOutcome, Tables
  <2>3. keys' \in [Keys -> KeyRow \cup {FreeKey}]
    BY <1>a, <2>1, KeyEffect DEF FinalizeOutcome, complete_idempotency, Tables
  <2>4. /\ sourceRows' \in [Objects -> {"NONE", "PARSED", "PUBLISHED"}]
        /\ Attached' \subseteq Sources /\ \A x \in Attached' : evidence'[x] \in AttachmentRow
    <3>1. CASE /\ r.object \notin Attached
               /\ Attach(r.object, r.fields, r.observed) /\ StoreParsed(r.object)
      <4>1. /\ r.object \in Objects /\ r.object \in Sources
            /\ r.fields \in SUBSET Fields /\ r.observed \in 0..MaxTime
        BY <2>1 DEF FinalizeOutcome, Sources
      <4>2. sourceRows' \in [Objects -> {"NONE", "PARSED", "PUBLISHED"}]
        BY <1>a, <3>1, <4>1, ParsedEffect DEF Tables
      <4>3. Attached' \subseteq Sources /\ \A x \in Attached' : evidence'[x] \in AttachmentRow
        BY <1>a, <3>1, <4>1, AttachType
      <4> QED
        BY <4>2, <4>3
    <3>2. CASE UNCHANGED <<evidence, sourceRows>>
      BY <1>a, <3>2 DEF Tables, Attached
    <3> QED
      BY <2>1, <3>1, <3>2 DEF FinalizeOutcome
  <2> QED
    BY <1>9, <1>a, <2>2, <2>3, <2>4 DEF FinalizeUpload, Tables
<1>10. ASSUME NEW a \in Actors, NEW content \in Content, SubmitReview(a, content) PROVE Tables'
  <2>1. product' \in [Products -> ProductRow] /\ draftState' \in DraftStates
    BY <1>10, <1>a, SetStateEffect DEF SubmitReview, Tables, DraftStates, EditableStates
  <2>2. [content |-> content, by |-> a, status |-> "PENDING",
         decision |-> "NONE", reviewer |-> NoActor] \in SubmissionRow
    BY DEF SubmissionRow
  <2>3. submissions' \in Seq(SubmissionRow)
    <3> DEFINE row == [content |-> content, by |-> a, status |-> "PENDING",
                       decision |-> "NONE", reviewer |-> NoActor]
    <3>1. submissions' = submissions \/ submissions' = Append(submissions, row)
      BY <1>10, Zenon DEF SubmitReview
    <3>2. row \in SubmissionRow /\ submissions \in Seq(SubmissionRow)
      BY <1>a, <2>2 DEF Tables
    <3> HIDE DEF row
    <3> QED
      BY <3>1, <3>2
  <2> QED
    BY <1>10, <1>a, <2>1, <2>3 DEF SubmitReview, Tables, Attached
<1>11. ASSUME NEW a \in Actors, NEW content, NEW d \in {"APPROVE", "REJECT", "REQUEST_CHANGES"},
              ReviewDecision(a, content, d)
       PROVE  Tables'
  <2>1. product' \in [Products -> ProductRow] /\ draftState' \in DraftStates
    BY <1>11, <1>a, SetStateEffect DEF ReviewDecision, Tables, DraftStates, EditableStates
  <2>2. submissions' \in Seq(SubmissionRow)
    BY <1>11, <1>a, ReviewEffect
  <2> QED
    BY <1>11, <1>a, <2>1, <2>2 DEF ReviewDecision, Tables, Attached
<1>12. ASSUME NEW a \in Actors, NEW content \in Content, Publish(a, content) PROVE Tables'
  <2>1. product' \in [Products -> ProductRow] /\ draftState' \in DraftStates
    BY <1>12, <1>a, SetStateEffect DEF Publish, Tables, DraftStates
  <2>2. packs' \in Seq(PackRow) /\ Len(packs') = Len(packs) + 1
    BY <1>12, <1>a, PublishEffect DEF Publish
  <2>3. currentPack' \in 0..Len(packs') /\ suspensions' \subseteq DOMAIN packs'
    BY <1>12, <1>a, <1>b, <2>2 DEF Publish, Tables
  <2>4. sourceRows' \in [Objects -> {"NONE", "PARSED", "PUBLISHED"}]
    BY <1>12, <1>a DEF Publish, PublishSources, Tables
  <2> QED
    BY <1>12, <1>a, <2>1, <2>2, <2>3, <2>4 DEF Publish, Tables, Attached
<1>13. ASSUME NEW a, NEW i, Suspend(a, i) PROVE Tables'
  BY <1>13, <1>a DEF Suspend, Tables, Attached
<1>14. CASE Tick
  BY <1>14, <1>a, SellerAssumption DEF Tick, Tables, Attached
<1>15. CASE UNCHANGED vars
  BY <1>15, <1>a DEF vars, Tables, Attached
<1> QED
  BY <1>a, <1>c, <1>1, <1>2, <1>3, <1>4, <1>5, <1>6, <1>7, <1>8, <1>9, <1>10, <1>11, <1>12, <1>13,
     <1>14, <1>15, RequestType DEF Next, Upload

(***************************************************************************)
(* Review: what is frozen is what was submitted, what is published was     *)
(* approved.                                                               *)
(***************************************************************************)
LEMMA ReviewStep ==
  ASSUME Inv, [Next]_vars
  PROVE  ReviewInv'
<1> USE DEF draftVars, packVars, uploadVars
<1>a. Tables /\ OneStory /\ FrozenIsSubmitted /\ ApprovalIsDecided /\ PublishedIsReviewed
  BY DEF Inv, StoryInv, ReviewInv
<1>b. /\ Len(submissions) \in Nat /\ DOMAIN submissions = 1..Len(submissions)
      /\ Len(packs) \in Nat /\ DOMAIN packs = 1..Len(packs)
  BY <1>a DEF Tables
<1>c. \A i \in DOMAIN revisions : revisions[i].content \in Content
  <2>1. \A i \in DOMAIN revisions : revisions[i] \in RevisionRow
    BY <1>a DEF Tables
  <2> QED
    BY <2>1 DEF RevisionRow
<1>1. ASSUME UNCHANGED <<draftState, revisions, submissions, packs>> PROVE ReviewInv'
  BY <1>1, <1>a DEF ReviewInv, FrozenIsSubmitted, ApprovalIsDecided, PublishedIsReviewed, Latest, Current
<1>2. CASE EnsureDemo
  <2>1. draftState' \in EditableStates /\ Len(packs') = 1 /\ submissions' = submissions
    BY <1>2 DEF EnsureDemo, EditableStates
  <2> QED
    BY <1>a, <2>1 DEF ReviewInv, FrozenIsSubmitted, ApprovalIsDecided, PublishedIsReviewed
<1>3. CASE ResetDemo
  <2>1. draftState' \in EditableStates /\ Len(packs') = 0 /\ DOMAIN submissions' = {}
    BY <1>3 DEF ResetDemo, EditableStates
  <2> QED
    BY <2>1 DEF ReviewInv, FrozenIsSubmitted, ApprovalIsDecided, PublishedIsReviewed
<1>4. ASSUME NEW a, NEW b, NEW content, PatchDraft(a, b, content) PROVE ReviewInv'
  <2>1. draftState' \in EditableStates /\ packs' = packs /\ submissions' = submissions
    BY <1>4 DEF PatchDraft, SetState, EditableStates
  <2> QED
    BY <1>a, <2>1 DEF ReviewInv, FrozenIsSubmitted, ApprovalIsDecided, PublishedIsReviewed
<1>5. ASSUME NEW a \in Actors, NEW content \in Content, SubmitReview(a, content) PROVE ReviewInv'
  <2> DEFINE row == [content |-> content, by |-> a, status |-> "PENDING",
                     decision |-> "NONE", reviewer |-> NoActor]
  <2>1. UNCHANGED <<revisions, packs>> /\ content = Current.content
    BY <1>5 DEF SubmitReview
  <2>2. CASE SetState("VALIDATION_CONFLICT") /\ UNCHANGED submissions
    <3>1. draftState' \in EditableStates
      BY <2>2 DEF SetState, EditableStates
    <3> QED
      BY <1>a, <2>1, <2>2, <3>1 DEF ReviewInv, FrozenIsSubmitted, ApprovalIsDecided, PublishedIsReviewed
  <2>3. CASE submissions' = Append(submissions, row)
    <3>1. row \in SubmissionRow /\ row.content = content /\ row.decision = "NONE"
      BY DEF SubmissionRow
    <3>2. submissions \in Seq(SubmissionRow)
      BY <1>a DEF Tables
    <3> HIDE DEF row
    <3> DEFINE n == Len(submissions)
    <3>3. /\ DOMAIN submissions' = 1 .. n + 1 /\ Len(submissions') = n + 1 /\ submissions' # <<>>
          /\ submissions'[n + 1] = row
          /\ \A j \in 1..n : submissions'[j] = submissions[j]
      BY <1>b, <2>3, <3>1, <3>2
    <3>4. FrozenIsSubmitted'
      BY <2>1, <3>1, <3>3 DEF FrozenIsSubmitted, Latest, Current
    <3>5. ApprovalIsDecided'
      BY <1>a, <1>b, <3>1, <3>3 DEF ApprovalIsDecided
    <3>6. PublishedIsReviewed'
      BY <1>a, <1>b, <2>1, <3>3 DEF PublishedIsReviewed
    <3> QED
      BY <3>4, <3>5, <3>6 DEF ReviewInv
  <2> QED
    BY <1>5, <2>2, <2>3 DEF SubmitReview
<1>6. ASSUME NEW a \in Actors, NEW content, NEW d \in {"APPROVE", "REJECT", "REQUEST_CHANGES"},
             ReviewDecision(a, content, d)
      PROVE  ReviewInv'
  <2> DEFINE n == Len(submissions)
  <2>1. /\ UNCHANGED <<revisions, packs>> /\ draftState \notin EditableStates
        /\ Latest.status = "PENDING"
    BY <1>6 DEF ReviewDecision, EditableStates
  <2>2. /\ submissions' \in Seq(SubmissionRow) /\ Len(submissions') = n /\ n \in Nat \ {0}
        /\ submissions'[n].content = submissions[n].content
        /\ submissions'[n].status = "COMPLETED"
        /\ \A j \in 1..n : j # n => submissions'[j] = submissions[j]
    BY <1>6, <1>a, <1>b, ReviewEffect DEF Latest
  <2>3. DOMAIN submissions' = 1..n /\ submissions' # <<>>
    BY <2>2
  <2>4. submissions[n].decision # "APPROVE"
    <3>1. submissions[n].status = "PENDING"
      BY <2>1 DEF Latest
    <3>2. n \in 1..n
      BY <2>2
    <3> QED
      BY <1>a, <1>b, <3>1, <3>2 DEF ApprovalIsDecided
  <2>5. FrozenIsSubmitted'
    BY <1>a, <2>1, <2>2, <2>3 DEF FrozenIsSubmitted, Latest, Current
  <2>6. ApprovalIsDecided'
    BY <1>a, <1>b, <2>2, <2>3 DEF ApprovalIsDecided
  <2>7. PublishedIsReviewed'
    <3> SUFFICES ASSUME NEW i \in 2..Len(packs)
                 PROVE  \E j \in DOMAIN submissions' :
                          /\ submissions'[j].decision = "APPROVE"
                          /\ submissions'[j].content = packs[i].content
      BY <2>1 DEF PublishedIsReviewed
    <3>1. PICK j \in DOMAIN submissions : /\ submissions[j].decision = "APPROVE"
                                          /\ submissions[j].content = packs[i].content
      BY <1>a DEF PublishedIsReviewed
    <3>2. submissions'[j] = submissions[j]
      BY <1>b, <2>2, <2>4, <3>1
    <3> QED
      BY <1>b, <2>3, <3>1, <3>2
  <2> QED
    BY <2>5, <2>6, <2>7 DEF ReviewInv
<1>7. ASSUME NEW a, NEW content \in Content, Publish(a, content) PROVE ReviewInv'
  <2> DEFINE n == Len(packs)
  <2>1. /\ UNCHANGED <<revisions, submissions>> /\ draftState \notin EditableStates
        /\ content = Current.content /\ submissions # <<>> /\ Latest.decision = "APPROVE"
    BY <1>7 DEF Publish, EditableStates
  <2>2. Latest.content = content /\ Len(submissions) \in DOMAIN submissions
    BY <1>a, <1>b, <2>1 DEF FrozenIsSubmitted, Tables
  <2>3. /\ n \in Nat /\ Len(packs') = n + 1 /\ packs'[n + 1].content = content
        /\ \A i \in 1..n : packs'[i].content = packs[i].content
    BY <1>7, <1>a, PublishEffect DEF Publish
  <2>4. FrozenIsSubmitted' /\ ApprovalIsDecided'
    BY <1>a, <2>1 DEF FrozenIsSubmitted, ApprovalIsDecided, Latest, Current
  <2>5. ASSUME NEW i \in 2 .. n + 1
        PROVE  \E j \in DOMAIN submissions : /\ submissions[j].decision = "APPROVE"
                                             /\ submissions[j].content = packs'[i].content
    <3>1. CASE i = n + 1
      BY <2>1, <2>2, <2>3, <3>1 DEF Latest
    <3>2. CASE i # n + 1
      BY <1>a, <2>3, <3>2 DEF PublishedIsReviewed
    <3> QED
      BY <3>1, <3>2
  <2> QED
    BY <2>1, <2>3, <2>4, <2>5 DEF ReviewInv, PublishedIsReviewed
<1>8. ASSUME NEW a, NEW p, ClaimProduct(a, p) PROVE ReviewInv'
  BY <1>1, <1>8 DEF ClaimProduct
<1>9. ASSUME NEW a, NEW s, NEW fs, NEW o, AttachEvidence(a, s, fs, o) PROVE ReviewInv'
  BY <1>1, <1>9 DEF AttachEvidence
<1>10. CASE Upload
  <2>1. ASSUME NEW c, NEW k, NEW r, ReserveUpload(c, k, r) PROVE ReviewInv'
    BY <1>1, <2>1 DEF ReserveUpload
  <2>2. ASSUME NEW c, PutObject(c) \/ AbandonUpload(c) PROVE ReviewInv'
    BY <1>1, <2>2 DEF PutObject, AbandonUpload
  <2>3. ASSUME NEW c, FinalizeUpload(c) PROVE ReviewInv'
    BY <1>1, <2>3 DEF FinalizeUpload
  <2> QED
    BY <1>10, <2>1, <2>2, <2>3 DEF Upload
<1>11. ASSUME NEW a, NEW i, Suspend(a, i) PROVE ReviewInv'
  BY <1>1, <1>11 DEF Suspend
<1>12. CASE Tick \/ UNCHANGED vars
  BY <1>1, <1>12 DEF Tick, vars
<1> QED
  BY <1>c, <1>2, <1>3, <1>4, <1>5, <1>6, <1>7, <1>8, <1>9, <1>10, <1>11, <1>12 DEF Next

(***************************************************************************)
(* One story: the product, its draft and the chain of its versions.        *)
(***************************************************************************)
LEMMA StoryStep ==
  ASSUME Inv, [Next]_vars
  PROVE  StoryInv'
<1> USE DEF draftVars, packVars, uploadVars
<1>a. Tables /\ EmptyTenant /\ StatesAgree /\ PackChain /\ Drafted \in Products
  BY SeedRows DEF Inv, StoryInv, OneStory
<1>b. Len(packs) \in Nat /\ DOMAIN packs = 1..Len(packs)
  BY <1>a DEF Tables
<1>c. \A i \in DOMAIN revisions : revisions[i].content \in Content
  <2>1. \A i \in DOMAIN revisions : revisions[i] \in RevisionRow
    BY <1>a DEF Tables
  <2> QED
    BY <2>1 DEF RevisionRow
<1>d. ASSUME UNCHANGED <<seeded, packs, currentPack>> PROVE PackChain'
  BY <1>a, <1>d DEF PackChain
<1>1. ASSUME UNCHANGED <<seeded, product, draftState, packs, currentPack>>, keys' = keys \/ seeded
      PROVE  StoryInv'
  <2>1. StatesAgree' /\ EmptyTenant'
    BY <1>a, <1>1 DEF StatesAgree, EmptyTenant
  <2> QED
    BY <1>d, <1>1, <2>1 DEF StoryInv, OneStory
<1>2. ASSUME NEW s \in DraftStates, seeded, SetState(s), UNCHANGED <<seeded, packs, currentPack>>
      PROVE  StoryInv'
  <2>1. product'[Drafted].state = draftState'
    BY <1>a, <1>2, SetStateEffect DEF Tables
  <2> QED
    BY <1>d, <1>2, <2>1 DEF StoryInv, OneStory, EmptyTenant, StatesAgree
<1>3. CASE EnsureDemo
  <2>1. product'[Drafted] = [state |-> "SELLER_DRAFT", owner |-> Editor]
    BY <1>a, <1>3 DEF EnsureDemo, Tables
  <2>2. packs' = <<FirstPack>> /\ seeded' = TRUE /\ currentPack' = 1 /\ draftState' = "SELLER_DRAFT"
    BY <1>3 DEF EnsureDemo
  <2>3. DOMAIN packs' = {1} /\ Len(packs') = 1 /\ packs'[1] = FirstPack
    BY <2>2
  <2>4. PackChain'
    BY <2>2, <2>3, SeedRows DEF PackChain
  <2> QED
    BY <2>1, <2>2, <2>4 DEF StoryInv, OneStory, EmptyTenant, StatesAgree
<1>4. CASE ResetDemo
  BY <1>4 DEF ResetDemo, StoryInv, OneStory, EmptyTenant, StatesAgree, PackChain
<1>5. ASSUME NEW a, NEW p \in Products, ClaimProduct(a, p) PROVE StoryInv'
  <2>1. /\ product' = [product EXCEPT ![p] = [state |-> "CLAIM_PENDING", owner |-> a]]
        /\ product[p].state \in {"UNCLAIMED", "CLAIM_DENIED"} /\ seeded
        /\ UNCHANGED <<seeded, draftState, packs, currentPack, keys>>
    BY <1>5 DEF ClaimProduct
  <2>2. p # Drafted
    BY <1>a, <2>1 DEF StatesAgree, Tables, DraftStates, EditableStates
  <2>3. product'[Drafted] = product[Drafted]
    BY <1>a, <2>1, <2>2 DEF Tables
  <2> QED
    BY <1>a, <1>d, <2>1, <2>3 DEF StoryInv, OneStory, EmptyTenant, StatesAgree
<1>6. ASSUME NEW a, NEW b, NEW content, PatchDraft(a, b, content) PROVE StoryInv'
  BY <1>2, <1>6 DEF PatchDraft, DraftStates, EditableStates
<1>7. ASSUME NEW a, NEW content, SubmitReview(a, content) PROVE StoryInv'
  BY <1>2, <1>7 DEF SubmitReview, DraftStates, EditableStates
<1>8. ASSUME NEW a, NEW content, NEW d, ReviewDecision(a, content, d) PROVE StoryInv'
  BY <1>2, <1>8 DEF ReviewDecision, DraftStates, EditableStates
<1>9. ASSUME NEW a, NEW content \in Content, Publish(a, content) PROVE StoryInv'
  <2> DEFINE n == Len(packs)
  <2>1. seeded /\ seeded' = seeded /\ SetState("PUBLISHED") /\ currentPack' = n + 1
    BY <1>9 DEF Publish
  <2>2. product'[Drafted].state = draftState'
    BY <1>a, <2>1, SetStateEffect DEF Tables, DraftStates
  <2>3. /\ n \in Nat /\ packs' \in Seq(PackRow) /\ Len(packs') = n + 1
        /\ packs'[n + 1].supersededBy = 0
        /\ \A i \in 1..n : packs'[i].supersededBy = IF i = n THEN n + 1 ELSE packs[i].supersededBy
    BY <1>a, <1>9, <2>1, PublishEffect DEF OneStory
  <2>4. DOMAIN packs' = 1 .. n + 1
    BY <2>3
  <2>5. \A i \in 1..n : packs'[i].supersededBy = i + 1
    BY <1>a, <1>b, <2>1, <2>3 DEF PackChain
  <2>6. PackChain'
    BY <2>1, <2>3, <2>4, <2>5 DEF PackChain
  <2> QED
    BY <2>1, <2>2, <2>6 DEF StoryInv, OneStory, EmptyTenant, StatesAgree
<1>10. ASSUME NEW a, NEW s, NEW fs, NEW o, AttachEvidence(a, s, fs, o) PROVE StoryInv'
  BY <1>1, <1>10 DEF AttachEvidence
<1>11. ASSUME NEW c, NEW k, NEW r, ReserveUpload(c, k, r) PROVE StoryInv'
  BY <1>1, <1>11 DEF ReserveUpload
<1>12. ASSUME NEW c, PutObject(c) \/ AbandonUpload(c) PROVE StoryInv'
  BY <1>1, <1>12 DEF PutObject, AbandonUpload
<1>13. ASSUME NEW c \in Callers, FinalizeUpload(c) PROVE StoryInv'
  BY <1>a, <1>1, <1>13, FinalizeEffect DEF FinalizeUpload, FinalizeOutcome
<1>14. ASSUME NEW a, NEW i, Suspend(a, i) PROVE StoryInv'
  BY <1>1, <1>14 DEF Suspend
<1>15. CASE Tick \/ UNCHANGED vars
  BY <1>1, <1>15 DEF Tick, vars
<1> QED
  BY <1>c, <1>3, <1>4, <1>5, <1>6, <1>7, <1>8, <1>9, <1>10, <1>11, <1>12, <1>13, <1>14, <1>15
  DEF Next, Upload

(***************************************************************************)
(* Evidence: what a row names exists in the bucket and in the database.    *)
(***************************************************************************)
LEMMA EvidenceStep ==
  ASSUME Inv, [Next]_vars
  PROVE  EvidenceInv'
<1> USE DEF draftVars, packVars, uploadVars
<1>a. Tables /\ OneStory /\ EmptyTenant /\ StoredIsThere /\ CitedObjectsExist /\ CompletedUploadIsAttached
  BY DEF Inv, StoryInv, EvidenceInv, EvidenceExists
<1>b. /\ Len(packs) \in Nat /\ DOMAIN packs = 1..Len(packs)
      /\ uploads \in [Callers -> UploadRow \cup {NoUpload}]
      /\ sourceRows \in [Objects -> {"NONE", "PARSED", "PUBLISHED"}]
      /\ keys \in [Keys -> KeyRow \cup {FreeKey}]
  BY <1>a DEF Tables
<1>c. \A i \in DOMAIN revisions : revisions[i].content \in Content
  <2>1. \A i \in DOMAIN revisions : revisions[i] \in RevisionRow
    BY <1>a DEF Tables
  <2> QED
    BY <2>1 DEF RevisionRow
<1>d. ASSUME UNCHANGED <<uploads, store>> PROVE StoredIsThere'
  BY <1>a, <1>d DEF StoredIsThere
<1>e. ASSUME UNCHANGED <<evidence, store, sourceRows, packs>> PROVE CitedObjectsExist'
  BY <1>a, <1>e DEF CitedObjectsExist, Attached, Cited
<1>f. ASSUME UNCHANGED <<keys, evidence>> PROVE CompletedUploadIsAttached'
  BY <1>a, <1>f DEF CompletedUploadIsAttached, Attached
<1>1. ASSUME UNCHANGED <<uploads, store, evidence, sourceRows, packs, keys>> PROVE EvidenceInv'
  BY <1>1, <1>d, <1>e, <1>f DEF EvidenceInv, EvidenceExists
<1>2. CASE EnsureDemo
  <2>1. UNCHANGED <<uploads, store, sourceRows, keys>> /\ keys = NoKeys /\ packs' = <<FirstPack>>
    BY <1>2, <1>a DEF EnsureDemo, EmptyTenant
  <2>2. Attached' = {StaleSource} /\ StaleSource \notin Objects
    BY <1>2, SellerAssumption DEF EnsureDemo, Attached
  <2>3. DOMAIN packs' = {1} /\ packs'[1] = FirstPack
    BY <2>1
  <2>4. CitedObjectsExist'
    BY <2>2, <2>3, SeedRows DEF CitedObjectsExist, Cited
  <2>5. CompletedUploadIsAttached'
    BY <2>1 DEF CompletedUploadIsAttached, NoKeys
  <2> QED
    BY <1>d, <2>1, <2>4, <2>5 DEF EvidenceInv, EvidenceExists
<1>3. CASE ResetDemo
  <2>1. UNCHANGED <<uploads, store>> /\ keys' = NoKeys /\ DOMAIN packs' = {} /\ Attached' = {}
    BY <1>3, SeedRows DEF ResetDemo, Attached
  <2>2. CitedObjectsExist'
    BY <2>1 DEF CitedObjectsExist
  <2>3. CompletedUploadIsAttached'
    BY <2>1 DEF CompletedUploadIsAttached, NoKeys
  <2> QED
    BY <1>d, <2>1, <2>2, <2>3 DEF EvidenceInv, EvidenceExists
<1>4. ASSUME NEW a, NEW s \in References, NEW fs, NEW o, AttachEvidence(a, s, fs, o)
      PROVE  EvidenceInv'
  <2>1. /\ UNCHANGED <<uploads, store, sourceRows, packs, keys>>
        /\ Attached' = Attached \cup {s} /\ \A x \in Attached : evidence'[x] = evidence[x]
    BY <1>4, AttachEffect DEF AttachEvidence
  <2>2. s \notin Objects
    BY SellerAssumption
  <2>3. CitedObjectsExist'
    BY <1>a, <2>1, <2>2 DEF CitedObjectsExist, Cited
  <2>4. CompletedUploadIsAttached'
    BY <1>a, <2>1 DEF CompletedUploadIsAttached
  <2> QED
    BY <1>d, <2>1, <2>3, <2>4 DEF EvidenceInv, EvidenceExists
<1>5. ASSUME NEW c \in Callers, NEW k \in Keys, NEW r \in UploadRequest, ReserveUpload(c, k, r)
      PROVE  EvidenceInv'
  <2>1. UNCHANGED <<store, evidence, sourceRows, packs>>
    BY <1>5 DEF ReserveUpload
  <2>2. /\ \A q \in Keys : keys'[q] # keys[q] =>
             \/ keys'[q].state = "STARTED"
             \/ /\ keys'[q].request = r
                /\ r.object \in Attached /\ evidence[r.object].fields = r.fields
        /\ \A d \in Callers :
             uploads'[d] = uploads[d] \/ (uploads'[d] \in UploadRow /\ ~uploads'[d].stored)
    BY <1>a, <1>5, ReserveEffect
  <2>3. StoredIsThere'
    BY <1>a, <2>1, <2>2, Zenon DEF StoredIsThere
  <2>4. CompletedUploadIsAttached'
    BY <1>a, <2>1, <2>2 DEF CompletedUploadIsAttached, Attached
  <2> QED
    BY <1>e, <2>1, <2>3, <2>4 DEF EvidenceInv, EvidenceExists
<1>6. ASSUME NEW c \in Callers, PutObject(c) PROVE EvidenceInv'
  <2>1. UNCHANGED <<keys, evidence, sourceRows, packs>>
    BY <1>6 DEF PutObject
  <2>2. /\ store' = store \cup {uploads[c].request.object}
        /\ uploads'[c].request = uploads[c].request
        /\ \A d \in Callers : d # c => uploads'[d] = uploads[d]
    BY <1>a, <1>6, PutEffect
  <2>3. \A d \in Callers : (uploads[d] # NoUpload /\ uploads[d].stored => uploads[d].request.object \in store)
    BY <1>a, Zenon DEF StoredIsThere
  <2>4. \A d \in Callers : (uploads'[d] # NoUpload /\ uploads'[d].stored => uploads'[d].request.object \in store')
    BY <2>2, <2>3
  <2>5. StoredIsThere'
    BY <2>4, Zenon DEF StoredIsThere
  <2>6. CitedObjectsExist'
    BY <1>a, <2>1, <2>2 DEF CitedObjectsExist, Attached, Cited
  <2> QED
    BY <1>f, <2>1, <2>5, <2>6 DEF EvidenceInv, EvidenceExists
<1>7. ASSUME NEW c \in Callers, uploads' = [uploads EXCEPT ![c] = NoUpload], store' = store
      PROVE  StoredIsThere'
  <2>1. \A d \in Callers : uploads'[d] = NoUpload \/ uploads'[d] = uploads[d]
    BY <1>b, <1>7
  <2>2. \A d \in Callers : (uploads[d] # NoUpload /\ uploads[d].stored => uploads[d].request.object \in store)
    BY <1>a, Zenon DEF StoredIsThere
  <2>3. \A d \in Callers : (uploads'[d] # NoUpload /\ uploads'[d].stored => uploads'[d].request.object \in store')
    BY <1>7, <2>1, <2>2
  <2> QED
    BY <2>3, Zenon DEF StoredIsThere
<1>8. ASSUME NEW c \in Callers, AbandonUpload(c) PROVE EvidenceInv'
  BY <1>7, <1>e, <1>f, <1>8 DEF AbandonUpload, EvidenceInv, EvidenceExists
<1>9. ASSUME NEW c \in Callers, FinalizeUpload(c) PROVE EvidenceInv'
  <2>1. PICK r \in UploadRequest, k \in Keys : FinalizeOutcome(c, r, k)
    BY <1>9, <1>a, FinalizeEffect
  <2>2. UNCHANGED <<packs, store>>
    BY <1>9 DEF FinalizeUpload
  <2>3. StoredIsThere'
    BY <1>7, <2>1, <2>2 DEF FinalizeOutcome
  <2>4. CASE /\ r.object \notin Attached
             /\ Attach(r.object, r.fields, r.observed) /\ StoreParsed(r.object)
             /\ complete_idempotency(k, r)
    <3>1. r.object \in Objects /\ r.object \in store
      <4>1. uploads[c] \in UploadRow /\ uploads[c].stored /\ uploads[c].request = r /\ r.object \in Objects
        BY <2>1 DEF FinalizeOutcome
      <4>2. uploads[c] # NoUpload
        BY <4>1, RowsAreNotEmpty
      <4> QED
        BY <1>a, <4>1, <4>2, Zenon DEF StoredIsThere
    <3>2. /\ Attached' = Attached \cup {r.object}
          /\ evidence'[r.object] = [fields |-> r.fields, observed |-> r.observed]
          /\ \A x \in Attached : evidence'[x] = evidence[x]
      BY <2>4, AttachEffect
    <3>3. /\ sourceRows'[r.object] # "NONE"
          /\ \A x \in Objects : sourceRows[x] # "NONE" => sourceRows'[x] = sourceRows[x]
      BY <1>b, <2>4, <3>1, ParsedEffect
    <3>4. \A q \in Keys : keys'[q] = IF q = k THEN [state |-> "COMPLETED", request |-> r] ELSE keys[q]
      BY <1>b, <2>4, KeyEffect DEF complete_idempotency
    <3>5. evidence'[r.object].fields = r.fields
      BY <3>2
    <3>6. CitedObjectsExist'
      BY <1>a, <2>2, <3>1, <3>2, <3>3 DEF CitedObjectsExist, Cited
    <3>7. CompletedUploadIsAttached'
      BY <1>a, <3>2, <3>4, <3>5 DEF CompletedUploadIsAttached
    <3> QED
      BY <2>3, <3>6, <3>7 DEF EvidenceInv, EvidenceExists
  <2>5. CASE /\ r.object \in Attached /\ evidence[r.object].fields = r.fields
             /\ complete_idempotency(k, r) /\ UNCHANGED <<evidence, sourceRows>>
    <3>1. \A q \in Keys : keys'[q] = IF q = k THEN [state |-> "COMPLETED", request |-> r] ELSE keys[q]
      BY <1>b, <2>5, KeyEffect DEF complete_idempotency
    <3>2. CompletedUploadIsAttached'
      BY <1>a, <2>5, <3>1 DEF CompletedUploadIsAttached, Attached
    <3> QED
      BY <1>e, <2>2, <2>3, <2>5, <3>2 DEF EvidenceInv, EvidenceExists
  <2>6. CASE UNCHANGED <<keys, evidence, sourceRows>>
    BY <1>e, <1>f, <2>2, <2>3, <2>6 DEF EvidenceInv, EvidenceExists
  <2> QED
    BY <2>1, <2>4, <2>5, <2>6 DEF FinalizeOutcome
<1>10. ASSUME NEW a, NEW content \in Content, Publish(a, content) PROVE EvidenceInv'
  <2> DEFINE n == Len(packs)
  <2>1. /\ UNCHANGED <<uploads, store, evidence, keys>> /\ seeded
        /\ PublishSources(content)
        /\ \A o \in Cited(content) \cap Objects : sourceRows[o] # "NONE"
    BY <1>10 DEF Publish
  <2>2. /\ n \in Nat /\ packs' \in Seq(PackRow) /\ Len(packs') = n + 1
        /\ packs'[n + 1].content = content
        /\ \A i \in 1..n : packs'[i].content = packs[i].content
    BY <1>a, <1>10, <2>1, PublishEffect
  <2>3. DOMAIN packs' = 1 .. n + 1
    BY <2>2
  <2>4. \A o \in Objects : sourceRows'[o] = IF o \in Cited(content) THEN "PUBLISHED" ELSE sourceRows[o]
    BY <2>1 DEF PublishSources
  <2>5. \A o \in Attached' \cap Objects : o \in store' /\ sourceRows'[o] # "NONE"
    BY <1>a, <2>1, <2>4 DEF CitedObjectsExist, Attached
  <2>6. ASSUME NEW i \in 1 .. n + 1, NEW o \in Cited(packs'[i].content) \cap Objects
        PROVE  sourceRows'[o] = "PUBLISHED"
    <3>1. CASE i = n + 1
      BY <2>2, <2>4, <2>6, <3>1
    <3>2. CASE i # n + 1
      <4>1. i \in DOMAIN packs /\ packs'[i].content = packs[i].content
        BY <1>b, <2>2, <3>2
      <4>2. sourceRows[o] = "PUBLISHED"
        BY <1>a, <2>6, <4>1 DEF CitedObjectsExist
      <4> QED
        BY <2>4, <4>2
    <3> QED
      BY <3>1, <3>2
  <2>7. CitedObjectsExist'
    BY <2>3, <2>5, <2>6 DEF CitedObjectsExist, Cited
  <2> QED
    BY <1>d, <1>f, <2>1, <2>7 DEF EvidenceInv, EvidenceExists
<1>11. ASSUME NEW a, NEW p, ClaimProduct(a, p) PROVE EvidenceInv'
  BY <1>1, <1>11 DEF ClaimProduct
<1>12. ASSUME NEW a, NEW b, NEW content, PatchDraft(a, b, content) PROVE EvidenceInv'
  BY <1>1, <1>12 DEF PatchDraft
<1>13. ASSUME NEW a, NEW content, SubmitReview(a, content) PROVE EvidenceInv'
  BY <1>1, <1>13 DEF SubmitReview
<1>14. ASSUME NEW a, NEW content, NEW d, ReviewDecision(a, content, d) PROVE EvidenceInv'
  BY <1>1, <1>14 DEF ReviewDecision
<1>15. ASSUME NEW a, NEW i, Suspend(a, i) PROVE EvidenceInv'
  BY <1>1, <1>15 DEF Suspend
<1>16. CASE Tick \/ UNCHANGED vars
  BY <1>1, <1>16 DEF Tick, vars
<1> QED
  BY <1>a, <1>c, <1>2, <1>3, <1>4, <1>5, <1>6, <1>8, <1>9, <1>10, <1>11, <1>12, <1>13, <1>14, <1>15,
     <1>16, RequestType DEF Next, Upload

(***************************************************************************)
(* The invariant.                                                          *)
(***************************************************************************)
\* A tenant nobody has called is in the invariant.
LEMMA InitInv == Init => Inv
<1> SUFFICES ASSUME Init PROVE Inv
  OBVIOUS
<1>1. /\ seeded = FALSE /\ draftState \in EditableStates /\ draftState \in DraftStates
      /\ DOMAIN revisions = {} /\ DOMAIN submissions = {} /\ Attached = {}
      /\ packs = <<>> /\ Len(packs) = 0 /\ DOMAIN packs = {}
      /\ keys = NoKeys /\ \A c \in Callers : uploads[c] = NoUpload
  BY SeedRows DEF Init, Attached, EditableStates, DraftStates
<1>2. Tables
  <2>1. /\ revisions \in Seq(RevisionRow) /\ submissions \in Seq(SubmissionRow)
        /\ packs \in Seq(PackRow) /\ currentPack \in 0..Len(packs)
    BY DEF Init
  <2>2. /\ sourceRows \in [Objects -> {"NONE", "PARSED", "PUBLISHED"}]
        /\ uploads \in [Callers -> UploadRow \cup {NoUpload}]
    BY DEF Init
  <2>3. /\ product \in [Products -> ProductRow] /\ keys \in [Keys -> KeyRow \cup {FreeKey}]
        /\ suspensions = {} /\ store = {} /\ clock \in 0..MaxTime
    BY SeedRows DEF Init
  <2> QED
    BY <1>1, <2>1, <2>2, <2>3 DEF Tables
<1>3. ReviewInv
  BY <1>1 DEF ReviewInv, FrozenIsSubmitted, ApprovalIsDecided, PublishedIsReviewed
<1>4. StoryInv
  BY <1>1 DEF StoryInv, EmptyTenant, OneStory, StatesAgree, PackChain
<1>5. EvidenceInv
  BY <1>1 DEF EvidenceInv, StoredIsThere, EvidenceExists, CitedObjectsExist,
     CompletedUploadIsAttached, NoKeys
<1> QED
  BY <1>2, <1>3, <1>4, <1>5 DEF Inv

\* Every transaction, every write to the bucket and every stop preserves it.
LEMMA InvStep == Inv /\ [Next]_vars => Inv'
  BY TypeStep, ReviewStep, StoryStep, EvidenceStep DEF Inv

\* Every reachable state of the seller service is in the invariant.
THEOREM Invariance == Spec => []Inv
  BY InitInv, InvStep, PTL DEF Spec

(***************************************************************************)
(* The theorems.                                                           *)
(***************************************************************************)
\* The rows of the seller service have their types: the pointer of the product
\* and every suspension name a version that exists.
THEOREM TypeCorrect == Spec => []SellerTypeOK
<1>1. Inv => SellerTypeOK
  <2> SUFFICES ASSUME Tables PROVE SellerTypeOK
    BY DEF Inv
  <2>1. /\ \A i \in DOMAIN revisions : revisions[i] \in RevisionRow
        /\ \A i \in DOMAIN submissions : submissions[i] \in SubmissionRow
        /\ \A i \in DOMAIN packs : packs[i] \in PackRow
    BY DEF Tables
  <2> QED
    BY <2>1 DEF Tables, SellerTypeOK, ProductRow
<1> QED
  BY <1>1, Invariance, PTL

\* Every version published through the API carries the content of a submission
\* a reviewer approved.
THEOREM PublicationIsReviewed == Spec => []PublishedIsReviewed
<1>1. Inv => PublishedIsReviewed
  BY DEF Inv, ReviewInv
<1> QED
  BY <1>1, Invariance, PTL

\* The product, its draft and the chain of its versions tell one story.
THEOREM RowsTellOneStory == Spec => []OneStory
<1>1. Inv => OneStory
  BY DEF Inv, StoryInv
<1> QED
  BY <1>1, Invariance, PTL

\* What an attachment, a version or a recorded upload names exists, whatever
\* stopped between the database and the bucket.
THEOREM NamedEvidenceExists == Spec => []EvidenceExists
<1>1. Inv => EvidenceExists
  BY DEF Inv, EvidenceInv
<1> QED
  BY <1>1, Invariance, PTL

\* Evidence is frozen with its draft, and never overwritten before.
THEOREM EvidenceStays == Spec => EvidenceIsStable
<1> USE DEF draftVars, packVars, uploadVars
<1> DEFINE Frozen == (seeded /\ seeded' /\ draftState \notin EditableStates)
                       => UNCHANGED <<revisions, evidence>>
           Kept   == seeded /\ seeded' => /\ Attached \subseteq DOMAIN evidence'
                                          /\ \A s \in Attached : evidence'[s] = evidence[s]
<1>1. ASSUME Inv, [Next]_vars PROVE Frozen /\ Kept
  <2>a. Tables
    BY <1>1 DEF Inv
  <2>1. ASSUME UNCHANGED <<revisions, evidence>> PROVE Frozen /\ Kept
    BY <2>1 DEF Attached
  <2>2. ASSUME draftState \in EditableStates, UNCHANGED evidence PROVE Frozen /\ Kept
    BY <2>2 DEF Attached
  <2>3. ASSUME NEW s, NEW fs, NEW o, s \notin Attached, Attach(s, fs, o),
               draftState \in EditableStates
        PROVE  Frozen /\ Kept
    <3>1. /\ Attached' = Attached \cup {s}
          /\ \A x \in Attached : evidence'[x] = evidence[x]
      BY <2>3, AttachEffect
    <3> QED
      BY <2>3, <3>1 DEF Attached
  <2>4. ASSUME EnsureDemo \/ ResetDemo PROVE Frozen /\ Kept
    BY <2>4 DEF EnsureDemo, ResetDemo
  <2>5. ASSUME NEW a, NEW b, NEW content, PatchDraft(a, b, content) PROVE Frozen /\ Kept
    BY <2>2, <2>5 DEF PatchDraft
  <2>6. ASSUME NEW a, NEW s, NEW fs, NEW o, AttachEvidence(a, s, fs, o) PROVE Frozen /\ Kept
    BY <2>3, <2>6 DEF AttachEvidence
  <2>7. ASSUME NEW c \in Callers, FinalizeUpload(c) PROVE Frozen /\ Kept
    <3>1. PICK r \in UploadRequest, k \in Keys : FinalizeOutcome(c, r, k)
      BY <2>a, <2>7, FinalizeEffect
    <3>2. UNCHANGED revisions
      BY <2>7 DEF FinalizeUpload
    <3> QED
      BY <2>1, <2>3, <3>1, <3>2 DEF FinalizeOutcome, StillEditable
  <2>8. ASSUME NEW c, NEW k, NEW r, ReserveUpload(c, k, r) PROVE Frozen /\ Kept
    BY <2>1, <2>8 DEF ReserveUpload
  <2>9. ASSUME NEW c, PutObject(c) \/ AbandonUpload(c) PROVE Frozen /\ Kept
    BY <2>1, <2>9 DEF PutObject, AbandonUpload
  <2>10. ASSUME NEW a, NEW content, SubmitReview(a, content) \/ Publish(a, content)
         PROVE  Frozen /\ Kept
    BY <2>1, <2>10 DEF SubmitReview, Publish
  <2>11. ASSUME NEW a, NEW content, NEW d, ReviewDecision(a, content, d) PROVE Frozen /\ Kept
    BY <2>1, <2>11 DEF ReviewDecision
  <2>12. ASSUME NEW a, NEW p, ClaimProduct(a, p) PROVE Frozen /\ Kept
    BY <2>1, <2>12 DEF ClaimProduct
  <2>13. ASSUME NEW a, NEW i, Suspend(a, i) PROVE Frozen /\ Kept
    BY <2>1, <2>13 DEF Suspend
  <2>14. ASSUME Tick \/ UNCHANGED vars PROVE Frozen /\ Kept
    BY <2>1, <2>14 DEF Tick, vars
  <2> HIDE DEF Frozen, Kept
  <2> QED
    BY <1>1, <2>4, <2>5, <2>6, <2>7, <2>8, <2>9, <2>10, <2>11, <2>12, <2>13, <2>14 DEF Next, Upload
<1>2. Inv /\ [Next]_vars => [Frozen]_vars /\ [Kept]_vars
  BY <1>1
<1> HIDE DEF Frozen, Kept
<1>3. Spec => [][Frozen]_vars /\ [][Kept]_vars
  BY <1>2, Invariance, PTL DEF Spec
<1> QED
  BY <1>3 DEF Frozen, Kept, EvidenceIsStable, FrozenUnderReview, EvidenceIsKept
=============================================================================
