-------------------------- MODULE SellerPublication --------------------------
(***************************************************************************)
(* The seller side of the API (SellerEvidenceService): a vendor claims a   *)
(* product, edits the one draft of its evidence pack revision by revision, *)
(* attaches references and uploads objects, submits a frozen revision to   *)
(* review, and a reviewer approves it and publishes an immutable version.  *)
(*                                                                         *)
(* Every handler is one serializable transaction and therefore one action, *)
(* except the upload of an object: it reserves its idempotency key in a    *)
(* first transaction, writes the object store outside any transaction and  *)
(* binds the stored object in a second one.  The process may stop between  *)
(* these steps and the client may call again with the same key.            *)
(***************************************************************************)
EXTENDS Naturals, Sequences, FiniteSets

CONSTANTS
  Actors,         \* identities that call the seller API
  NoActor,        \* a NULL owner
  RolesOf,        \* RolesOf[a]: the roles the identity provider gives a
  Editor,         \* the actor the seeded draft belongs to
  Drafted,        \* the product that has a draft
  Unclaimed,      \* the products listed without an owner
  Fields,         \* the claim fields a revision may support with evidence
  Retention,      \* the field that must cite evidence (data_retention_days)
  Summary,        \* the field the seeded stale attachment supports
  References,     \* source references (URLs) that may be attached
  Objects,        \* object contents, named by their checksum
  StaleSource,    \* the reference seeded with an observation too old to use
  Bodies,         \* the claims and rules a patch may produce
  Undated,        \* the sources a client attaches without an observation date
  Scopes,         \* Scopes[s]: the sets of fields s may be declared to support
  Keys,           \* idempotency keys of uploads
  Callers,        \* request handlers that may have an upload under way
  FreshTerm,      \* days (365) an observation supports a published field
  MaxRevisions,   \* bound on the revisions of the draft
  MaxTime         \* bound on the clock

Roles == {"SELLER_EDITOR", "SELLER_REVIEWER", "PLATFORM_OPERATOR"}
Sources == References \cup Objects
Products == {Drafted} \cup Unclaimed

\* The clock starts where the seeded observation of time 1 is already stale;
\* 0 stands for an observed_at that is NULL.
NotObserved == 0
StartTime == FreshTerm + 2

\* A revision's claims and rules: whether every required value and rule is
\* there, whether the claims of one field agree, and what each field cites.
Content == [filled: BOOLEAN, agreed: BOOLEAN, cites: [Fields -> SUBSET Sources]]

ASSUME SellerAssumption ==
  /\ NoActor \notin Actors
  /\ Editor \in Actors
  /\ RolesOf \in [Actors -> SUBSET Roles]
  /\ Drafted \notin Unclaimed
  /\ {Retention, Summary} \subseteq Fields
  /\ StaleSource \in References
  /\ References \cap Objects = {}
  /\ Bodies \subseteq Content
  /\ Scopes \in [Sources -> SUBSET ((SUBSET Fields) \ {{}})]
  /\ FreshTerm \in Nat /\ MaxTime \in Nat /\ MaxRevisions \in Nat \ {0}
  /\ FreshTerm + 2 <= MaxTime

VARIABLES
  seeded,        \* the tenant's seller rows exist
  product,       \* product[p]: its state and owner
  draftState,    \* the state of the draft
  revisions,     \* the draft's revisions, oldest first
  evidence,      \* attachments of the draft, by source
  submissions,   \* review submissions with their decision, oldest first
  packs,         \* published versions, oldest first
  currentPack,   \* the product's pointer to its current version
  suspensions,   \* versions with a suspension row
  sourceRows,    \* sourceRows[o]: the parsed source and its spans
  store,         \* objects in the evidence bucket
  keys,          \* keys[k]: the idempotency record of an upload
  uploads,       \* uploads[c]: the upload a handler has under way
  clock

vars == <<seeded, product, draftState, revisions, evidence, submissions,
          packs, currentPack, suspensions, sourceRows, store, keys, uploads,
          clock>>

draftVars == <<seeded, product, draftState, revisions, evidence, submissions>>
packVars == <<packs, currentPack, suspensions, sourceRows>>
uploadVars == <<store, keys, uploads>>

EditableStates == {"SELLER_DRAFT", "VALIDATION_CONFLICT", "CHANGES_REQUESTED"}
DraftStates == EditableStates \cup {"IN_REVIEW", "PUBLISH_READY", "PUBLISHED"}
ProductStates == DraftStates \cup {"UNCLAIMED", "CLAIM_PENDING", "CLAIM_DENIED"}

RevisionRow == [content: Content, author: Actors]
AttachmentRow == [fields: SUBSET Fields, observed: 0..MaxTime]
SubmissionRow ==
  [content: Content, by: Actors, status: {"PENDING", "COMPLETED"},
   decision: {"NONE", "APPROVE", "REJECT", "REQUEST_CHANGES"},
   reviewer: Actors \cup {NoActor}]
PackRow == [content: Content, observed: [Sources -> 0..MaxTime],
            supersededBy: Nat]
UploadRequest == [actor: Actors, object: Objects, fields: SUBSET Fields,
                  observed: 0..MaxTime]
KeyRow == [state: {"STARTED", "COMPLETED"}, request: UploadRequest]
UploadRow == [key: Keys, request: UploadRequest, stored: BOOLEAN]

FreeKey == <<>>
NoUpload == <<>>

Current == revisions[Len(revisions)]
Latest == submissions[Len(submissions)]
Attached == DOMAIN evidence
Cited(content) == UNION {content.cites[f] : f \in Fields}

\* RolesOf[a] meets the roles a handler accepts, and a seller editor only
\* reaches the products they own.
Authorised(a, accepted) == RolesOf[a] \cap accepted # {}
HasAccess(a, accepted) ==
  \E r \in RolesOf[a] \cap accepted :
    r = "SELLER_EDITOR" => product[Drafted].owner = a

Editors == {"SELLER_EDITOR", "PLATFORM_OPERATOR"}
Reviewers == {"SELLER_REVIEWER", "PLATFORM_OPERATOR"}

IsStale(observed) == observed # NotObserved /\ observed < clock - FreshTerm

\* Every citation is to an attachment of this draft that names the field.
LinksResolve(content) ==
  \A f \in Fields : \A s \in content.cites[f] :
    s \in Attached /\ f \in evidence[s].fields

\* The status VALID: nothing missing, nothing contradictory, the retention
\* value supported, and no cited evidence missing or stale.
IsValid(content) ==
  /\ content.filled
  /\ content.agreed
  /\ content.cites[Retention] # {}
  /\ \A s \in Cited(content) :
       s \in Attached /\ ~IsStale(evidence[s].observed)

\* The draft and its product carry the same state.
SetState(s) ==
  /\ draftState' = s
  /\ product' = [product EXCEPT ![Drafted].state = s]

NoRevision == [filled |-> FALSE, agreed |-> TRUE,
               cites |-> [f \in Fields |-> IF f = Summary THEN {StaleSource} ELSE {}]]
FirstPack == [content |-> [NoRevision EXCEPT !.cites = [f \in Fields |-> {}]],
              observed |-> [s \in Sources |-> NotObserved],
              supersededBy |-> 0]

\* The rows of a tenant nobody has called yet.
NoProducts == [p \in Products |-> [state |-> "UNCLAIMED", owner |-> NoActor]]
NoEvidence == [s \in {} |-> [fields |-> {}, observed |-> NotObserved]]
NoKeys == [k \in Keys |-> FreeKey]

Init ==
  /\ seeded = FALSE
  /\ product = NoProducts
  /\ draftState = "SELLER_DRAFT"
  /\ revisions = <<>>
  /\ evidence = NoEvidence
  /\ submissions = <<>>
  /\ packs = <<>>
  /\ currentPack = 0
  /\ suspensions = {}
  /\ keys = NoKeys
  /\ sourceRows = [o \in Objects |-> "NONE"]
  /\ store = {}
  /\ uploads = [c \in Callers |-> NoUpload]
  /\ clock = StartTime

-----------------------------------------------------------------------------
(* The first request of an empty demo tenant, a read included, seeds it: a  *)
(* draft with gaps, its stale attachment and the version it is based on.    *)
EnsureDemo ==
  /\ ~seeded
  /\ seeded' = TRUE
  /\ product' = [product EXCEPT ![Drafted] = [state |-> "SELLER_DRAFT", owner |-> Editor]]
  /\ draftState' = "SELLER_DRAFT"
  /\ revisions' = <<[content |-> NoRevision, author |-> Editor]>>
  /\ evidence' = [s \in {StaleSource} |-> [fields |-> {Summary}, observed |-> 1]]
  /\ packs' = <<FirstPack>>
  /\ currentPack' = 1
  /\ UNCHANGED <<submissions, suspensions, sourceRows, uploadVars, clock>>

\* The demo reset deletes the seller tables and the idempotency records.  The
\* parsed sources with their spans, the bucket and the uploads under way stay.
ResetDemo ==
  /\ seeded
  /\ seeded' = FALSE
  /\ product' = NoProducts
  /\ draftState' = "SELLER_DRAFT"
  /\ revisions' = <<>>
  /\ evidence' = NoEvidence
  /\ submissions' = <<>>
  /\ packs' = <<>>
  /\ currentPack' = 0
  /\ suspensions' = {}
  /\ keys' = NoKeys
  /\ UNCHANGED <<sourceRows, store, uploads, clock>>

ClaimProduct(a, p) ==
  /\ seeded
  /\ Authorised(a, Roles)
  /\ product[p].state \in {"UNCLAIMED", "CLAIM_DENIED"}
  /\ product' = [product EXCEPT ![p] = [state |-> "CLAIM_PENDING", owner |-> a]]
  /\ UNCHANGED <<seeded, draftState, revisions, evidence, submissions,
                 packVars, uploadVars, clock>>

\* Mutant of PatchDraft: an approved draft may be edited and keeps its state.
PatchDraftInPlace(a, base, content) ==
  /\ seeded
  /\ HasAccess(a, Editors)
  /\ draftState \in EditableStates \cup {"PUBLISH_READY"}
  /\ base = Len(revisions)
  /\ LinksResolve(content)
  /\ \A i \in DOMAIN revisions : revisions[i].content # content
  /\ Len(revisions) < MaxRevisions
  /\ revisions' = Append(revisions, [content |-> content, author |-> a])
  /\ UNCHANGED <<seeded, product, draftState, evidence, submissions, packVars,
                 uploadVars, clock>>

\* An editor replaces the whole content; a content an earlier revision had is
\* refused by the unique revision hash.
PatchDraft(a, base, content) ==
  /\ seeded
  /\ HasAccess(a, Editors)
  /\ draftState \in EditableStates
  /\ base = Len(revisions)
  /\ LinksResolve(content)
  /\ \A i \in DOMAIN revisions : revisions[i].content # content
  /\ Len(revisions) < MaxRevisions
  /\ revisions' = Append(revisions, [content |-> content, author |-> a])
  /\ SetState("SELLER_DRAFT")
  /\ UNCHANGED <<seeded, evidence, submissions, packVars, uploadVars, clock>>

Attach(s, fields, observed) ==
  evidence' = [x \in Attached \cup {s} |->
                 IF x = s THEN [fields |-> fields, observed |-> observed]
                          ELSE evidence[x]]

\* A reference already attached is returned as it is, or refused when its
\* metadata differs: neither changes a row of the draft.
AttachEvidence(a, s, fields, observed) ==
  /\ seeded
  /\ HasAccess(a, Editors)
  /\ draftState \in EditableStates
  /\ s \notin Attached
  /\ Attach(s, fields, observed)
  /\ UNCHANGED <<seeded, product, draftState, revisions, submissions,
                 packVars, uploadVars, clock>>

-----------------------------------------------------------------------------
\* The key is taken now, or an earlier try for the same request left it STARTED.
\* A completed key is answered from its record and another request's refused:
\* neither changes a row.
claim_idempotency(k, r) == keys[k] \in {FreeKey, [state |-> "STARTED", request |-> r]}
complete_idempotency(k, r) == keys' = [keys EXCEPT ![k] = [state |-> "COMPLETED", request |-> r]]

\* Mutant of ReserveUpload: the outcome is recorded before the object is stored.
ReserveUploadCompleted(c, k, r) ==
  /\ seeded
  /\ uploads[c] = NoUpload
  /\ claim_idempotency(k, r)
  /\ HasAccess(r.actor, Editors)
  /\ draftState \in EditableStates
  /\ complete_idempotency(k, r)
  /\ uploads' = [uploads EXCEPT ![c] = [key |-> k, request |-> r, stored |-> FALSE]]
  /\ UNCHANGED <<draftVars, packVars, store, clock>>

\* First transaction of an upload: the key is claimed for this request (again
\* when an earlier try left it STARTED), and an object already attached with
\* the same metadata completes the call without a write to the bucket.
ReserveUpload(c, k, r) ==
  /\ seeded
  /\ uploads[c] = NoUpload
  /\ claim_idempotency(k, r)
  /\ HasAccess(r.actor, Editors)
  /\ draftState \in EditableStates
  /\ \/ /\ r.object \in Attached
        /\ evidence[r.object].fields = r.fields
        /\ complete_idempotency(k, r)
        /\ UNCHANGED uploads
     \/ /\ r.object \notin Attached
        /\ keys' = [keys EXCEPT ![k] = [state |-> "STARTED", request |-> r]]
        /\ uploads' = [uploads EXCEPT ![c] =
                         [key |-> k, request |-> r, stored |-> FALSE]]
  /\ UNCHANGED <<draftVars, packVars, store, clock>>

PutObject(c) ==
  /\ uploads[c] # NoUpload
  /\ ~uploads[c].stored
  /\ store' = store \cup {uploads[c].request.object}
  /\ uploads' = [uploads EXCEPT ![c].stored = TRUE]
  /\ UNCHANGED <<draftVars, packVars, keys, clock>>

\* The store refuses the object or the process stops: the key stays STARTED.
AbandonUpload(c) ==
  /\ uploads[c] # NoUpload
  /\ uploads' = [uploads EXCEPT ![c] = NoUpload]
  /\ UNCHANGED <<draftVars, packVars, store, keys, clock>>

\* Mutant of StillEditable: what the first transaction saw is trusted.
StillEditableUnchecked == TRUE

\* What the second transaction requires again of the draft.
StillEditable == draftState \in EditableStates

\* store_parsed keeps a source row that is already there.
StoreParsed(o) ==
  sourceRows' = [sourceRows EXCEPT ![o] = IF @ = "NONE" THEN "PARSED" ELSE @]

\* Second transaction: a key another try completed is replayed, a draft that
\* was frozen or removed meanwhile refuses the object, an object attached
\* meanwhile is returned if its metadata agrees, else the object is attached
\* and its parsed text stored.
FinalizeUpload(c) ==
  LET u == uploads[c]
      r == u.request
      complete == complete_idempotency(u.key, r)
      allowed == seeded /\ claim_idempotency(u.key, r) /\ HasAccess(r.actor, Editors) /\ StillEditable
  IN
  /\ u # NoUpload
  /\ u.stored
  /\ uploads' = [uploads EXCEPT ![c] = NoUpload]
  /\ \/ /\ allowed
        /\ r.object \notin Attached
        /\ Attach(r.object, r.fields, r.observed)
        /\ StoreParsed(r.object)
        /\ complete
     \/ /\ allowed
        /\ r.object \in Attached
        /\ evidence[r.object].fields = r.fields
        /\ complete
        /\ UNCHANGED <<evidence, sourceRows>>
     \/ /\ \/ ~allowed
           \/ r.object \in Attached /\ evidence[r.object].fields # r.fields
        /\ UNCHANGED <<keys, evidence, sourceRows>>
  /\ UNCHANGED <<seeded, product, draftState, revisions, submissions, packs,
                 currentPack, suspensions, store, clock>>

-----------------------------------------------------------------------------
\* A submission is validated again, now.  An invalid one commits the conflict
\* and reports it; a valid one freezes the revision under a new submission,
\* unless this content was submitted before (unique submission).
SubmitReview(a, content) ==
  /\ seeded
  /\ HasAccess(a, Editors)
  /\ draftState \in EditableStates
  /\ content = Current.content
  /\ \/ /\ ~IsValid(content)
        /\ SetState("VALIDATION_CONFLICT")
        /\ UNCHANGED submissions
     \/ /\ IsValid(content)
        /\ \A i \in DOMAIN submissions : submissions[i].content # content
        /\ submissions' = Append(submissions,
             [content |-> content, by |-> a, status |-> "PENDING",
              decision |-> "NONE", reviewer |-> NoActor])
        /\ SetState("IN_REVIEW")
  /\ UNCHANGED <<seeded, revisions, evidence, packVars, uploadVars, clock>>

\* Neither the draft's editor nor the submitter may decide.
MayReview(a) == a \notin {Editor, Latest.by}

ReviewDecision(a, content, d) ==
  /\ seeded
  /\ HasAccess(a, Reviewers)
  /\ draftState = "IN_REVIEW"
  /\ content = Current.content
  /\ submissions # <<>>
  /\ Latest.status = "PENDING"
  /\ MayReview(a)
  /\ submissions' = [submissions EXCEPT ![Len(submissions)] =
                       [@ EXCEPT !.status = "COMPLETED", !.decision = d, !.reviewer = a]]
  /\ SetState(IF d = "APPROVE" THEN "PUBLISH_READY" ELSE "CHANGES_REQUESTED")
  /\ UNCHANGED <<seeded, revisions, evidence, packVars, uploadVars, clock>>

\* What the published payload says of each source.
Payload(content) ==
  [s \in Sources |-> IF s \in Cited(content) /\ s \in Attached
                     THEN evidence[s].observed ELSE NotObserved]

\* Publishing a version makes the spans of the objects it cites buyer safe.
PublishSources(content) ==
  sourceRows' = [o \in Objects |-> IF o \in Cited(content) THEN "PUBLISHED"
                                                           ELSE sourceRows[o]]

\* Mutant of Supersede: the previous version is left standing.
SupersedeNone(ps, new) == ps

\* The new version supersedes the version the product points to.
Supersede(ps, new) ==
  IF currentPack = 0 THEN ps ELSE [ps EXCEPT ![currentPack].supersededBy = new]

Publish(a, content) ==
  /\ seeded
  /\ HasAccess(a, Reviewers)
  /\ draftState = "PUBLISH_READY"
  /\ content = Current.content
  /\ submissions # <<>>
  /\ Latest.decision = "APPROVE"
  /\ \A o \in Cited(content) \cap Objects : sourceRows[o] # "NONE"
  /\ packs' = Append(Supersede(packs, Len(packs) + 1),
                     [content |-> content, observed |-> Payload(content),
                      supersededBy |-> 0])
  /\ currentPack' = Len(packs) + 1
  /\ PublishSources(content)
  /\ SetState("PUBLISHED")
  /\ UNCHANGED <<seeded, revisions, evidence, submissions, suspensions,
                 uploadVars, clock>>

\* Mutant of Suspend: the version is not looked up.
SuspendUnchecked(a, i) ==
  /\ seeded
  /\ HasAccess(a, Reviewers)
  /\ suspensions' = suspensions \cup {i}
  /\ UNCHANGED <<draftVars, packs, currentPack, sourceRows, uploadVars, clock>>

Suspend(a, i) ==
  /\ seeded
  /\ HasAccess(a, Reviewers)
  /\ i \in DOMAIN packs
  /\ suspensions' = suspensions \cup {i}
  /\ UNCHANGED <<draftVars, packs, currentPack, sourceRows, uploadVars, clock>>

Tick ==
  /\ clock < MaxTime
  /\ clock' = clock + 1
  /\ UNCHANGED <<draftVars, packVars, uploadVars>>

\* observed_at is given by the client: none, or the day of the call.
ObservedAt(s) == IF s \in Undated THEN NotObserved ELSE clock

Upload ==
  \E c \in Callers :
    \/ \E k \in Keys, a \in Actors, o \in Objects : \E fs \in Scopes[o] :
         ReserveUpload(c, k, [actor |-> a, object |-> o, fields |-> fs,
                              observed |-> ObservedAt(o)])
    \/ PutObject(c)
    \/ AbandonUpload(c)
    \/ FinalizeUpload(c)

Next ==
  \/ EnsureDemo
  \/ ResetDemo
  \/ \E a \in Actors, p \in Products : ClaimProduct(a, p)
  \/ \E a \in Actors, b \in 1..MaxRevisions, content \in Bodies : PatchDraft(a, b, content)
  \/ \E a \in Actors, s \in References : \E fs \in Scopes[s] :
       AttachEvidence(a, s, fs, ObservedAt(s))
  \/ Upload
  \/ \E a \in Actors, content \in {revisions[i].content : i \in DOMAIN revisions} :
       \/ SubmitReview(a, content)
       \/ \E d \in {"APPROVE", "REJECT", "REQUEST_CHANGES"} : ReviewDecision(a, content, d)
       \/ Publish(a, content)
  \/ \E a \in Actors, i \in 1..MaxRevisions : Suspend(a, i)
  \/ Tick

Spec == Init /\ [][Next]_vars

-----------------------------------------------------------------------------
(* The types of the rows.                                                   *)
SellerTypeOK ==
  /\ seeded \in BOOLEAN
  /\ product \in [Products -> [state: ProductStates, owner: Actors \cup {NoActor}]]
  /\ draftState \in DraftStates
  /\ \A i \in DOMAIN revisions : revisions[i] \in RevisionRow
  /\ Attached \subseteq Sources
  /\ \A s \in Attached : evidence[s] \in AttachmentRow
  /\ \A i \in DOMAIN submissions : submissions[i] \in SubmissionRow
  /\ \A i \in DOMAIN packs : packs[i] \in PackRow
  /\ currentPack \in 0..Len(packs)
  /\ suspensions \subseteq DOMAIN packs
  /\ sourceRows \in [Objects -> {"NONE", "PARSED", "PUBLISHED"}]
  /\ store \subseteq Objects
  /\ \A k \in Keys : keys[k] = FreeKey \/ keys[k] \in KeyRow
  /\ \A c \in Callers : uploads[c] = NoUpload \/ uploads[c] \in UploadRow
  /\ clock \in 0..MaxTime

\* Every version published through the API carries the content of a submission
\* a reviewer approved, although publish only looks at the newest decision.
PublishedIsReviewed ==
  \A i \in 2..Len(packs) : \E j \in DOMAIN submissions :
    /\ submissions[j].decision = "APPROVE"
    /\ submissions[j].content = packs[i].content

\* The draft and its product never disagree on where the evidence pack stands,
\* on the failing paths either.
StatesAgree == seeded => product[Drafted].state = draftState

\* The versions form one chain: the product points to the newest, every older
\* one names its successor.
PackChain ==
  seeded => /\ currentPack = Len(packs)
            /\ \A i \in DOMAIN packs :
                 packs[i].supersededBy = IF i = Len(packs) THEN 0 ELSE i + 1

\* The rows of one product tell one story: both conjuncts above.
OneStory == StatesAgree /\ PackChain

\* While a revision is under review, approved or published nothing it shows
\* changes: no upload that began before the freeze lands after it.
FrozenUnderReview ==
  [][ (seeded /\ seeded' /\ draftState \notin EditableStates)
        => UNCHANGED <<revisions, evidence>> ]_vars

\* An attached object is in the bucket with its parsed source, and an object a
\* published version cites is visible to buyers.
CitedObjectsExist ==
  /\ \A o \in Attached \cap Objects : o \in store /\ sourceRows[o] # "NONE"
  /\ \A i \in DOMAIN packs : \A o \in Cited(packs[i].content) \cap Objects :
       sourceRows[o] = "PUBLISHED"

\* A key whose outcome is recorded stands for an attachment that exists with
\* the metadata of its request, whatever crashed or was tried twice.
CompletedUploadIsAttached ==
  \A k \in Keys : keys[k] # FreeKey /\ keys[k].state = "COMPLETED" =>
    /\ keys[k].request.object \in Attached
    /\ evidence[keys[k].request.object].fields = keys[k].request.fields

\* What a row, a version or a recorded outcome names exists, although the bucket
\* and the database have no transaction in common: both conjuncts above.
EvidenceExists == CitedObjectsExist /\ CompletedUploadIsAttached

\* An attachment is never changed or removed by anything but the reset, so two
\* tries of one upload attach it once.
EvidenceIsKept ==
  [][ seeded /\ seeded' => /\ Attached \subseteq DOMAIN evidence'
                           /\ \A s \in Attached : evidence'[s] = evidence[s] ]_vars

\* Evidence is frozen with its draft and never overwritten before: both action
\* properties above.
EvidenceIsStable == FrozenUnderReview /\ EvidenceIsKept

\* "Only an independently approved frozen revision can be published": who
\* approved a published content did not write it.
IndependentApproval ==
  \A i \in 2..Len(packs) :
    \A j \in DOMAIN submissions : \A n \in DOMAIN revisions :
      (/\ submissions[j].content = packs[i].content
       /\ submissions[j].decision = "APPROVE"
       /\ revisions[n].content = packs[i].content)
        => revisions[n].author # submissions[j].reviewer

\* Spans visible to buyers belong to evidence a published version cites.
BuyerSafeIsPublished ==
  \A o \in Objects : sourceRows[o] = "PUBLISHED" =>
    \E i \in DOMAIN packs : o \in Cited(packs[i].content)
=============================================================================
