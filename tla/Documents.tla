----------------------------- MODULE Documents -----------------------------
(***************************************************************************)
(* The papers of one partner (src/modules/documents/documents.service.ts): *)
(* uploads, reviews, and the two computations of eligibility, the one his  *)
(* own page shows and the one dispatch and order creation go by.  A review *)
(* reads the document before the transaction that decides, and a file is   *)
(* saved before the row that names it.                                     *)
(***************************************************************************)
EXTENDS Sequences, Requests

CONSTANTS RequiredTypes,  \* DOCUMENT_TYPES_BY_OWNER of the partner
          MaxDocuments,   \* bound: uploads in all
          MaxReviews,     \* bound: decisions in all
          MaxDay          \* bound: days that pass

VARIABLES documents,  \* the Document rows, oldest first
          files,      \* the keys saved in the storage
          reviews,    \* the AuditLog rows of the reviews, oldest first
          today,      \* the clock, in days
          reviewer    \* task -> where the request stands

documentVars == <<documents, files, reviews, today, reviewer>>

Never == MaxDay + 1  \* no expiresAt

DocumentRows ==
  [type : RequiredTypes, status : {"UPLOADED", "VERIFIED", "REJECTED"},
   expiresAt : 0 .. Never, fileKey : Nat]

Decisions == {"VERIFIED", "REJECTED"}

ReviewerCalls ==
  [pc : {"save", "row"}, type : RequiredTypes, expiresAt : 0 .. Never, key : Nat]
  \cup [pc : {"read", "decide"}, document : Nat, to : Decisions]

DocumentTypeOK ==
  /\ documents \in Seq(DocumentRows) /\ Len(documents) <= MaxDocuments
  /\ files \in SUBSET Nat
  /\ reviews \in Seq([document : Nat, to : Decisions])
  /\ today \in 0 .. MaxDay
  /\ reviewer \in [Tasks -> {Idle} \cup ReviewerCalls]

DocumentInit ==
  /\ documents = <<>>
  /\ files = {}
  /\ reviews = <<>>
  /\ today = 0
  /\ reviewer = [t \in Tasks |-> Idle]

-----------------------------------------------------------------------------
(* uploadDocument *)

Uploads == Cardinality(files) + Cardinality(At(reviewer, "save"))

\* The key holds a nanoid: no two uploads share it.  An upload never replaces a row.
Upload(t) ==
  /\ reviewer[t] = Idle /\ Uploads < MaxDocuments
  /\ \E type \in RequiredTypes, day \in 0 .. Never :
       reviewer' = [reviewer EXCEPT ![t] =
         [pc |-> "save", type |-> type, expiresAt |-> day, key |-> 0]]
  /\ UNCHANGED <<documents, files, reviews, today>>

SaveFile(t) ==
  /\ reviewer[t].pc = "save"
  /\ LET key == Cardinality(files) + 1 IN
       /\ files' = files \cup {key}
       /\ reviewer' = [reviewer EXCEPT ![t].pc = "row", ![t].key = key]
  /\ UNCHANGED <<documents, reviews, today>>

CreateDocument(t) ==
  /\ reviewer[t].pc = "row"
  /\ documents' = Append(documents,
       [type |-> reviewer[t].type, status |-> "UPLOADED",
        expiresAt |-> reviewer[t].expiresAt, fileKey |-> reviewer[t].key])
  /\ reviewer' = Ends(reviewer, t)
  /\ UNCHANGED <<files, reviews, today>>

-----------------------------------------------------------------------------
(* verifyDocument, rejectDocument *)

Review(t, d) ==
  /\ reviewer[t] = Idle
  /\ \E to \in Decisions :
       reviewer' = [reviewer EXCEPT ![t] = [pc |-> "read", document |-> d, to |-> to]]
  /\ UNCHANGED <<documents, files, reviews, today>>

\* Only the decision already taken is refused: a verified document may still be rejected,
\* a rejected one verified.
ReadDocument(t) ==
  /\ reviewer[t].pc = "read"
  /\ reviewer' = IF documents[reviewer[t].document].status = reviewer[t].to
                 THEN Ends(reviewer, t) ELSE Goto(reviewer, t, "decide")
  /\ UNCHANGED <<documents, files, reviews, today>>

\* The row and its AuditLog in one transaction; the notification may fail unseen.
Decide(t) ==
  /\ reviewer[t].pc = "decide" /\ Len(reviews) < MaxReviews
  /\ documents' = [documents EXCEPT ![reviewer[t].document].status = reviewer[t].to]
  /\ reviews' = Append(reviews, [document |-> reviewer[t].document, to |-> reviewer[t].to])
  /\ reviewer' = Ends(reviewer, t)
  /\ UNCHANGED <<files, today>>

ReviewerFails(t) ==
  /\ reviewer[t] # Idle
  /\ reviewer' = Ends(reviewer, t)
  /\ UNCHANGED <<documents, files, reviews, today>>

DayPasses ==
  /\ today < MaxDay
  /\ today' = today + 1
  /\ UNCHANGED <<documents, files, reviews, reviewer>>

-----------------------------------------------------------------------------
(* Eligibility *)

Verified(type) ==
  {d \in DOMAIN documents : documents[d].type = type /\ documents[d].status = "VERIFIED"}

Newest(ds) == CHOOSE d \in ds : \A e \in ds : e <= d

Valid(d) == documents[d].expiresAt > today

\* computeEligibility: the newest VERIFIED document of a type stands for the type.
missingTypes == {type \in RequiredTypes : Verified(type) = {}}

expiredTypes == {type \in RequiredTypes \ missingTypes : ~Valid(Newest(Verified(type)))}

Eligible == missingTypes = {} /\ expiredTypes = {}

Latest(type) == {d \in DOMAIN documents : documents[d].type = type}

\* Faulty variant: only the latest upload of a type counts, reviewed or not.
IneligibleByLatest ==
  \E type \in RequiredTypes :
    \A d \in Verified(type) : ~Valid(d) \/ d # Newest(Latest(type))

\* getIneligibleOwnerIds: any VERIFIED document of a type that has not expired will do.
Ineligible == \E type \in RequiredTypes : \A d \in Verified(type) : ~Valid(d)

\* classifyMissingTypes and getActionRequiredDocuments go by the latest upload of a type.
pendingReviewTypes ==
  {type \in missingTypes : Latest(type) # {} /\ documents[Newest(Latest(type))].status = "UPLOADED"}

actionRequiredTypes ==
  {type \in RequiredTypes : Latest(type) # {} /\ documents[Newest(Latest(type))].status = "REJECTED"}

-----------------------------------------------------------------------------
(* The whole *)

DocumentNext ==
  \/ \E t \in Tasks :
       \/ Upload(t) \/ SaveFile(t) \/ CreateDocument(t)
       \/ \E d \in DOMAIN documents : Review(t, d)
       \/ ReadDocument(t) \/ Decide(t) \/ ReviewerFails(t)
  \/ DayPasses

DocumentSpec == DocumentInit /\ [][DocumentNext]_documentVars

ReviewsOf(d) == {i \in DOMAIN reviews : reviews[i].document = d}

(***************************************************************************)
(* A document has a file whatever fails between the two writes, and its    *)
(* status is what the last review in the audit log says, whatever reviews  *)
(* race.                                                                   *)
(***************************************************************************)
DocumentsAreBacked ==
  \A d \in DOMAIN documents :
    /\ documents[d].fileKey \in files
    /\ documents[d].status =
         IF ReviewsOf(d) = {} THEN "UPLOADED" ELSE reviews[Newest(ReviewsOf(d))].to

(***************************************************************************)
(* A partner whose page says he is eligible is not passed over: the two    *)
(* computations agree in this direction on every history of uploads,       *)
(* reviews and expiries.                                                   *)
(***************************************************************************)
EligibleIsSelectable == Eligible => ~Ineligible

(***************************************************************************)
(* getIneligibleOwnerIds is the "version batchee de computeEligibility"    *)
(* (documents.service.ts:278): the two agree.  They do not: when a partner *)
(* replaces a paper that is still valid by one that has expired, he is     *)
(* selectable although his page says he is not eligible.                   *)
(***************************************************************************)
BatchAgrees == Eligible = ~Ineligible
=============================================================================
