------------------------------ MODULE KybReview ------------------------------
(***************************************************************************)
(* KybService for one merchant: the merchant uploads, replaces and deletes *)
(* documents and submits them, operators approve and reject.  A document   *)
(* is a row of PostgreSQL and a file at Cloudinary.  Every action is one   *)
(* call to either; requests of the merchant may overlap, and nothing is    *)
(* asked of the merchant's status by the operators' calls.                 *)
(***************************************************************************)
EXTENDS Naturals, FiniteSets

CONSTANTS
  Requests,        \* requests of the merchant being served
  Reviewers,       \* approve and reject calls being served
  Types,           \* KybDocumentType
  Required,        \* MINIMUM_SUBMISSION_DOCS
  MaxFiles,        \* bound: uploads
  MaxDocs,         \* MAX_DOCS_PER_MERCHANT
  MaxSubmissions,  \* bound: submissions
  MaxTrouble       \* bound: failed calls, crashes, overlapping requests

ASSUME TypesAssumption == Types # {} /\ Required \subseteq Types
ASSUME KybBounds ==
  MaxFiles \in Nat /\ MaxDocs \in Nat /\ MaxSubmissions \in Nat /\ MaxTrouble \in Nat

\* A document: its row and its file have the number of its upload.
Files == 1..MaxFiles
None == 0

VARIABLES
  kyb,          \* Merchant.kybStatus
  row,          \* KybDocument by upload: status ("none": no row), type
  file,         \* files at Cloudinary
  uploads,      \* uploads so far
  request,      \* merchant requests: pc, type, document, new upload, and the
                \* histories seen (submissions when the status was read), torn
  reviewer,     \* the verdict of an approve or reject call
  faults, overlaps,
  submissions,  \* history: submissions so far
  torn,         \* history: a document was removed since the documents of the
                \* last submission were read
  doubled,      \* history: types of uploads that overlapped
  conflicts     \* history: uploads that found the replaced row gone

docVars == <<row, file, uploads>>
history == <<submissions, torn, doubled, conflicts>>
vars == <<kyb, docVars, request, reviewer, history, faults, overlaps>>

NoRow == [status |-> "none", type |-> CHOOSE t \in Types : TRUE]
Idle == [pc |-> "idle", type |-> CHOOSE t \in Types : TRUE, doc |-> None,
         new |-> None, seen |-> 0, torn |-> FALSE]

Init ==
  /\ kyb = "PENDING"
  /\ row = [f \in Files |-> NoRow] /\ file = {} /\ uploads = 0
  /\ request = [r \in Requests |-> Idle]
  /\ reviewer = [v \in Reviewers |-> "idle"]
  /\ faults = 0 /\ overlaps = 0
  /\ submissions = 0 /\ torn = FALSE /\ doubled = {} /\ conflicts = {}

Rows == {f \in Files : row[f].status # "none"}
Trouble == faults + overlaps
Fault == Trouble < MaxTrouble /\ faults' = faults + 1 /\ UNCHANGED overlaps

\* A request begins; it may overlap another.
Begin(r, locals) ==
  /\ request[r].pc = "idle"
  /\ \/ /\ \A q \in Requests : request[q].pc = "idle"
        /\ r = CHOOSE q \in Requests : TRUE
        /\ UNCHANGED overlaps
     \/ /\ \E q \in Requests : request[q].pc # "idle"
        /\ Trouble < MaxTrouble
        /\ overlaps' = overlaps + 1
  /\ request' = [request EXCEPT ![r] = locals]
  /\ UNCHANGED faults

Uploading(r) ==
  request[r].pc \in {"count", "upload", "previous", "insert"} \/ request[r].new # None

Step(r, pc) == request' = [request EXCEPT ![r].pc = pc]
Finish(r) == request' = [request EXCEPT ![r] = Idle]

-----------------------------------------------------------------------------
(***************************************************************************)
(* uploadDocument                                                          *)
(***************************************************************************)

\* The status: documents under review cannot be changed.
BeginUpload(r) ==
  /\ kyb # "UNDER_REVIEW"
  /\ \E t \in Types :
       /\ Begin(r, [Idle EXCEPT !.pc = "count", !.type = t, !.seen = submissions])
       /\ doubled' = IF \E q \in Requests : Uploading(q) /\ request[q].type = t
                     THEN doubled \cup {t} ELSE doubled
  /\ UNCHANGED <<kyb, docVars, reviewer, submissions, torn, conflicts>>

CountDocs(r) ==
  /\ request[r].pc = "count"
  /\ IF Cardinality(Rows) < MaxDocs THEN Step(r, "upload") ELSE Finish(r)
  /\ UNCHANGED <<kyb, docVars, reviewer, history, faults, overlaps>>

\* uploadPrivate
UploadFile(r) ==
  /\ request[r].pc = "upload"
  /\ uploads < MaxFiles
  /\ uploads' = uploads + 1
  /\ file' = file \cup {uploads + 1}
  /\ request' = [request EXCEPT ![r].pc = "previous", ![r].new = uploads + 1]
  /\ UNCHANGED <<kyb, row, reviewer, history, faults, overlaps>>

\* Mutant of FindPrevious: the file of the replaced document is not destroyed.
FindAndForget(r) ==
  LET replaced == {f \in Rows : row[f].type = request[r].type /\ row[f].status # "APPROVED"}
  IN
  /\ request[r].pc = "previous"
  /\ IF replaced = {} THEN Step(r, "insert")
     ELSE \E f \in replaced :
            request' = [request EXCEPT ![r].pc = "delete", ![r].doc = f]
  /\ UNCHANGED <<kyb, docVars, reviewer, history, faults, overlaps>>

\* Mutant of FindPrevious: only a rejected document is replaced.
FindRejected(r) ==
  LET replaced == {f \in Rows : row[f].type = request[r].type /\ row[f].status = "REJECTED"}
  IN
  /\ request[r].pc = "previous"
  /\ IF replaced = {} THEN Step(r, "insert")
     ELSE \E f \in replaced :
            request' = [request EXCEPT ![r].pc = "destroy", ![r].doc = f]
  /\ UNCHANGED <<kyb, docVars, reviewer, history, faults, overlaps>>

\* findFirst: one of the documents of the type that are not approved.
FindPrevious(r) ==
  LET replaced == {f \in Rows : row[f].type = request[r].type /\ row[f].status # "APPROVED"}
  IN
  /\ request[r].pc = "previous"
  /\ IF replaced = {} THEN Step(r, "insert")
     ELSE \E f \in replaced :
            request' = [request EXCEPT ![r].pc = "destroy", ![r].doc = f]
  /\ UNCHANGED <<kyb, docVars, reviewer, history, faults, overlaps>>

InsertRow(r) ==
  /\ request[r].pc = "insert"
  /\ row' = [row EXCEPT ![request[r].new] = [status |-> "PENDING", type |-> request[r].type]]
  /\ Finish(r)
  /\ UNCHANGED <<kyb, file, uploads, reviewer, history, faults, overlaps>>

-----------------------------------------------------------------------------
(***************************************************************************)
(* deleteDocument, and the removal of a replaced document                  *)
(***************************************************************************)

\* The document.
BeginDelete(r) ==
  /\ \E f \in Rows :
       Begin(r, [Idle EXCEPT !.pc = "check", !.type = row[f].type, !.doc = f])
  /\ UNCHANGED <<kyb, docVars, reviewer, history>>

\* Mutant of CheckDelete: a submitted document may be deleted until it is judged.
CheckDeleteNothing(r) ==
  /\ request[r].pc = "check"
  /\ request' = [request EXCEPT ![r].pc = "destroy", ![r].seen = submissions]
  /\ UNCHANGED <<kyb, docVars, reviewer, history, faults, overlaps>>

\* The status.
CheckDelete(r) ==
  /\ request[r].pc = "check"
  /\ IF kyb # "UNDER_REVIEW"
     THEN request' = [request EXCEPT ![r].pc = "destroy", ![r].seen = submissions]
     ELSE Finish(r)
  /\ UNCHANGED <<kyb, docVars, reviewer, history, faults, overlaps>>

\* CloudinaryService.destroy: an error is logged and swallowed.
DestroyFile(r) ==
  /\ request[r].pc = "destroy"
  /\ \/ file' = file \ {request[r].doc} /\ UNCHANGED <<faults, overlaps>>
     \/ Fault /\ UNCHANGED file
  /\ Step(r, "delete")
  /\ UNCHANGED <<kyb, row, uploads, reviewer, history>>

\* The row.  When another request has deleted it, the call throws; an upload
\* then leaves its file behind.
DeleteRow(r) ==
  LET f == request[r].doc
      after == IF request[r].new = None \/ f \notin Rows THEN Idle
               ELSE [request[r] EXCEPT !.pc = "insert", !.doc = None]
  IN
  /\ request[r].pc = "delete"
  /\ IF f \in Rows
     THEN /\ row' = [row EXCEPT ![f] = NoRow]
          /\ torn' = TRUE
          /\ request' = [q \in Requests |->
               IF q = r THEN after ELSE [request[q] EXCEPT !.torn = request[q].pc = "submit"]]
          /\ UNCHANGED conflicts
     ELSE /\ conflicts' = conflicts \cup {request[r].new}
          /\ Finish(r)
          /\ UNCHANGED <<row, torn>>
  /\ UNCHANGED <<kyb, file, uploads, reviewer, submissions, doubled, faults, overlaps>>

-----------------------------------------------------------------------------
(***************************************************************************)
(* submit                                                                  *)
(***************************************************************************)

\* The status.
BeginSubmit(r) ==
  /\ submissions < MaxSubmissions
  /\ kyb # "UNDER_REVIEW"
  /\ Begin(r, [Idle EXCEPT !.pc = "documents"])
  /\ UNCHANGED <<kyb, docVars, reviewer, history>>

Complete == \A t \in Required : \E f \in Rows : row[f].type = t

\* Mutant of ReadDocs: one of the required documents will do.
ReadSomeDocs(r) ==
  /\ request[r].pc = "documents"
  /\ IF \E f \in Rows : row[f].type \in Required THEN Step(r, "submit") ELSE Finish(r)
  /\ UNCHANGED <<kyb, docVars, reviewer, history, faults, overlaps>>

\* The documents: the required ones have to be there, in whatever status.
ReadDocs(r) ==
  /\ request[r].pc = "documents"
  /\ IF Complete THEN Step(r, "submit") ELSE Finish(r)
  /\ UNCHANGED <<kyb, docVars, reviewer, history, faults, overlaps>>

\* The transaction, whatever the status is now.
Submit(r) ==
  /\ request[r].pc = "submit"
  /\ kyb' = "UNDER_REVIEW"
  /\ submissions' = submissions + 1
  /\ torn' = request[r].torn
  /\ Finish(r)
  /\ UNCHANGED <<docVars, reviewer, doubled, conflicts, faults, overlaps>>

\* A call fails or the process dies: what is done stays done.
RequestDies(r) ==
  /\ request[r].pc # "idle"
  /\ Fault
  /\ Finish(r)
  /\ UNCHANGED <<kyb, docVars, reviewer, history>>

-----------------------------------------------------------------------------
(***************************************************************************)
(* approve, reject                                                         *)
(***************************************************************************)

\* listPending shows the merchant, and the operator decides.
BeginReview(v) ==
  /\ reviewer[v] = "idle"
  /\ Rows # {} /\ kyb \in {"UNDER_REVIEW", "PENDING"}
  /\ \E verdict \in {"VERIFIED", "REJECTED"} :
       reviewer' = [reviewer EXCEPT ![v] = verdict]
  /\ UNCHANGED <<kyb, docVars, request, history, faults, overlaps>>

\* The transaction, whatever the status is now: the verdict holds for all
\* documents that are pending.  (The audit entry that follows is Record of
\* Sessions.)
Judge(v) ==
  LET verdict == IF reviewer[v] = "VERIFIED" THEN "APPROVED" ELSE "REJECTED"
  IN
  /\ reviewer[v] # "idle"
  /\ kyb' = reviewer[v]
  /\ row' = [f \in Files |-> IF row[f].status = "PENDING"
                             THEN [row[f] EXCEPT !.status = verdict] ELSE row[f]]
  /\ reviewer' = [reviewer EXCEPT ![v] = "idle"]
  /\ UNCHANGED <<file, uploads, request, history, faults, overlaps>>

ReviewDies(v) ==
  /\ reviewer[v] # "idle"
  /\ Fault
  /\ reviewer' = [reviewer EXCEPT ![v] = "idle"]
  /\ UNCHANGED <<kyb, docVars, request, history>>

-----------------------------------------------------------------------------
Next ==
  \/ \E r \in Requests :
       \/ BeginUpload(r) \/ CountDocs(r) \/ UploadFile(r) \/ FindPrevious(r) \/ InsertRow(r)
       \/ BeginDelete(r) \/ CheckDelete(r) \/ DestroyFile(r) \/ DeleteRow(r)
       \/ BeginSubmit(r) \/ ReadDocs(r) \/ Submit(r) \/ RequestDies(r)
  \/ \E v \in Reviewers : BeginReview(v) \/ Judge(v) \/ ReviewDies(v)

Spec == Init /\ [][Next]_vars

-----------------------------------------------------------------------------
(***************************************************************************)
(* Properties                                                              *)
(***************************************************************************)

\* Types of all variables.
KybTypeOK ==
  /\ kyb \in {"PENDING", "UNDER_REVIEW", "VERIFIED", "REJECTED"}
  /\ row \in [Files -> [status : {"none", "PENDING", "APPROVED", "REJECTED"}, type : Types]]
  /\ file \subseteq Files /\ uploads \in 0..MaxFiles
  /\ request \in [Requests -> [pc : {"idle", "count", "upload", "previous", "insert", "check",
                                    "destroy", "delete", "documents", "submit"},
                               type : Types, doc : Files \cup {None}, new : Files \cup {None},
                               seen : Nat, torn : BOOLEAN]]
  /\ reviewer \in [Reviewers -> {"idle", "VERIFIED", "REJECTED"}]
  /\ faults \in Nat /\ overlaps \in Nat /\ submissions \in Nat
  /\ torn \in BOOLEAN /\ doubled \subseteq Types /\ conflicts \subseteq Files \cup {None}

\* Under review the documents stand still: what changes them has read the
\* status before the submission, never after (uploadDocument, deleteDocument).
FrozenUnderReview ==
  kyb = "UNDER_REVIEW" =>
    \A r \in Requests :
      request[r].pc \in {"upload", "previous", "insert", "destroy", "delete"} =>
        request[r].seen < submissions

\* What is under review has all required documents, unless another request of
\* the merchant has removed one while submit was served or since (the checks of
\* both were passed before).
SubmittedIsComplete == kyb = "UNDER_REVIEW" => Complete \/ torn

\* "Retire the old one so the review queue only ever shows the latest of each
\* kind": two documents of a type wait for a verdict, or are left from one,
\* only when uploads of that type have overlapped.
LatestOfEachKind ==
  \A f, g \in Rows :
    f # g /\ row[f].type = row[g].type /\ row[f].type \notin doubled =>
      row[f].status = "APPROVED" \/ row[g].status = "APPROVED"

\* Without faults every row has its file, and every file of a private document
\* has its row: a request is about to add or delete the missing one, or the
\* file is of an upload whose replaced row another request deleted.
FilesMatchRows ==
  faults = 0 =>
    \A f \in Files :
      /\ f \in Rows \ file => \E r \in Requests : request[r].pc = "delete" /\ request[r].doc = f
      /\ f \in file \ Rows => f \in conflicts \/ \E r \in Requests : request[r].new = f

\* "The review queue only ever shows the latest of each kind" (uploadDocument): no
\* two documents of a type wait for a verdict.
QueueShowsOneOfAKind ==
  \A f, g \in Rows :
    f # g /\ row[f].type = row[g].type => {row[f].status, row[g].status} # {"PENDING"}
=============================================================================
