--------------------------- MODULE KybReview_proofs ---------------------------
(***************************************************************************)
(* Theorems about KybReview, for every number of requests, reviewers,      *)
(* document types, uploads, submissions and failures.                      *)
(***************************************************************************)
EXTENDS KybReview, TLAPS

RowType == [status : {"none", "PENDING", "APPROVED", "REJECTED"}, type : Types]
RequestType ==
  [pc : {"idle", "count", "upload", "previous", "insert", "check", "destroy", "delete",
         "documents", "submit"},
   type : Types, doc : Files \cup {None}, new : Files \cup {None}, seen : Nat, torn : BOOLEAN]

\* A request that is going to change documents, the status read.
Changing(r) ==
  request[r].pc \in {"count", "upload", "previous", "insert", "destroy", "delete"}

\* What such a request has read is older than the submission under review.
ReadEarlier ==
  \A r \in Requests :
    /\ request[r].seen <= submissions
    /\ kyb = "UNDER_REVIEW" /\ Changing(r) => request[r].seen < submissions

\* An upload has a number of its own, and no row until it is inserted.
NumbersAreFresh ==
  /\ \A f \in Files : f > uploads => row[f].status = "none"
  /\ \A r \in Requests : request[r].new # None =>
       request[r].new <= uploads /\ row[request[r].new].status = "none"
  /\ \A q, r \in Requests : q # r /\ request[q].new # None => request[q].new # request[r].new
  /\ \A r \in Requests : request[r].pc \in {"previous", "insert"} => request[r].new # None

\* The documents a submission has found are still there, or it is marked.
FoundComplete ==
  \A r \in Requests : request[r].pc = "submit" => Complete \/ request[r].torn

-----------------------------------------------------------------------------
(***************************************************************************)
(* Types                                                                   *)
(***************************************************************************)

\* What stands for no document and an idle request has the types.
LEMMA DefaultTypes == NoRow \in RowType /\ Idle \in RequestType
<1>1. (CHOOSE t \in Types : TRUE) \in Types
  BY TypesAssumption
<1> QED BY <1>1 DEF NoRow, Idle, RowType, RequestType

\* The types hold at the start.
LEMMA InitTypes == Init => KybTypeOK
<1> SUFFICES ASSUME Init PROVE KybTypeOK
  OBVIOUS
<1>1. row \in [Files -> RowType] /\ request \in [Requests -> RequestType]
  BY DefaultTypes DEF Init
<1>2. reviewer \in [Reviewers -> {"idle", "VERIFIED", "REJECTED"}]
  BY DEF Init
<1>3. uploads \in 0..MaxFiles /\ faults \in Nat /\ overlaps \in Nat /\ submissions \in Nat
  BY KybBounds DEF Init
<1>4. /\ kyb \in {"PENDING", "UNDER_REVIEW", "VERIFIED", "REJECTED"} /\ file \subseteq Files
      /\ torn \in BOOLEAN /\ doubled \subseteq Types /\ conflicts \subseteq Files \cup {None}
  BY DEF Init
<1> QED BY <1>1, <1>2, <1>3, <1>4 DEF KybTypeOK, RowType, RequestType

\* Every step keeps the types.
LEMMA NextTypes ==
  ASSUME KybTypeOK, [Next]_vars PROVE KybTypeOK'
<1> DEFINE Verdicts == {"idle", "VERIFIED", "REJECTED"}
           Kyb == {"PENDING", "UNDER_REVIEW", "VERIFIED", "REJECTED"}
<1>a. /\ kyb \in Kyb /\ row \in [Files -> RowType] /\ file \subseteq Files
      /\ uploads \in 0..MaxFiles /\ request \in [Requests -> RequestType]
      /\ reviewer \in [Reviewers -> Verdicts]
      /\ faults \in Nat /\ overlaps \in Nat /\ submissions \in Nat /\ torn \in BOOLEAN
      /\ doubled \subseteq Types /\ conflicts \subseteq Files \cup {None}
  BY DEF KybTypeOK, RowType, RequestType
<1>b. ASSUME kyb' \in Kyb, row' \in [Files -> RowType], file' \subseteq Files,
             uploads' \in 0..MaxFiles, request' \in [Requests -> RequestType],
             reviewer' \in [Reviewers -> Verdicts],
             faults' \in Nat, overlaps' \in Nat, submissions' \in Nat, torn' \in BOOLEAN,
             doubled' \subseteq Types, conflicts' \subseteq Files \cup {None}
      PROVE  KybTypeOK'
  BY <1>b DEF KybTypeOK, RowType, RequestType
<1> HIDE DEF Verdicts, Kyb
<1>c. ASSUME NEW r \in Requests, NEW locals \in RequestType, request' = [request EXCEPT ![r] = locals]
      PROVE  request' \in [Requests -> RequestType]
  BY <1>a, <1>c
<1>d. ASSUME NEW r \in Requests, Finish(r) PROVE request' \in [Requests -> RequestType]
  BY <1>a, <1>d, DefaultTypes DEF Finish
<1>e. ASSUME NEW r \in Requests,
             NEW p \in {"upload", "previous", "insert", "destroy", "delete", "submit"}, Step(r, p)
      PROVE  request' \in [Requests -> RequestType]
  BY <1>a, <1>e DEF Step, RequestType
<1>f. ASSUME Fault PROVE faults' \in Nat /\ overlaps' \in Nat
  BY <1>a, <1>f DEF Fault
<1>1. ASSUME NEW r \in Requests, BeginUpload(r) PROVE KybTypeOK'
  <2>1. PICK t \in Types :
          /\ Begin(r, [Idle EXCEPT !.pc = "count", !.type = t, !.seen = submissions])
          /\ doubled' = doubled \/ doubled' = doubled \cup {t}
    BY <1>1 DEF BeginUpload
  <2>2. [Idle EXCEPT !.pc = "count", !.type = t, !.seen = submissions] \in RequestType
    BY <1>a, DefaultTypes DEF RequestType
  <2>3. request' \in [Requests -> RequestType]
    BY <1>a, <2>1, <2>2 DEF Begin
  <2>4. faults' \in Nat /\ overlaps' \in Nat
    BY <1>a, <2>1 DEF Begin
  <2>5. doubled' \subseteq Types
    BY <1>a, <2>1
  <2> QED BY <1>a, <1>b, <1>1, <2>3, <2>4, <2>5 DEF BeginUpload, docVars
<1>2. ASSUME NEW r \in Requests, CountDocs(r) PROVE KybTypeOK'
  <2>1. request' \in [Requests -> RequestType]
    BY <1>d, <1>e, <1>2 DEF CountDocs
  <2> QED BY <1>a, <1>b, <1>2, <2>1 DEF CountDocs, docVars, history
<1>3. ASSUME NEW r \in Requests, UploadFile(r) PROVE KybTypeOK'
  <2>1. uploads' = uploads + 1 /\ uploads + 1 \in Files /\ uploads' \in 0..MaxFiles
        /\ file' = file \cup {uploads + 1}
    BY <1>a, <1>3, KybBounds DEF UploadFile, Files
  <2>2. request' \in [Requests -> RequestType]
    <3> DEFINE new == [request[r] EXCEPT !.pc = "previous", !.new = uploads + 1]
    <3>1. request' = [request EXCEPT ![r] = new]
      BY <1>a, <1>3 DEF UploadFile
    <3>2. new \in RequestType
      BY <1>a, <2>1 DEF RequestType
    <3> HIDE DEF new
    <3> QED BY <1>a, <3>1, <3>2
  <2> QED BY <1>a, <1>b, <1>3, <2>1, <2>2 DEF UploadFile, history
<1>4. ASSUME NEW r \in Requests, FindPrevious(r) PROVE KybTypeOK'
  <2>1. Step(r, "insert")
        \/ \E f \in Files : request' = [request EXCEPT ![r].pc = "destroy", ![r].doc = f]
    BY <1>4 DEF FindPrevious, Rows
  <2>2. request' \in [Requests -> RequestType]
    <3>1. CASE Step(r, "insert")
      BY <1>e, <3>1
    <3>2. ASSUME NEW f \in Files, request' = [request EXCEPT ![r].pc = "destroy", ![r].doc = f]
          PROVE  request' \in [Requests -> RequestType]
      <4> DEFINE new == [request[r] EXCEPT !.pc = "destroy", !.doc = f]
      <4>1. request' = [request EXCEPT ![r] = new]
        BY <1>a, <3>2
      <4>2. new \in RequestType
        BY <1>a DEF RequestType
      <4> HIDE DEF new
      <4> QED BY <1>a, <4>1, <4>2
    <3> QED BY <2>1, <3>1, <3>2
  <2> QED BY <1>a, <1>b, <1>4, <2>2 DEF FindPrevious, docVars, history
<1>5. ASSUME NEW r \in Requests, InsertRow(r) PROVE KybTypeOK'
  <2>1. row' \in [Files -> RowType]
    <3> DEFINE inserted == [status |-> "PENDING", type |-> request[r].type]
    <3>1. row' = [row EXCEPT ![request[r].new] = inserted]
      BY <1>5 DEF InsertRow
    <3>2. inserted \in RowType
      BY <1>a DEF RowType, RequestType
    <3> HIDE DEF inserted
    <3> QED BY <1>a, <3>1, <3>2
  <2>2. request' \in [Requests -> RequestType]
    BY <1>d, <1>5 DEF InsertRow
  <2> QED BY <1>a, <1>b, <1>5, <2>1, <2>2 DEF InsertRow, history
<1>6. ASSUME NEW r \in Requests, BeginDelete(r) PROVE KybTypeOK'
  <2>1. PICK f \in Files : Begin(r, [Idle EXCEPT !.pc = "check", !.type = row[f].type, !.doc = f])
    BY <1>6 DEF BeginDelete, Rows
  <2>2. [Idle EXCEPT !.pc = "check", !.type = row[f].type, !.doc = f] \in RequestType
    BY <1>a, DefaultTypes DEF RequestType, RowType
  <2>3. request' \in [Requests -> RequestType]
    BY <1>a, <2>1, <2>2 DEF Begin
  <2>4. faults' \in Nat /\ overlaps' \in Nat
    BY <1>a, <2>1 DEF Begin
  <2> QED BY <1>a, <1>b, <1>6, <2>3, <2>4 DEF BeginDelete, docVars, history
<1>7. ASSUME NEW r \in Requests, CheckDelete(r) PROVE KybTypeOK'
  <2>1. request' \in [Requests -> RequestType]
    <3>1. CASE request' = [request EXCEPT ![r].pc = "destroy", ![r].seen = submissions]
      <4> DEFINE new == [request[r] EXCEPT !.pc = "destroy", !.seen = submissions]
      <4>1. request' = [request EXCEPT ![r] = new]
        BY <1>a, <3>1
      <4>2. new \in RequestType
        BY <1>a DEF RequestType
      <4> HIDE DEF new
      <4> QED BY <1>a, <4>1, <4>2
    <3> QED BY <1>d, <1>7, <3>1 DEF CheckDelete
  <2> QED BY <1>a, <1>b, <1>7, <2>1 DEF CheckDelete, docVars, history
<1>8. ASSUME NEW r \in Requests, DestroyFile(r) PROVE KybTypeOK'
  <2>1. request' \in [Requests -> RequestType]
    BY <1>e, <1>8 DEF DestroyFile
  <2>2. file' \subseteq Files /\ faults' \in Nat /\ overlaps' \in Nat
    BY <1>a, <1>f, <1>8 DEF DestroyFile
  <2> QED BY <1>a, <1>b, <1>8, <2>1, <2>2 DEF DestroyFile, history
<1>9. ASSUME NEW r \in Requests, DeleteRow(r) PROVE KybTypeOK'
  <2> DEFINE f == request[r].doc
             submitting(q) == request[q].pc = "submit"
             after == IF request[r].new = None \/ f \notin Rows THEN Idle
                      ELSE [request[r] EXCEPT !.pc = "insert", !.doc = None]
  <2>1. f \in Files \cup {None} /\ request[r].new \in Files \cup {None}
    BY <1>a DEF RequestType
  <2>2. CASE f \in Rows
    <3>1. /\ row' = [row EXCEPT ![f] = NoRow] /\ torn' = TRUE /\ UNCHANGED conflicts
          /\ request' = [q \in Requests |->
               IF q = r THEN after ELSE [request[q] EXCEPT !.torn = submitting(q)]]
      BY <1>9, <2>2 DEF DeleteRow
    <3>2. after \in RequestType
      <4>1. [request[r] EXCEPT !.pc = "insert", !.doc = None] \in RequestType
        BY <1>a DEF RequestType
      <4> QED BY <4>1, DefaultTypes
    <3>3. \A q \in Requests : [request[q] EXCEPT !.torn = submitting(q)] \in RequestType
      <4>1. \A q \in Requests : submitting(q) \in BOOLEAN
        OBVIOUS
      <4> HIDE DEF submitting
      <4> QED BY <1>a, <4>1 DEF RequestType
    <3> HIDE DEF after, submitting, f
    <3>4. request' \in [Requests -> RequestType]
      BY <3>1, <3>2, <3>3
    <3>5. row' \in [Files -> RowType]
      BY <1>a, <3>1, DefaultTypes
    <3> QED BY <1>a, <1>b, <1>9, <3>1, <3>4, <3>5 DEF DeleteRow
  <2>3. CASE f \notin Rows
    <3>1. conflicts' = conflicts \cup {request[r].new} /\ Finish(r) /\ UNCHANGED <<row, torn>>
      BY <1>9, <2>3 DEF DeleteRow
    <3>2. request' \in [Requests -> RequestType]
      BY <1>d, <3>1
    <3> HIDE DEF f
    <3> QED BY <1>a, <1>b, <1>9, <2>1, <3>1, <3>2 DEF DeleteRow
  <2> QED BY <2>2, <2>3
<1>10. ASSUME NEW r \in Requests, BeginSubmit(r) PROVE KybTypeOK'
  <2>1. Begin(r, [Idle EXCEPT !.pc = "documents"])
    BY <1>10 DEF BeginSubmit
  <2>2. [Idle EXCEPT !.pc = "documents"] \in RequestType
    BY DefaultTypes DEF RequestType
  <2>3. request' \in [Requests -> RequestType]
    BY <1>a, <2>1, <2>2 DEF Begin
  <2>4. faults' \in Nat /\ overlaps' \in Nat
    BY <1>a, <2>1 DEF Begin
  <2> QED BY <1>a, <1>b, <1>10, <2>3, <2>4 DEF BeginSubmit, docVars, history
<1>11. ASSUME NEW r \in Requests, ReadDocs(r) PROVE KybTypeOK'
  <2>1. request' \in [Requests -> RequestType]
    BY <1>d, <1>e, <1>11 DEF ReadDocs
  <2> QED BY <1>a, <1>b, <1>11, <2>1 DEF ReadDocs, docVars, history
<1>12. ASSUME NEW r \in Requests, Submit(r) PROVE KybTypeOK'
  <2>1. request' \in [Requests -> RequestType] /\ kyb' \in Kyb
    BY <1>d, <1>12 DEF Submit, Kyb
  <2>2. torn' \in BOOLEAN /\ submissions' \in Nat
    BY <1>a, <1>12 DEF Submit, RequestType
  <2> QED BY <1>a, <1>b, <1>12, <2>1, <2>2 DEF Submit, docVars
<1>13. ASSUME NEW r \in Requests, RequestDies(r) PROVE KybTypeOK'
  BY <1>a, <1>b, <1>d, <1>f, <1>13 DEF RequestDies, docVars, history
<1>14. ASSUME NEW v \in Reviewers, BeginReview(v) PROVE KybTypeOK'
  <2>1. reviewer' \in [Reviewers -> Verdicts]
    BY <1>a, <1>14 DEF BeginReview, Verdicts
  <2> QED BY <1>a, <1>b, <1>14, <2>1 DEF BeginReview, docVars, history
<1>15. ASSUME NEW v \in Reviewers, Judge(v) PROVE KybTypeOK'
  <2>1. row' \in [Files -> RowType]
    BY <1>a, <1>15 DEF Judge, RowType
  <2>2. kyb' \in Kyb /\ reviewer' \in [Reviewers -> Verdicts]
    BY <1>a, <1>15 DEF Judge, Kyb, Verdicts
  <2> QED BY <1>a, <1>b, <1>15, <2>1, <2>2 DEF Judge, history
<1>16. ASSUME NEW v \in Reviewers, ReviewDies(v) PROVE KybTypeOK'
  <2>1. reviewer' \in [Reviewers -> Verdicts]
    BY <1>a, <1>16 DEF ReviewDies, Verdicts
  <2> QED BY <1>a, <1>b, <1>f, <1>16, <2>1 DEF ReviewDies, docVars, history
<1>17. CASE UNCHANGED vars
  BY <1>a, <1>b, <1>17 DEF vars, docVars, history
<1> QED BY <1>1, <1>2, <1>3, <1>4, <1>5, <1>6, <1>7, <1>8, <1>9, <1>10, <1>11, <1>12, <1>13,
           <1>14, <1>15, <1>16, <1>17 DEF Next

\* Types of all variables, for every instance (KybService).
THEOREM KybTypes == Spec => []KybTypeOK
BY InitTypes, NextTypes, PTL DEF Spec

-----------------------------------------------------------------------------
(***************************************************************************)
(* Frozen under review                                                     *)
(***************************************************************************)

\* Only request r is changed.
Others(r) == \A q \in Requests \ {r} : request'[q] = request[q]

\* A step of a request changes that request.
LEMMA OthersStay ==
  ASSUME KybTypeOK, NEW r \in Requests,
         \/ BeginUpload(r) \/ CountDocs(r) \/ UploadFile(r) \/ FindPrevious(r) \/ InsertRow(r)
         \/ BeginDelete(r) \/ CheckDelete(r) \/ DestroyFile(r)
         \/ BeginSubmit(r) \/ ReadDocs(r) \/ RequestDies(r) \/ Submit(r)
  PROVE  Others(r)
<1> USE DEF KybTypeOK, Others
<1>1. CASE BeginUpload(r) \/ BeginDelete(r) \/ BeginSubmit(r)
  BY <1>1 DEF BeginUpload, BeginDelete, BeginSubmit, Begin
<1>2. CASE CountDocs(r) \/ UploadFile(r) \/ FindPrevious(r) \/ CheckDelete(r) \/ ReadDocs(r)
  BY <1>2 DEF CountDocs, UploadFile, FindPrevious, CheckDelete, ReadDocs, Step, Finish
<1>3. CASE InsertRow(r) \/ DestroyFile(r) \/ RequestDies(r) \/ Submit(r)
  BY <1>3 DEF InsertRow, DestroyFile, RequestDies, Submit, Step, Finish
<1> QED BY <1>1, <1>2, <1>3

\* DeleteRow marks the others, too, if they are submitting.
LEMMA RequestSteps ==
  ASSUME KybTypeOK, NEW r \in Requests,
         \/ BeginUpload(r) \/ CountDocs(r) \/ UploadFile(r) \/ FindPrevious(r) \/ InsertRow(r)
         \/ BeginDelete(r) \/ CheckDelete(r) \/ DestroyFile(r) \/ DeleteRow(r)
         \/ BeginSubmit(r) \/ ReadDocs(r) \/ RequestDies(r) \/ Submit(r)
  PROVE  \A q \in Requests \ {r} :
           /\ request'[q].pc = request[q].pc /\ request'[q].seen = request[q].seen
           /\ request'[q].new = request[q].new
<1> USE DEF KybTypeOK
<1>4. CASE DeleteRow(r)
  <2>1. CASE Finish(r)
    BY <2>1 DEF Finish
  <2>2. CASE request[r].doc \in Rows
    <3> DEFINE submitting(q) == request[q].pc = "submit"
    <3>1. \A q \in Requests \ {r} : request'[q] = [request[q] EXCEPT !.torn = submitting(q)]
      BY <1>4, <2>2 DEF DeleteRow
    <3>2. \A q \in Requests : request[q] \in RequestType
      BY DEF RequestType
    <3> HIDE DEF submitting, KybTypeOK
    <3> QED BY <3>1, <3>2 DEF RequestType
  <2> QED BY <1>4, <2>1, <2>2 DEF DeleteRow
<1> QED BY <1>4, OthersStay DEF Others

\* A request that begins or goes on to change documents reads the status, or
\* has read it.
LEMMA NextReadEarlier ==
  ASSUME KybTypeOK, ReadEarlier, [Next]_vars PROVE ReadEarlier'
<1>1. ASSUME NEW r \in Requests, UNCHANGED <<kyb, submissions>>,
             \A q \in Requests \ {r} :
               request'[q].pc = request[q].pc /\ request'[q].seen = request[q].seen,
             request'[r].seen <= submissions,
             kyb = "UNDER_REVIEW" /\ Changing(r)' => request'[r].seen < submissions
      PROVE  ReadEarlier'
  BY <1>1 DEF ReadEarlier, Changing
<1>2. ASSUME NEW r \in Requests, request' = [request EXCEPT ![r] = Idle]
      PROVE  request'[r].seen = 0 /\ request'[r].seen <= submissions /\ ~Changing(r)'
  BY <1>2 DEF Idle, Changing, KybTypeOK
<1>f. ASSUME NEW r \in Requests, request' = [request EXCEPT ![r] = Idle],
             UNCHANGED <<kyb, submissions>>
      PROVE  ReadEarlier'
  <2>1. \A q \in Requests \ {r} : request'[q] = request[q]
    BY <1>f DEF KybTypeOK
  <2> QED BY <1>1, <1>2, <1>f, <2>1
<1>3. ASSUME NEW r \in Requests, BeginUpload(r) PROVE ReadEarlier'
  <2>1. request'[r].seen = submissions /\ kyb # "UNDER_REVIEW" /\ UNCHANGED <<kyb, submissions>>
    BY <1>3 DEF BeginUpload, Begin, Idle, KybTypeOK
  <2>2. request'[r].seen <= submissions
    BY <2>1 DEF KybTypeOK
  <2> QED BY <1>1, <1>3, <2>1, <2>2, RequestSteps
<1>4. ASSUME NEW r \in Requests, BeginDelete(r) \/ BeginSubmit(r) PROVE ReadEarlier'
  <2>1. request'[r].seen = 0 /\ request'[r].pc \in {"check", "documents"}
        /\ UNCHANGED <<kyb, submissions>>
    <3>1. CASE BeginDelete(r)
      <4>1. PICK f \in Rows :
              request' = [request EXCEPT ![r] =
                [Idle EXCEPT !.pc = "check", !.type = row[f].type, !.doc = f]]
        BY <3>1 DEF BeginDelete, Begin
      <4> QED BY <3>1, <4>1 DEF BeginDelete, Idle, history, KybTypeOK
    <3>2. CASE BeginSubmit(r)
      BY <3>2 DEF BeginSubmit, Begin, Idle, history, KybTypeOK
    <3> QED BY <1>4, <3>1, <3>2
  <2>2. ~Changing(r)' /\ request'[r].seen <= submissions
    BY <2>1 DEF Changing, KybTypeOK
  <2> QED BY <1>1, <1>4, <2>1, <2>2, RequestSteps
<1>5. ASSUME NEW r \in Requests,
             CountDocs(r) \/ UploadFile(r) \/ FindPrevious(r) \/ DestroyFile(r)
      PROVE  ReadEarlier'
  <2>1. UNCHANGED <<kyb, submissions>> /\ Changing(r)
    BY <1>5 DEF CountDocs, UploadFile, FindPrevious, DestroyFile, Changing, history
  <2>2. request'[r].seen = request[r].seen \/ request' = [request EXCEPT ![r] = Idle]
    BY <1>5 DEF CountDocs, UploadFile, FindPrevious, DestroyFile, Step, Finish, KybTypeOK
  <2>3. CASE request'[r].seen = request[r].seen
    <3>1. request[r].seen <= submissions /\ (kyb = "UNDER_REVIEW" => request[r].seen < submissions)
      BY <2>1 DEF ReadEarlier
    <3> QED BY <1>1, <1>5, <2>1, <2>3, <3>1, RequestSteps
  <2>4. CASE request' = [request EXCEPT ![r] = Idle]
    BY <1>f, <2>1, <2>4
  <2> QED BY <2>2, <2>3, <2>4
<1>6. ASSUME NEW r \in Requests, CheckDelete(r) PROVE ReadEarlier'
  <2>1. CASE kyb # "UNDER_REVIEW"
    <3>1. request'[r].seen = submissions /\ UNCHANGED <<kyb, submissions>>
      BY <1>6, <2>1 DEF CheckDelete, history, KybTypeOK
    <3>2. request'[r].seen <= submissions
      BY <3>1 DEF KybTypeOK
    <3> QED BY <1>1, <1>6, <2>1, <3>1, <3>2, RequestSteps
  <2>2. CASE kyb = "UNDER_REVIEW"
    <3>1. request' = [request EXCEPT ![r] = Idle] /\ UNCHANGED <<kyb, submissions>>
      BY <1>6, <2>2 DEF CheckDelete, Finish, history
    <3> QED BY <1>f, <3>1
  <2> QED BY <2>1, <2>2
<1>7. ASSUME NEW r \in Requests, DeleteRow(r) PROVE ReadEarlier'
  <2> DEFINE submitting(q) == request[q].pc = "submit"
             after == IF request[r].new = None \/ request[r].doc \notin Rows THEN Idle
                      ELSE [request[r] EXCEPT !.pc = "insert", !.doc = None]
  <2>1. UNCHANGED <<kyb, submissions>> /\ Changing(r)
    BY <1>7 DEF DeleteRow, Changing
  <2>2. request'[r] = Idle \/ request'[r] = [request[r] EXCEPT !.pc = "insert", !.doc = None]
    <3>1. CASE request[r].doc \in Rows
      <4>1. request' = [q \in Requests |->
               IF q = r THEN after ELSE [request[q] EXCEPT !.torn = submitting(q)]]
        BY <1>7, <3>1 DEF DeleteRow
      <4>2. after = Idle \/ after = [request[r] EXCEPT !.pc = "insert", !.doc = None]
        OBVIOUS
      <4> HIDE DEF after, submitting
      <4> QED BY <4>1, <4>2
    <3>2. CASE request[r].doc \notin Rows
      BY <1>7, <3>2 DEF DeleteRow, Finish, KybTypeOK
    <3> QED BY <3>1, <3>2
  <2>3. request[r].seen <= submissions /\ (kyb = "UNDER_REVIEW" => request[r].seen < submissions)
    BY <2>1 DEF ReadEarlier
  <2>4. CASE request'[r] = Idle
    <3>1. request'[r].seen <= submissions /\ ~Changing(r)'
      BY <2>4 DEF Idle, Changing, KybTypeOK
    <3> QED BY <1>1, <1>7, <2>1, <3>1, RequestSteps
  <2>5. CASE request'[r] = [request[r] EXCEPT !.pc = "insert", !.doc = None]
    <3>1. request'[r].seen = request[r].seen
      BY <2>5 DEF KybTypeOK
    <3> QED BY <1>1, <1>7, <2>1, <2>3, <3>1, RequestSteps
  <2> QED BY <2>2, <2>4, <2>5
<1>8. ASSUME NEW r \in Requests, InsertRow(r) \/ RequestDies(r) PROVE ReadEarlier'
  <2>1. request' = [request EXCEPT ![r] = Idle] /\ UNCHANGED <<kyb, submissions>>
    BY <1>8 DEF InsertRow, RequestDies, Finish, history
  <2> QED BY <1>f, <2>1
<1>9. ASSUME NEW r \in Requests, ReadDocs(r) PROVE ReadEarlier'
  <2>1. UNCHANGED <<kyb, submissions>>
    BY <1>9 DEF ReadDocs, history
  <2>2. CASE Step(r, "submit")
    <3>1. request'[r].seen = request[r].seen /\ ~Changing(r)'
      BY <2>2 DEF Step, Changing, KybTypeOK
    <3>2. request'[r].seen <= submissions
      BY <3>1 DEF ReadEarlier
    <3> QED BY <1>1, <1>9, <2>1, <3>1, <3>2, RequestSteps
  <2>3. CASE Finish(r)
    BY <1>f, <2>1, <2>3 DEF Finish
  <2> QED BY <1>9, <2>2, <2>3 DEF ReadDocs
<1>10. ASSUME NEW r \in Requests, Submit(r) PROVE ReadEarlier'
  <2>1. submissions' = submissions + 1
    BY <1>10 DEF Submit
  <2>2. request'[r].seen = 0
    BY <1>2, <1>10 DEF Submit, Finish
  <2>3. \A q \in Requests : request'[q].seen <= submissions /\ request'[q].seen \in Nat
    <3>1. request'[r].seen <= submissions /\ request'[r].seen \in Nat
      BY <2>2 DEF KybTypeOK
    <3>2. \A q \in Requests \ {r} : request'[q].seen <= submissions /\ request'[q].seen \in Nat
      <4>1. \A q \in Requests \ {r} : request'[q].seen = request[q].seen
        BY <1>10, RequestSteps
      <4>2. \A q \in Requests : request[q].seen <= submissions /\ request[q].seen \in Nat
        BY DEF ReadEarlier, KybTypeOK
      <4> QED BY <4>1, <4>2
    <3> QED BY <3>1, <3>2
  <2>4. submissions \in Nat
    BY DEF KybTypeOK
  <2> QED BY <2>1, <2>3, <2>4 DEF ReadEarlier
<1>11. ASSUME NEW v \in Reviewers, BeginReview(v) \/ Judge(v) \/ ReviewDies(v) PROVE ReadEarlier'
  <2>1. UNCHANGED <<request, submissions>> /\ (kyb' = "UNDER_REVIEW" => kyb = "UNDER_REVIEW")
    BY <1>11 DEF BeginReview, Judge, ReviewDies, history, KybTypeOK
  <2> QED BY <2>1 DEF ReadEarlier, Changing
<1>12. CASE UNCHANGED vars
  BY <1>12 DEF vars, history, ReadEarlier, Changing
<1> QED BY <1>3, <1>4, <1>5, <1>6, <1>7, <1>8, <1>9, <1>10, <1>11, <1>12 DEF Next

\* While documents are under review, what changes them is a request that was
\* admitted before the submission, never one that came later (uploadDocument,
\* deleteDocument).
THEOREM ReviewFreezesDocuments == Spec => []FrozenUnderReview
<1>1. Init => ReadEarlier
  BY DEF Init, ReadEarlier, Changing, Idle
<1>2. KybTypeOK /\ ReadEarlier /\ [Next]_vars => ReadEarlier'
  BY NextReadEarlier
<1>3. ReadEarlier => FrozenUnderReview
  BY DEF ReadEarlier, FrozenUnderReview, Changing
<1> QED BY <1>1, <1>2, <1>3, KybTypes, PTL DEF Spec

-----------------------------------------------------------------------------
(***************************************************************************)
(* What is submitted is complete                                           *)
(***************************************************************************)

\* Uploads keep their numbers to themselves.
LEMMA NextNumbers ==
  ASSUME KybTypeOK, NumbersAreFresh, [Next]_vars PROVE NumbersAreFresh'
<1>a. /\ \A r \in Requests : request[r].new \in Files \cup {None} /\ None \notin Files
      /\ \A f \in Files : f \in Nat
  BY DEF KybTypeOK, Files, None
<1>b. uploads \in Nat
  BY KybBounds DEF KybTypeOK
<1>1. ASSUME NEW r \in Requests, uploads' = uploads,
             \A f \in Files : row'[f].status = "none" <=> row[f].status = "none",
             \A q \in Requests \ {r} :
               request'[q].pc = request[q].pc /\ request'[q].new = request[q].new,
             request'[r].new = None \/ request'[r].new = request[r].new,
             request'[r].pc \in {"previous", "insert"} => request'[r].new # None
      PROVE  NumbersAreFresh'
  BY <1>a, <1>1 DEF NumbersAreFresh
<1>2. ASSUME NEW r \in Requests, request' = [request EXCEPT ![r] = Idle]
      PROVE  request'[r].new = None /\ request'[r].pc = "idle"
  BY <1>2 DEF Idle, KybTypeOK
<1>3. ASSUME NEW r \in Requests, BeginUpload(r) \/ BeginDelete(r) \/ BeginSubmit(r)
      PROVE  NumbersAreFresh'
  <2>1. request'[r].new = None /\ request'[r].pc \in {"count", "check", "documents"}
    <3>1. CASE BeginUpload(r)
      BY <3>1 DEF BeginUpload, Begin, Idle, KybTypeOK
    <3>2. CASE BeginDelete(r)
      <4>1. PICK f \in Rows :
              request' = [request EXCEPT ![r] =
                [Idle EXCEPT !.pc = "check", !.type = row[f].type, !.doc = f]]
        BY <3>2 DEF BeginDelete, Begin
      <4> QED BY <4>1 DEF Idle, KybTypeOK
    <3>3. CASE BeginSubmit(r)
      BY <3>3 DEF BeginSubmit, Begin, Idle, KybTypeOK
    <3> QED BY <1>3, <3>1, <3>2, <3>3
  <2>2. UNCHANGED <<row, uploads>>
    BY <1>3 DEF BeginUpload, BeginDelete, BeginSubmit, docVars
  <2> QED BY <1>1, <1>3, <2>1, <2>2, RequestSteps
<1>4. ASSUME NEW r \in Requests, CountDocs(r) \/ FindPrevious(r) \/ CheckDelete(r)
                                 \/ DestroyFile(r) \/ ReadDocs(r)
      PROVE  NumbersAreFresh'
  <2>1. UNCHANGED <<row, uploads>>
    BY <1>4 DEF CountDocs, FindPrevious, CheckDelete, DestroyFile, ReadDocs, docVars
  <2>2. CASE request' = [request EXCEPT ![r] = Idle]
    <3>1. request'[r].new = None /\ request'[r].pc = "idle"
      BY <1>2, <2>2
    <3>2. \A q \in Requests \ {r} :
            request'[q].pc = request[q].pc /\ request'[q].new = request[q].new
      BY <1>4, RequestSteps
    <3> QED BY <1>1, <2>1, <3>1, <3>2
  <2>3. CASE request' # [request EXCEPT ![r] = Idle]
    <3>1. /\ request'[r].new = request[r].new
          /\ request'[r].pc \in {"previous", "insert"} => request[r].pc = "previous"
      BY <1>4, <2>3
      DEF CountDocs, FindPrevious, CheckDelete, DestroyFile, ReadDocs, Step, Finish, KybTypeOK
    <3>2. request'[r].pc \in {"previous", "insert"} => request'[r].new # None
      BY <3>1 DEF NumbersAreFresh
    <3> QED BY <1>1, <1>4, <2>1, <3>1, <3>2, RequestSteps
  <2> QED BY <2>2, <2>3
<1>5. ASSUME NEW r \in Requests, UploadFile(r) PROVE NumbersAreFresh'
  <2>1. /\ request'[r].new = uploads + 1 /\ uploads' = uploads + 1 /\ UNCHANGED row
        /\ uploads + 1 \in Files
    BY <1>5, KybBounds DEF UploadFile, KybTypeOK, Files
  <2>2. \A q \in Requests \ {r} :
          request'[q].pc = request[q].pc /\ request'[q].new = request[q].new
    BY <1>5, RequestSteps
  <2>3. \A q \in Requests : request[q].new # None =>
          /\ request[q].new \in Files /\ request[q].new <= uploads
          /\ row[request[q].new].status = "none"
    BY <1>a DEF NumbersAreFresh
  <2>4. \A f \in Files : f > uploads' => row'[f].status = "none"
    BY <1>a, <1>b, <2>1 DEF NumbersAreFresh
  <2>5. row[uploads + 1].status = "none" /\ uploads + 1 # None
    BY <1>a, <1>b, <2>1 DEF NumbersAreFresh
  <2>6. \A q \in Requests : request'[q].new # None =>
          request'[q].new <= uploads' /\ row'[request'[q].new].status = "none"
    BY <1>a, <1>b, <2>1, <2>2, <2>3, <2>5
  <2>7. \A q \in Requests \ {r} : request'[q].new # uploads + 1
    BY <1>a, <1>b, <2>2, <2>3, <2>5
  <2>8. \A q, o \in Requests : q # o /\ request'[q].new # None => request'[q].new # request'[o].new
    BY <2>1, <2>2, <2>7 DEF NumbersAreFresh
  <2>9. \A q \in Requests : request'[q].pc \in {"previous", "insert"} => request'[q].new # None
    BY <2>1, <2>2, <2>5 DEF NumbersAreFresh
  <2> QED BY <2>4, <2>6, <2>8, <2>9 DEF NumbersAreFresh
<1>6. ASSUME NEW r \in Requests, InsertRow(r) PROVE NumbersAreFresh'
  <2> DEFINE n == request[r].new
  <2>1. n \in Files /\ n <= uploads
    BY <1>a, <1>6 DEF InsertRow, NumbersAreFresh
  <2>2. uploads' = uploads /\ \A f \in Files \ {n} : row'[f] = row[f]
    BY <1>6 DEF InsertRow, KybTypeOK
  <2>3. request'[r].new = None /\ request'[r].pc = "idle"
    BY <1>2, <1>6 DEF InsertRow, Finish
  <2>4. \A q \in Requests \ {r} : /\ request'[q].pc = request[q].pc
                                  /\ request'[q].new = request[q].new /\ request[q].new # n
    BY <1>a, <1>6, <2>1, RequestSteps DEF NumbersAreFresh
  <2> HIDE DEF n
  <2> QED BY <1>a, <1>b, <2>1, <2>2, <2>3, <2>4 DEF NumbersAreFresh
<1>7. ASSUME NEW r \in Requests, DeleteRow(r) PROVE NumbersAreFresh'
  <2> DEFINE submitting(q) == request[q].pc = "submit"
             moved == [request[r] EXCEPT !.pc = "insert", !.doc = None]
             after == IF request[r].new = None \/ request[r].doc \notin Rows THEN Idle ELSE moved
  <2>1. \A f \in Files : row[f].status = "none" => row'[f].status = "none"
    <3>1. row' = row \/ row' = [row EXCEPT ![request[r].doc] = NoRow]
      BY <1>7 DEF DeleteRow
    <3> QED BY <3>1 DEF KybTypeOK, NoRow
  <2>2. request'[r] = Idle \/ (request'[r] = moved /\ request[r].new # None)
    <3>1. CASE request[r].doc \in Rows
      <4>1. request' = [q \in Requests |->
               IF q = r THEN after ELSE [request[q] EXCEPT !.torn = submitting(q)]]
        BY <1>7, <3>1 DEF DeleteRow
      <4>2. after = Idle \/ (after = moved /\ request[r].new # None)
        OBVIOUS
      <4> HIDE DEF after, moved, submitting
      <4> QED BY <4>1, <4>2
    <3>2. CASE request[r].doc \notin Rows
      BY <1>7, <3>2 DEF DeleteRow, Finish, KybTypeOK
    <3> QED BY <3>1, <3>2
  <2>3. \/ request'[r].new = None /\ request'[r].pc = "idle"
        \/ request'[r].new = request[r].new /\ request[r].new # None
    <3>1. CASE request'[r] = Idle
      BY <3>1 DEF Idle
    <3>2. CASE request'[r] = moved /\ request[r].new # None
      BY <3>2 DEF KybTypeOK
    <3> QED BY <2>2, <3>1, <3>2
  <2>4. uploads' = uploads
    BY <1>7 DEF DeleteRow
  <2>5. \A q \in Requests \ {r} :
          request'[q].pc = request[q].pc /\ request'[q].new = request[q].new
    BY <1>7, RequestSteps
  <2> QED BY <1>a, <2>1, <2>3, <2>4, <2>5 DEF NumbersAreFresh
<1>8. ASSUME NEW r \in Requests, RequestDies(r) \/ Submit(r) PROVE NumbersAreFresh'
  <2>1. request' = [request EXCEPT ![r] = Idle] /\ UNCHANGED <<row, uploads>>
    BY <1>8 DEF RequestDies, Submit, Finish, docVars
  <2>2. request'[r].new = None /\ request'[r].pc = "idle"
    BY <1>2, <2>1
  <2>3. \A q \in Requests \ {r} :
          request'[q].pc = request[q].pc /\ request'[q].new = request[q].new
    BY <1>8, RequestSteps
  <2> QED BY <1>1, <2>1, <2>2, <2>3
<1>9. ASSUME NEW v \in Reviewers, BeginReview(v) \/ Judge(v) \/ ReviewDies(v)
      PROVE  NumbersAreFresh'
  <2>1. UNCHANGED <<request, uploads>>
        /\ \A f \in Files : row'[f].status = "none" <=> row[f].status = "none"
    BY <1>9 DEF BeginReview, Judge, ReviewDies, docVars, KybTypeOK
  <2>2. \A f \in Files : f > uploads' => row'[f].status = "none"
    BY <2>1 DEF NumbersAreFresh
  <2>3. \A r \in Requests : request[r].new # None =>
          request[r].new <= uploads' /\ row'[request[r].new].status = "none"
    BY <1>a, <2>1 DEF NumbersAreFresh
  <2>4. \A r \in Requests : request'[r] = request[r]
    BY <2>1
  <2>5. \A q, r \in Requests : q # r /\ request'[q].new # None => request'[q].new # request'[r].new
    BY <2>4 DEF NumbersAreFresh
  <2>6. \A r \in Requests : request'[r].pc \in {"previous", "insert"} => request'[r].new # None
    BY <2>4 DEF NumbersAreFresh
  <2>7. \A r \in Requests : request'[r].new # None =>
          request'[r].new <= uploads' /\ row'[request'[r].new].status = "none"
    BY <2>3, <2>4
  <2> QED BY <2>2, <2>5, <2>6, <2>7 DEF NumbersAreFresh
<1>10. CASE UNCHANGED vars
  BY <1>10 DEF vars, docVars, NumbersAreFresh
<1> QED BY <1>3, <1>4, <1>5, <1>6, <1>7, <1>8, <1>9, <1>10 DEF Next

\* What is under review stays complete, unless a document is removed
\* (deleteDocument, uploadDocument), and what a submission has found, too.
LEMMA NextComplete ==
  ASSUME KybTypeOK, NumbersAreFresh, FoundComplete, SubmittedIsComplete, [Next]_vars
  PROVE  FoundComplete' /\ SubmittedIsComplete'
<1> DEFINE Kept == \A f \in Rows : f \in Rows' /\ row'[f].type = row[f].type
<1>1. ASSUME Kept, Complete PROVE Complete'
  BY <1>1 DEF Complete
<1>2. ASSUME Kept, torn' = torn, kyb' = "UNDER_REVIEW" => kyb = "UNDER_REVIEW",
             \A r \in Requests : request'[r].pc = "submit" =>
               request[r].pc = "submit" /\ request'[r].torn = request[r].torn
      PROVE  FoundComplete' /\ SubmittedIsComplete'
  BY <1>1, <1>2 DEF FoundComplete, SubmittedIsComplete
<1>3. row' = row => Kept
  BY DEF Rows
<1>4. ASSUME NEW r \in Requests, Others(r), request'[r].pc # "submit"
      PROVE  \A q \in Requests : request'[q].pc = "submit" =>
               request[q].pc = "submit" /\ request'[q].torn = request[q].torn
  BY <1>4 DEF Others
<1>5. ASSUME NEW r \in Requests, request' = [request EXCEPT ![r] = Idle]
      PROVE  request'[r].pc # "submit"
  BY <1>5 DEF Idle, KybTypeOK
<1>6. ASSUME NEW r \in Requests,
             \/ BeginUpload(r) \/ CountDocs(r) \/ UploadFile(r) \/ FindPrevious(r)
             \/ BeginDelete(r) \/ CheckDelete(r) \/ DestroyFile(r) \/ BeginSubmit(r)
             \/ RequestDies(r)
      PROVE  FoundComplete' /\ SubmittedIsComplete'
  <2>1. UNCHANGED <<kyb, row, torn>>
    BY <1>6 DEF BeginUpload, CountDocs, UploadFile, FindPrevious, BeginDelete, CheckDelete,
       DestroyFile, BeginSubmit, RequestDies, docVars, history
  <2>2. request'[r].pc # "submit"
    <3>1. CASE BeginUpload(r)
      BY <3>1 DEF BeginUpload, Begin, Idle, KybTypeOK
    <3>2. CASE BeginDelete(r)
      <4>1. PICK f \in Rows :
              request' = [request EXCEPT ![r] =
                [Idle EXCEPT !.pc = "check", !.type = row[f].type, !.doc = f]]
        BY <3>2 DEF BeginDelete, Begin
      <4> QED BY <4>1 DEF Idle, KybTypeOK
    <3>3. CASE BeginSubmit(r)
      BY <3>3 DEF BeginSubmit, Begin, Idle, KybTypeOK
    <3>4. CASE CountDocs(r) \/ UploadFile(r) \/ FindPrevious(r)
      BY <1>5, <3>4 DEF CountDocs, UploadFile, FindPrevious, Step, Finish, KybTypeOK
    <3>5. CASE CheckDelete(r) \/ DestroyFile(r) \/ RequestDies(r)
      BY <1>5, <3>5 DEF CheckDelete, DestroyFile, RequestDies, Step, Finish, KybTypeOK
    <3> QED BY <1>6, <3>1, <3>2, <3>3, <3>4, <3>5
  <2>3. Others(r)
    BY <1>6, OthersStay
  <2> QED BY <1>2, <1>3, <1>4, <2>1, <2>2, <2>3
<1>7. ASSUME NEW r \in Requests, InsertRow(r)
      PROVE  FoundComplete' /\ SubmittedIsComplete'
  <2>1. UNCHANGED <<kyb, torn>> /\ request'[r].pc # "submit" /\ Others(r)
    BY <1>5, <1>7, OthersStay DEF InsertRow, Finish, history
  <2>2. request[r].new \notin Rows
    BY <1>7 DEF InsertRow, NumbersAreFresh, Rows
  <2>3. Kept
    BY <1>7, <2>2 DEF InsertRow, Rows, KybTypeOK
  <2> QED BY <1>2, <1>4, <2>1, <2>3
<1>8. ASSUME NEW r \in Requests, DeleteRow(r)
      PROVE  FoundComplete' /\ SubmittedIsComplete'
  <2>1. kyb' = kyb
    BY <1>8 DEF DeleteRow
  <2>2. CASE request[r].doc \notin Rows
    <3>1. row' = row /\ torn' = torn /\ request' = [request EXCEPT ![r] = Idle]
      BY <1>8, <2>2 DEF DeleteRow, Finish
    <3>2. Others(r) /\ request'[r].pc # "submit"
      BY <1>5, <3>1 DEF Others, KybTypeOK
    <3> QED BY <1>2, <1>3, <1>4, <2>1, <3>1, <3>2
  <2>3. CASE request[r].doc \in Rows
    <3> DEFINE submitting(q) == request[q].pc = "submit"
    <3>1. torn' = TRUE
      BY <1>8, <2>3 DEF DeleteRow
    <3>2. request'[r].pc # "submit"
      <4> DEFINE moved == [request[r] EXCEPT !.pc = "insert", !.doc = None]
      <4>1. request'[r] = Idle \/ request'[r] = moved
        BY <1>8, <2>3 DEF DeleteRow
      <4>2. CASE request'[r] = Idle
        BY <4>2 DEF Idle
      <4>3. CASE request'[r] = moved
        BY <4>3 DEF KybTypeOK
      <4> QED BY <4>1, <4>2, <4>3
    <3>3. \A q \in Requests \ {r} : request'[q] = [request[q] EXCEPT !.torn = submitting(q)]
      BY <1>8, <2>3 DEF DeleteRow
    <3>4. \A q \in Requests : request[q] \in RequestType
      BY DEF RequestType, KybTypeOK
    <3>5. \A q \in Requests \ {r} :
            request'[q].pc = request[q].pc /\ request'[q].torn = submitting(q)
      <4> HIDE DEF submitting
      <4> QED BY <3>3, <3>4 DEF RequestType
    <3>6. \A q \in Requests : request'[q].pc = "submit" => request'[q].torn
      BY <3>2, <3>5
    <3> QED BY <3>1, <3>6 DEF FoundComplete, SubmittedIsComplete
  <2> QED BY <2>2, <2>3
<1>9. ASSUME NEW r \in Requests, ReadDocs(r)
      PROVE  FoundComplete' /\ SubmittedIsComplete'
  <2>1. UNCHANGED <<kyb, row, torn>>
    BY <1>9 DEF ReadDocs, docVars, history
  <2>2. Others(r) /\ (request'[r].pc = "submit" => Complete)
    BY <1>5, <1>9, OthersStay DEF ReadDocs, Finish
  <2>3. Complete' <=> Complete
    BY <2>1 DEF Complete, Rows
  <2> QED BY <2>1, <2>2, <2>3 DEF Others, FoundComplete, SubmittedIsComplete
<1>10. ASSUME NEW r \in Requests, Submit(r)
       PROVE  FoundComplete' /\ SubmittedIsComplete'
  <2>1. row' = row /\ torn' = request[r].torn /\ request[r].pc = "submit"
    BY <1>10 DEF Submit, docVars
  <2>2. Others(r) /\ request'[r].pc # "submit"
    BY <1>5, <1>10, OthersStay DEF Submit, Finish
  <2>3. Complete' <=> Complete
    BY <2>1 DEF Complete, Rows
  <2>4. Complete' \/ torn'
    BY <2>1, <2>3 DEF FoundComplete
  <2> QED BY <2>2, <2>3, <2>4 DEF Others, FoundComplete, SubmittedIsComplete
<1>11. ASSUME NEW v \in Reviewers, BeginReview(v) \/ Judge(v) \/ ReviewDies(v)
       PROVE  FoundComplete' /\ SubmittedIsComplete'
  <2>1. UNCHANGED <<request, torn>> /\ (kyb' = "UNDER_REVIEW" => kyb = "UNDER_REVIEW")
    BY <1>11 DEF BeginReview, Judge, ReviewDies, docVars, history, KybTypeOK
  <2>2. Kept
    BY <1>11 DEF BeginReview, Judge, ReviewDies, docVars, Rows, KybTypeOK
  <2>3. \A r \in Requests : request'[r] = request[r]
    BY <2>1
  <2> QED BY <1>2, <2>1, <2>2, <2>3
<1>12. CASE UNCHANGED vars
  BY <1>12 DEF vars, docVars, history, FoundComplete, SubmittedIsComplete, Complete, Rows
<1> QED BY <1>6, <1>7, <1>8, <1>9, <1>10, <1>11, <1>12 DEF Next

\* What is under review has all required documents, unless another request has
\* removed one since they were read (submit).
THEOREM SubmissionsAreComplete == Spec => []SubmittedIsComplete
<1>1. Init => NumbersAreFresh /\ FoundComplete /\ SubmittedIsComplete
  BY DEF Init, NumbersAreFresh, FoundComplete, SubmittedIsComplete, Idle, NoRow
<1>2. KybTypeOK /\ NumbersAreFresh /\ FoundComplete /\ SubmittedIsComplete /\ [Next]_vars
        => (NumbersAreFresh /\ FoundComplete /\ SubmittedIsComplete)'
  BY NextNumbers, NextComplete
<1> QED BY <1>1, <1>2, KybTypes, PTL DEF Spec
-----------------------------------------------------------------------------
(***************************************************************************)
(* What a step does to a request                                           *)
(***************************************************************************)

\* Where request r gets to; the others stay, but for what submissions note.
Becomes(r, pc, type, doc, new) ==
  /\ request'[r].pc = pc /\ request'[r].type = type
  /\ request'[r].doc = doc /\ request'[r].new = new
  /\ \A q \in Requests \ {r} :
       /\ request'[q].pc = request[q].pc /\ request'[q].type = request[q].type
       /\ request'[q].doc = request[q].doc /\ request'[q].new = request[q].new

Ends(r) == Becomes(r, "idle", Idle.type, None, None)
Moves(r, pc) == Becomes(r, pc, request[r].type, request[r].doc, request[r].new)

\* A request replaced by a record gets to the fields of the record.
LEMMA Becoming ==
  ASSUME KybTypeOK, NEW r \in Requests, NEW locals, request' = [request EXCEPT ![r] = locals]
  PROVE  Becomes(r, locals.pc, locals.type, locals.doc, locals.new)
BY DEF Becomes, KybTypeOK

\* Finish and Step.
LEMMA FinishEnds ==
  ASSUME KybTypeOK, NEW r \in Requests, Finish(r)
  PROVE  Ends(r)
<1>1. Becomes(r, Idle.pc, Idle.type, Idle.doc, Idle.new)
  BY Becoming DEF Finish
<1>2. Idle.pc = "idle" /\ Idle.doc = None /\ Idle.new = None
  BY DEF Idle
<1> QED BY <1>1, <1>2 DEF Ends

LEMMA StepMoves ==
  ASSUME KybTypeOK, NEW r \in Requests, NEW p, Step(r, p)
  PROVE  Moves(r, p)
BY DEF Step, Moves, Becomes, KybTypeOK

\* Begin, on a free request.
LEMMA BeginBecomes ==
  ASSUME KybTypeOK, NEW r \in Requests, NEW locals, Begin(r, locals)
  PROVE  request[r].pc = "idle" /\ Becomes(r, locals.pc, locals.type, locals.doc, locals.new)
BY Becoming DEF Begin

\* uploadDocument, until its document is inserted.
LEMMA UploadSteps ==
  ASSUME KybTypeOK, NEW r \in Requests
  PROVE  /\ BeginUpload(r) =>
              /\ request[r].pc = "idle"
              /\ \E t \in Types :
                   /\ Becomes(r, "count", t, None, None)
                   /\ doubled \subseteq doubled'
                   /\ \A q \in Requests : Uploading(q) /\ request[q].type = t => t \in doubled'
         /\ CountDocs(r) => request[r].pc = "count" /\ (Moves(r, "upload") \/ Ends(r))
         /\ UploadFile(r) =>
              /\ request[r].pc = "upload"
              /\ Becomes(r, "previous", request[r].type, request[r].doc, uploads + 1)
         /\ FindPrevious(r) =>
              /\ request[r].pc = "previous"
              /\ \/ /\ Moves(r, "insert")
                    /\ \A f \in Rows : row[f].type = request[r].type => row[f].status = "APPROVED"
                 \/ \E f \in Rows :
                      /\ row[f].type = request[r].type /\ row[f].status # "APPROVED"
                      /\ Becomes(r, "destroy", request[r].type, f, request[r].new)
         /\ InsertRow(r) => request[r].pc = "insert" /\ Ends(r)
<1>1. ASSUME BeginUpload(r)
      PROVE  /\ request[r].pc = "idle"
             /\ \E t \in Types :
                  /\ Becomes(r, "count", t, None, None)
                  /\ doubled \subseteq doubled'
                  /\ \A q \in Requests : Uploading(q) /\ request[q].type = t => t \in doubled'
  <2>1. PICK t \in Types :
          /\ Begin(r, [Idle EXCEPT !.pc = "count", !.type = t, !.seen = submissions])
          /\ doubled' = IF \E q \in Requests : Uploading(q) /\ request[q].type = t
                        THEN doubled \cup {t} ELSE doubled
    BY <1>1 DEF BeginUpload
  <2> DEFINE locals == [Idle EXCEPT !.pc = "count", !.type = t, !.seen = submissions]
  <2>2. locals.pc = "count" /\ locals.type = t /\ locals.doc = None /\ locals.new = None
    BY DEF Idle
  <2>3. Begin(r, locals)
    BY <2>1
  <2> HIDE DEF locals
  <2>4. request[r].pc = "idle" /\ Becomes(r, "count", t, None, None)
    BY <2>2, <2>3, BeginBecomes
  <2>5. doubled \subseteq doubled'
        /\ \A q \in Requests : Uploading(q) /\ request[q].type = t => t \in doubled'
    BY <2>1
  <2> QED BY <2>4, <2>5
<1>2. ASSUME CountDocs(r) PROVE request[r].pc = "count" /\ (Moves(r, "upload") \/ Ends(r))
  BY <1>2, FinishEnds, StepMoves DEF CountDocs
<1>3. ASSUME UploadFile(r)
      PROVE  /\ request[r].pc = "upload"
             /\ Becomes(r, "previous", request[r].type, request[r].doc, uploads + 1)
  <2> DEFINE locals == [request[r] EXCEPT !.pc = "previous", !.new = uploads + 1]
  <2>1. request' = [request EXCEPT ![r] = locals] /\ request[r].pc = "upload"
    BY <1>3 DEF UploadFile, KybTypeOK
  <2>2. /\ locals.pc = "previous" /\ locals.type = request[r].type
        /\ locals.doc = request[r].doc /\ locals.new = uploads + 1
    BY DEF KybTypeOK
  <2> HIDE DEF locals
  <2> QED BY <2>1, <2>2, Becoming
<1>4. ASSUME FindPrevious(r)
      PROVE  /\ request[r].pc = "previous"
             /\ \/ /\ Moves(r, "insert")
                   /\ \A f \in Rows : row[f].type = request[r].type => row[f].status = "APPROVED"
                \/ \E f \in Rows :
                     /\ row[f].type = request[r].type /\ row[f].status # "APPROVED"
                     /\ Becomes(r, "destroy", request[r].type, f, request[r].new)
  <2> DEFINE replaced ==
        {f \in Rows : row[f].type = request[r].type /\ row[f].status # "APPROVED"}
  <2>1. request[r].pc = "previous"
    BY <1>4 DEF FindPrevious
  <2>2. CASE replaced = {}
    <3>1. Step(r, "insert")
      BY <1>4, <2>2 DEF FindPrevious
    <3> QED BY <2>1, <2>2, <3>1, StepMoves
  <2>3. CASE replaced # {}
    <3>1. PICK f \in replaced : request' = [request EXCEPT ![r].pc = "destroy", ![r].doc = f]
      BY <1>4, <2>3 DEF FindPrevious
    <3> DEFINE locals == [request[r] EXCEPT !.pc = "destroy", !.doc = f]
    <3>2. request' = [request EXCEPT ![r] = locals]
      BY <3>1 DEF KybTypeOK
    <3>3. /\ locals.pc = "destroy" /\ locals.type = request[r].type
          /\ locals.doc = f /\ locals.new = request[r].new
      BY DEF KybTypeOK
    <3> HIDE DEF locals
    <3>4. Becomes(r, "destroy", request[r].type, f, request[r].new)
      BY <3>2, <3>3, Becoming
    <3>5. f \in Rows /\ row[f].type = request[r].type /\ row[f].status # "APPROVED"
      BY <3>1
    <3> QED BY <2>1, <3>4, <3>5
  <2> QED BY <2>2, <2>3
<1>5. ASSUME InsertRow(r) PROVE request[r].pc = "insert" /\ Ends(r)
  BY <1>5, FinishEnds DEF InsertRow
<1> QED BY <1>1, <1>2, <1>3, <1>4, <1>5

\* deleteDocument, and the removal of a replaced document.
LEMMA DeleteSteps ==
  ASSUME KybTypeOK, NEW r \in Requests
  PROVE  /\ BeginDelete(r) =>
              /\ request[r].pc = "idle"
              /\ \E f \in Rows : Becomes(r, "check", row[f].type, f, None)
         /\ CheckDelete(r) => request[r].pc = "check" /\ (Moves(r, "destroy") \/ Ends(r))
         /\ DestroyFile(r) => request[r].pc = "destroy" /\ Moves(r, "delete")
         /\ DeleteRow(r) =>
              /\ request[r].pc = "delete"
              /\ \/ request[r].new = None /\ Ends(r)
                 \/ request[r].doc \notin Rows /\ Ends(r)
                 \/ Becomes(r, "insert", request[r].type, None, request[r].new)
<1>1. ASSUME BeginDelete(r)
      PROVE  /\ request[r].pc = "idle"
             /\ \E f \in Rows : Becomes(r, "check", row[f].type, f, None)
  <2>1. PICK f \in Rows : Begin(r, [Idle EXCEPT !.pc = "check", !.type = row[f].type, !.doc = f])
    BY <1>1 DEF BeginDelete
  <2> DEFINE locals == [Idle EXCEPT !.pc = "check", !.type = row[f].type, !.doc = f]
  <2>2. locals.pc = "check" /\ locals.type = row[f].type /\ locals.doc = f /\ locals.new = None
    BY DEF Idle
  <2>3. Begin(r, locals)
    BY <2>1
  <2> HIDE DEF locals
  <2> QED BY <2>2, <2>3, BeginBecomes
<1>2. ASSUME CheckDelete(r)
      PROVE  request[r].pc = "check" /\ (Moves(r, "destroy") \/ Ends(r))
  <2>1. request[r].pc = "check"
    BY <1>2 DEF CheckDelete
  <2>2. CASE request' = [request EXCEPT ![r].pc = "destroy", ![r].seen = submissions]
    <3> DEFINE locals == [request[r] EXCEPT !.pc = "destroy", !.seen = submissions]
    <3>1. request' = [request EXCEPT ![r] = locals]
      BY <2>2 DEF KybTypeOK
    <3>2. /\ locals.pc = "destroy" /\ locals.type = request[r].type
          /\ locals.doc = request[r].doc /\ locals.new = request[r].new
      BY DEF KybTypeOK
    <3> HIDE DEF locals
    <3> QED BY <2>1, <3>1, <3>2, Becoming DEF Moves
  <2>3. CASE Finish(r)
    BY <2>1, <2>3, FinishEnds
  <2> QED BY <1>2, <2>2, <2>3 DEF CheckDelete
<1>3. ASSUME DestroyFile(r) PROVE request[r].pc = "destroy" /\ Moves(r, "delete")
  BY <1>3, StepMoves DEF DestroyFile
<1>4. ASSUME DeleteRow(r)
      PROVE  /\ request[r].pc = "delete"
             /\ \/ request[r].new = None /\ Ends(r)
                \/ request[r].doc \notin Rows /\ Ends(r)
                \/ Becomes(r, "insert", request[r].type, None, request[r].new)
  <2>1. request[r].pc = "delete"
    BY <1>4 DEF DeleteRow
  <2>2. CASE request[r].doc \notin Rows
    <3>1. Finish(r)
      BY <1>4, <2>2 DEF DeleteRow
    <3> QED BY <2>1, <2>2, <3>1, FinishEnds
  <2>3. CASE request[r].doc \in Rows
    <3> DEFINE moved == [request[r] EXCEPT !.pc = "insert", !.doc = None]
               submitting(q) == request[q].pc = "submit"
               after == IF request[r].new = None \/ request[r].doc \notin Rows THEN Idle ELSE moved
    <3>1. request' = [q \in Requests |->
             IF q = r THEN after ELSE [request[q] EXCEPT !.torn = submitting(q)]]
      BY <1>4, <2>3 DEF DeleteRow
    <3>2. \A q \in Requests : request[q] \in RequestType
      BY DEF RequestType, KybTypeOK
    <3>3. \A q \in Requests \ {r} :
            /\ request'[q].pc = request[q].pc /\ request'[q].type = request[q].type
            /\ request'[q].doc = request[q].doc /\ request'[q].new = request[q].new
      <4> HIDE DEF submitting, after
      <4> QED BY <3>1, <3>2 DEF RequestType
    <3>4. /\ moved.pc = "insert" /\ moved.type = request[r].type
          /\ moved.doc = None /\ moved.new = request[r].new
      BY <3>2 DEF RequestType
    <3>5. Idle.pc = "idle" /\ Idle.doc = None /\ Idle.new = None
      BY DEF Idle
    <3>6. (request[r].new = None /\ after = Idle) \/ after = moved
      BY <2>3
    <3>7. request'[r] = after
      <4> HIDE DEF after, submitting
      <4> QED BY <3>1
    <3> HIDE DEF moved, after, submitting
    <3> QED BY <2>1, <3>3, <3>4, <3>5, <3>6, <3>7 DEF Becomes, Ends
  <2> QED BY <2>2, <2>3
<1> QED BY <1>1, <1>2, <1>3, <1>4

\* submit, and a request that fails.
LEMMA SubmitSteps ==
  ASSUME KybTypeOK, NEW r \in Requests
  PROVE  /\ BeginSubmit(r) =>
              request[r].pc = "idle" /\ Becomes(r, "documents", Idle.type, None, None)
         /\ ReadDocs(r) => request[r].pc = "documents" /\ (Moves(r, "submit") \/ Ends(r))
         /\ Submit(r) => request[r].pc = "submit" /\ Ends(r)
         /\ RequestDies(r) => Ends(r)
<1>1. ASSUME BeginSubmit(r)
      PROVE  request[r].pc = "idle" /\ Becomes(r, "documents", Idle.type, None, None)
  <2> DEFINE locals == [Idle EXCEPT !.pc = "documents"]
  <2>1. Begin(r, locals)
    BY <1>1 DEF BeginSubmit
  <2>2. /\ locals.pc = "documents" /\ locals.type = Idle.type
        /\ locals.doc = None /\ locals.new = None
    BY DEF Idle
  <2> HIDE DEF locals
  <2> QED BY <2>1, <2>2, BeginBecomes
<1>2. ASSUME ReadDocs(r)
      PROVE  request[r].pc = "documents" /\ (Moves(r, "submit") \/ Ends(r))
  BY <1>2, FinishEnds, StepMoves DEF ReadDocs
<1>3. ASSUME Submit(r) PROVE request[r].pc = "submit" /\ Ends(r)
  BY <1>3, FinishEnds DEF Submit
<1>4. ASSUME RequestDies(r) PROVE Ends(r)
  BY <1>4, FinishEnds DEF RequestDies
<1> QED BY <1>1, <1>2, <1>3, <1>4

-----------------------------------------------------------------------------
(***************************************************************************)
(* Files and rows                                                          *)
(***************************************************************************)

\* Only an upload that has its file has a number.
NumbersHeld ==
  \A r \in Requests : request[r].new # None =>
    request[r].pc \in {"previous", "insert", "destroy", "delete"}

\* The document a request removes is not one that is being uploaded.
DocsApart ==
  \A r \in Requests :
    /\ request[r].doc <= uploads
    /\ \A q \in Requests : request[q].new # None => request[r].doc # request[q].new

\* Without faults an upload has its file, and a row is deleted after its file.
FilesHeld ==
  faults = 0 =>
    \A r \in Requests :
      /\ request[r].new # None => request[r].new \in file
      /\ request[r].pc = "delete" => request[r].doc \notin file

FilesInv == NumbersHeld /\ DocsApart /\ FilesHeld /\ FilesMatchRows

\* A document that has a row has been uploaded, and by none of the requests
\* that are to insert theirs.
LEMMA RowsAreUploaded ==
  ASSUME KybTypeOK, NumbersAreFresh, NEW f \in Rows
  PROVE  f \in Files /\ f <= uploads /\ \A q \in Requests : request[q].new # f
<1>1. f \in Files /\ row[f].status # "none" /\ f # None /\ f \in Nat /\ uploads \in Nat
  BY DEF Rows, Files, None, KybTypeOK
<1> QED BY <1>1 DEF NumbersAreFresh

\* A step that leaves rows and files alone, of a request that neither has
\* deleted nor is to delete a file, and keeps its number.
LEMMA FilesRest ==
  ASSUME KybTypeOK, NumbersAreFresh, FilesInv,
         UNCHANGED <<row, file, uploads, faults, conflicts>>,
         NEW r \in Requests, NEW pc, NEW type, NEW doc,
         Becomes(r, pc, type, doc, request[r].new),
         request[r].pc # "delete", pc # "delete",
         doc = None \/ doc = request[r].doc \/ doc \in Rows,
         request[r].new # None => pc \in {"previous", "insert", "destroy"}
  PROVE  FilesInv'
<1>1. \A q \in Requests : request'[q].new = request[q].new
  BY DEF Becomes
<1>2. \A q \in Requests : request'[q].pc = "delete" <=> request[q].pc = "delete"
  BY DEF Becomes
<1>3. \A q \in Requests : request[q].pc = "delete" => request'[q].doc = request[q].doc
  BY DEF Becomes
<1>4. Rows' = Rows
  BY DEF Rows
<1>5. FilesMatchRows'
  BY <1>1, <1>2, <1>3, <1>4 DEF FilesInv, FilesMatchRows
<1>6. FilesHeld'
  BY <1>1, <1>2, <1>3 DEF FilesInv, FilesHeld
<1>7. NumbersHeld'
  BY <1>1 DEF FilesInv, NumbersHeld, Becomes
<1>8. doc <= uploads /\ \A q \in Requests : request[q].new # None => doc # request[q].new
  <2>1. CASE doc = None
    BY <2>1 DEF None, KybTypeOK
  <2>2. CASE doc = request[r].doc
    BY <2>2 DEF FilesInv, DocsApart
  <2>3. CASE doc \in Rows
    BY <2>3, RowsAreUploaded
  <2> QED BY <2>1, <2>2, <2>3
<1>9. DocsApart'
  BY <1>1, <1>8 DEF FilesInv, DocsApart, Becomes
<1> QED BY <1>5, <1>6, <1>7, <1>9 DEF FilesInv

\* Requests that keep or drop their document and number.
LEMMA DocsStayApart ==
  ASSUME KybTypeOK, DocsApart, uploads' = uploads,
         \A q \in Requests : /\ request'[q].doc \in {None, request[q].doc}
                             /\ request'[q].new \in {None, request[q].new}
  PROVE  DocsApart'
<1>1. None <= uploads
  BY DEF None, KybTypeOK
<1>2. \A q \in Requests : request'[q].doc <= uploads
  BY <1>1 DEF DocsApart
<1>3. ASSUME NEW q \in Requests, NEW r \in Requests, request'[q].new # None
      PROVE  request'[r].doc # request'[q].new
  <2>1. request'[q].new = request[q].new
    BY <1>3
  <2>2. CASE request'[r].doc = None
    BY <1>3, <2>2
  <2>3. CASE request'[r].doc = request[r].doc
    BY <1>3, <2>1, <2>3 DEF DocsApart
  <2> QED BY <2>2, <2>3
<1> QED BY <1>2, <1>3 DEF DocsApart

\* A fault ends what is claimed of the files.
LEMMA FilesAfterFault ==
  ASSUME KybTypeOK, FilesInv, Fault, uploads' = uploads, NumbersHeld',
         \A q \in Requests : /\ request'[q].doc \in {None, request[q].doc}
                             /\ request'[q].new \in {None, request[q].new}
  PROVE  FilesInv'
<1>1. faults' # 0
  BY DEF Fault, KybTypeOK
<1>2. DocsApart'
  BY DocsStayApart DEF FilesInv
<1> QED BY <1>1, <1>2 DEF FilesInv, FilesHeld, FilesMatchRows

\* Every step keeps files and rows together (uploadDocument, deleteDocument).
LEMMA NextFiles ==
  ASSUME KybTypeOK, NumbersAreFresh, FilesInv, [Next]_vars PROVE FilesInv'
<1>n. \A q \in Requests : request[q].pc \notin {"previous", "insert", "destroy", "delete"} =>
        request[q].new = None
  BY DEF FilesInv, NumbersHeld
<1>1. ASSUME NEW r \in Requests, BeginUpload(r) PROVE FilesInv'
  <2>1. PICK t \in Types : request[r].pc = "idle" /\ Becomes(r, "count", t, None, None)
    BY <1>1, UploadSteps
  <2>2. UNCHANGED <<row, file, uploads, faults, conflicts>>
    BY <1>1 DEF BeginUpload, Begin, docVars
  <2>3. request[r].new = None
    BY <1>n, <2>1
  <2>4. Becomes(r, "count", t, None, request[r].new)
    BY <2>1, <2>3
  <2> QED BY <2>1, <2>2, <2>3, <2>4, FilesRest
<1>2. ASSUME NEW r \in Requests, CountDocs(r) \/ CheckDelete(r) \/ ReadDocs(r) \/ Submit(r)
      PROVE  FilesInv'
  <2>1. UNCHANGED <<row, file, uploads, faults, conflicts>>
    BY <1>2 DEF CountDocs, CheckDelete, ReadDocs, Submit, docVars, history
  <2>2. /\ request[r].pc \in {"count", "check", "documents", "submit"}
        /\ \/ Ends(r)
           \/ \E pc \in {"upload", "destroy", "submit"} : Moves(r, pc)
    BY <1>2, UploadSteps, DeleteSteps, SubmitSteps
  <2>3. request[r].new = None
    BY <1>n, <2>2
  <2>4. CASE Ends(r)
    <3>1. Becomes(r, "idle", Idle.type, None, request[r].new)
      BY <2>3, <2>4 DEF Ends
    <3> QED BY <2>1, <2>2, <2>3, <3>1, FilesRest
  <2>5. ASSUME NEW pc \in {"upload", "destroy", "submit"}, Moves(r, pc) PROVE FilesInv'
    <3>1. Becomes(r, pc, request[r].type, request[r].doc, request[r].new)
      BY <2>5 DEF Moves
    <3> QED BY <2>1, <2>2, <2>3, <3>1, FilesRest
  <2> QED BY <2>2, <2>4, <2>5
<1>3. ASSUME NEW r \in Requests, UploadFile(r) PROVE FilesInv'
  <2> DEFINE n == uploads + 1
  <2>1. /\ request[r].pc = "upload"
        /\ Becomes(r, "previous", request[r].type, request[r].doc, n)
    BY <1>3, UploadSteps
  <2>2. /\ uploads' = n /\ file' = file \cup {n} /\ UNCHANGED <<row, faults, conflicts>>
        /\ Rows' = Rows
    BY <1>3 DEF UploadFile, Rows, history
  <2>3. request[r].new = None
    BY <1>n, <2>1
  <2>4. n > uploads /\ n # None /\ uploads \in Nat /\ n \in Nat
    BY DEF None, KybTypeOK
  <2>5. \A q \in Requests : request[q].doc # n /\ request[q].new # n /\ request'[q].doc = request[q].doc
    BY <2>1, <2>3, <2>4 DEF FilesInv, DocsApart, NumbersAreFresh, Becomes
  <2>6. \A q \in Requests \ {r} : request'[q].pc = request[q].pc /\ request'[q].new = request[q].new
    BY <2>1 DEF Becomes
  <2>7. request'[r].pc = "previous" /\ request'[r].new = n
    BY <2>1 DEF Becomes
  <2> HIDE DEF n
  <2>8. NumbersHeld'
    BY <2>6, <2>7 DEF FilesInv, NumbersHeld
  <2>9. DocsApart'
    <3>1. \A q \in Requests : request[q].doc <= n
      BY <2>4 DEF FilesInv, DocsApart, Files, None, KybTypeOK
    <3> QED BY <2>2, <2>5, <2>6, <2>7, <3>1 DEF FilesInv, DocsApart
  <2>10. FilesHeld'
    BY <2>1, <2>2, <2>5, <2>6, <2>7 DEF FilesInv, FilesHeld
  <2>11. FilesMatchRows'
    BY <2>1, <2>2, <2>3, <2>5, <2>6, <2>7 DEF FilesInv, FilesMatchRows, Files, None
  <2> QED BY <2>8, <2>9, <2>10, <2>11 DEF FilesInv
<1>4. ASSUME NEW r \in Requests, FindPrevious(r) PROVE FilesInv'
  <2>1. UNCHANGED <<row, file, uploads, faults, conflicts>>
    BY <1>4 DEF FindPrevious, docVars, history
  <2>2. request[r].pc = "previous"
    BY <1>4, UploadSteps
  <2>3. CASE Moves(r, "insert")
    BY <2>1, <2>2, <2>3, FilesRest DEF Moves
  <2>4. ASSUME NEW f \in Rows, Becomes(r, "destroy", request[r].type, f, request[r].new)
        PROVE  FilesInv'
    BY <2>1, <2>2, <2>4, FilesRest
  <2> QED BY <1>4, <2>3, <2>4, UploadSteps
<1>5. ASSUME NEW r \in Requests, InsertRow(r) PROVE FilesInv'
  <2> DEFINE n == request[r].new
  <2>1. request[r].pc = "insert" /\ Becomes(r, "idle", Idle.type, None, None)
    BY <1>5, UploadSteps DEF Ends
  <2>2. n \in Files /\ n # None /\ n \notin Rows
    BY <2>1 DEF NumbersAreFresh, Rows, KybTypeOK
  <2>3. UNCHANGED <<file, uploads, faults, conflicts>> /\ Rows' = Rows \cup {n}
    BY <1>5, <2>2 DEF InsertRow, Rows, history, KybTypeOK
  <2>4. faults = 0 => n \in file
    BY <2>2 DEF FilesInv, FilesHeld
  <2>5. /\ request'[r].pc = "idle" /\ request'[r].doc = None /\ request'[r].new = None
        /\ \A q \in Requests \ {r} :
             /\ request'[q].pc = request[q].pc /\ request'[q].doc = request[q].doc
             /\ request'[q].new = request[q].new
    BY <2>1 DEF Becomes
  <2>6. n = request[r].new
    OBVIOUS
  <2> HIDE DEF n
  <2>7. NumbersHeld'
    BY <2>5 DEF FilesInv, NumbersHeld
  <2>8. DocsApart'
    BY <2>3, <2>5, DocsStayApart DEF FilesInv
  <2>9. FilesHeld'
    BY <2>3, <2>5 DEF FilesInv, FilesHeld
  <2>10. FilesMatchRows'
    BY <2>1, <2>3, <2>4, <2>5, <2>6 DEF FilesInv, FilesMatchRows
  <2> QED BY <2>7, <2>8, <2>9, <2>10 DEF FilesInv
<1>6. ASSUME NEW r \in Requests, BeginDelete(r) PROVE FilesInv'
  <2>1. PICK f \in Rows : Becomes(r, "check", row[f].type, f, None)
    BY <1>6, DeleteSteps
  <2>2. UNCHANGED <<row, file, uploads, faults, conflicts>>
    BY <1>6 DEF BeginDelete, Begin, docVars, history
  <2>3. request[r].pc = "idle" /\ request[r].new = None
    BY <1>6, <1>n, DeleteSteps
  <2>4. Becomes(r, "check", row[f].type, f, request[r].new)
    BY <2>1, <2>3
  <2> QED BY <2>2, <2>3, <2>4, FilesRest
<1>7. ASSUME NEW r \in Requests, DestroyFile(r) PROVE FilesInv'
  <2>1. /\ request[r].pc = "destroy"
        /\ Becomes(r, "delete", request[r].type, request[r].doc, request[r].new)
    BY <1>7, DeleteSteps DEF Moves
  <2>2. UNCHANGED <<row, uploads, conflicts>> /\ Rows' = Rows
    BY <1>7 DEF DestroyFile, Rows, history
  <2>3. /\ request'[r].pc = "delete"
        /\ \A q \in Requests : request'[q].doc = request[q].doc /\ request'[q].new = request[q].new
        /\ \A q \in Requests \ {r} : request'[q].pc = request[q].pc
    BY <2>1 DEF Becomes
  <2>4. NumbersHeld'
    BY <2>3 DEF FilesInv, NumbersHeld
  <2>5. CASE Fault
    BY <2>2, <2>3, <2>4, <2>5, FilesAfterFault
  <2>6. CASE file' = file \ {request[r].doc} /\ faults' = faults
    <3>1. DocsApart'
      BY <2>2, <2>3 DEF FilesInv, DocsApart
    <3>2. FilesHeld'
      BY <2>3, <2>6 DEF FilesInv, FilesHeld, DocsApart
    <3>3. FilesMatchRows'
      BY <2>1, <2>2, <2>3, <2>6 DEF FilesInv, FilesMatchRows
    <3> QED BY <2>4, <3>1, <3>2, <3>3 DEF FilesInv
  <2> QED BY <1>7, <2>5, <2>6 DEF DestroyFile
<1>8. ASSUME NEW r \in Requests, DeleteRow(r) PROVE FilesInv'
  <2> DEFINE d == request[r].doc
             n == request[r].new
  <2>1. request[r].pc = "delete" /\ UNCHANGED <<file, uploads, faults>>
    BY <1>8 DEF DeleteRow
  <2>2. CASE d \in Rows
    <3>1. Rows' = Rows \ {d} /\ conflicts' = conflicts
      BY <1>8, <2>2 DEF DeleteRow, Rows, NoRow, KybTypeOK
    <3>2. PICK pc \in {"idle", "insert"}, type \in {Idle.type, request[r].type} :
            /\ Becomes(r, pc, type, None, n)
            /\ n # None => pc = "insert"
      <4>1. (n = None /\ Becomes(r, "idle", Idle.type, None, None))
            \/ Becomes(r, "insert", request[r].type, None, n)
        BY <1>8, <2>2, DeleteSteps DEF Ends
      <4> QED BY <4>1
    <3>3. /\ request'[r].pc = pc /\ request'[r].doc = None
          /\ \A q \in Requests : request'[q].new = request[q].new
          /\ \A q \in Requests \ {r} :
               request'[q].pc = request[q].pc /\ request'[q].doc = request[q].doc
      BY <3>2 DEF Becomes
    <3>4. faults = 0 => d \notin file
      BY <2>1 DEF FilesInv, FilesHeld
    <3>5. d = request[r].doc /\ n = request[r].new
      OBVIOUS
    <3> HIDE DEF d, n
    <3>6. NumbersHeld'
      BY <3>2, <3>3, <3>5 DEF FilesInv, NumbersHeld
    <3>7. DocsApart'
      BY <2>1, <3>3, DocsStayApart DEF FilesInv
    <3>8. FilesHeld'
      BY <2>1, <3>2, <3>3 DEF FilesInv, FilesHeld
    <3>9. FilesMatchRows'
      BY <2>1, <3>1, <3>3, <3>4, <3>5 DEF FilesInv, FilesMatchRows
    <3> QED BY <3>6, <3>7, <3>8, <3>9 DEF FilesInv
  <2>3. CASE d \notin Rows
    <3>1. row' = row /\ Finish(r) /\ conflicts' = conflicts \cup {n}
      BY <1>8, <2>3 DEF DeleteRow
    <3>2. Becomes(r, "idle", Idle.type, None, None)
      BY <3>1, FinishEnds DEF Ends
    <3>3. /\ request'[r].pc = "idle" /\ request'[r].doc = None /\ request'[r].new = None
          /\ \A q \in Requests \ {r} :
               /\ request'[q].pc = request[q].pc /\ request'[q].doc = request[q].doc
               /\ request'[q].new = request[q].new
      BY <3>2 DEF Becomes
    <3>4. d = request[r].doc /\ n = request[r].new /\ Rows' = Rows
      BY <3>1 DEF Rows
    <3> HIDE DEF d, n
    <3>5. NumbersHeld'
      BY <3>3 DEF FilesInv, NumbersHeld
    <3>6. DocsApart'
      BY <2>1, <3>3, DocsStayApart DEF FilesInv
    <3>7. FilesHeld'
      BY <2>1, <3>3 DEF FilesInv, FilesHeld
    <3>8. FilesMatchRows'
      BY <2>1, <2>3, <3>1, <3>3, <3>4 DEF FilesInv, FilesMatchRows
    <3> QED BY <3>5, <3>6, <3>7, <3>8 DEF FilesInv
  <2> QED BY <2>2, <2>3
<1>9. ASSUME NEW r \in Requests, BeginSubmit(r) PROVE FilesInv'
  <2>1. request[r].pc = "idle" /\ Becomes(r, "documents", Idle.type, None, None)
    BY <1>9, SubmitSteps
  <2>2. UNCHANGED <<row, file, uploads, faults, conflicts>>
    BY <1>9 DEF BeginSubmit, Begin, docVars, history
  <2>3. request[r].new = None
    BY <1>n, <2>1
  <2>4. Becomes(r, "documents", Idle.type, None, request[r].new)
    BY <2>1, <2>3
  <2> QED BY <2>1, <2>2, <2>3, <2>4, FilesRest
<1>10. ASSUME NEW r \in Requests, RequestDies(r) PROVE FilesInv'
  <2>1. Fault /\ uploads' = uploads
    BY <1>10 DEF RequestDies, docVars
  <2>2. Becomes(r, "idle", Idle.type, None, None)
    BY <1>10, SubmitSteps DEF Ends
  <2>3. \A q \in Requests : /\ request'[q].doc \in {None, request[q].doc}
                            /\ request'[q].new \in {None, request[q].new}
    BY <2>2 DEF Becomes
  <2>4. NumbersHeld'
    BY <2>2 DEF FilesInv, NumbersHeld, Becomes
  <2> QED BY <2>1, <2>3, <2>4, FilesAfterFault
<1>11. ASSUME NEW v \in Reviewers, BeginReview(v) \/ Judge(v) \/ ReviewDies(v) PROVE FilesInv'
  <2>1. UNCHANGED <<request, file, uploads, conflicts>> /\ Rows' = Rows
    BY <1>11 DEF BeginReview, Judge, ReviewDies, docVars, history, Rows, KybTypeOK
  <2>2. NumbersHeld'
    BY <2>1 DEF FilesInv, NumbersHeld
  <2>3. CASE faults' = faults
    BY <2>1, <2>2, <2>3 DEF FilesInv, DocsApart, FilesHeld, FilesMatchRows
  <2>4. CASE Fault
    BY <2>1, <2>2, <2>4, FilesAfterFault
  <2> QED BY <1>11, <2>3, <2>4 DEF BeginReview, Judge, ReviewDies
<1>12. CASE UNCHANGED vars
  BY <1>12 DEF vars, docVars, history, FilesInv, NumbersHeld, DocsApart, FilesHeld,
     FilesMatchRows, Rows
<1> QED BY <1>1, <1>2, <1>3, <1>4, <1>5, <1>6, <1>7, <1>8, <1>9, <1>10, <1>11, <1>12 DEF Next

\* Without faults every row has its file and every file its row, but for a
\* request that is about to see to it, and for the file of an upload whose
\* replaced row another request has deleted (uploadDocument, deleteDocument).
THEOREM FilesKeepTheirRows == Spec => []FilesMatchRows
<1>1. Init => NumbersAreFresh /\ FilesInv
  BY DEF Init, NumbersAreFresh, FilesInv, NumbersHeld, DocsApart, FilesHeld, FilesMatchRows,
     Rows, Idle, NoRow, None
<1>2. KybTypeOK /\ NumbersAreFresh /\ FilesInv /\ [Next]_vars => (NumbersAreFresh /\ FilesInv)'
  BY NextNumbers, NextFiles
<1>3. FilesInv => FilesMatchRows
  BY DEF FilesInv
<1> QED BY <1>1, <1>2, <1>3, KybTypes, PTL DEF Spec

-----------------------------------------------------------------------------
(***************************************************************************)
(* The latest of each kind                                                 *)
(***************************************************************************)

\* A document that an upload of its type replaces.
Replaceable(f) == f \in Rows /\ row[f].status # "APPROVED"

\* One upload of a type at a time, unless uploads of it have overlapped.
OneUpload ==
  \A q, r \in Requests :
    /\ Uploading(q) /\ Uploading(r) /\ request[q].type = request[r].type
    /\ request[q].type \notin doubled
    => q = r

\* What is to be replaced is the only document of its type, and is gone when
\* the new one is inserted.
PlaceIsFree ==
  \A r \in Requests, f \in Files :
    /\ request[r].new # None /\ request[r].type \notin doubled
    /\ Replaceable(f) /\ row[f].type = request[r].type
    => /\ request[r].pc # "insert"
       /\ request[r].pc \in {"destroy", "delete"} => f = request[r].doc

KindInv == NumbersHeld /\ OneUpload /\ PlaceIsFree /\ LatestOfEachKind

\* What request r is to find of documents of its type.
PlaceOf(r) ==
  \A f \in Files :
    /\ request[r].new # None /\ request[r].type \notin doubled
    /\ Replaceable(f) /\ row[f].type = request[r].type
    => /\ request[r].pc # "insert"
       /\ request[r].pc \in {"destroy", "delete"} => f = request[r].doc

\* A step that adds no document to replace, of a request that goes on with the
\* upload of its type, or with none.
LEMMA KindStays ==
  ASSUME KybTypeOK, KindInv, NEW r \in Requests, NEW pc, NEW type, NEW doc, NEW new,
         Becomes(r, pc, type, doc, new), doubled \subseteq doubled',
         \A f \in Files : Replaceable(f)' => Replaceable(f) /\ row'[f].type = row[f].type,
         pc \in {"count", "upload", "previous", "insert"} \/ new # None =>
           Uploading(r) /\ type = request[r].type,
         new # None => pc \in {"previous", "insert", "destroy", "delete"},
         PlaceOf(r)'
  PROVE  KindInv'
<1>1. /\ request'[r].pc = pc /\ request'[r].type = type /\ request'[r].doc = doc
      /\ request'[r].new = new
      /\ \A q \in Requests \ {r} :
           /\ request'[q].pc = request[q].pc /\ request'[q].type = request[q].type
           /\ request'[q].doc = request[q].doc /\ request'[q].new = request[q].new
  BY DEF Becomes
<1>2. \A q \in Requests : Uploading(q)' => Uploading(q) /\ request'[q].type = request[q].type
  BY <1>1 DEF Uploading
<1>3. OneUpload'
  BY <1>2 DEF KindInv, OneUpload
<1>4. NumbersHeld'
  BY <1>1 DEF KindInv, NumbersHeld
<1>5. ASSUME NEW q \in Requests \ {r} PROVE PlaceOf(q)'
  BY <1>1, <1>5 DEF KindInv, PlaceIsFree, PlaceOf
<1>6. PlaceIsFree'
  BY <1>5 DEF PlaceIsFree, PlaceOf
<1>7. LatestOfEachKind'
  <2>1. \A f \in Rows' : f \in Files
    BY DEF Rows
  <2>2. \A f, g \in Files : /\ Replaceable(f) /\ Replaceable(g) /\ f # g
                            /\ row[f].type = row[g].type
                            => row[f].type \in doubled
    BY DEF KindInv, LatestOfEachKind, Replaceable
  <2>3. ASSUME NEW f \in Rows', NEW g \in Rows', f # g, row'[f].type = row'[g].type,
               row'[f].type \notin doubled', row'[f].status # "APPROVED",
               row'[g].status # "APPROVED"
        PROVE  FALSE
    <3>1. Replaceable(f)' /\ Replaceable(g)'
      BY <2>3 DEF Replaceable
    <3> QED BY <2>1, <2>2, <2>3, <3>1
  <2> QED BY <2>3 DEF LatestOfEachKind
<1> QED BY <1>3, <1>4, <1>6, <1>7 DEF KindInv

\* The same when no row changes.
LEMMA KindRests ==
  ASSUME KybTypeOK, KindInv, NEW r \in Requests, NEW pc, NEW type, NEW doc, NEW new,
         Becomes(r, pc, type, doc, new), UNCHANGED <<row, doubled>>,
         pc \in {"count", "upload", "previous", "insert"} \/ new # None =>
           Uploading(r) /\ type = request[r].type,
         new # None =>
           \/ pc = "previous"
           \/ /\ pc \in {"insert", "destroy", "delete"}
              /\ \A f \in Files :
                   Replaceable(f) /\ row[f].type = type /\ type \notin doubled =>
                     pc # "insert" /\ f = doc
  PROVE  KindInv'
<1>1. \A f \in Files : Replaceable(f)' = Replaceable(f)
  BY DEF Replaceable, Rows
<1>2. /\ request'[r].pc = pc /\ request'[r].type = type /\ request'[r].doc = doc
      /\ request'[r].new = new
  BY DEF Becomes
<1>3. PlaceOf(r)'
  BY <1>1, <1>2 DEF PlaceOf
<1> QED BY <1>1, <1>3, KindStays

\* Every step leaves one document of a type to be judged, unless uploads of it
\* overlap (uploadDocument).
LEMMA NextKind ==
  ASSUME KybTypeOK, NumbersAreFresh, KindInv, [Next]_vars PROVE KindInv'
<1>n. \A q \in Requests : request[q].pc \notin {"previous", "insert", "destroy", "delete"} =>
        request[q].new = None
  BY DEF KindInv, NumbersHeld
<1>e. ASSUME NEW r \in Requests, Ends(r), UNCHANGED <<row, doubled>> PROVE KindInv'
  <2>1. Becomes(r, "idle", Idle.type, None, None)
    BY <1>e DEF Ends
  <2> QED BY <1>e, <2>1, KindRests
<1>1. ASSUME NEW r \in Requests, BeginUpload(r) PROVE KindInv'
  <2>1. PICK t \in Types :
          /\ Becomes(r, "count", t, None, None) /\ doubled \subseteq doubled'
          /\ \A q \in Requests : Uploading(q) /\ request[q].type = t => t \in doubled'
    BY <1>1, UploadSteps
  <2>2. row' = row /\ \A f \in Files : Replaceable(f)' = Replaceable(f)
    BY <1>1 DEF BeginUpload, docVars, Replaceable, Rows
  <2>3. /\ request'[r].pc = "count" /\ request'[r].type = t /\ request'[r].new = None
        /\ \A q \in Requests \ {r} :
             /\ request'[q].pc = request[q].pc /\ request'[q].type = request[q].type
             /\ request'[q].doc = request[q].doc /\ request'[q].new = request[q].new
    BY <2>1 DEF Becomes
  <2>4. \A q \in Requests \ {r} : Uploading(q)' = Uploading(q)
    BY <2>3 DEF Uploading
  <2>5. OneUpload'
    BY <2>1, <2>3, <2>4 DEF KindInv, OneUpload
  <2>6. NumbersHeld'
    BY <2>3 DEF KindInv, NumbersHeld
  <2>7. PlaceIsFree'
    BY <2>1, <2>2, <2>3 DEF KindInv, PlaceIsFree
  <2>8. LatestOfEachKind'
    BY <2>1, <2>2 DEF KindInv, LatestOfEachKind, Rows
  <2> QED BY <2>5, <2>6, <2>7, <2>8 DEF KindInv
<1>2. ASSUME NEW r \in Requests, CountDocs(r) \/ CheckDelete(r) \/ ReadDocs(r) PROVE KindInv'
  <2>1. UNCHANGED <<row, doubled>>
    BY <1>2 DEF CountDocs, CheckDelete, ReadDocs, docVars, history
  <2>2. \/ Ends(r)
        \/ request[r].pc = "count" /\ Moves(r, "upload")
        \/ request[r].pc = "check" /\ Moves(r, "destroy")
        \/ request[r].pc = "documents" /\ Moves(r, "submit")
    BY <1>2, UploadSteps, DeleteSteps, SubmitSteps
  <2>3. ASSUME NEW pc \in {"upload", "destroy", "submit"}, Moves(r, pc),
               request[r].pc \in {"count", "check", "documents"},
               pc = "upload" => request[r].pc = "count"
        PROVE  KindInv'
    <3>1. request[r].new = None
      BY <1>n, <2>3
    <3>2. pc = "upload" => Uploading(r)
      BY <2>3 DEF Uploading
    <3>3. Becomes(r, pc, request[r].type, request[r].doc, None)
      BY <2>3, <3>1 DEF Moves
    <3> QED BY <2>1, <3>2, <3>3, KindRests
  <2> QED BY <1>e, <2>1, <2>2, <2>3
<1>3. ASSUME NEW r \in Requests, UploadFile(r) PROVE KindInv'
  <2>1. /\ Uploading(r)
        /\ Becomes(r, "previous", request[r].type, request[r].doc, uploads + 1)
    BY <1>3, UploadSteps DEF Uploading
  <2>2. UNCHANGED <<row, doubled>>
    BY <1>3 DEF UploadFile, history
  <2> QED BY <2>1, <2>2, KindRests
<1>4. ASSUME NEW r \in Requests, FindPrevious(r) PROVE KindInv'
  <2>1. UNCHANGED <<row, doubled>>
    BY <1>4 DEF FindPrevious, docVars, history
  <2>2. request[r].pc = "previous" /\ Uploading(r)
    BY <1>4, UploadSteps DEF Uploading
  <2>3. ASSUME Moves(r, "insert"),
               \A f \in Rows : row[f].type = request[r].type => row[f].status = "APPROVED"
        PROVE  KindInv'
    <3>1. \A f \in Files : ~(Replaceable(f) /\ row[f].type = request[r].type)
      BY <2>3 DEF Replaceable
    <3>2. Becomes(r, "insert", request[r].type, request[r].doc, request[r].new)
      BY <2>3 DEF Moves
    <3> QED BY <2>1, <2>2, <3>1, <3>2, KindRests
  <2>4. ASSUME NEW f \in Rows, row[f].type = request[r].type, row[f].status # "APPROVED",
               Becomes(r, "destroy", request[r].type, f, request[r].new)
        PROVE  KindInv'
    <3>1. \A g \in Files :
            Replaceable(g) /\ row[g].type = request[r].type /\ request[r].type \notin doubled =>
              g = f
      BY <2>4 DEF KindInv, LatestOfEachKind, Replaceable
    <3> QED BY <2>1, <2>2, <2>4, <3>1, KindRests
  <2> QED BY <1>4, <2>3, <2>4, UploadSteps
<1>5. ASSUME NEW r \in Requests, InsertRow(r) PROVE KindInv'
  <2> DEFINE n == request[r].new
             t == request[r].type
  <2>1. request[r].pc = "insert" /\ Becomes(r, "idle", Idle.type, None, None)
    BY <1>5, UploadSteps DEF Ends
  <2>2. n \in Files /\ n # None /\ n \notin Rows
    BY <2>1 DEF NumbersAreFresh, Rows, KybTypeOK
  <2>3. /\ doubled' = doubled /\ row'[n].type = t /\ row'[n].status = "PENDING"
        /\ \A f \in Files \ {n} : row'[f] = row[f]
    BY <1>5, <2>2 DEF InsertRow, history, KybTypeOK
  <2>4. /\ request'[r].pc = "idle" /\ request'[r].new = None
        /\ \A q \in Requests \ {r} :
             /\ request'[q].pc = request[q].pc /\ request'[q].type = request[q].type
             /\ request'[q].doc = request[q].doc /\ request'[q].new = request[q].new
    BY <2>1 DEF Becomes
  <2>5. n = request[r].new /\ t = request[r].type /\ Uploading(r)
    BY <2>1 DEF Uploading
  <2> HIDE DEF n, t
  <2>6. \A f \in Files \ {n} : Replaceable(f)' = Replaceable(f) /\ row'[f] = row[f]
    BY <2>3 DEF Replaceable, Rows
  <2>7. t \notin doubled => \A f \in Files : ~(Replaceable(f) /\ row[f].type = t)
    BY <2>1, <2>2, <2>5 DEF KindInv, PlaceIsFree
  <2>8. \A q \in Requests \ {r} : Uploading(q)' = Uploading(q)
    BY <2>4 DEF Uploading
  <2>9. OneUpload'
    <3>1. ~Uploading(r)'
      BY <2>4 DEF Uploading
    <3> QED BY <2>3, <2>4, <2>8, <3>1 DEF KindInv, OneUpload
  <2>10. NumbersHeld'
    BY <2>4 DEF KindInv, NumbersHeld
  <2>11. PlaceIsFree'
    <3>1. ASSUME NEW q \in Requests \ {r}, request[q].new # None, request[q].type \notin doubled
          PROVE  request[q].type # t
      <4>1. Uploading(q)
        BY <3>1 DEF Uploading
      <4> QED BY <2>5, <3>1, <4>1 DEF KindInv, OneUpload
    <3>2. ASSUME NEW q \in Requests \ {r}, NEW f \in Files,
                 request[q].new # None, request[q].type \notin doubled,
                 Replaceable(f)', row'[f].type = request[q].type
          PROVE  Replaceable(f) /\ row[f].type = request[q].type
      BY <2>3, <2>6, <3>1, <3>2
    <3>3. ASSUME NEW q \in Requests, NEW f \in Files,
                 request'[q].new # None, request'[q].type \notin doubled',
                 Replaceable(f)', row'[f].type = request'[q].type
          PROVE  /\ request'[q].pc # "insert"
                 /\ request'[q].pc \in {"destroy", "delete"} => f = request'[q].doc
      <4>1. q # r
        BY <2>4, <3>3
      <4>2. Replaceable(f) /\ row[f].type = request[q].type
        BY <2>3, <2>4, <3>2, <3>3, <4>1
      <4> QED BY <2>3, <2>4, <3>3, <4>1, <4>2 DEF KindInv, PlaceIsFree
    <3> QED BY <3>3 DEF PlaceIsFree
  <2>12. LatestOfEachKind'
    <3>1. ASSUME NEW f \in Files, NEW g \in Files, f # g, Replaceable(f)', Replaceable(g)',
                 row'[f].type = row'[g].type, row'[f].type \notin doubled
          PROVE  FALSE
      <4>1. CASE f = n
        BY <2>3, <2>6, <2>7, <3>1, <4>1
      <4>2. CASE g = n
        BY <2>3, <2>6, <2>7, <3>1, <4>2
      <4>3. CASE f # n /\ g # n
        BY <2>6, <3>1, <4>3 DEF KindInv, LatestOfEachKind, Replaceable
      <4> QED BY <4>1, <4>2, <4>3
    <3>2. \A f \in Rows' : f \in Files /\ (Replaceable(f)' <=> row'[f].status # "APPROVED")
      BY DEF Rows, Replaceable
    <3> QED BY <2>3, <3>1, <3>2 DEF LatestOfEachKind
  <2> QED BY <2>9, <2>10, <2>11, <2>12 DEF KindInv
<1>6. ASSUME NEW r \in Requests, BeginDelete(r) PROVE KindInv'
  <2>1. PICK f \in Rows : Becomes(r, "check", row[f].type, f, None)
    BY <1>6, DeleteSteps
  <2>2. UNCHANGED <<row, doubled>>
    BY <1>6 DEF BeginDelete, docVars, history
  <2> QED BY <2>1, <2>2, KindRests
<1>7. ASSUME NEW r \in Requests, DestroyFile(r) PROVE KindInv'
  <2>1. /\ request[r].pc = "destroy"
        /\ Becomes(r, "delete", request[r].type, request[r].doc, request[r].new)
    BY <1>7, DeleteSteps DEF Moves
  <2>2. UNCHANGED <<row, doubled>>
    BY <1>7 DEF DestroyFile, history
  <2>3. request[r].new # None =>
          /\ Uploading(r)
          /\ \A f \in Files :
               Replaceable(f) /\ row[f].type = request[r].type /\ request[r].type \notin doubled =>
                 f = request[r].doc
    BY <2>1 DEF KindInv, PlaceIsFree, Uploading
  <2> QED BY <2>1, <2>2, <2>3, KindRests
<1>8. ASSUME NEW r \in Requests, DeleteRow(r) PROVE KindInv'
  <2> DEFINE d == request[r].doc
  <2>1. request[r].pc = "delete" /\ doubled' = doubled
    BY <1>8 DEF DeleteRow
  <2>2. CASE d \notin Rows
    <3>1. row' = row /\ Finish(r)
      BY <1>8, <2>2 DEF DeleteRow
    <3> QED BY <1>e, <2>1, <3>1, FinishEnds
  <2>3. CASE d \in Rows
    <3>1. row' = [row EXCEPT ![d] = NoRow]
      BY <1>8, <2>3 DEF DeleteRow
    <3>2. \A f \in Files : Replaceable(f)' => f # d /\ Replaceable(f) /\ row'[f].type = row[f].type
      BY <2>3, <3>1 DEF Replaceable, Rows, NoRow, KybTypeOK
    <3>3. CASE request[r].new = None /\ Ends(r)
      <4>1. Becomes(r, "idle", Idle.type, None, None)
        BY <3>3 DEF Ends
      <4>2. PlaceOf(r)'
        BY <4>1 DEF PlaceOf, Becomes
      <4> QED BY <2>1, <3>2, <4>1, <4>2, KindStays
    <3>4. CASE request[r].new = None /\ Becomes(r, "insert", request[r].type, None, request[r].new)
      <4>1. request' = [q \in Requests |->
               IF q = r THEN Idle
               ELSE [request[q] EXCEPT !.torn = request[q].pc = "submit"]]
        BY <1>8, <2>3, <3>4 DEF DeleteRow
      <4>2. request'[r].pc = "idle"
        BY <4>1 DEF Idle
      <4> QED BY <3>4, <4>2 DEF Becomes
    <3>5. CASE /\ request[r].new # None
               /\ Becomes(r, "insert", request[r].type, None, request[r].new)
      <4>1. \A f \in Files :
              Replaceable(f) /\ row[f].type = request[r].type /\ request[r].type \notin doubled =>
                f = d
        BY <2>1, <3>5 DEF KindInv, PlaceIsFree
      <4>2. request'[r].type = request[r].type
        BY <3>5 DEF Becomes
      <4>3. PlaceOf(r)'
        BY <2>1, <3>2, <4>1, <4>2 DEF PlaceOf
      <4>4. Uploading(r)
        BY <3>5 DEF Uploading
      <4> QED BY <2>1, <3>2, <3>5, <4>3, <4>4, KindStays
    <3> QED BY <1>8, <2>3, <3>3, <3>4, <3>5, DeleteSteps
  <2> QED BY <2>2, <2>3
<1>9. ASSUME NEW r \in Requests, BeginSubmit(r) PROVE KindInv'
  <2>1. Becomes(r, "documents", Idle.type, None, None)
    BY <1>9, SubmitSteps
  <2>2. UNCHANGED <<row, doubled>>
    BY <1>9 DEF BeginSubmit, docVars, history
  <2> QED BY <2>1, <2>2, KindRests
<1>10. ASSUME NEW r \in Requests, Submit(r) \/ RequestDies(r) PROVE KindInv'
  <2>1. UNCHANGED <<row, doubled>>
    BY <1>10 DEF Submit, RequestDies, docVars, history
  <2> QED BY <1>e, <1>10, <2>1, SubmitSteps
<1>11. ASSUME NEW v \in Reviewers, BeginReview(v) \/ Judge(v) \/ ReviewDies(v) PROVE KindInv'
  <2>1. UNCHANGED <<request, doubled>>
    BY <1>11 DEF BeginReview, Judge, ReviewDies, history
  <2>2. \A f \in Files : Replaceable(f)' => Replaceable(f) /\ row'[f].type = row[f].type
    <3>1. CASE row' = row
      BY <3>1 DEF Replaceable, Rows
    <3>2. CASE Judge(v)
      BY <3>2 DEF Judge, Replaceable, Rows, KybTypeOK
    <3> QED BY <1>11, <3>1, <3>2 DEF BeginReview, ReviewDies, docVars
  <2>3. NumbersHeld' /\ OneUpload'
    BY <2>1 DEF KindInv, NumbersHeld, OneUpload, Uploading
  <2>4. PlaceIsFree'
    BY <2>1, <2>2 DEF KindInv, PlaceIsFree
  <2>5. LatestOfEachKind'
    <3>1. \A f \in Rows' : f \in Files /\ (Replaceable(f)' <=> row'[f].status # "APPROVED")
      BY DEF Rows, Replaceable
    <3>2. \A f \in Files : Replaceable(f) => f \in Rows /\ row[f].status # "APPROVED"
      BY DEF Replaceable
    <3> QED BY <2>1, <2>2, <3>1, <3>2 DEF KindInv, LatestOfEachKind
  <2> QED BY <2>3, <2>4, <2>5 DEF KindInv
<1>12. CASE UNCHANGED vars
  BY <1>12 DEF vars, docVars, history, KindInv, NumbersHeld, OneUpload, Uploading, PlaceIsFree,
     Replaceable, LatestOfEachKind, Rows
<1> QED BY <1>1, <1>2, <1>3, <1>4, <1>5, <1>6, <1>7, <1>8, <1>9, <1>10, <1>11, <1>12 DEF Next

\* The review queue shows only the latest document of each kind that is not
\* approved, unless uploads of that type have overlapped (uploadDocument).
THEOREM QueueShowsLatest == Spec => []LatestOfEachKind
<1>1. Init => NumbersAreFresh /\ KindInv
  BY DEF Init, NumbersAreFresh, KindInv, NumbersHeld, OneUpload, Uploading, PlaceIsFree,
     Replaceable, LatestOfEachKind, Rows, Idle, NoRow
<1>2. KybTypeOK /\ NumbersAreFresh /\ KindInv /\ [Next]_vars => (NumbersAreFresh /\ KindInv)'
  BY NextNumbers, NextKind
<1>3. KindInv => LatestOfEachKind
  BY DEF KindInv
<1> QED BY <1>1, <1>2, <1>3, KybTypes, PTL DEF Spec
=============================================================================
