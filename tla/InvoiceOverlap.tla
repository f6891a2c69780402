--------------------------- MODULE InvoiceOverlap ---------------------------
(***************************************************************************)
(* InvoiceLifecycle with a history variable that tells which handlers have *)
(* been overtaken: another one has written the row since they read it.     *)
(* What transition() does in all other cases is the stronger promise.      *)
(***************************************************************************)
EXTENDS InvoiceCorrectness

VARIABLE overtaken \* history: workers about to write over a row they have not read

overlapVars == <<vars, overtaken>>

\* A handler is overtaken while it waits for its commit, by another's commit.
Overtake ==
  overtaken' = {w \in Workers : /\ handler[w].pc = "commit"
                                /\ handler'[w].pc = "commit"
                                /\ w \in overtaken \/ log' # log}

OverlapInit == Init /\ overtaken = {}
OverlapNext == Next /\ Overtake
OverlapSpec == OverlapInit /\ [][OverlapNext]_overlapVars

-----------------------------------------------------------------------------
\* The handler commits in this step.
Commits(w) == handler[w].pc = "commit" /\ handler'[w].pc # "commit" /\ log' # log

\* However many handlers, jobs and webhooks overlap, a commit that no other has
\* overtaken leaves the state the invoice is in, by an edge of the table: it
\* never reopens a settled invoice and notifies of nothing that has not
\* changed.  Only an overtaken one may (invoice_race_terminal,
\* invoice_double_commit).
SerialUnlessOvertaken ==
  [][\A w \in Workers \ overtaken : Commits(w) => Promise!SerialNext]_overlapVars
=============================================================================
