------------------------------- MODULE Sessions -------------------------------
(***************************************************************************)
(* A merchant's sessions and account status: AuthService (login, rotation  *)
(* of refresh tokens, detection of their reuse), and the operators'        *)
(* approveMerchant, suspendMerchant and reactivateMerchant with their      *)
(* audit trail.  Every action is one call to the database; the client may  *)
(* present any refresh token it has ever been given, again or twice at a   *)
(* time (retries, tabs).                                                   *)
(***************************************************************************)
EXTENDS Naturals, Sequences

CONSTANTS
  Requests,   \* login and refresh requests being served
  Operators,
  MaxTokens,  \* bound: rows of RefreshToken
  MaxChanges, \* bound: operations on the status
  MaxFaults   \* bound: crashes, failed calls, lost responses

ASSUME SessionBounds == MaxTokens \in Nat /\ MaxChanges \in Nat /\ MaxFaults \in Nat

Tokens == 1..MaxTokens
\* No token: the parent of a login's token.
None == 0

Statuses == {"PENDING", "ACTIVE", "SUSPENDED", "REJECTED"}
\* disabledMerchantStatuses
Disabled == {"SUSPENDED", "REJECTED"}

VARIABLES
  status,    \* Merchant.status
  token,     \* RefreshToken rows: state, family, the token it was exchanged for
  held,      \* tokens the client has been given
  request,   \* pc, token presented, family, and the histories shut, racing
  operator,  \* pc, status to set, status read before
  audit,     \* AuditLog
  changes, faults,
  overlaps,  \* history: operations begun during another one
  ended,     \* history: families revoked as a whole
  racers     \* history: tokens a refresh issued that was being served when its
             \* family was revoked, and those exchanged for them

userVars == <<token, held, request, ended, racers>>
operatorVars == <<operator, audit, changes, overlaps>>
vars == <<status, userVars, operatorVars, faults>>

NoToken == [state |-> "none", family |-> None, parent |-> None]
Idle == [pc |-> "idle", token |-> None, family |-> None, shut |-> FALSE, racing |-> FALSE]
OffDuty == [pc |-> "idle", to |-> "PENDING", before |-> "PENDING"]

Init ==
  /\ status = "PENDING"
  /\ token = [t \in Tokens |-> NoToken]
  /\ held = {}
  /\ request = [r \in Requests |-> Idle]
  /\ operator = [o \in Operators |-> OffDuty]
  /\ audit = <<>>
  /\ changes = 0 /\ faults = 0 /\ overlaps = 0
  /\ ended = {} /\ racers = {}

Fault == faults < MaxFaults /\ faults' = faults + 1
Finish(r) == request' = [request EXCEPT ![r] = Idle]

-----------------------------------------------------------------------------
(***************************************************************************)
(* loginMerchant and refreshToken                                          *)
(***************************************************************************)

\* registerMerchant, or loginMerchant with the right password: the status is
\* read with the account.
Login(r) ==
  /\ request[r].pc = "idle"
  /\ status \notin Disabled
  /\ request' = [request EXCEPT ![r] = [Idle EXCEPT !.pc = "issue"]]
  /\ UNCHANGED <<status, token, held, ended, racers, operatorVars, faults>>

\* The row of the token presented.  An expired one is refused.
Refresh(r) ==
  /\ request[r].pc = "idle"
  /\ \E t \in held :
       /\ token[t].state # "expired"
       /\ request' = [request EXCEPT ![r] =
            [pc |-> IF token[t].state = "revoked" THEN "revoke" ELSE "status",
             token |-> t, family |-> token[t].family,
             shut |-> status \in Disabled, racing |-> t \in racers]]
  /\ UNCHANGED <<status, token, held, ended, racers, operatorVars, faults>>

\* Mutant of ReadStatus: a suspended merchant may refresh.
ReadNoStatus(r) ==
  /\ request[r].pc = "status"
  /\ request' = [request EXCEPT ![r].pc = "rotate"]
  /\ UNCHANGED <<status, token, held, ended, racers, operatorVars, faults>>

\* The status of the merchant.
ReadStatus(r) ==
  /\ request[r].pc = "status"
  /\ request' = [request EXCEPT ![r].pc = IF status \in Disabled THEN "revoke" ELSE "rotate"]
  /\ UNCHANGED <<status, token, held, ended, racers, operatorVars, faults>>

\* Mutant of RevokeFamily: only the token presented is revoked.
RevokeToken(r) ==
  LET f == request[r].family
  IN
  /\ request[r].pc = "revoke"
  /\ token' = [token EXCEPT ![request[r].token].state = "revoked"]
  /\ ended' = ended \cup {f}
  /\ request' = [q \in Requests |->
       IF q = r THEN Idle
       ELSE [request[q] EXCEPT !.racing = @ \/ request[q].family = f]]
  /\ UNCHANGED <<status, held, racers, operatorVars, faults>>

\* updateMany: every token of the family that exists now; the client is told
\* to log in again.  Refreshes of the family that are being served go on.
RevokeFamily(r) ==
  LET f == request[r].family
  IN
  /\ request[r].pc = "revoke"
  /\ token' = [t \in Tokens |-> IF token[t].family = f
                                THEN [token[t] EXCEPT !.state = "revoked"] ELSE token[t]]
  /\ ended' = ended \cup {f}
  /\ request' = [q \in Requests |->
       IF q = r THEN Idle
       ELSE [request[q] EXCEPT !.racing = @ \/ request[q].family = f]]
  /\ UNCHANGED <<status, held, racers, operatorVars, faults>>

\* Mutant of Rotate: the token presented stays good.
RotateNothing(r) ==
  /\ request[r].pc = "rotate"
  /\ request' = [request EXCEPT ![r].pc = "issue"]
  /\ UNCHANGED <<status, token, held, ended, racers, operatorVars, faults>>

\* update by id: whatever has become of the token since it was read.
Rotate(r) ==
  /\ request[r].pc = "rotate"
  /\ token' = [token EXCEPT ![request[r].token].state = "revoked"]
  /\ request' = [request EXCEPT ![r].pc = "issue"]
  /\ UNCHANGED <<status, held, ended, racers, operatorVars, faults>>

\* issueTokenPair: a new row, in the family of the token presented or in one
\* of its own.  The response may be lost.
Issue(r) ==
  /\ request[r].pc = "issue"
  /\ \E t \in Tokens :
       /\ token[t].state = "none"
       /\ \A u \in Tokens : u < t => token[u].state # "none"
       /\ token' = [token EXCEPT ![t] =
            [state |-> "live", parent |-> request[r].token,
             family |-> IF request[r].token = None THEN t ELSE request[r].family]]
       /\ racers' = IF request[r].racing THEN racers \cup {t} ELSE racers
       /\ \/ held' = held \cup {t} /\ UNCHANGED faults
          \/ Fault /\ UNCHANGED held
  /\ Finish(r)
  /\ UNCHANGED <<status, ended, operatorVars>>

\* A call fails or the process dies: what is done stays done.
RequestDies(r) ==
  /\ request[r].pc # "idle"
  /\ Fault
  /\ Finish(r)
  /\ UNCHANGED <<status, token, held, ended, racers, operatorVars>>

\* expiresAt: seven days, which no request lasts.
Expire(t) ==
  /\ token[t].state = "live"
  /\ \A r \in Requests : request[r].token # t
  /\ token' = [token EXCEPT ![t].state = "expired"]
  /\ UNCHANGED <<status, held, request, ended, racers, operatorVars, faults>>

-----------------------------------------------------------------------------
(***************************************************************************)
(* approveMerchant, suspendMerchant, reactivateMerchant                    *)
(***************************************************************************)

\* findUniqueOrThrow: the status before.  Nothing is asked of it.
ReadBefore(o) ==
  /\ operator[o].pc = "idle" /\ changes < MaxChanges
  /\ \E s \in {"ACTIVE", "SUSPENDED"} :
       operator' = [operator EXCEPT ![o] = [pc |-> "update", to |-> s, before |-> status]]
  /\ changes' = changes + 1
  /\ overlaps' = IF \E p \in Operators : operator[p].pc # "idle" THEN overlaps + 1 ELSE overlaps
  /\ UNCHANGED <<status, userVars, audit, faults>>

\* Mutant of UpdateStatus: the status before is read back from the update.
UpdateStatusFirst(o) ==
  /\ operator[o].pc = "update"
  /\ status' = operator[o].to
  /\ operator' = [operator EXCEPT ![o].pc = "audit", ![o].before = operator[o].to]
  /\ request' = [r \in Requests |->
       [request[r] EXCEPT !.shut = @ /\ operator[o].to \in Disabled]]
  /\ UNCHANGED <<token, held, ended, racers, audit, changes, overlaps, faults>>

UpdateStatus(o) ==
  /\ operator[o].pc = "update"
  /\ status' = operator[o].to
  /\ operator' = [operator EXCEPT ![o].pc = "audit"]
  /\ request' = [r \in Requests |->
       [request[r] EXCEPT !.shut = @ /\ operator[o].to \in Disabled]]
  /\ UNCHANGED <<token, held, ended, racers, audit, changes, overlaps, faults>>

\* AuditService.record
Record(o) ==
  /\ operator[o].pc = "audit"
  /\ audit' = Append(audit, [before |-> operator[o].before, after |-> operator[o].to])
  /\ operator' = [operator EXCEPT ![o] = OffDuty]
  /\ UNCHANGED <<status, userVars, changes, overlaps, faults>>

OperatorDies(o) ==
  /\ operator[o].pc # "idle"
  /\ Fault
  /\ operator' = [operator EXCEPT ![o] = OffDuty]
  /\ UNCHANGED <<status, userVars, audit, changes, overlaps>>

-----------------------------------------------------------------------------
Next ==
  \/ \E r \in Requests :
       \/ Login(r) \/ Refresh(r) \/ ReadStatus(r) \/ RevokeFamily(r)
       \/ Rotate(r) \/ Issue(r) \/ RequestDies(r)
  \/ \E t \in Tokens : Expire(t)
  \/ \E o \in Operators : ReadBefore(o) \/ UpdateStatus(o) \/ Record(o) \/ OperatorDies(o)

Spec == Init /\ [][Next]_vars

-----------------------------------------------------------------------------
(***************************************************************************)
(* Properties                                                              *)
(***************************************************************************)

\* Types of all variables.
SessionsTypeOK ==
  /\ status \in Statuses
  /\ token \in [Tokens -> [state : {"none", "live", "expired", "revoked"},
                           family : Tokens \cup {None}, parent : Tokens \cup {None}]]
  /\ held \subseteq Tokens
  /\ request \in [Requests -> [pc : {"idle", "status", "revoke", "rotate", "issue"},
                               token : Tokens \cup {None}, family : Tokens \cup {None},
                               shut : BOOLEAN, racing : BOOLEAN]]
  /\ operator \in [Operators -> [pc : {"idle", "update", "audit"},
                                 to : Statuses, before : Statuses]]
  /\ audit \in Seq([before : Statuses, after : Statuses])
  /\ changes \in Nat /\ faults \in Nat /\ overlaps \in Nat
  /\ ended \subseteq Tokens \cup {None} /\ racers \subseteq Tokens

\* Two refreshes of one token may both be answered, but a token that has been
\* exchanged is dead from then on: the tokens of a family that are still good
\* are the ends of its branches, one unless a token was exchanged twice.
OneSessionPerBranch ==
  \A t \in Tokens : token[t].parent # None => token[token[t].parent].state = "revoked"

\* "Refresh token reuse detected; all sessions revoked": in a family that was
\* revoked, for reuse or for the account's status, only a refresh that was
\* being served at that moment leaves a good token, and what is exchanged for it.
RevokedFamilyEnds ==
  \A t \in Tokens : token[t].state = "live" /\ token[t].family \in ended => t \in racers

\* A refresh that begins after the suspension of the account, with no operator
\* lifting it meanwhile, is not given a token, whatever it overlaps.
SuspendedGetsNothing == \A r \in Requests : request[r].shut => request[r].pc # "issue"

\* The audit log replays the account's history: each entry starts where the
\* last one ended, the first where accounts start, the last where the account
\* is.  (Operations that overlap, or die before record, break the chain.)
AuditTrailReplays ==
  LET at(i) == IF i = 0 THEN "PENDING" ELSE audit[i].after
  IN  faults = 0 /\ overlaps = 0 =>
        /\ \A i \in DOMAIN audit : audit[i].before = at(i - 1)
        /\ (\A o \in Operators : operator[o].pc = "idle") => status = at(Len(audit))

\* "Refresh token reuse detected; all sessions revoked" (refresh): no token of a family
\* that was revoked is good.
ReuseEndsAll == \A t \in Tokens : token[t].state = "live" => token[t].family \notin ended
=============================================================================
