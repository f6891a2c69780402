---------------------------- MODULE Sessions_proofs ----------------------------
(***************************************************************************)
(* Theorems about Sessions, for every number of requests, operators,       *)
(* tokens, changes and faults.                                             *)
(***************************************************************************)
EXTENDS Sessions, TLAPS

\* A refresh that is about to issue has revoked the token it was given.
Exchanged ==
  \A r \in Requests :
    request[r].pc = "issue" /\ request[r].token # None =>
      token[request[r].token].state = "revoked"

\* A family is named for its first token, which is there.
FamiliesExist ==
  /\ \A t \in held : token[t].state # "none"
  /\ \A t \in Tokens : token[t].state # "none" =>
       token[t].family # None /\ token[token[t].family].state # "none"
  /\ \A r \in Requests : request[r].token # None =>
       /\ token[request[r].token].state # "none"
       /\ request[r].family # None /\ token[request[r].family].state # "none"
  /\ \A r \in Requests :
       request[r].pc \in {"status", "revoke", "rotate"} => request[r].token # None
  /\ \A f \in ended : f # None /\ token[f].state # "none"

\* A refresh that may still issue into a family that was revoked was being
\* served when that happened, or serves a token that was issued like that.
LateRefreshesRace ==
  \A r \in Requests :
    request[r].token # None /\ request[r].pc \in {"status", "rotate", "issue"}
      /\ request[r].family \in ended => request[r].racing

\* A refresh that began after the suspension finds the account suspended.
ShutOut ==
  \A r \in Requests : request[r].shut =>
    status \in Disabled /\ request[r].pc \in {"status", "revoke"}

\* The status the audit log ends with.
Recorded == IF audit = <<>> THEN "PENDING" ELSE audit[Len(audit)].after

\* Operators one at a time: the one at work has read, or has just set, the
\* status, and the log is behind by its operation.
OneAtATime ==
  faults = 0 /\ overlaps = 0 =>
    /\ \A o, p \in Operators : operator[o].pc # "idle" /\ operator[p].pc # "idle" => o = p
    /\ \A i \in DOMAIN audit :
         audit[i].before = IF i = 1 THEN "PENDING" ELSE audit[i - 1].after
    /\ \A o \in Operators :
         /\ operator[o].pc # "idle" => operator[o].before = Recorded
         /\ operator[o].pc = "update" => status = Recorded
         /\ operator[o].pc = "audit" => status = operator[o].to
    /\ (\A o \in Operators : operator[o].pc = "idle") => status = Recorded

-----------------------------------------------------------------------------
\* No token is the parent of a login's token.
LEMMA NoneIsNoToken == None \notin Tokens
BY SessionBounds DEF None, Tokens

\* The types hold at the start.
LEMMA InitTypes == Init => SessionsTypeOK
BY DEF Init, SessionsTypeOK, NoToken, Idle, OffDuty, Statuses

\* Every step keeps the types.
LEMMA NextTypes ==
  ASSUME SessionsTypeOK, [Next]_vars PROVE SessionsTypeOK'
<1> DEFINE Requesting == [pc : {"idle", "status", "revoke", "rotate", "issue"},
                          token : Tokens \cup {None}, family : Tokens \cup {None},
                          shut : BOOLEAN, racing : BOOLEAN]
           Token == [state : {"none", "live", "expired", "revoked"},
                     family : Tokens \cup {None}, parent : Tokens \cup {None}]
<1>a. ASSUME request' \in [Requests -> Requesting], token' \in [Tokens -> Token],
             held' \subseteq Tokens, ended' \subseteq Tokens \cup {None}, racers' \subseteq Tokens,
             faults' \in Nat, UNCHANGED <<status, operatorVars>>
      PROVE  SessionsTypeOK'
  BY <1>a DEF SessionsTypeOK, operatorVars
<1>b. request \in [Requests -> Requesting] /\ token \in [Tokens -> Token] /\ faults \in Nat
      /\ held \subseteq Tokens /\ ended \subseteq Tokens \cup {None} /\ racers \subseteq Tokens
  BY DEF SessionsTypeOK
<1>c. Idle \in Requesting
  BY DEF Idle
<1>1. ASSUME NEW r \in Requests, Login(r) PROVE SessionsTypeOK'
  <2>1. [Idle EXCEPT !.pc = "issue"] \in Requesting
    BY DEF Idle
  <2>2. request' \in [Requests -> Requesting]
    BY <1>1, <1>b, <2>1 DEF Login
  <2> HIDE DEF Requesting, Token
  <2> QED BY <1>1, <1>a, <1>b, <2>2 DEF Login
<1>2. ASSUME NEW r \in Requests, Refresh(r) PROVE SessionsTypeOK'
  <2>1. PICK t \in held : request' = [request EXCEPT ![r] =
            [pc |-> IF token[t].state = "revoked" THEN "revoke" ELSE "status",
             token |-> t, family |-> token[t].family,
             shut |-> status \in Disabled, racing |-> t \in racers]]
    BY <1>2 DEF Refresh
  <2>2. request' \in [Requests -> Requesting]
    <3>1. t \in Tokens /\ token[t].family \in Tokens \cup {None}
      BY <1>b
    <3>2. (status \in Disabled) \in BOOLEAN /\ (t \in racers) \in BOOLEAN
      OBVIOUS
    <3> QED BY <1>b, <2>1, <3>1, <3>2
  <2> HIDE DEF Requesting, Token
  <2> QED BY <1>2, <1>a, <1>b, <2>2 DEF Refresh
<1>3. ASSUME NEW r \in Requests, ReadStatus(r) PROVE SessionsTypeOK'
  <2>1. request' \in [Requests -> Requesting]
    BY <1>3, <1>b DEF ReadStatus
  <2> HIDE DEF Requesting, Token
  <2> QED BY <1>3, <1>a, <1>b, <2>1 DEF ReadStatus
<1>4. ASSUME NEW r \in Requests, RevokeFamily(r) PROVE SessionsTypeOK'
  <2> DEFINE racing(q) == request[q].racing \/ request[q].family = request[r].family
  <2>1. request' \in [Requests -> Requesting]
    <3>1. request' = [q \in Requests |-> IF q = r THEN Idle
                                         ELSE [request[q] EXCEPT !.racing = racing(q)]]
      BY <1>4, <1>b DEF RevokeFamily
    <3>2. \A q \in Requests : racing(q) \in BOOLEAN
      OBVIOUS
    <3> HIDE DEF racing
    <3>3. \A q \in Requests : [request[q] EXCEPT !.racing = racing(q)] \in Requesting
      BY <1>b, <3>2
    <3> HIDE DEF Requesting
    <3> QED BY <1>c, <3>1, <3>3
  <2>2. token' \in [Tokens -> Token]
    BY <1>4, <1>b DEF RevokeFamily
  <2>3. ended' \subseteq Tokens \cup {None}
    BY <1>4, <1>b DEF RevokeFamily
  <2> HIDE DEF Requesting, Token
  <2> QED BY <1>4, <1>a, <1>b, <2>1, <2>2, <2>3 DEF RevokeFamily
<1>5. ASSUME NEW r \in Requests, Rotate(r) PROVE SessionsTypeOK'
  <2>1. request' = [request EXCEPT ![r].pc = "issue"]
        /\ token' = [token EXCEPT ![request[r].token].state = "revoked"]
    BY <1>5 DEF Rotate
  <2>2. request' \in [Requests -> Requesting]
    BY <1>b, <2>1
  <2> DEFINE revoked(t) == [token[t] EXCEPT !.state = "revoked"]
  <2>4. \A t \in Tokens : revoked(t) \in Token
    BY <1>b
  <2>5. token' = [token EXCEPT ![request[r].token] = revoked(request[r].token)]
    BY <2>1
  <2> HIDE DEF Requesting, Token, revoked
  <2>3. token' \in [Tokens -> Token]
    BY <1>b, <2>4, <2>5
  <2> QED BY <1>5, <1>a, <1>b, <2>2, <2>3 DEF Rotate
<1>6. ASSUME NEW r \in Requests, Issue(r) PROVE SessionsTypeOK'
  <2>1. PICK t \in Tokens :
          /\ token' = [token EXCEPT ![t] =
               [state |-> "live", parent |-> request[r].token,
                family |-> IF request[r].token = None THEN t ELSE request[r].family]]
          /\ racers' = IF request[r].racing THEN racers \cup {t} ELSE racers
          /\ held' = held \cup {t} \/ held' = held
          /\ faults' = faults + 1 \/ faults' = faults
    BY <1>6 DEF Issue, Fault
  <2>2. token' \in [Tokens -> Token]
    BY <1>b, <2>1
  <2>3. request' \in [Requests -> Requesting]
    <3>1. request' = [request EXCEPT ![r] = Idle]
      BY <1>6 DEF Issue, Finish
    <3> HIDE DEF Requesting
    <3> QED BY <1>b, <1>c, <3>1
  <2>4. UNCHANGED <<status, operatorVars, ended>>
    BY <1>6 DEF Issue
  <2> HIDE DEF Requesting, Token
  <2> QED BY <1>a, <1>b, <2>1, <2>2, <2>3, <2>4
<1>7. ASSUME NEW r \in Requests, RequestDies(r) PROVE SessionsTypeOK'
  <2>1. request' = [request EXCEPT ![r] = Idle]
    BY <1>7 DEF RequestDies, Finish
  <2> HIDE DEF Requesting, Token
  <2>2. request' \in [Requests -> Requesting]
    BY <1>b, <1>c, <2>1
  <2> QED BY <1>7, <1>a, <1>b, <2>2 DEF RequestDies, Fault
<1>8. ASSUME NEW t \in Tokens, Expire(t) PROVE SessionsTypeOK'
  <2>1. token' \in [Tokens -> Token]
    BY <1>8, <1>b DEF Expire
  <2> HIDE DEF Requesting, Token
  <2> QED BY <1>8, <1>a, <1>b, <2>1 DEF Expire
<1>9. ASSUME NEW o \in Operators, ReadBefore(o) PROVE SessionsTypeOK'
  BY <1>9 DEF ReadBefore, SessionsTypeOK, userVars, Statuses
<1>10. ASSUME NEW o \in Operators, UpdateStatus(o) PROVE SessionsTypeOK'
  <2> DEFINE shut(r) == request[r].shut /\ operator[o].to \in Disabled
  <2>1. request' = [r \in Requests |-> [request[r] EXCEPT !.shut = shut(r)]]
    BY <1>10 DEF UpdateStatus
  <2>2. \A r \in Requests : shut(r) \in BOOLEAN
    OBVIOUS
  <2> HIDE DEF shut
  <2>3. request' \in [Requests -> Requesting]
    <3>1. \A r \in Requests : [request[r] EXCEPT !.shut = shut(r)] \in Requesting
      BY <1>b, <2>2
    <3> HIDE DEF Requesting
    <3> QED BY <2>1, <3>1
  <2>4. status' = operator[o].to /\ operator' = [operator EXCEPT ![o].pc = "audit"]
    BY <1>10 DEF UpdateStatus
  <2>5. status' \in Statuses
        /\ operator' \in [Operators -> [pc : {"idle", "update", "audit"},
                                       to : Statuses, before : Statuses]]
    BY <2>4 DEF SessionsTypeOK
  <2>6. UNCHANGED <<token, held, ended, racers, audit, changes, overlaps, faults>>
    BY <1>10 DEF UpdateStatus
  <2> QED BY <2>3, <2>5, <2>6 DEF SessionsTypeOK
<1>11. ASSUME NEW o \in Operators, Record(o) PROVE SessionsTypeOK'
  <2> DEFINE entry == [before |-> operator[o].before, after |-> operator[o].to]
  <2>1. entry \in [before : Statuses, after : Statuses]
    BY DEF SessionsTypeOK
  <2>2. audit' = Append(audit, entry)
    BY <1>11 DEF Record
  <2> HIDE DEF entry
  <2>3. audit' \in Seq([before : Statuses, after : Statuses])
    BY <2>1, <2>2 DEF SessionsTypeOK
  <2> QED BY <1>11, <2>3 DEF Record, SessionsTypeOK, userVars, OffDuty, Statuses
<1>12. ASSUME NEW o \in Operators, OperatorDies(o) PROVE SessionsTypeOK'
  BY <1>12 DEF OperatorDies, SessionsTypeOK, userVars, Fault, OffDuty, Statuses
<1>13. CASE UNCHANGED vars
  BY <1>13 DEF vars, userVars, operatorVars, SessionsTypeOK
<1> QED BY <1>1, <1>2, <1>3, <1>4, <1>5, <1>6, <1>7, <1>8, <1>9, <1>10, <1>11, <1>12, <1>13
        DEF Next

\* Types of all variables, for every instance (auth.service.ts,
\* admin-api.service.ts).
THEOREM SessionsTypes == Spec => []SessionsTypeOK
BY InitTypes, NextTypes, PTL DEF Spec

-----------------------------------------------------------------------------
(***************************************************************************)
(* An exchanged token is dead.                                             *)
(***************************************************************************)
RotationInv == Exchanged /\ OneSessionPerBranch

\* What operators do leaves the tokens and the requests' locals alone.
LEMMA OperatorsLeaveTokens ==
  ASSUME SessionsTypeOK, NEW o \in Operators,
         ReadBefore(o) \/ UpdateStatus(o) \/ Record(o) \/ OperatorDies(o)
  PROVE  /\ UNCHANGED <<token, held, ended, racers>>
         /\ \A r \in Requests :
              /\ request'[r].pc = request[r].pc /\ request'[r].token = request[r].token
              /\ request'[r].family = request[r].family
              /\ request'[r].racing = request[r].racing
<1>1. CASE UpdateStatus(o)
  BY <1>1 DEF UpdateStatus, SessionsTypeOK
<1>2. CASE ReadBefore(o) \/ Record(o) \/ OperatorDies(o)
  BY <1>2 DEF ReadBefore, Record, OperatorDies, userVars
<1> QED BY <1>1, <1>2

\* Every step keeps exchanged tokens dead.
LEMMA NextRotation ==
  ASSUME SessionsTypeOK, RotationInv, [Next]_vars PROVE RotationInv'
<1> USE NoneIsNoToken DEF RotationInv, Exchanged, OneSessionPerBranch, SessionsTypeOK,
        userVars, operatorVars, Finish, Idle
<1>1. ASSUME NEW r \in Requests, Login(r) PROVE RotationInv'
  BY <1>1 DEF Login
<1>2. ASSUME NEW r \in Requests, Refresh(r) PROVE RotationInv'
  BY <1>2 DEF Refresh
<1>3. ASSUME NEW r \in Requests, ReadStatus(r) PROVE RotationInv'
  BY <1>3 DEF ReadStatus
<1>4. ASSUME NEW r \in Requests, RevokeFamily(r) PROVE RotationInv'
  BY <1>4 DEF RevokeFamily
<1>5. ASSUME NEW r \in Requests, Rotate(r) PROVE RotationInv'
  BY <1>5 DEF Rotate
<1>6. ASSUME NEW r \in Requests, Issue(r) PROVE RotationInv'
  <2>1. PICK t \in Tokens :
          /\ token[t].state = "none"
          /\ token' = [token EXCEPT ![t] =
               [state |-> "live", parent |-> request[r].token,
                family |-> IF request[r].token = None THEN t ELSE request[r].family]]
    BY <1>6 DEF Issue
  <2>2. request' = [request EXCEPT ![r] = Idle] /\ request[r].pc = "issue"
    BY <1>6 DEF Issue
  <2>3. \A u \in Tokens : token[u].state = "revoked" => token'[u] = token[u]
    BY <2>1
  <2>4. Exchanged'
    BY <2>2, <2>3
  <2>5. OneSessionPerBranch'
    <3> SUFFICES ASSUME NEW u \in Tokens, token'[u].parent # None
                 PROVE  token'[token'[u].parent].state = "revoked"
      OBVIOUS
    <3>1. CASE u = t
      BY <2>1, <2>2, <2>3, <3>1
    <3>2. CASE u # t
      BY <2>1, <2>3, <3>2
    <3> QED BY <3>1, <3>2
  <2> QED BY <2>4, <2>5
<1>7. ASSUME NEW r \in Requests, RequestDies(r) PROVE RotationInv'
  BY <1>7 DEF RequestDies
<1>8. ASSUME NEW t \in Tokens, Expire(t) PROVE RotationInv'
  BY <1>8 DEF Expire
<1>9. ASSUME NEW o \in Operators,
             ReadBefore(o) \/ UpdateStatus(o) \/ Record(o) \/ OperatorDies(o)
      PROVE  RotationInv'
  BY <1>9, OperatorsLeaveTokens
<1>10. CASE UNCHANGED vars
  BY <1>10 DEF vars
<1> QED BY <1>1, <1>2, <1>3, <1>4, <1>5, <1>6, <1>7, <1>8, <1>9, <1>10 DEF Next

\* A refresh token that has been exchanged is dead from then on, however many
\* refreshes present it, again or at the same time (refreshToken).
THEOREM ExchangedTokensAreDead == Spec => []OneSessionPerBranch
<1>1. Init => RotationInv
  BY DEF Init, RotationInv, Exchanged, OneSessionPerBranch, NoToken, Idle
<1>2. SessionsTypeOK /\ RotationInv /\ [Next]_vars => RotationInv'
  BY NextRotation
<1>3. RotationInv => OneSessionPerBranch
  BY DEF RotationInv
<1> QED BY <1>1, <1>2, <1>3, SessionsTypes, PTL DEF Spec

-----------------------------------------------------------------------------
(***************************************************************************)
(* A revoked family ends.                                                  *)
(***************************************************************************)
FamilyInv == FamiliesExist /\ LateRefreshesRace /\ RevokedFamilyEnds

\* A step that leaves the families of the rows as they are, that makes no good
\* token of one that is none, and that adds no family to those that ended,
\* keeps the rows' part of the invariant.
LEMMA FamiliesKept ==
  ASSUME SessionsTypeOK, FamilyInv, UNCHANGED <<held, ended, racers>>,
         \A t \in Tokens : token'[t].family = token[t].family,
         \A t \in Tokens : token'[t].state = "none" <=> token[t].state = "none",
         \A t \in Tokens : token'[t].state = "live" => token[t].state = "live"
  PROVE  /\ RevokedFamilyEnds'
         /\ \A t \in held' : token'[t].state # "none"
         /\ \A t \in Tokens : token'[t].state # "none" =>
              token'[t].family # None /\ token'[token'[t].family].state # "none"
         /\ \A f \in ended' : f # None /\ token'[f].state # "none"
<1>1. RevokedFamilyEnds'
  BY DEF FamilyInv, RevokedFamilyEnds
<1>2. \A t \in Tokens : token[t].family \in Tokens \cup {None}
  BY DEF SessionsTypeOK
<1>3. held \subseteq Tokens /\ ended \subseteq Tokens \cup {None}
  BY DEF SessionsTypeOK
<1> QED BY <1>1, <1>2, <1>3 DEF FamilyInv, FamiliesExist

\* Every step keeps what is known of revoked families.
LEMMA NextFamilies ==
  ASSUME SessionsTypeOK, FamilyInv, [Next]_vars PROVE FamilyInv'
<1>1. ASSUME NEW r \in Requests, Login(r) \/ RequestDies(r) PROVE FamilyInv'
  <2>1. /\ UNCHANGED <<token, held, ended, racers>>
        /\ request'[r].token = None /\ request'[r].pc \in {"idle", "issue"}
        /\ \A q \in Requests \ {r} : request'[q] = request[q]
    BY <1>1 DEF Login, RequestDies, Finish, Idle, SessionsTypeOK
  <2> QED BY <2>1 DEF FamilyInv, FamiliesExist, LateRefreshesRace, RevokedFamilyEnds
<1>2. ASSUME NEW r \in Requests, Refresh(r) PROVE FamilyInv'
  <2>1. PICK t \in held : request' = [request EXCEPT ![r] =
            [pc |-> IF token[t].state = "revoked" THEN "revoke" ELSE "status",
             token |-> t, family |-> token[t].family,
             shut |-> status \in Disabled, racing |-> t \in racers]]
        /\ token[t].state # "expired"
    BY <1>2 DEF Refresh
  <2>2. t \in Tokens /\ token[t].state # "none" /\ t # None
    BY NoneIsNoToken DEF SessionsTypeOK, FamilyInv, FamiliesExist
  <2>3. token[t].state = "revoked" \/ token[t].state = "live"
    BY <2>1, <2>2 DEF SessionsTypeOK
  <2>4. UNCHANGED <<token, held, ended, racers>>
    BY <1>2 DEF Refresh
  <2>5. /\ request'[r].token = t /\ request'[r].family = token[t].family
        /\ request'[r].racing = (t \in racers)
        /\ request'[r].pc = IF token[t].state = "revoked" THEN "revoke" ELSE "status"
        /\ \A q \in Requests \ {r} : request'[q] = request[q]
    BY <2>1 DEF SessionsTypeOK
  <2>6. FamiliesExist'
    BY <2>2, <2>4, <2>5 DEF FamilyInv, FamiliesExist
  <2>7. LateRefreshesRace'
    BY <2>2, <2>3, <2>4, <2>5 DEF FamilyInv, LateRefreshesRace, RevokedFamilyEnds
  <2> QED BY <2>4, <2>6, <2>7 DEF FamilyInv, RevokedFamilyEnds
<1>3. ASSUME NEW r \in Requests, ReadStatus(r) \/ Rotate(r) PROVE FamilyInv'
  <2>1. /\ request[r].pc \in {"status", "rotate"} /\ UNCHANGED <<held, ended, racers>>
        /\ request'[r].token = request[r].token /\ request'[r].family = request[r].family
        /\ request'[r].racing = request[r].racing
        /\ request'[r].pc \in {"revoke", "rotate", "issue"}
        /\ request[r].pc = "rotate" => request'[r].pc # "revoke"
        /\ \A q \in Requests \ {r} : request'[q] = request[q]
    BY <1>3 DEF ReadStatus, Rotate, SessionsTypeOK
  <2>2. /\ \A t \in Tokens : token'[t].family = token[t].family
        /\ \A t \in Tokens : token'[t].state = "none" <=> token[t].state = "none"
        /\ \A t \in Tokens : token'[t].state = "live" => token[t].state = "live"
    <3>1. CASE ReadStatus(r)
      BY <3>1 DEF ReadStatus
    <3>2. CASE Rotate(r)
      <4>1. token[request[r].token].state # "none" /\ request[r].token \in Tokens
        BY <2>1 DEF SessionsTypeOK, FamilyInv, FamiliesExist
      <4> QED BY <3>2, <4>1 DEF Rotate, SessionsTypeOK
    <3> QED BY <1>3, <3>1, <3>2
  <2>3. /\ RevokedFamilyEnds'
        /\ \A t \in held' : token'[t].state # "none"
        /\ \A t \in Tokens : token'[t].state # "none" =>
             token'[t].family # None /\ token'[token'[t].family].state # "none"
        /\ \A f \in ended' : f # None /\ token'[f].state # "none"
    BY <2>1, <2>2, FamiliesKept
  <2>4. \A q \in Requests : /\ request[q].family \in Tokens \cup {None}
                             /\ request[q].token \in Tokens \cup {None}
    BY DEF SessionsTypeOK
  <2>5. FamiliesExist'
    BY <2>1, <2>2, <2>3, <2>4 DEF FamilyInv, FamiliesExist
  <2>6. LateRefreshesRace'
    BY <2>1 DEF FamilyInv, LateRefreshesRace
  <2> QED BY <2>3, <2>5, <2>6 DEF FamilyInv
<1>4. ASSUME NEW r \in Requests, RevokeFamily(r) PROVE FamilyInv'
  <2> DEFINE f == request[r].family
  <2>1. f \in Tokens /\ token[f].state # "none"
    BY <1>4 DEF RevokeFamily, SessionsTypeOK, FamilyInv, FamiliesExist
  <2>2. \A t \in Tokens :
          /\ token'[t].family = token[t].family
          /\ token[t].family = f => token'[t].state = "revoked"
          /\ token[t].family # f => token'[t] = token[t]
    BY <1>4 DEF RevokeFamily, SessionsTypeOK
  <2>3. /\ ended' = ended \cup {f} /\ UNCHANGED <<held, racers>>
        /\ request'[r] = Idle
        /\ \A q \in Requests \ {r} :
             /\ request'[q].pc = request[q].pc /\ request'[q].token = request[q].token
             /\ request'[q].family = request[q].family
             /\ request[q].racing \/ request[q].family = f => request'[q].racing
    <3> DEFINE racing(q) == request[q].racing \/ request[q].family = f
    <3>1. request' = [q \in Requests |-> IF q = r THEN Idle
                                         ELSE [request[q] EXCEPT !.racing = racing(q)]]
      BY <1>4 DEF RevokeFamily
    <3> HIDE DEF racing
    <3>2. /\ request'[r] = Idle
          /\ \A q \in Requests \ {r} :
               /\ request'[q].pc = request[q].pc /\ request'[q].token = request[q].token
               /\ request'[q].family = request[q].family
               /\ request'[q].racing = racing(q)
      BY <3>1 DEF SessionsTypeOK
    <3> QED BY <1>4, <3>2 DEF racing, RevokeFamily
  <2>4. \A t \in Tokens : token[t].state # "none" => token'[t].state # "none"
    BY <2>2
  <2>5. RevokedFamilyEnds'
    BY <2>2, <2>3 DEF FamilyInv, RevokedFamilyEnds
  <2>6. LateRefreshesRace'
    BY <2>3 DEF FamilyInv, LateRefreshesRace, Idle
  <2>7. FamiliesExist'
    <3>1. \A t \in Tokens : token'[t].state # "none" => token[token[t].family].state # "none"
                                                     /\ token[t].family \in Tokens
      <4>1. \A t \in Tokens : token'[t].state # "none" =>
              token[t].state # "none" \/ token[t].family = f
        BY <2>2
      <4> QED BY <2>1, <4>1 DEF FamilyInv, FamiliesExist, SessionsTypeOK
    <3>2. \A t \in Tokens : token'[t].state # "none" =>
            token'[t].family # None /\ token'[token'[t].family].state # "none"
      BY <2>2, <2>4, <3>1, NoneIsNoToken
    <3>3. \A t \in held' : token'[t].state # "none"
      BY <2>3, <2>4 DEF FamilyInv, FamiliesExist, SessionsTypeOK
    <3>4. \A g \in ended' : g # None /\ token'[g].state # "none"
      BY <2>1, <2>3, <2>4, NoneIsNoToken DEF FamilyInv, FamiliesExist, SessionsTypeOK
    <3>5. \A q \in Requests : request'[q].token # None =>
            /\ request[q].token # None /\ request'[q].token = request[q].token
            /\ request'[q].family = request[q].family
      BY <2>3 DEF Idle
    <3>6. \A q \in Requests : request'[q].token # None =>
            /\ token'[request'[q].token].state # "none"
            /\ request'[q].family # None /\ token'[request'[q].family].state # "none"
      BY <2>4, <3>5 DEF FamilyInv, FamiliesExist, SessionsTypeOK
    <3>7. \A q \in Requests :
            request'[q].pc \in {"status", "revoke", "rotate"} => request'[q].token # None
      BY <2>3 DEF FamilyInv, FamiliesExist, Idle
    <3> QED BY <3>2, <3>3, <3>4, <3>6, <3>7 DEF FamiliesExist
  <2> QED BY <2>5, <2>6, <2>7 DEF FamilyInv
<1>5. ASSUME NEW r \in Requests, Issue(r) PROVE FamilyInv'
  <2> DEFINE p == request[r].token
             f == request[r].family
  <2>1. PICK t \in Tokens :
          /\ token[t].state = "none"
          /\ token' = [token EXCEPT ![t] =
               [state |-> "live", parent |-> p, family |-> IF p = None THEN t ELSE f]]
          /\ racers' = IF request[r].racing THEN racers \cup {t} ELSE racers
          /\ held' = held \cup {t} \/ held' = held
    BY <1>5 DEF Issue
  <2>2. request' = [request EXCEPT ![r] = Idle] /\ request[r].pc = "issue" /\ ended' = ended
    BY <1>5 DEF Issue, Finish
  <2>3. /\ token'[t].state = "live"
        /\ token'[t].family = IF p = None THEN t ELSE f
        /\ \A u \in Tokens \ {t} : token'[u] = token[u]
    BY <2>1 DEF SessionsTypeOK
  <2>4. /\ request'[r] = Idle
        /\ \A q \in Requests \ {r} : request'[q] = request[q]
    BY <2>2 DEF SessionsTypeOK
  <2>5. \A u \in Tokens : token[u].state # "none" => token'[u].state # "none"
    BY <2>3
  <2>6. p # None => f \in Tokens /\ token[f].state # "none"
    BY DEF FamilyInv, FamiliesExist, SessionsTypeOK
  <2>7. t \notin ended
    BY <2>1 DEF FamilyInv, FamiliesExist
  <2>8. LateRefreshesRace'
    BY <2>2, <2>4 DEF FamilyInv, LateRefreshesRace, Idle
  <2>9. RevokedFamilyEnds'
    <3> SUFFICES ASSUME NEW u \in Tokens, token'[u].state = "live", token'[u].family \in ended
                 PROVE  u \in racers'
      BY <2>2 DEF RevokedFamilyEnds
    <3>1. CASE u # t
      BY <2>1, <2>3, <3>1 DEF FamilyInv, RevokedFamilyEnds
    <3>2. CASE u = t
      BY <2>1, <2>2, <2>3, <2>7, <3>2 DEF FamilyInv, LateRefreshesRace
    <3> QED BY <3>1, <3>2
  <2>10. FamiliesExist'
    <3>1. \A u \in held' : token'[u].state # "none"
      BY <2>1, <2>3, <2>5 DEF FamilyInv, FamiliesExist, SessionsTypeOK
    <3>2. \A u \in Tokens : token'[u].state # "none" =>
            token'[u].family # None /\ token'[token'[u].family].state # "none"
      <4> SUFFICES ASSUME NEW u \in Tokens, token'[u].state # "none"
                   PROVE  token'[u].family \in Tokens /\ token'[token'[u].family].state # "none"
        BY NoneIsNoToken
      <4>1. CASE u = t
        BY <2>3, <2>5, <2>6, <4>1
      <4>2. CASE u # t
        <5>1. token[u].family \in Tokens /\ token[token[u].family].state # "none"
          BY <2>3, <4>2 DEF FamilyInv, FamiliesExist, SessionsTypeOK
        <5> QED BY <2>3, <2>5, <4>2, <5>1
      <4> QED BY <4>1, <4>2
    <3>3. \A g \in ended' : g # None /\ token'[g].state # "none"
      BY <2>2, <2>5, NoneIsNoToken DEF FamilyInv, FamiliesExist, SessionsTypeOK
    <3>4. \A q \in Requests : request'[q].token # None =>
            /\ token'[request'[q].token].state # "none"
            /\ request'[q].family # None /\ token'[request'[q].family].state # "none"
      BY <2>4, <2>5 DEF FamilyInv, FamiliesExist, SessionsTypeOK, Idle
    <3>5. \A q \in Requests :
            request'[q].pc \in {"status", "revoke", "rotate"} => request'[q].token # None
      BY <2>4 DEF FamilyInv, FamiliesExist, Idle
    <3> QED BY <3>1, <3>2, <3>3, <3>4, <3>5 DEF FamiliesExist
  <2> QED BY <2>8, <2>9, <2>10 DEF FamilyInv
<1>6. ASSUME NEW t \in Tokens, Expire(t) PROVE FamilyInv'
  <2>1. /\ UNCHANGED <<held, request, ended, racers>>
        /\ \A u \in Tokens : token'[u].family = token[u].family
        /\ \A u \in Tokens : token'[u].state = "none" <=> token[u].state = "none"
        /\ \A u \in Tokens : token'[u].state = "live" => token[u].state = "live"
    BY <1>6 DEF Expire, SessionsTypeOK
  <2> QED BY <2>1, FamiliesKept DEF SessionsTypeOK, FamilyInv, FamiliesExist, LateRefreshesRace
<1>7. ASSUME NEW o \in Operators,
             ReadBefore(o) \/ UpdateStatus(o) \/ Record(o) \/ OperatorDies(o)
      PROVE  FamilyInv'
  BY <1>7, OperatorsLeaveTokens
  DEF FamilyInv, FamiliesExist, LateRefreshesRace, RevokedFamilyEnds
<1>8. CASE UNCHANGED vars
  BY <1>8 DEF vars, userVars, FamilyInv, FamiliesExist, LateRefreshesRace, RevokedFamilyEnds
<1> QED BY <1>1, <1>2, <1>3, <1>4, <1>5, <1>6, <1>7, <1>8 DEF Next

\* When a family is revoked, for reuse of a token or for the account's status,
\* what survives is at most what the refreshes then being served go on to issue
\* (refreshToken: the updateMany sees the rows of its moment).
THEOREM RevocationEndsTheFamily == Spec => []RevokedFamilyEnds
<1>1. Init => FamilyInv
  BY DEF Init, FamilyInv, FamiliesExist, LateRefreshesRace, RevokedFamilyEnds, NoToken, Idle
<1>2. SessionsTypeOK /\ FamilyInv /\ [Next]_vars => FamilyInv'
  BY NextFamilies
<1>3. FamilyInv => RevokedFamilyEnds
  BY DEF FamilyInv
<1> QED BY <1>1, <1>2, <1>3, SessionsTypes, PTL DEF Spec

-----------------------------------------------------------------------------
(***************************************************************************)
(* A suspended account is shut out.                                        *)
(***************************************************************************)
LEMMA NextShutOut ==
  ASSUME SessionsTypeOK, ShutOut, [Next]_vars PROVE ShutOut'
<1> USE DEF ShutOut
<1>1. ASSUME NEW r \in Requests,
             Login(r) \/ RevokeFamily(r) \/ Rotate(r) \/ Issue(r) \/ RequestDies(r)
      PROVE  ShutOut'
  <2>1. CASE Login(r) \/ Issue(r) \/ RequestDies(r)
    BY <2>1 DEF Login, Issue, RequestDies, Finish, Idle, SessionsTypeOK
  <2>2. CASE RevokeFamily(r)
    <3>1. \A q \in Requests : request'[q].shut => request[q].shut /\ request'[q].pc = request[q].pc
      BY <2>2 DEF RevokeFamily, Idle, SessionsTypeOK
    <3> QED BY <2>2, <3>1 DEF RevokeFamily
  <2>3. CASE Rotate(r)
    BY <2>3 DEF Rotate, SessionsTypeOK
  <2> QED BY <1>1, <2>1, <2>2, <2>3
<1>2. ASSUME NEW r \in Requests, Refresh(r) PROVE ShutOut'
  <2>1. PICK t \in held : request' = [request EXCEPT ![r] =
            [pc |-> IF token[t].state = "revoked" THEN "revoke" ELSE "status",
             token |-> t, family |-> token[t].family,
             shut |-> status \in Disabled, racing |-> t \in racers]]
    BY <1>2 DEF Refresh
  <2>2. /\ request'[r].pc \in {"revoke", "status"} /\ request'[r].shut = (status \in Disabled)
        /\ \A q \in Requests \ {r} : request'[q] = request[q]
    BY <2>1 DEF SessionsTypeOK
  <2> QED BY <1>2, <2>2 DEF Refresh
<1>3. ASSUME NEW r \in Requests, ReadStatus(r) PROVE ShutOut'
  BY <1>3 DEF ReadStatus, SessionsTypeOK
<1>4. ASSUME NEW t \in Tokens, Expire(t) PROVE ShutOut'
  BY <1>4 DEF Expire
<1>5. ASSUME NEW o \in Operators, UpdateStatus(o) PROVE ShutOut'
  <2>1. \A r \in Requests :
          /\ request'[r].pc = request[r].pc
          /\ request'[r].shut => request[r].shut /\ operator[o].to \in Disabled
    BY <1>5 DEF UpdateStatus, SessionsTypeOK
  <2> QED BY <1>5, <2>1 DEF UpdateStatus
<1>6. ASSUME NEW o \in Operators, ReadBefore(o) \/ Record(o) \/ OperatorDies(o) PROVE ShutOut'
  BY <1>6 DEF ReadBefore, Record, OperatorDies, userVars
<1>7. CASE UNCHANGED vars
  BY <1>7 DEF vars, userVars
<1> QED BY <1>1, <1>2, <1>3, <1>4, <1>5, <1>6, <1>7 DEF Next

\* A refresh that begins while the account is suspended is not answered with a
\* token, as long as no operator lifts the suspension (refreshToken reads the
\* status again).
THEOREM SuspensionShutsOut == Spec => []SuspendedGetsNothing
<1>1. Init => ShutOut
  BY DEF Init, ShutOut, Idle
<1>2. SessionsTypeOK /\ ShutOut /\ [Next]_vars => ShutOut'
  BY NextShutOut
<1>3. ShutOut => SuspendedGetsNothing
  BY DEF ShutOut, SuspendedGetsNothing
<1> QED BY <1>1, <1>2, <1>3, SessionsTypes, PTL DEF Spec

-----------------------------------------------------------------------------
(***************************************************************************)
(* The audit log replays the account's history.                            *)
(***************************************************************************)
LEMMA NextOneAtATime ==
  ASSUME SessionsTypeOK, OneAtATime, [Next]_vars PROVE OneAtATime'
<1>1. ASSUME NEW r \in Requests, Login(r) \/ Refresh(r) \/ ReadStatus(r) \/ RevokeFamily(r)
                                 \/ Rotate(r) \/ Issue(r) \/ RequestDies(r)
      PROVE  OneAtATime'
  <2>1. UNCHANGED <<status, operatorVars>> /\ (faults' = 0 => faults = 0)
    BY <1>1 DEF Login, Refresh, ReadStatus, RevokeFamily, Rotate, Issue, RequestDies, Fault,
                SessionsTypeOK
  <2> QED BY <2>1 DEF OneAtATime, Recorded, operatorVars
<1>2. ASSUME NEW t \in Tokens, Expire(t) PROVE OneAtATime'
  BY <1>2 DEF Expire, OneAtATime, Recorded, operatorVars
<1>3. ASSUME NEW o \in Operators, ReadBefore(o) PROVE OneAtATime'
  <2> SUFFICES ASSUME faults' = 0, overlaps' = 0 PROVE OneAtATime'
    BY DEF OneAtATime
  <2>1. /\ faults = 0 /\ overlaps = 0 /\ \A p \in Operators : operator[p].pc = "idle"
        /\ UNCHANGED <<status, audit>>
    BY <1>3 DEF ReadBefore, SessionsTypeOK
  <2>2. status = Recorded /\ Recorded' = Recorded
    BY <2>1 DEF OneAtATime, Recorded
  <2>3. /\ operator'[o].pc = "update" /\ operator'[o].before = status
        /\ \A p \in Operators \ {o} : operator'[p] = operator[p]
    BY <1>3 DEF ReadBefore, SessionsTypeOK
  <2> QED BY <2>1, <2>2, <2>3 DEF OneAtATime
<1>4. ASSUME NEW o \in Operators, UpdateStatus(o) PROVE OneAtATime'
  <2> SUFFICES ASSUME faults' = 0, overlaps' = 0 PROVE OneAtATime'
    BY DEF OneAtATime
  <2>1. faults = 0 /\ overlaps = 0 /\ audit' = audit /\ status' = operator[o].to
        /\ operator[o].pc = "update"
    BY <1>4 DEF UpdateStatus
  <2>2. Recorded' = Recorded
    BY <2>1 DEF Recorded
  <2>3. /\ operator'[o].pc = "audit" /\ operator'[o].to = operator[o].to
        /\ operator'[o].before = operator[o].before
        /\ \A p \in Operators \ {o} : operator'[p] = operator[p]
    BY <1>4 DEF UpdateStatus, SessionsTypeOK
  <2>4. \A p \in Operators \ {o} : operator[p].pc = "idle"
    BY <2>1 DEF OneAtATime
  <2> QED BY <2>1, <2>2, <2>3, <2>4 DEF OneAtATime
<1>5. ASSUME NEW o \in Operators, Record(o) PROVE OneAtATime'
  <2> SUFFICES ASSUME faults' = 0, overlaps' = 0 PROVE OneAtATime'
    BY DEF OneAtATime
  <2> DEFINE entry == [before |-> operator[o].before, after |-> operator[o].to]
  <2>1. /\ faults = 0 /\ overlaps = 0 /\ audit' = Append(audit, entry)
        /\ status' = status /\ operator[o].pc = "audit"
    BY <1>5 DEF Record, userVars
  <2>2. \A p \in Operators : operator'[p].pc = "idle"
    <3>1. \A p \in Operators \ {o} : operator[p].pc = "idle"
      BY <2>1 DEF OneAtATime
    <3> QED BY <1>5, <3>1 DEF Record, SessionsTypeOK, OffDuty
  <2>3. audit \in Seq([before : Statuses, after : Statuses])
        /\ entry \in [before : Statuses, after : Statuses]
    BY DEF SessionsTypeOK
  <2>4. entry.before = Recorded /\ entry.after = status
    BY <2>1 DEF OneAtATime
  <2> HIDE DEF entry
  <2>5. /\ Len(audit') = Len(audit) + 1 /\ audit' # <<>> /\ Len(audit) \in Nat
        /\ audit'[Len(audit) + 1] = entry /\ DOMAIN audit' = 1 .. Len(audit) + 1
        /\ \A i \in 1 .. Len(audit) : audit'[i] = audit[i]
        /\ DOMAIN audit = 1 .. Len(audit) /\ (audit = <<>> <=> Len(audit) = 0)
    BY <2>1, <2>3
  <2>6. Recorded' = status'
    BY <2>1, <2>4, <2>5 DEF Recorded
  <2>7. \A i \in DOMAIN audit' :
          audit'[i].before = IF i = 1 THEN "PENDING" ELSE audit'[i - 1].after
    <3> SUFFICES ASSUME NEW i \in 1 .. Len(audit) + 1
                 PROVE  audit'[i].before = IF i = 1 THEN "PENDING" ELSE audit'[i - 1].after
      BY <2>5
    <3>1. CASE i \in 1 .. Len(audit)
      <4>1. audit[i].before = IF i = 1 THEN "PENDING" ELSE audit[i - 1].after
        BY <2>1, <2>5, <3>1 DEF OneAtATime
      <4>2. i # 1 => i - 1 \in 1 .. Len(audit)
        BY <2>5, <3>1
      <4> QED BY <2>5, <3>1, <4>1, <4>2
    <3>2. CASE i = Len(audit) + 1
      <4>1. audit'[i].before = Recorded
        BY <2>4, <2>5, <3>2
      <4>2. i # 1 => audit # <<>> /\ i - 1 = Len(audit) /\ i - 1 \in 1 .. Len(audit)
        BY <2>5, <3>2
      <4>3. i = 1 => audit = <<>>
        BY <2>5, <3>2
      <4> QED BY <2>5, <4>1, <4>2, <4>3 DEF Recorded
    <3> QED BY <2>5, <3>1, <3>2
  <2> QED BY <2>1, <2>2, <2>6, <2>7 DEF OneAtATime
<1>6. ASSUME NEW o \in Operators, OperatorDies(o) PROVE OneAtATime'
  BY <1>6 DEF OperatorDies, Fault, SessionsTypeOK, OneAtATime
<1>7. CASE UNCHANGED vars
  BY <1>7 DEF vars, operatorVars, OneAtATime, Recorded
<1> QED BY <1>1, <1>2, <1>3, <1>4, <1>5, <1>6, <1>7 DEF Next

\* As long as no operation overlaps another and none fails half way, the audit
\* log is the account's history (approveMerchant, suspendMerchant,
\* reactivateMerchant, AuditService.record).
THEOREM AuditReplaysHistory == Spec => []AuditTrailReplays
<1>1. Init => OneAtATime
  BY DEF Init, OneAtATime, Recorded, OffDuty
<1>2. SessionsTypeOK /\ OneAtATime /\ [Next]_vars => OneAtATime'
  BY NextOneAtATime
<1>3. SessionsTypeOK /\ OneAtATime => AuditTrailReplays
  <2> SUFFICES ASSUME SessionsTypeOK, OneAtATime, faults = 0, overlaps = 0
               PROVE  /\ \A i \in DOMAIN audit :
                           audit[i].before = IF i - 1 = 0 THEN "PENDING" ELSE audit[i - 1].after
                      /\ (\A o \in Operators : operator[o].pc = "idle") =>
                           status = IF Len(audit) = 0 THEN "PENDING" ELSE audit[Len(audit)].after
    BY DEF AuditTrailReplays
  <2>1. DOMAIN audit = 1 .. Len(audit) /\ Len(audit) \in Nat /\ (audit = <<>> <=> Len(audit) = 0)
    BY DEF SessionsTypeOK
  <2> QED BY <2>1 DEF OneAtATime, Recorded
<1> QED BY <1>1, <1>2, <1>3, SessionsTypes, PTL DEF Spec
=============================================================================
