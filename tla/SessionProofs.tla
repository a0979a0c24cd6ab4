--------------------------- MODULE SessionProofs ---------------------------
(***************************************************************************)
(* Proofs about Session, for any requests, accounts and passwords:          *)
(* SessionInv is inductive, so no session is lost and no spent token is     *)
(* accepted, and account names stay unique.                                 *)
(***************************************************************************)
EXTENDS Session, TLAPS

\* The operations, told apart by their kind, and the fields that each has.
LEMMA AskFields ==
  ASSUME NEW r \in Request
  PROVE  /\ Kind(r) \in {"signUp", "signIn", "refresh", "changePassword", "update", "remove"}
         /\ Kind(r) = "signUp" => Ask[r].account \in Account /\ Ask[r].password \in Password
         /\ Kind(r) = "changePassword" => /\ Ask[r].target \in UserId
                                          /\ Ask[r].by \in UserId
                                          /\ Ask[r].password \in Password
         /\ Kind(r) = "update" => /\ Ask[r].target \in UserId /\ Ask[r].id \in UserId
                                  /\ Ask[r].account \in Account
         /\ Kind(r) = "remove" => Ask[r].target \in UserId
  BY SessionAssumption DEF Asks, Kind

LEMMA InitHolds == Init => SessionInv
<1> SUFFICES ASSUME Init PROVE SessionInv
  OBVIOUS
<1>1. \A r \in Request : step[r] = FirstStep(r)
  BY DEF Init
<1>2. StepOfKind /\ \A r \in Request : step[r] \in Steps \ {"insert", "validate", "invalidate"}
  BY <1>1, AskFields DEF StepOfKind, FirstStep, Steps
<1>3. TypeOK
  BY <1>2, SessionAssumption DEF Init, TypeOK, UserId
<1>4. TokensLive /\ TokensOwned /\ SessionKept
  BY SessionAssumption DEF Init, TokensLive, TokensOwned, HandedOut, SessionKept
<1> QED
  BY <1>2, <1>3, <1>4 DEF SessionInv

\* The steps on the user table: what they leave alone, and where they go.
TableStep(r) ==
  \/ FindAccount(r) \/ CreateUser(r) \/ FindOperator(r) \/ FindTarget(r)
  \/ UpdatePassword(r) \/ UpdateUser(r) \/ FindVictim(r) \/ DeleteUser(r)

RedisSteps == {"insert", "validate", "invalidate"}

LEMMA TableSteps ==
  ASSUME SessionInv, NEW r \in Request, TableStep(r)
  PROVE  /\ UNCHANGED <<stored, shown, subject, latest, spent, cut>>
         /\ step[r] \notin RedisSteps \cup {"findUser", "findSub", "done"}
         /\ Kind(r) \notin {"signIn", "refresh"}
         /\ \A q \in Request : q # r => answer'[q] = answer[q]
         /\ \E s \in Steps \ RedisSteps :
              /\ step' = [step EXCEPT ![r] = s]
              /\ s \in {"createUser", "findTarget", "updatePassword", "deleteUser", "done"}
              /\ s = "createUser" => Kind(r) = "signUp"
              /\ s \in {"findTarget", "updatePassword"} => Kind(r) = "changePassword"
              /\ s = "deleteUser" => Kind(r) = "remove"
<1> USE DEF Steps, RedisSteps, Goto, Answer, SessionInv, StepOfKind, TypeOK
<1>1. CASE FindAccount(r)  BY <1>1 DEF FindAccount, ReadOnly, history
<1>2. CASE CreateUser(r)   BY <1>2 DEF CreateUser, TableOnly, history
<1>3. CASE FindOperator(r) BY <1>3 DEF FindOperator, ReadOnly, history
<1>4. CASE FindTarget(r)   BY <1>4 DEF FindTarget, ReadOnly, history
<1>5. CASE UpdatePassword(r) BY <1>5 DEF UpdatePassword, TableOnly, history
<1>6. CASE UpdateUser(r)   BY <1>6 DEF UpdateUser, TableOnly, history
<1>7. CASE FindVictim(r)   BY <1>7 DEF FindVictim, ReadOnly, history
<1>8. CASE DeleteUser(r)   BY <1>8 DEF DeleteUser, TableOnly, history
<1> QED
  BY <1>1, <1>2, <1>3, <1>4, <1>5, <1>6, <1>7, <1>8 DEF TableStep

\* The user table keeps its type.
LEMMA RowsTyped ==
  ASSUME SessionInv, NEW r \in Request, TableStep(r)
  PROVE  /\ users' \in [UserId -> Row \cup {None}]
         /\ nextUser' \in 1..(MaxUser + 1)
         /\ answer' \in [Request -> {"ok", "refused", "failed", None}]
<1> USE DEF SessionInv, TypeOK, Goto, Answer
<1>0. None \notin Row
  BY SessionAssumption
<1>1. CASE FindAccount(r)  BY <1>1 DEF FindAccount, ReadOnly
<1>2. CASE CreateUser(r)
  <2>1. NewRow(r) \in Row
    BY <1>2, AskFields DEF CreateUser, StepOfKind, NewRow, Row
  <2>2. nextUser \in 1..MaxUser /\ nextUser' = nextUser + 1
    BY <1>2 DEF CreateUser, UserId
  <2>3. nextUser' \in 1..(MaxUser + 1)
    BY <2>2, SessionAssumption
  <2>4. users' \in [UserId -> Row \cup {None}] /\ answer' \in [Request -> {"ok", "refused", "failed", None}]
    BY <1>2, <2>1 DEF CreateUser
  <2> QED
    BY <2>3, <2>4
<1>3. CASE FindOperator(r) BY <1>3 DEF FindOperator, ReadOnly
<1>4. CASE FindTarget(r)   BY <1>4 DEF FindTarget, ReadOnly
<1>5. CASE UpdatePassword(r)
  <2>1. Ask[r].target \in UserId /\ Ask[r].password \in Password
    BY <1>5, AskFields DEF UpdatePassword, StepOfKind
  <2>2. users[Ask[r].target] # None =>
          [users[Ask[r].target] EXCEPT !.password = Ask[r].password] \in Row
    BY <2>1 DEF Row
  <2> QED
    BY <1>5, <2>1, <2>2 DEF UpdatePassword
<1>6. CASE UpdateUser(r)
  <2>1. Ask[r].target \in UserId /\ Ask[r].id \in UserId /\ Ask[r].account \in Account
    BY <1>6, AskFields DEF UpdateUser, StepOfKind
  <2>2. users[Ask[r].target] # None =>
          [users[Ask[r].target] EXCEPT !.account = Ask[r].account] \in Row
    BY <2>1 DEF Row
  <2> QED
    BY <1>6, <2>1, <2>2 DEF UpdateUser
<1>7. CASE FindVictim(r)   BY <1>7 DEF FindVictim, ReadOnly
<1>8. CASE DeleteUser(r)   BY <1>8 DEF DeleteUser
<1> QED
  BY <1>1, <1>2, <1>3, <1>4, <1>5, <1>6, <1>7, <1>8 DEF TableStep

LEMMA TableKeepsInv ==
  ASSUME SessionInv, NEW r \in Request, TableStep(r)
  PROVE  SessionInv'
<1>1. PICK s \in Steps \ RedisSteps :
        /\ step' = [step EXCEPT ![r] = s]
        /\ s \in {"createUser", "findTarget", "updatePassword", "deleteUser", "done"}
        /\ s = "createUser" => Kind(r) = "signUp"
        /\ s \in {"findTarget", "updatePassword"} => Kind(r) = "changePassword"
        /\ s = "deleteUser" => Kind(r) = "remove"
  BY TableSteps
<1>2. /\ UNCHANGED <<stored, shown, subject, latest, spent, cut>>
      /\ step[r] \notin RedisSteps \cup {"done"}
      /\ Kind(r) \notin {"signIn", "refresh"}
      /\ \A q \in Request : q # r => answer'[q] = answer[q]
  BY TableSteps
<1>3. /\ step' \in [Request -> Steps]
      /\ \A q \in Request : step'[q] = IF q = r THEN s ELSE step[q]
  BY <1>1 DEF SessionInv, TypeOK
<1>4. TypeOK'
  BY <1>2, <1>3, RowsTyped DEF SessionInv, TypeOK, RedisSteps
<1>5. StepOfKind'
  BY <1>1, <1>3 DEF SessionInv, StepOfKind, Kind
<1>6. TokensLive'
  <2> SUFFICES ASSUME NEW u \in UserId, stored[u] # None
               PROVE  step'[stored[u]] \in {"insert", "done"}
    BY <1>2 DEF SessionInv, TokensLive
  <2>1. stored[u] \in Request /\ step[stored[u]] \in {"insert", "done"}
    BY DEF SessionInv, TokensLive, TypeOK
  <2> QED
    BY <1>2, <1>3, <2>1 DEF RedisSteps
<1>7. SessionKept'
  BY <1>2, <1>3 DEF SessionInv, SessionKept, Refreshing, RedisSteps, Kind
<1>8. TokensOwned'
  BY <1>2, <1>3 DEF SessionInv, TokensOwned, HandedOut, Kind
<1> QED
  BY <1>4, <1>5, <1>6, <1>7, <1>8 DEF SessionInv

\* A step of r keeps TokensOwned if what r hands out by it has a user.
LEMMA OwnedKept ==
  ASSUME SessionInv, NEW r \in Request,
         \A q \in Request : q # r => /\ answer'[q] = answer[q]
                                     /\ subject'[q] = subject[q]
                                     /\ step'[q] = step[q],
         answer'[r] = "ok" => subject'[r] \in UserId /\ step'[r] = "done"
  PROVE  TokensOwned'
<1> SUFFICES ASSUME NEW t \in Request, Kind(t) \in {"signIn", "refresh"}, answer'[t] = "ok"
             PROVE  subject'[t] \in UserId /\ step'[t] = "done"
  BY DEF TokensOwned, HandedOut, Kind
<1>1. CASE t = r
  BY <1>1
<1>2. CASE t # r
  BY <1>2 DEF SessionInv, TokensOwned, HandedOut
<1> QED
  BY <1>1, <1>2

\* A request that is under way has not been answered "ok".
LEMMA NotYetOk ==
  ASSUME SessionInv, NEW r \in Request, Kind(r) \in {"signIn", "refresh"}, step[r] # "done"
  PROVE  answer[r] # "ok"
  BY DEF SessionInv, TokensOwned, HandedOut

LEMMA FindUserKeepsInv ==
  ASSUME SessionInv, NEW r \in Request, FindUser(r)
  PROVE  SessionInv'
<1>1. PICK s \in {"insert", "done"}, x \in UserId \cup {None} :
        /\ step' = [step EXCEPT ![r] = s]
        /\ subject' = [subject EXCEPT ![r] = x]
        /\ s = "insert" => x \in UserId
        /\ answer' \in [Request -> {"ok", "refused", "failed", None}]
  <2>1. CASE \E u \in Matching(r) : /\ subject' = [subject EXCEPT ![r] = u]
                                    /\ Goto(r, "insert")
    BY <2>1 DEF Matching, Holders, Goto, SessionInv, TypeOK
  <2>2. CASE Answer(r, "refused") /\ subject' = subject
    <3>1. subject' = [subject EXCEPT ![r] = subject[r]]
      BY <2>2 DEF SessionInv, TypeOK
    <3> QED
      BY <2>2, <3>1 DEF Answer, SessionInv, TypeOK
  <2> QED
    BY <2>1, <2>2 DEF FindUser
<1>2. /\ UNCHANGED <<users, nextUser, stored, shown, latest, spent, cut>>
      /\ step[r] = "findUser" /\ Kind(r) = "signIn"
  BY DEF FindUser, history, SessionInv, StepOfKind
<1>3. /\ \A q \in Request : step'[q] = IF q = r THEN s ELSE step[q]
      /\ \A q \in Request : subject'[q] = IF q = r THEN x ELSE subject[q]
  BY <1>1 DEF SessionInv, TypeOK
<1>4. TypeOK'
  <2>1. step' \in [Request -> Steps] /\ subject' \in [Request -> UserId \cup {None}]
    BY <1>1 DEF SessionInv, TypeOK, Steps
  <2> QED
    BY <1>1, <1>2, <1>3, <2>1 DEF SessionInv, TypeOK
<1>5. StepOfKind'
  BY <1>1, <1>2, <1>3 DEF SessionInv, StepOfKind, Kind
<1>6. TokensLive'
  <2> SUFFICES ASSUME NEW u \in UserId, stored[u] # None
               PROVE  /\ stored[u] \notin spent
                      /\ subject'[stored[u]] = u
                      /\ step'[stored[u]] \in {"insert", "done"}
    BY <1>2 DEF TokensLive
  <2>1. /\ stored[u] \in Request /\ stored[u] \notin spent /\ subject[stored[u]] = u
        /\ step[stored[u]] \in {"insert", "done"}
    BY DEF SessionInv, TokensLive, TypeOK
  <2> QED
    BY <1>2, <1>3, <2>1
<1>7. SessionKept'
  BY <1>1, <1>2, <1>3 DEF SessionInv, SessionKept, Refreshing, Kind
<1>8. TokensOwned'
  <2>1. answer'[r] # "ok"
    BY <1>2, NotYetOk DEF FindUser, Goto, Answer, SessionInv, TypeOK
  <2>2. \A q \in Request : q # r => answer'[q] = answer[q]
    BY DEF FindUser, Goto, Answer, SessionInv, TypeOK
  <2> QED
    BY <1>3, <2>1, <2>2, OwnedKept
<1> QED
  BY <1>4, <1>5, <1>6, <1>7, <1>8 DEF SessionInv

LEMMA FindSubKeepsInv ==
  ASSUME SessionInv, NEW r \in Request, FindSub(r)
  PROVE  SessionInv'
<1>1. PICK t \in HandedOut, s \in {"validate", "done"} :
        /\ subject' = [subject EXCEPT ![r] = subject[t]]
        /\ shown' = [shown EXCEPT ![r] = t]
        /\ step' = [step EXCEPT ![r] = s]
        /\ answer' \in {answer, [answer EXCEPT ![r] = "refused"]}
  BY DEF FindSub, Goto, Answer
<1>2. t \in Request /\ subject[t] \in UserId
  BY DEF SessionInv, TokensOwned, HandedOut
<1>3. /\ UNCHANGED <<users, nextUser, stored, latest, spent, cut>>
      /\ step[r] = "findSub" /\ Kind(r) = "refresh"
  BY DEF FindSub, history, SessionInv, StepOfKind
<1>4. /\ \A q \in Request : step'[q] = IF q = r THEN s ELSE step[q]
      /\ \A q \in Request : subject'[q] = IF q = r THEN subject[t] ELSE subject[q]
      /\ \A q \in Request : q # r => answer'[q] = answer[q]
      /\ answer'[r] # "ok"
  BY <1>1, <1>3, NotYetOk DEF SessionInv, TypeOK
<1>5. TypeOK'
  <2>1. /\ step' \in [Request -> Steps] /\ subject' \in [Request -> UserId \cup {None}]
        /\ shown' \in [Request -> Request \cup {None}]
        /\ answer' \in [Request -> {"ok", "refused", "failed", None}]
    BY <1>1, <1>2 DEF SessionInv, TypeOK, Steps
  <2> QED
    BY <1>2, <1>3, <1>4, <2>1 DEF SessionInv, TypeOK
<1>6. StepOfKind'
  BY <1>3, <1>4 DEF SessionInv, StepOfKind, Kind
<1>7. TokensLive'
  <2> SUFFICES ASSUME NEW u \in UserId, stored[u] # None
               PROVE  /\ stored[u] \notin spent
                      /\ subject'[stored[u]] = u
                      /\ step'[stored[u]] \in {"insert", "done"}
    BY <1>3 DEF TokensLive
  <2>1. /\ stored[u] \in Request /\ stored[u] \notin spent /\ subject[stored[u]] = u
        /\ step[stored[u]] \in {"insert", "done"}
    BY DEF SessionInv, TokensLive, TypeOK
  <2> QED
    BY <1>3, <1>4, <2>1
<1>8. SessionKept'
  BY <1>3, <1>4 DEF SessionInv, SessionKept, Refreshing, Kind
<1>9. TokensOwned'
  BY <1>4, OwnedKept
<1> QED
  BY <1>5, <1>6, <1>7, <1>8, <1>9 DEF SessionInv

LEMMA ValidateKeepsInv ==
  ASSUME SessionInv, NEW r \in Request, Validate(r)
  PROVE  SessionInv'
<1>1. PICK s \in {"invalidate", "done"} :
        /\ step' = [step EXCEPT ![r] = s]
        /\ answer' \in {answer, [answer EXCEPT ![r] = "refused"]}
  BY DEF Validate, Goto, Answer
<1>2. /\ UNCHANGED <<users, nextUser, stored, shown, subject, latest, spent, cut>>
      /\ step[r] = "validate" /\ Kind(r) = "refresh" /\ subject[r] \in UserId
  BY DEF Validate, ReadOnly, history, SessionInv, StepOfKind, TypeOK
<1>3. /\ \A q \in Request : step'[q] = IF q = r THEN s ELSE step[q]
      /\ \A q \in Request : q # r => answer'[q] = answer[q]
      /\ answer'[r] # "ok"
  BY <1>1, <1>2, NotYetOk DEF SessionInv, TypeOK
<1>4. TypeOK'
  <2>1. /\ step' \in [Request -> Steps]
        /\ answer' \in [Request -> {"ok", "refused", "failed", None}]
    BY <1>1 DEF SessionInv, TypeOK, Steps
  <2> QED
    BY <1>2, <1>3, <2>1 DEF SessionInv, TypeOK
<1>5. StepOfKind'
  BY <1>2, <1>3 DEF SessionInv, StepOfKind, Kind
<1>6. TokensLive'
  <2> SUFFICES ASSUME NEW u \in UserId, stored[u] # None
               PROVE  step'[stored[u]] \in {"insert", "done"}
    BY <1>2 DEF SessionInv, TokensLive
  <2>1. stored[u] \in Request /\ step[stored[u]] \in {"insert", "done"}
    BY DEF SessionInv, TokensLive, TypeOK
  <2> QED
    BY <1>2, <1>3, <2>1
<1>7. SessionKept'
  BY <1>2, <1>3 DEF SessionInv, SessionKept, Refreshing, Kind
<1>8. TokensOwned'
  BY <1>2, <1>3, OwnedKept
<1> QED
  BY <1>4, <1>5, <1>6, <1>7, <1>8 DEF SessionInv

LEMMA InsertKeepsInv ==
  ASSUME SessionInv, NEW r \in Request, Insert(r)
  PROVE  SessionInv'
<1> DEFINE u == subject[r]
<1>1. PICK s \in {"insert", "done"} :
        /\ step' = [step EXCEPT ![r] = s]
        /\ answer' = IF s = "done" THEN [answer EXCEPT ![r] = "ok"] ELSE answer
  BY DEF Insert, Goto, Answer
<1>2. /\ stored' = [stored EXCEPT ![u] = r]
      /\ latest' = [latest EXCEPT ![u] = r]
      /\ spent' = (spent \cup Displaced(u, r)) \ {r}
      /\ cut' = cut \ {u}
      /\ UNCHANGED <<users, nextUser, shown, subject>>
      /\ step[r] = "insert" /\ u \in UserId /\ Kind(r) \in {"signIn", "refresh"}
  BY DEF Insert, SessionInv, StepOfKind, TypeOK
<1>3. /\ \A q \in Request : step'[q] = IF q = r THEN s ELSE step[q]
      /\ \A q \in Request : q # r => answer'[q] = answer[q]
      /\ \A v \in UserId : stored'[v] = IF v = u THEN r ELSE stored[v]
      /\ \A v \in UserId : latest'[v] = IF v = u THEN r ELSE latest[v]
  BY <1>1, <1>2 DEF SessionInv, TypeOK
<1>4. TypeOK'
  <2>1. /\ step' \in [Request -> Steps]
        /\ answer' \in [Request -> {"ok", "refused", "failed", None}]
    BY <1>1 DEF SessionInv, TypeOK, Steps
  <2>2. stored' \in [UserId -> Request \cup {None}] /\ latest' \in [UserId -> Request \cup {None}]
    BY <1>2 DEF SessionInv, TypeOK
  <2>3. spent' \subseteq Request /\ cut' \subseteq UserId
    BY <1>2 DEF SessionInv, TypeOK, Displaced
  <2> QED
    BY <1>2, <1>3, <2>1, <2>2, <2>3 DEF SessionInv, TypeOK
<1>5. StepOfKind'
  BY <1>2, <1>3 DEF SessionInv, StepOfKind, Kind
<1>6. TokensLive'
  <2> SUFFICES ASSUME NEW v \in UserId, stored'[v] # None
               PROVE  /\ stored'[v] \notin spent'
                      /\ subject[stored'[v]] = v
                      /\ step'[stored'[v]] \in {"insert", "done"}
    BY <1>2 DEF TokensLive
  <2>1. CASE v = u
    BY <1>2, <1>3, <2>1
  <2>2. CASE v # u
    <3>1. /\ stored'[v] = stored[v] /\ stored[v] \in Request
          /\ stored[v] \notin spent /\ subject[stored[v]] = v
          /\ step[stored[v]] \in {"insert", "done"}
      BY <1>3, <2>2 DEF SessionInv, TokensLive, TypeOK
    <3>2. stored[u] # None => subject[stored[u]] = u
      BY <1>2 DEF SessionInv, TokensLive
    <3>3. stored[v] \notin Displaced(u, r)
      BY <2>2, <3>1, <3>2 DEF Displaced
    <3> QED
      BY <1>2, <1>3, <3>1, <3>3
  <2> QED
    BY <2>1, <2>2
<1>7. SessionKept'
  <2> SUFFICES ASSUME NEW v \in UserId, v # u
               PROVE  \/ stored'[v] = latest'[v]
                      \/ stored'[v] = None /\ (v \in cut' \/ Refreshing(v)')
    BY <1>3 DEF SessionKept
  <2>1. stored[v] = latest[v] \/ (stored[v] = None /\ (v \in cut \/ Refreshing(v)))
    BY DEF SessionInv, SessionKept
  <2>2. Refreshing(v) => Refreshing(v)'
    BY <1>2, <1>3 DEF Refreshing, Kind
  <2> QED
    BY <1>2, <1>3, <2>1, <2>2
<1>8. TokensOwned'
  <2>1. answer'[r] = "ok" => step'[r] = "done"
    BY <1>1, <1>2, <1>3, NotYetOk
  <2> QED
    BY <1>2, <1>3, <2>1, OwnedKept
<1> QED
  BY <1>4, <1>5, <1>6, <1>7, <1>8 DEF SessionInv

LEMMA InvalidateKeepsInv ==
  ASSUME SessionInv, NEW r \in Request, Invalidate(r)
  PROVE  SessionInv'
<1> DEFINE u == subject[r]
<1>1. PICK s \in {"insert", "invalidate"} : step' = [step EXCEPT ![r] = s] /\ answer' = answer
  BY DEF Invalidate, Goto
<1>2. /\ stored' = [stored EXCEPT ![u] = None]
      /\ spent' = spent \cup Displaced(u, None)
      /\ UNCHANGED <<users, nextUser, shown, subject, latest, cut>>
      /\ step[r] = "invalidate" /\ Kind(r) = "refresh" /\ u \in UserId
  BY DEF Invalidate, SessionInv, StepOfKind, TypeOK
<1>3. /\ \A q \in Request : step'[q] = IF q = r THEN s ELSE step[q]
      /\ \A v \in UserId : stored'[v] = IF v = u THEN None ELSE stored[v]
  BY <1>1, <1>2 DEF SessionInv, TypeOK
<1>4. TypeOK'
  <2>1. step' \in [Request -> Steps]
    BY <1>1 DEF SessionInv, TypeOK, Steps
  <2>2. stored' \in [UserId -> Request \cup {None}] /\ spent' \subseteq Request
    BY <1>2 DEF SessionInv, TypeOK, Displaced
  <2> QED
    BY <1>1, <1>2, <1>3, <2>1, <2>2 DEF SessionInv, TypeOK
<1>5. StepOfKind'
  BY <1>2, <1>3 DEF SessionInv, StepOfKind, Kind
<1>6. TokensLive'
  <2> SUFFICES ASSUME NEW v \in UserId, v # u, stored[v] # None
               PROVE  stored[v] \notin spent' /\ step'[stored[v]] \in {"insert", "done"}
    BY <1>2, <1>3 DEF SessionInv, TokensLive
  <2>1. /\ stored[v] \in Request /\ stored[v] \notin spent /\ subject[stored[v]] = v
        /\ step[stored[v]] \in {"insert", "done"}
    BY DEF SessionInv, TokensLive, TypeOK
  <2>2. stored[u] # None => subject[stored[u]] = u
    BY <1>2 DEF SessionInv, TokensLive
  <2>3. stored[v] \notin Displaced(u, None)
    BY <2>1, <2>2 DEF Displaced
  <2> QED
    BY <1>2, <1>3, <2>1, <2>3
<1>7. SessionKept'
  <2>1. \A v \in UserId : Refreshing(v) => Refreshing(v)'
    BY <1>2, <1>3 DEF Refreshing, Kind
  <2>2. Refreshing(u)'
    BY <1>2, <1>3 DEF Refreshing, Kind
  <2> QED
    BY <1>2, <1>3, <2>1, <2>2 DEF SessionInv, SessionKept
<1>8. TokensOwned'
  BY <1>1, <1>2, <1>3, NotYetOk, OwnedKept
<1> QED
  BY <1>4, <1>5, <1>6, <1>7, <1>8 DEF SessionInv

LEMMA InterruptKeepsInv ==
  ASSUME SessionInv, NEW r \in Request, Interrupt(r)
  PROVE  SessionInv'
<1>1. PICK a \in {"refused", "failed"} :
        /\ step' = [step EXCEPT ![r] = "done"]
        /\ answer' = [answer EXCEPT ![r] = a]
  BY DEF Interrupt, Rejection, Answer
<1>2. /\ cut' = cut \cup Orphaned(r)
      /\ UNCHANGED <<users, nextUser, stored, shown, subject, latest, spent>>
      /\ step[r] # "done"
  BY DEF Interrupt
<1>3. /\ \A q \in Request : step'[q] = IF q = r THEN "done" ELSE step[q]
      /\ \A q \in Request : q # r => answer'[q] = answer[q]
      /\ answer'[r] # "ok"
  BY <1>1 DEF SessionInv, TypeOK
<1>4. TypeOK'
  <2>1. /\ step' \in [Request -> Steps]
        /\ answer' \in [Request -> {"ok", "refused", "failed", None}]
    BY <1>1 DEF SessionInv, TypeOK, Steps
  <2>2. cut' \subseteq UserId
    BY <1>2 DEF SessionInv, TypeOK, Orphaned
  <2> QED
    BY <1>2, <1>3, <2>1, <2>2 DEF SessionInv, TypeOK
<1>5. StepOfKind'
  BY <1>3 DEF SessionInv, StepOfKind, Kind
<1>6. TokensLive'
  BY <1>2, <1>3 DEF SessionInv, TokensLive, TypeOK
<1>7. SessionKept'
  <2> SUFFICES ASSUME NEW u \in UserId, stored[u] = None, Refreshing(u)
               PROVE  u \in cut' \/ Refreshing(u)'
    BY <1>2 DEF SessionInv, SessionKept
  <2>1. PICK q \in Request : /\ Kind(q) = "refresh" /\ subject[q] = u
                             /\ step[q] \in {"invalidate", "insert"}
    BY DEF Refreshing
  <2>2. CASE q = r
    BY <1>2, <2>1, <2>2 DEF Orphaned
  <2>3. CASE q # r
    BY <1>2, <1>3, <2>1, <2>3 DEF Refreshing, Kind
  <2> QED
    BY <2>2, <2>3
<1>8. TokensOwned'
  BY <1>2, <1>3, OwnedKept
<1> QED
  BY <1>4, <1>5, <1>6, <1>7, <1>8 DEF SessionInv

LEMMA StepKeepsInv == SessionInv /\ [Next]_vars => SessionInv'
<1> SUFFICES ASSUME SessionInv, [Next]_vars PROVE SessionInv'
  OBVIOUS
<1>1. CASE UNCHANGED vars
  BY <1>1 DEF vars, SessionInv, TypeOK, StepOfKind, TokensLive, TokensOwned, HandedOut,
              SessionKept, Refreshing, Kind
<1>2. ASSUME NEW r \in Request, Handle(r) PROVE SessionInv'
  BY <1>2, TableKeepsInv, FindUserKeepsInv, FindSubKeepsInv, ValidateKeepsInv,
     InsertKeepsInv, InvalidateKeepsInv DEF Handle, TableStep
<1>3. ASSUME NEW r \in Request, Interrupt(r) PROVE SessionInv'
  BY <1>3, InterruptKeepsInv
<1> QED
  BY <1>1, <1>2, <1>3 DEF Next

\* The invariant of concurrent sign-ins, refreshes, changes and removals, for
\* any requests, users and sequence of failures.
THEOREM SessionInvariant == Spec => []SessionInv
<1>1. SessionInv /\ [Next]_vars => SessionInv'
  BY StepKeepsInv
<1> QED
  BY <1>1, InitHolds, PTL DEF Spec

\* Redis keeps the token written last, but for an interrupted refresh.
THEOREM NoSessionLost == Spec => []SessionKept
<1>1. SessionInv => SessionKept
  BY DEF SessionInv
<1> QED
  BY <1>1, SessionInvariant, PTL

\* validate never accepts a token that was deleted or replaced before.
THEOREM SpentTokensRefused == Spec => SpentStaysSpent
<1>1. SessionInv /\ [Next]_vars =>
        [\A r \in Request : step[r] = "validate" /\ step'[r] = "invalidate" =>
                              shown[r] \notin spent]_vars
  <2> SUFFICES ASSUME SessionInv, [Next]_vars, NEW r \in Request,
                      step[r] = "validate", step'[r] = "invalidate"
               PROVE  shown[r] \notin spent
    OBVIOUS
  <2>1. Validate(r)
    <3>1. PICK q \in Request : Handle(q) \/ Interrupt(q)
      BY DEF Next, vars
    <3>2. q = r
      BY <3>1 DEF SessionInv, TypeOK, Handle, Interrupt, Answer, Goto, FindAccount, CreateUser,
         FindUser, Insert, FindSub, Validate, Invalidate, FindOperator, FindTarget,
         UpdatePassword, UpdateUser, FindVictim, DeleteUser
    <3> QED
      BY <3>1, <3>2 DEF SessionInv, TypeOK, Handle, Interrupt, Answer, FindAccount, CreateUser,
         FindUser, Insert, FindSub, Invalidate, FindOperator, FindTarget,
         UpdatePassword, UpdateUser, FindVictim, DeleteUser
  <2>2. stored[subject[r]] = shown[r] /\ subject[r] \in UserId
    BY <2>1 DEF Validate, Answer, SessionInv, TypeOK
  <2>3. CASE stored[subject[r]] # None
    BY <2>2, <2>3 DEF SessionInv, TokensLive
  <2>4. CASE stored[subject[r]] = None
    BY <2>2, <2>4, SessionAssumption DEF SessionInv, TypeOK
  <2> QED
    BY <2>3, <2>4
<1> QED
  BY <1>1, SessionInvariant, PTL DEF Spec, SpentStaysSpent

---------------------------------------------------------------------------
\* What a step does to the user table.
Creates(u)   == users[u] = None /\ users'[u] # None /\ ~users'[u].isAdmin
                  /\ Holders(users'[u].account) = {}
Changes(u)   == users[u] # None /\ users'[u] \in Row
                  /\ users'[u].account = users[u].account
                  /\ users'[u].isAdmin = users[u].isAdmin

LEMMA TableChanges ==
  ASSUME SessionInv, [Next]_vars
  PROVE  \/ users' = users
         \/ \E u \in UserId : /\ Creates(u) \/ Changes(u)
                              /\ users' = [users EXCEPT ![u] = users'[u]]
         \/ \E r \in Request : UpdateUser(r) /\ Kind(r) = "update"
         \/ \E r \in Request : DeleteUser(r) /\ Kind(r) = "remove"
<1>1. CASE UNCHANGED vars
  BY <1>1 DEF vars
<1>2. ASSUME NEW r \in Request, CreateUser(r), users' # users
      PROVE  /\ Creates(nextUser) /\ nextUser \in UserId
             /\ users' = [users EXCEPT ![nextUser] = users'[nextUser]]
  <2>1. /\ users' = [users EXCEPT ![nextUser] = NewRow(r)] /\ nextUser \in UserId
        /\ Holders(Ask[r].account) = {} /\ users[nextUser] = None
    BY <1>2 DEF CreateUser
  <2>2. users'[nextUser] = NewRow(r)
    BY <2>1 DEF SessionInv, TypeOK
  <2>3. NewRow(r) \in Row
    BY <1>2, AskFields DEF CreateUser, SessionInv, StepOfKind, NewRow, Row
  <2>4. NewRow(r) # None
    BY <2>3, SessionAssumption
  <2>5. NewRow(r).account = Ask[r].account /\ ~NewRow(r).isAdmin
    BY DEF NewRow
  <2> QED
    BY <2>1, <2>2, <2>4, <2>5 DEF Creates
<1>3. ASSUME NEW r \in Request, UpdatePassword(r), users' # users
      PROVE  \E u \in UserId : Changes(u) /\ users' = [users EXCEPT ![u] = users'[u]]
  <2> DEFINE u == Ask[r].target
  <2>1. /\ users[u] # None
        /\ users' = [users EXCEPT ![u] = [users[u] EXCEPT !.password = Ask[r].password]]
    BY <1>3 DEF UpdatePassword
  <2>2. u \in UserId /\ Ask[r].password \in Password
    BY <1>3, AskFields DEF UpdatePassword, SessionInv, StepOfKind
  <2>3. users[u] \in Row
    BY <2>1, <2>2 DEF SessionInv, TypeOK
  <2>4. users'[u] = [users[u] EXCEPT !.password = Ask[r].password]
    BY <2>1, <2>2 DEF SessionInv, TypeOK
  <2>5. Changes(u)
    BY <2>1, <2>2, <2>3, <2>4 DEF Changes, Row
  <2> QED
    BY <2>1, <2>2, <2>4, <2>5
<1>4. ASSUME NEW r \in Request, Handle(r), ~CreateUser(r), ~UpdatePassword(r),
             ~UpdateUser(r), ~DeleteUser(r)
      PROVE  users' = users
  BY <1>4 DEF Handle, FindAccount, FindUser, Insert, FindSub, Validate, Invalidate,
     FindOperator, FindTarget, FindVictim, ReadOnly
<1>5. ASSUME NEW r \in Request, Interrupt(r) PROVE users' = users
  BY <1>5 DEF Interrupt
<1>6. ASSUME NEW r \in Request
      PROVE  /\ UpdateUser(r) => Kind(r) = "update"
             /\ DeleteUser(r) => Kind(r) = "remove"
  BY DEF UpdateUser, DeleteUser, SessionInv, StepOfKind
<1> QED
  BY <1>1, <1>2, <1>3, <1>4, <1>5, <1>6 DEF Next

\* Facts about the two statements that may move or remove a row.
LEMMA UpdateMoves ==
  ASSUME SessionInv, NEW r \in Request, UpdateUser(r), Kind(r) = "update", users' # users
  PROVE  LET old == Ask[r].target
             new == Ask[r].id
         IN /\ old \in UserId /\ new \in UserId /\ users[old] # None
            /\ \A u \in UserId : users'[u] = IF u = new THEN [users[old] EXCEPT !.account = Ask[r].account]
                                             ELSE IF u = old THEN None ELSE users[u]
            /\ users'[new] \in Row
            /\ users'[new].account = Ask[r].account
            /\ users'[new].isAdmin = users[old].isAdmin
            /\ Holders(Ask[r].account) \subseteq {old}
<1> DEFINE old == Ask[r].target
           new == Ask[r].id
           row == [users[old] EXCEPT !.account = Ask[r].account]
<1>1. old \in UserId /\ new \in UserId /\ Ask[r].account \in Account
  BY AskFields
<1>2. /\ users[old] # None /\ Holders(Ask[r].account) \subseteq {old}
      /\ users' = [users EXCEPT ![old] = None, ![new] = row]
  BY DEF UpdateUser
<1>3. users[old] \in Row
  BY <1>1, <1>2 DEF SessionInv, TypeOK
<1>4. row \in Row /\ row.account = Ask[r].account /\ row.isAdmin = users[old].isAdmin
  BY <1>1, <1>3 DEF Row
<1>5. \A u \in UserId : users'[u] = IF u = new THEN row ELSE IF u = old THEN None ELSE users[u]
  BY <1>1, <1>2 DEF SessionInv, TypeOK
<1> QED
  BY <1>1, <1>2, <1>4, <1>5

LEMMA DeleteRemoves ==
  ASSUME SessionInv, NEW r \in Request, DeleteUser(r), Kind(r) = "remove"
  PROVE  /\ Ask[r].target \in UserId /\ step[r] = "deleteUser"
         /\ \A u \in UserId : users'[u] = IF u = Ask[r].target THEN None ELSE users[u]
  BY AskFields DEF DeleteUser, SessionInv, TypeOK

LEMMA StepKeepsUnique ==
  SessionInv /\ AccountUnique /\ [Next]_vars => AccountUnique'
<1> SUFFICES ASSUME SessionInv, AccountUnique, [Next]_vars,
                    NEW u \in UserId, NEW v \in UserId, u # v,
                    users'[u] # None, users'[v] # None
             PROVE  users'[u].account # users'[v].account
  BY DEF AccountUnique
<1>1. CASE users' = users
  BY <1>1 DEF AccountUnique
<1>2. ASSUME NEW w \in UserId, Creates(w) \/ Changes(w),
             users' = [users EXCEPT ![w] = users'[w]]
      PROVE  users'[u].account # users'[v].account
  <2>1. \A x \in UserId : x # w => users'[x] = users[x]
    BY <1>2 DEF SessionInv, TypeOK
  <2>2. CASE Changes(w)
    BY <2>1, <2>2 DEF Changes, AccountUnique
  <2>3. CASE Creates(w)
    BY <2>1, <2>3 DEF Creates, Holders, AccountUnique
  <2> QED
    BY <1>2, <2>2, <2>3
<1>3. ASSUME NEW r \in Request, UpdateUser(r), Kind(r) = "update", users' # users
      PROVE  users'[u].account # users'[v].account
  <2> DEFINE old == Ask[r].target
             new == Ask[r].id
  <2>1. /\ \A w \in UserId : users'[w] # None => w = new \/ (w # old /\ users'[w] = users[w])
        /\ users'[new].account = Ask[r].account
    BY <1>3, UpdateMoves
  <2>2. \A w \in UserId : users[w] # None /\ w # old => users[w].account # Ask[r].account
    BY <1>3, UpdateMoves DEF Holders
  <2> QED
    BY <2>1, <2>2 DEF AccountUnique
<1>4. ASSUME NEW r \in Request, DeleteUser(r), Kind(r) = "remove"
      PROVE  users'[u].account # users'[v].account
  BY <1>4, DeleteRemoves DEF AccountUnique
<1> QED
  BY <1>1, <1>2, <1>3, <1>4, TableChanges

\* Account names stay unique, whatever sign-ups, creations and renames race.
THEOREM AccountsUnique == Spec => []AccountUnique
<1>1. Init => AccountUnique
  BY SessionAssumption DEF Init, AccountUnique
<1>2. SessionInv /\ AccountUnique /\ [Next]_vars => AccountUnique'
  BY StepKeepsUnique
<1> QED
  BY <1>1, <1>2, SessionInvariant, PTL DEF Spec

\* Updates repeat the id of their path in the body.
SameIds == \A r \in Request : Kind(r) = "update" => Ask[r].id = Ask[r].target

\* A removal about to delete has no administrator in front of it.
VictimsPlain ==
  \A r \in Request : step[r] = "deleteUser" =>
    LET victim == users[Ask[r].target] IN victim = None \/ ~victim.isAdmin

\* An administrator stays one in every step, and nobody becomes one.
LEMMA AdminsKept ==
  ASSUME SameIds, SessionInv, VictimsPlain, [Next]_vars, NEW u \in UserId
  PROVE  /\ users[u] # None /\ users[u].isAdmin => users'[u] # None /\ users'[u].isAdmin
         /\ users'[u] # None /\ users'[u].isAdmin => users[u] # None /\ users[u].isAdmin
<1>0. None \notin Row
  BY SessionAssumption
<1>1. ASSUME NEW w \in UserId, Creates(w) \/ Changes(w),
             users' = [users EXCEPT ![w] = users'[w]], u # w
      PROVE  users'[u] = users[u]
  BY <1>1 DEF SessionInv, TypeOK
<1>2. ASSUME NEW r \in Request, UpdateUser(r), Kind(r) = "update", users' # users
      PROVE  \/ users'[u] = users[u]
             \/ users[u] # None /\ users'[u] \in Row /\ users'[u].isAdmin = users[u].isAdmin
  <2> DEFINE old == Ask[r].target
  <2>1. Ask[r].id = old
    BY <1>2 DEF SameIds
  <2>2. /\ users[old] # None /\ users'[old] \in Row
        /\ users'[old].isAdmin = users[old].isAdmin
        /\ u # old => users'[u] = users[u]
    BY <1>2, <2>1, UpdateMoves
  <2> QED
    BY <2>2
<1>3. ASSUME NEW r \in Request, DeleteUser(r), Kind(r) = "remove"
      PROVE  users'[u] = users[u] \/ (users'[u] = None /\ (users[u] = None \/ ~users[u].isAdmin))
  BY <1>3, DeleteRemoves DEF VictimsPlain
<1>4. ASSUME NEW w \in UserId, Creates(w) \/ Changes(w),
             users' = [users EXCEPT ![w] = users'[w]]
      PROVE  \/ users'[u] = users[u]
             \/ users[u] = None /\ users'[u] # None /\ ~users'[u].isAdmin
             \/ users[u] # None /\ users'[u] \in Row /\ users'[u].isAdmin = users[u].isAdmin
  <2>1. CASE u = w
    BY <1>4, <2>1 DEF Creates, Changes
  <2>2. CASE u # w
    BY <1>1, <1>4, <2>2
  <2> QED
    BY <2>1, <2>2
<1>5. \/ users'[u] = users[u]
      \/ users[u] = None /\ users'[u] # None /\ ~users'[u].isAdmin
      \/ users[u] # None /\ users'[u] \in Row /\ users'[u].isAdmin = users[u].isAdmin
      \/ users'[u] = None /\ (users[u] = None \/ ~users[u].isAdmin)
  BY <1>2, <1>3, <1>4, TableChanges
<1> QED
  BY <1>0, <1>5

LEMMA StepKeepsVictims ==
  SameIds /\ SessionInv /\ VictimsPlain /\ [Next]_vars => VictimsPlain'
<1> SUFFICES ASSUME SameIds, SessionInv, VictimsPlain, [Next]_vars,
                    NEW r \in Request, step'[r] = "deleteUser"
             PROVE  users'[Ask[r].target] = None \/ ~users'[Ask[r].target].isAdmin
  BY DEF VictimsPlain
<1>1. Ask[r].target \in UserId
  BY StepKeepsInv, AskFields DEF SessionInv, StepOfKind, Kind
<1>2. CASE step[r] = "deleteUser"
  BY <1>1, <1>2, AdminsKept DEF VictimsPlain
<1>3. CASE step[r] # "deleteUser"
  <2>0. PICK q \in Request : Handle(q) \/ Interrupt(q)
    BY <1>3 DEF Next, vars
  <2>1. FindVictim(r)
    <3>1. q = r
      BY <1>3, <2>0 DEF SessionInv, TypeOK, Handle, Interrupt, Answer, Goto, FindAccount,
         CreateUser, FindUser, Insert, FindSub, Validate, Invalidate, FindOperator,
         FindTarget, UpdatePassword, UpdateUser, FindVictim, DeleteUser
    <3> QED
      BY <1>3, <2>0, <3>1 DEF SessionInv, TypeOK, Handle, Interrupt, Answer, Goto,
         FindAccount, CreateUser, FindUser, Insert, FindSub, Validate, Invalidate,
         FindOperator, FindTarget, UpdatePassword, UpdateUser, DeleteUser
  <2> QED
    BY <1>3, <2>1 DEF FindVictim, ReadOnly, Answer, Goto, SessionInv, TypeOK
<1> QED
  BY <1>2, <1>3

\* remove never deletes an administrator, although it reads isAdmin in one
\* statement and deletes in another.
THEOREM AdminsNeverRemoved == SameIds => (Spec => AdminsStay)
<1> SUFFICES ASSUME SameIds PROVE Spec => AdminsStay
  OBVIOUS
<1>1. Init => VictimsPlain
  <2> SUFFICES ASSUME Init, NEW r \in Request PROVE step[r] # "deleteUser"
    BY DEF VictimsPlain
  <2> QED
    BY AskFields DEF Init, FirstStep
<1>2. SessionInv /\ VictimsPlain /\ [Next]_vars => VictimsPlain'
  BY StepKeepsVictims
<1>3. SessionInv /\ VictimsPlain /\ [Next]_vars =>
        [\A u \in UserId : users[u] # None /\ users[u].isAdmin =>
                             users'[u] # None /\ users'[u].isAdmin]_vars
  BY AdminsKept
<1> QED
  BY <1>1, <1>2, <1>3, SessionInvariant, PTL DEF Spec, AdminsStay
=============================================================================
