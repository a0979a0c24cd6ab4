------------------------------ MODULE Session ------------------------------
(***************************************************************************)
(* Accounts and refresh tokens: sign-up, sign-in and token refresh          *)
(* (AuthenticationService over RefreshTokenIdsStorage), and the operations  *)
(* of UserService on the same rows.  Requests run concurrently on servers   *)
(* that share the database and Redis; every statement is a step.            *)
(*                                                                          *)
(* A refresh token is known by the request that minted it (randomUUID never *)
(* repeats).  A password stands for its hash.                               *)
(***************************************************************************)
EXTENDS Integers

CONSTANTS
  Request,      \* the requests sent
  Ask,          \* [Request -> what each asks for]
  Account, Password,
  MaxUser,      \* bound on the user ids
  FirstUsers,   \* the rows before the first request, in order of their ids
  None

UserId == 1..MaxUser
Row    == [account : Account, password : Password, isAdmin : BOOLEAN]

\* by is the user in the access token; id is the id in the body of an update.
Asks ==
  [kind : {"signUp", "signIn"}, account : Account, password : Password] \cup
  [kind : {"refresh"}] \cup
  [kind : {"changePassword"}, by : UserId, target : UserId,
   old : Password, password : Password] \cup
  [kind : {"update"}, target : UserId, id : UserId, account : Account] \cup
  [kind : {"remove"}, target : UserId]

ASSUME SessionAssumption ==
  /\ MaxUser \in Nat
  /\ Ask \in [Request -> Asks]
  /\ FirstUsers \in [UserId -> Row \cup {None}]
  /\ \A u, v \in UserId : FirstUsers[u] # None /\ FirstUsers[v] # None
                            /\ FirstUsers[u].account = FirstUsers[v].account => u = v
  /\ None \notin Request /\ None \notin Row /\ None \notin UserId
  /\ None \notin {"ok", "refused", "failed"}

VARIABLES
  users,     \* [UserId -> row of the user table, or None]
  nextUser,  \* the sequence of user.id
  stored,    \* Redis, key user-<id>: [UserId -> token, or None]
  step,      \* [Request -> the statement it is about to execute]
  subject,   \* [Request -> the user it found, or None]
  shown,     \* [Request -> the refresh token it presents, or None]
  answer,    \* [Request -> the response, or None before it]
  latest,    \* history: [UserId -> the token written last]
  spent,     \* history: the tokens that were deleted or replaced
  cut        \* history: the users left without a token by an interrupted refresh

vars == <<users, nextUser, stored, step, subject, shown, answer, latest, spent, cut>>
history == <<latest, spent, cut>>

Kind(r) == Ask[r].kind
IsSelf(r) == Ask[r].by = Ask[r].target

FirstStep(r) ==
  CASE Kind(r) = "signUp"  -> "findAccount"
    [] Kind(r) = "signIn"  -> "findUser"
    [] Kind(r) = "refresh" -> "findSub"
    [] Kind(r) = "changePassword" -> IF IsSelf(r) THEN "findTarget" ELSE "findOperator"
    [] Kind(r) = "update"  -> "updateUser"
    [] Kind(r) = "remove"  -> "findVictim"

Init ==
  /\ users = FirstUsers
  /\ nextUser \in UserId
  /\ \A u \in UserId : FirstUsers[u] # None <=> u < nextUser
  /\ stored = [u \in UserId |-> None]
  /\ step = [r \in Request |-> FirstStep(r)]
  /\ subject = [r \in Request |-> None]
  /\ shown = [r \in Request |-> None]
  /\ answer = [r \in Request |-> None]
  /\ latest = [u \in UserId |-> None]
  /\ spent = {} /\ cut = {}

---------------------------------------------------------------------------
Goto(r, s) == step' = [step EXCEPT ![r] = s] /\ UNCHANGED answer

Answer(r, a) ==
  /\ step' = [step EXCEPT ![r] = "done"]
  /\ answer' = [answer EXCEPT ![r] = a]

\* r only reads: the tables, Redis and what r has found so far stay.
ReadOnly == UNCHANGED <<users, nextUser, stored, shown, subject, history>>

\* r writes the user table.
TableOnly == UNCHANGED <<stored, shown, subject, history>>

Holders(account) == {u \in UserId : users[u] # None /\ users[u].account = account}

(***************************************************************************)
(* signUp, and UserService.create with the same two statements.             *)
(***************************************************************************)
FindAccount(r) ==
  /\ step[r] = "findAccount"
  /\ \/ Holders(Ask[r].account) = {} /\ Goto(r, "createUser")
     \/ Holders(Ask[r].account) # {} /\ Answer(r, "refused")
  /\ ReadOnly

NewRow(r) == [account |-> Ask[r].account, password |-> Ask[r].password, isAdmin |-> FALSE]

\* Mutant: account is not unique in the schema.
CreateUserUnindexed(r) ==
  /\ step[r] = "createUser"
  /\ nextUser \in UserId
  /\ nextUser' = nextUser + 1
  /\ users' = [users EXCEPT ![nextUser] = NewRow(r)]
  /\ Answer(r, "ok")
  /\ TableOnly

\* INSERT takes an id from the sequence, and fails on the unique account.
CreateUser(r) ==
  /\ step[r] = "createUser"
  /\ nextUser \in UserId
  /\ nextUser' = nextUser + 1
  /\ \/ /\ Holders(Ask[r].account) = {} /\ users[nextUser] = None
        /\ users' = [users EXCEPT ![nextUser] = NewRow(r)]
        /\ Answer(r, "ok")
     \/ /\ Holders(Ask[r].account) # {} \/ users[nextUser] # None
        /\ users' = users
        /\ Answer(r, "failed")
  /\ TableOnly

(***************************************************************************)
(* signIn.                                                                  *)
(***************************************************************************)
Matching(r) == {u \in Holders(Ask[r].account) : users[u].password = Ask[r].password}

\* Mutant: signIn goes on without a user.
FindUserUnchecked(r) ==
  /\ step[r] = "findUser"
  /\ \/ \E u \in Matching(r) : subject' = [subject EXCEPT ![r] = u]
     \/ Matching(r) = {} /\ subject' = subject
  /\ Goto(r, "insert")
  /\ UNCHANGED <<users, nextUser, stored, shown, history>>

FindUser(r) ==
  /\ step[r] = "findUser"
  /\ \/ \E u \in Matching(r) :
          /\ subject' = [subject EXCEPT ![r] = u]
          /\ Goto(r, "insert")
     \/ /\ Matching(r) = {}
        /\ Answer(r, "refused")
        /\ subject' = subject
  /\ UNCHANGED <<users, nextUser, stored, shown, history>>

\* The token ids that leave Redis when its key of u gets the value t.
Displaced(u, t) == {stored[u]} \ {None, t}

\* insert: hmset replaces the token of the user.  The Redis client sends a
\* command again when the connection was lost before its reply.
Insert(r) ==
  LET u == subject[r] IN
  /\ step[r] = "insert"
  /\ stored' = [stored EXCEPT ![u] = r]
  /\ latest' = [latest EXCEPT ![u] = r]
  /\ spent' = (spent \cup Displaced(u, r)) \ {r}
  /\ cut' = cut \ {u}
  /\ Goto(r, "insert") \/ Answer(r, "ok")
  /\ UNCHANGED <<users, nextUser, shown, subject>>

(***************************************************************************)
(* refreshTokens, with a token that some sign-in or refresh was answered.   *)
(***************************************************************************)
HandedOut == {t \in Request : Kind(t) \in {"signIn", "refresh"} /\ answer[t] = "ok"}

FindSub(r) ==
  /\ step[r] = "findSub"
  /\ \E t \in HandedOut :
       /\ subject' = [subject EXCEPT ![r] = subject[t]]
       /\ shown' = [shown EXCEPT ![r] = t]
       /\ \/ users[subject[t]] # None /\ Goto(r, "validate")
          \/ users[subject[t]] = None /\ Answer(r, "refused")
  /\ UNCHANGED <<users, nextUser, stored, history>>

\* Mutants: a stale token ends the session; any stored token will do.
ValidateRevoking(r) ==
  LET u == subject[r] IN
  /\ step[r] = "validate"
  /\ \/ stored[u] = shown[r] /\ Goto(r, "invalidate") /\ UNCHANGED <<stored, spent>>
     \/ /\ stored[u] # shown[r] /\ Answer(r, "refused")
        /\ stored' = [stored EXCEPT ![u] = None]
        /\ spent' = spent \cup Displaced(u, None)
  /\ UNCHANGED <<users, nextUser, shown, subject, latest, cut>>
ValidateAny(r) ==
  /\ step[r] = "validate"
  /\ \/ stored[subject[r]] # None /\ Goto(r, "invalidate")
     \/ stored[subject[r]] = None /\ Answer(r, "refused")
  /\ ReadOnly

Validate(r) ==
  /\ step[r] = "validate"
  /\ \/ stored[subject[r]] = shown[r] /\ Goto(r, "invalidate")
     \/ stored[subject[r]] # shown[r] /\ Answer(r, "refused")
  /\ ReadOnly

\* invalidate: del of the key, whichever token it holds by now.
Invalidate(r) ==
  LET u == subject[r] IN
  /\ step[r] = "invalidate"
  /\ stored' = [stored EXCEPT ![u] = None]
  /\ spent' = spent \cup Displaced(u, None)
  /\ Goto(r, "insert") \/ Goto(r, "invalidate")
  /\ UNCHANGED <<users, nextUser, shown, subject, latest, cut>>

(***************************************************************************)
(* changePassword.                                                          *)
(***************************************************************************)
FindOperator(r) ==
  /\ step[r] = "findOperator"
  /\ LET operator == users[Ask[r].by]
         allowed  == operator # None /\ operator.isAdmin
     IN \/ allowed /\ Goto(r, "findTarget")
        \/ ~allowed /\ Answer(r, "refused")
  /\ ReadOnly

FindTarget(r) ==
  /\ step[r] = "findTarget"
  /\ LET target  == users[Ask[r].target]
         allowed == target # None /\ (IsSelf(r) => target.password = Ask[r].old)
     IN \/ allowed /\ Goto(r, "updatePassword")
        \/ ~allowed /\ Answer(r, "refused")
  /\ ReadOnly

UpdatePassword(r) ==
  /\ step[r] = "updatePassword"
  /\ \/ /\ users[Ask[r].target] # None
        /\ users' = [users EXCEPT ![Ask[r].target].password = Ask[r].password]
        /\ Answer(r, "ok")
     \/ /\ users[Ask[r].target] = None
        /\ users' = users
        /\ Answer(r, "failed")
  /\ UNCHANGED nextUser /\ TableOnly

(***************************************************************************)
(* update: one statement.  The id of the body is among the data it sets.    *)
(***************************************************************************)
UpdateUser(r) ==
  LET old      == Ask[r].target
      new      == Ask[r].id
      writable == /\ users[old] # None
                  /\ Holders(Ask[r].account) \subseteq {old}
                  /\ new = old \/ users[new] = None
      row      == [users[old] EXCEPT !.account = Ask[r].account]
  IN
  /\ step[r] = "updateUser"
  /\ \/ /\ writable
        /\ users' = [users EXCEPT ![old] = None, ![new] = row]
        /\ Answer(r, "ok")
     \/ ~writable /\ users' = users /\ Answer(r, "failed")
  /\ UNCHANGED nextUser /\ TableOnly

(***************************************************************************)
(* remove.  Reading isAdmin of no user fails the request.                   *)
(***************************************************************************)
\* Mutant: administrators are not spared.
FindVictimUnchecked(r) ==
  /\ step[r] = "findVictim"
  /\ \/ users[Ask[r].target] = None /\ Answer(r, "failed")
     \/ users[Ask[r].target] # None /\ Goto(r, "deleteUser")
  /\ ReadOnly

FindVictim(r) ==
  /\ step[r] = "findVictim"
  /\ LET victim == users[Ask[r].target]
     IN \/ victim = None /\ Answer(r, "failed")
        \/ victim # None /\ victim.isAdmin /\ Answer(r, "refused")
        \/ victim # None /\ ~victim.isAdmin /\ Goto(r, "deleteUser")
  /\ ReadOnly

DeleteUser(r) ==
  /\ step[r] = "deleteUser"
  /\ \/ users[Ask[r].target] # None /\ Answer(r, "ok")
     \/ users[Ask[r].target] = None /\ Answer(r, "failed")
  /\ users' = [users EXCEPT ![Ask[r].target] = None]
  /\ UNCHANGED nextUser /\ TableOnly

(***************************************************************************)
(* A statement rejects, or the server stops (then there is no answer, which *)
(* is "failed" here).  refreshTokens turns an error into 401, except one of *)
(* generateTokens, whose promise it returns without awaiting it.            *)
(***************************************************************************)
Rejection(r) ==
  IF Kind(r) = "refresh" /\ step[r] # "insert" THEN "refused" ELSE "failed"

\* The user that loses the token when r ends here.
Orphaned(r) ==
  IF Kind(r) = "refresh" /\ step[r] \in {"invalidate", "insert"}
  THEN {u \in {subject[r]} : stored[u] = None} ELSE {}

Interrupt(r) ==
  /\ step[r] # "done"
  /\ Answer(r, Rejection(r))
  /\ cut' = cut \cup Orphaned(r)
  /\ UNCHANGED <<users, nextUser, stored, shown, subject, latest, spent>>

Handle(r) ==
  \/ FindAccount(r) \/ CreateUser(r)
  \/ FindUser(r) \/ Insert(r)
  \/ FindSub(r) \/ Validate(r) \/ Invalidate(r)
  \/ FindOperator(r) \/ FindTarget(r) \/ UpdatePassword(r)
  \/ UpdateUser(r)
  \/ FindVictim(r) \/ DeleteUser(r)

Next == \E r \in Request : Handle(r) \/ Interrupt(r)

Spec == Init /\ [][Next]_vars

---------------------------------------------------------------------------
Steps == {"findAccount", "createUser", "findUser", "insert", "findSub", "validate",
          "invalidate", "findOperator", "findTarget", "updatePassword", "updateUser",
          "findVictim", "deleteUser", "done"}

\* A request that reads or writes Redis has found its user.
TypeOK ==
  /\ users \in [UserId -> Row \cup {None}]
  /\ nextUser \in 1..(MaxUser + 1)
  /\ stored \in [UserId -> Request \cup {None}]
  /\ step \in [Request -> Steps]
  /\ subject \in [Request -> UserId \cup {None}]
  /\ shown \in [Request -> Request \cup {None}]
  /\ answer \in [Request -> {"ok", "refused", "failed", None}]
  /\ latest \in [UserId -> Request \cup {None}]
  /\ spent \subseteq Request
  /\ cut \subseteq UserId
  /\ \A r \in Request : step[r] \in {"insert", "validate", "invalidate"} =>
                          subject[r] \in UserId

\* An account name belongs to one user, whatever sign-ups, creations and
\* updates run between the lookup and the insert of each other.
AccountUnique ==
  \A u, v \in UserId : users[u] # None /\ users[v] # None /\ u # v =>
                         users[u].account # users[v].account

\* A refresh of u that is past the validation.
Refreshing(u) ==
  \E r \in Request : /\ Kind(r) = "refresh" /\ subject[r] = u
                     /\ step[r] \in {"invalidate", "insert"}

\* Redis holds for a user the token written last.  It is missing only while
\* a refresh of that user is between its del and its hmset, or because one
\* was interrupted there: no sign-in, refused refresh, change of password or
\* removal takes a session away or brings an older one back.
SessionKept ==
  \A u \in UserId : \/ stored[u] = latest[u]
                    \/ stored[u] = None /\ (u \in cut \/ Refreshing(u))

\* The statements belong to the operation that was asked for.
StepOfKind ==
  \A r \in Request :
    /\ step[r] \in {"findAccount", "createUser"} => Kind(r) = "signUp"
    /\ step[r] = "findUser" => Kind(r) = "signIn"
    /\ step[r] = "insert" => Kind(r) \in {"signIn", "refresh"}
    /\ step[r] \in {"findSub", "validate", "invalidate"} => Kind(r) = "refresh"
    /\ step[r] \in {"findOperator", "findTarget", "updatePassword"} =>
         Kind(r) = "changePassword"
    /\ step[r] = "updateUser" => Kind(r) = "update"
    /\ step[r] \in {"findVictim", "deleteUser"} => Kind(r) = "remove"

\* A stored token is a live token of that user, minted by a request that has
\* got as far as its hmset.
TokensLive ==
  \A u \in UserId : stored[u] # None =>
    /\ stored[u] \notin spent
    /\ subject[stored[u]] = u
    /\ step[stored[u]] \in {"insert", "done"}

\* A token that was handed out belongs to a user, and its request is over.
TokensOwned ==
  \A t \in HandedOut : subject[t] \in UserId /\ step[t] = "done"

\* What the proof keeps: types, the order of the statements, live tokens,
\* and that no session is lost.
SessionInv == TypeOK /\ StepOfKind /\ TokensLive /\ TokensOwned /\ SessionKept

\* validate never accepts a token once it was deleted by a refresh or
\* replaced by a later sign-in (the comment in invalidate).
SpentStaysSpent ==
  [][\A r \in Request : step[r] = "validate" /\ step'[r] = "invalidate" =>
                          shown[r] \notin spent]_vars

\* remove reads isAdmin and deletes in two statements; an administrator is
\* never deleted all the same, as nothing makes or moves one in between
\* (given updates whose body repeats the id of the path).
AdminsStay ==
  [][\A u \in UserId : users[u] # None /\ users[u].isAdmin =>
                         users'[u] # None /\ users'[u].isAdmin]_vars
=============================================================================
