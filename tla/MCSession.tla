----------------------------- MODULE MCSession -----------------------------
(* A small instance of Session for TLC. *)
EXTENDS Session

SignIn  == [kind |-> "signIn", account |-> "dora", password |-> "p"]
Refresh == [kind |-> "refresh"]
SignUp  == [kind |-> "signUp", account |-> "carol", password |-> "p"]
Remove(u) == [kind |-> "remove", target |-> u]
Change(by, old, new) ==
  [kind |-> "changePassword", by |-> by, target |-> 2, old |-> old, password |-> new]

TwoUsers == [u \in UserId |->
  CASE u = 1 -> [account |-> "admin", password |-> "p", isAdmin |-> TRUE]
    [] u = 2 -> [account |-> "dora", password |-> "p", isAdmin |-> FALSE]
    [] OTHER -> None]

\* Requests that fight for the session of one user, and for its row.
OnSession == {"s1", "s2", "f1", "f2"}
OnRow     == {"n1", "n2", "named", "reset", "own", "admin"}
Requests  == OnSession \cup OnRow \cup {"gone"}

Asked == [r \in Requests |->
  CASE r \in {"s1", "s2"} -> SignIn
    [] r \in {"f1", "f2"} -> Refresh
    [] r \in {"n1", "n2"} -> SignUp
    [] r = "named" -> [kind |-> "update", target |-> 2, id |-> 2, account |-> "carol"]
    [] r = "reset" -> Change(1, "q", "q")
    [] r = "own"   -> Change(2, "p", "r")
    [] r = "gone"  -> Remove(2)
    [] r = "admin" -> Remove(1)]

Unsent(rs) == \A r \in rs : step[r] = FirstStep(r)

\* Bound on what a behaviour mixes: the removal of the user is in both halves.
OneFight == Unsent(OnSession) \/ Unsent(OnRow)
=============================================================================
