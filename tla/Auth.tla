--------------------------------- MODULE Auth ---------------------------------
(***************************************************************************)
(* MS1's accounts and sessions: register, login, refresh and logout, which  *)
(* interleave at every await, and the tables users and refresh_tokens.      *)
(*                                                                         *)
(* A refresh token is a JWT signed over the user's fields and the second it *)
(* is issued in: two tokens of a user differ only if their seconds do, and  *)
(* the column that holds them is unique.  The clock counts seconds.  A       *)
(* request that is turned away on its first read changes nothing and is a    *)
(* step that is not enabled.  isActive is always true: nothing sets it.      *)
(*                                                                         *)
(* A database call that writes takes effect in one step and returns in      *)
(* another, so that it may still throw, or the process stop, in between.     *)
(***************************************************************************)
EXTENDS Integers

CONSTANTS
  Requests,  \* the HTTP requests and service calls that may ever be made
  Emails,    \* e-mail addresses
  Nobody,    \* no user, no e-mail
  JwtLife,   \* JWT_REFRESH_EXPIRY, in seconds
  RowLife,   \* the seven days after which a stored token expires, in seconds
  MaxTime,   \* bound on the clock
  Wired      \* service methods no route calls, that are called all the same

ASSUME AuthAssumption ==
  /\ Nobody \notin Requests \cup Emails
  /\ JwtLife \in Nat /\ RowLife \in Nat /\ MaxTime \in Nat
  /\ Wired \subseteq {"cleanup"}

VARIABLES
  now,     \* the clock
  users,   \* table users: e-mail -> the user's id, the request that registered it
  tokens,  \* table refresh_tokens
  reqs,    \* request -> local variables of its handler, and how it ended
  done     \* history: the requests that have stored a token, or deleted one to log out

vars == <<now, users, tokens, reqs, done>>

Token == [user : Requests, issued : 0..MaxTime]
NoToken == [user |-> Nobody, issued |-> 0]

\* The call a handler awaits, and one that has taken effect and has not returned; how
\* it ended: "ok" (200, 201), "conflict" (409), "refused" (401), "missing" (404),
\* "error" (500), "swallowed" (a logout whose database call failed, answered 200),
\* "lost" (no answer).
Written == {"created", "stored", "dropped", "deleted"}
Waiting == {"create", "compare", "store", "find", "drop", "logout"} \cup Written
Ended == {"ok", "conflict", "refused", "missing", "error", "swallowed", "lost"}

Handler == [op : {"none", "register", "login", "refresh", "logout"},
            at : {"idle"} \cup Waiting \cup Ended,
            email : Emails \cup {Nobody}, token : Token \cup {NoToken}]

Idle == [op |-> "none", at |-> "idle", email |-> Nobody, token |-> NoToken]

Init ==
  /\ now = 0
  /\ users = [e \in Emails |-> Nobody]
  /\ tokens = {}
  /\ reqs = [r \in Requests |-> Idle]
  /\ done = {}

Tick ==
  /\ now < MaxTime
  /\ now' = now + 1
  /\ UNCHANGED <<users, tokens, reqs, done>>

Begin(r, op, at, email, token) ==
  /\ reqs[r] = Idle
  /\ reqs' = [reqs EXCEPT ![r] = [op |-> op, at |-> at, email |-> email, token |-> token]]

Goes(r, at) == reqs' = [reqs EXCEPT ![r].at = at]

\* generateRefreshToken, once the user is known.
Issue(r, user) ==
  reqs' = [reqs EXCEPT ![r].at = "store", ![r].token = [user |-> user, issued |-> now]]

\* expiresAt is RowLife after the instant of issue, which is within the second
\* issued: in that second it depends on the fractions.
MayBeOver(token) == now >= token.issued + RowLife
MayBeGood(token) == now <= token.issued + RowLife

-------------------------------------------------------------------------------
\* Register: no user has the e-mail; the password is hashed; the user is inserted, or
\* the unique e-mail refuses it; the token is made from what the insert returned.
Register(r, e) ==
  /\ users[e] = Nobody
  /\ Begin(r, "register", "create", e, NoToken)
  /\ UNCHANGED <<now, users, tokens, done>>

\* Faulty variant: an upsert.
CreateUserUpsert(r) ==
  /\ reqs[r].at = "create"
  /\ users' = [users EXCEPT ![reqs[r].email] = r]
  /\ Goes(r, "created")
  /\ UNCHANGED <<now, tokens, done>>

CreateUser(r) ==
  /\ reqs[r].at = "create"
  /\ \/ /\ users[reqs[r].email] = Nobody
        /\ users' = [users EXCEPT ![reqs[r].email] = r]
        /\ Goes(r, "created")
     \/ /\ users[reqs[r].email] # Nobody
        /\ Goes(r, "conflict")
        /\ UNCHANGED users
  /\ UNCHANGED <<now, tokens, done>>

UserCreated(r) ==
  /\ reqs[r].at = "created"
  /\ Issue(r, r)
  /\ UNCHANGED <<now, users, tokens, done>>

\* Faulty variant: whether there is such a user is not asked.
LoginUnchecked(r, e) ==
  /\ Begin(r, "login", "compare", e, NoToken)
  /\ UNCHANGED <<now, users, tokens, done>>

\* Login: there is such a user; bcrypt compares the passwords.
Login(r, e) ==
  /\ users[e] # Nobody
  /\ Begin(r, "login", "compare", e, NoToken)
  /\ UNCHANGED <<now, users, tokens, done>>

Compare(r) ==
  /\ reqs[r].at = "compare"
  /\ Issue(r, users[reqs[r].email]) \/ Goes(r, "refused")
  /\ UNCHANGED <<now, users, tokens, done>>

\* Faulty variants: a token that is there is taken for stored; the failed insert goes
\* unanswered.
StoreTokenOnce(r) ==
  /\ reqs[r].at = "store"
  /\ tokens' = tokens \cup {reqs[r].token}
  /\ done' = done \cup {r}
  /\ Goes(r, "stored")
  /\ UNCHANGED <<now, users>>

StoreTokenWaits(r) ==
  /\ reqs[r].token \notin tokens
  /\ StoreTokenOnce(r)

\* storeRefreshToken: the unique column refuses a token that is there.
StoreToken(r) ==
  /\ reqs[r].at = "store"
  /\ \/ /\ reqs[r].token \notin tokens
        /\ tokens' = tokens \cup {reqs[r].token}
        /\ done' = done \cup {r}
        /\ Goes(r, "stored")
     \/ /\ reqs[r].token \in tokens
        /\ Goes(r, "conflict")
        /\ UNCHANGED <<tokens, done>>
  /\ UNCHANGED <<now, users>>

TokenStored(r) ==
  /\ reqs[r].at = "stored"
  /\ Goes(r, "ok")
  /\ UNCHANGED <<now, users, tokens, done>>

-------------------------------------------------------------------------------
\* The tokens clients have been given.
Granted(r) == reqs[r].op \in {"register", "login"} /\ reqs[r].at = "ok"
Given == {reqs[q].token : q \in {p \in Requests : Granted(p)}}

\* Refresh: the JWT is verified, the row looked up, its expiry checked on the answer.
Refresh(r, token) ==
  /\ now < token.issued + JwtLife
  /\ Begin(r, "refresh", "find", Nobody, token)
  /\ UNCHANGED <<now, users, tokens, done>>

FindToken(r) ==
  /\ reqs[r].at = "find"
  /\ \/ reqs[r].token \notin tokens /\ Goes(r, "refused")
     \/ reqs[r].token \in tokens /\ MayBeGood(reqs[r].token) /\ Goes(r, "ok")
     \/ reqs[r].token \in tokens /\ MayBeOver(reqs[r].token) /\ Goes(r, "drop")
  /\ UNCHANGED <<now, users, tokens, done>>

\* deleteRefreshToken of an expired token; a row that is gone by now is an error, 404.
DropExpired(r) ==
  /\ reqs[r].at = "drop"
  /\ tokens' = tokens \ {reqs[r].token}
  /\ Goes(r, IF reqs[r].token \in tokens THEN "dropped" ELSE "missing")
  /\ UNCHANGED <<now, users, done>>

ExpiredDropped(r) ==
  /\ reqs[r].at = "dropped"
  /\ Goes(r, "refused")
  /\ UNCHANGED <<now, users, tokens, done>>

\* Logout awaits nothing but the deletion, and swallows its errors.
Logout(r, token) ==
  /\ Begin(r, "logout", "logout", Nobody, token)
  /\ UNCHANGED <<now, users, tokens, done>>

\* Faulty variant: the deletion is not awaited, and may fail unnoticed.
DeleteTokenUnawaited(r) ==
  /\ reqs[r].at = "logout"
  /\ tokens' \in {tokens, tokens \ {reqs[r].token}}
  /\ done' = IF tokens' = tokens THEN done ELSE done \cup {r}
  /\ Goes(r, "ok")
  /\ UNCHANGED <<now, users>>

\* deleteRefreshToken; that there is no such row is swallowed, and the answer is 200.
DeleteToken(r) ==
  /\ reqs[r].at = "logout"
  /\ \/ /\ reqs[r].token \in tokens
        /\ tokens' = tokens \ {reqs[r].token}
        /\ done' = done \cup {r}
        /\ Goes(r, "deleted")
     \/ /\ reqs[r].token \notin tokens
        /\ Goes(r, "ok")
        /\ UNCHANGED <<tokens, done>>
  /\ UNCHANGED <<now, users>>

TokenDeleted(r) ==
  /\ reqs[r].at = "deleted"
  /\ Goes(r, "ok")
  /\ UNCHANGED <<now, users, tokens, done>>

\* cleanExpiredTokens, one deleteMany.
Cleanup ==
  /\ "cleanup" \in Wired
  /\ \E over \in SUBSET {token \in tokens : MayBeOver(token)} :
       /\ \A token \in tokens \ over : MayBeGood(token)
       /\ tokens' = tokens \ over
  /\ UNCHANGED <<now, users, reqs, done>>

-------------------------------------------------------------------------------
\* Faulty variant: the error is only logged, and the token is sent all the same.
DatabaseFailureLogged(r) ==
  /\ reqs[r].at \in Waiting \ {"compare"}
  /\ Goes(r, IF reqs[r].op = "logout" THEN "swallowed"
             ELSE IF reqs[r].at = "store" THEN "ok" ELSE "error")
  /\ UNCHANGED <<now, users, tokens, done>>

\* A database call throws, before it takes effect or after: 500, but for a logout.
DatabaseFails(r) ==
  /\ reqs[r].at \in Waiting \ {"compare"}
  /\ Goes(r, IF reqs[r].op = "logout" THEN "swallowed" ELSE "error")
  /\ UNCHANGED <<now, users, tokens, done>>

\* The process stops: the handlers in flight are lost, those whose call has taken effect
\* included; the tables stay.
Stop ==
  /\ \E r \in Requests : reqs[r].at \in Waiting
  /\ reqs' = [r \in Requests |->
                IF reqs[r].at \in Waiting THEN [reqs[r] EXCEPT !.at = "lost"] ELSE reqs[r]]
  /\ UNCHANGED <<now, users, tokens, done>>

Arrive(r) ==
  \/ \E e \in Emails : Register(r, e) \/ Login(r, e)
  \/ \E token \in Given : Refresh(r, token) \/ Logout(r, token)

Answer(r) ==
  \/ CreateUser(r) \/ UserCreated(r) \/ Compare(r) \/ StoreToken(r) \/ TokenStored(r)
  \/ FindToken(r) \/ DropExpired(r) \/ ExpiredDropped(r)
  \/ DeleteToken(r) \/ TokenDeleted(r)

Next ==
  \/ Tick \/ Cleanup \/ Stop
  \/ \E r \in Requests : Arrive(r) \/ Answer(r) \/ DatabaseFails(r)

Spec == Init /\ [][Next]_vars

\* Every call is answered in the end, and the event loop gets round to every callback.
FairSpec == Spec /\ \A r \in Requests : WF_vars(Answer(r))

-------------------------------------------------------------------------------
TypeOK ==
  /\ now \in 0..MaxTime
  /\ users \in [Emails -> Requests \cup {Nobody}]
  /\ tokens \subseteq Token
  /\ reqs \in [Requests -> Handler]
  /\ done \subseteq Requests

\* r inserted its token: it may have been told so, or have got an error or no answer.
Stored(r) == r \in done /\ reqs[r].op \in {"register", "login"}

\* A logout deleted the token, whatever its client was told.
LoggedOut(token) == \E q \in done : reqs[q].op = "logout" /\ reqs[q].token = token

\* A logout that deleted its token, or was answered without an error of the database.
LogoutDone(q) == reqs[q].op = "logout" /\ (q \in done \/ reqs[q].at = "ok")

\* Of concurrent registrations of an e-mail one at most is told that it succeeded, and
\* the account is its own: a loser does not take over the winner's account.
RegisteredOnce ==
  \A r \in Requests :
    reqs[r].op = "register" /\ reqs[r].at \in {"created", "store", "stored", "ok"} =>
      users[reqs[r].email] = r

\* A client that was given a refresh token can use it until a logout of it takes effect
\* or it expires: failing inserts, restarts, logouts that fail before they delete, expiry
\* checks that come late and the clean-up take no session away.
SessionsKept ==
  \A r \in Requests :
    Granted(r) => \/ reqs[r].token \in tokens
                  \/ LoggedOut(reqs[r].token)
                  \/ MayBeOver(reqs[r].token)

\* Two clients share a session, so that a logout of one logs out the other, only if a
\* logout of it took effect, answered or not, or it expired, between the two: the token
\* is the same when both come in one second, and a login that finds it stored is refused.
OwnSession ==
  \A r, q \in Requests :
    Granted(r) /\ Granted(q) /\ r # q /\ reqs[r].token = reqs[q].token =>
      LoggedOut(reqs[r].token) \/ MayBeOver(reqs[r].token)

\* A token whose logout took effect, or was answered without an error of the database,
\* stays logged out, although a login in the same second may make the very same token
\* again: it is back only if a second request, answered or not, has stored it too.
LogoutIsFinal ==
  \A q \in Requests :
    LogoutDone(q) /\ reqs[q].token \in tokens =>
      \E r, p \in Requests : r # p /\ Stored(r) /\ Stored(p) /\
                             reqs[r].token = reqs[q].token /\ reqs[p].token = reqs[q].token

\* Every request is answered or lost, the loser of a race for an e-mail or for a
\* token included.
EveryRequestEnds == \A r \in Requests : reqs[r].at \in Waiting ~> reqs[r].at \in Ended

-------------------------------------------------------------------------------
\* The inductive invariant.  What is promised of the tokens clients were given holds of
\* all that were stored, before anybody is told of them.
StoredKept ==
  \A r \in Requests :
    Stored(r) => \/ reqs[r].token \in tokens
                 \/ LoggedOut(reqs[r].token)
                 \/ MayBeOver(reqs[r].token)

StoredOnce ==
  \A r, q \in Requests :
    Stored(r) /\ Stored(q) /\ r # q /\ reqs[r].token = reqs[q].token =>
      LoggedOut(reqs[r].token) \/ MayBeOver(reqs[r].token)

\* Whoever presents a token was given it, and a token is dropped because it is over.
PresentedWasGiven ==
  \A r \in Requests : reqs[r].op \in {"refresh", "logout"} => reqs[r].token \in Given

DropsExpired == \A r \in Requests : reqs[r].at = "drop" => MayBeOver(reqs[r].token)

\* A handler is where its operation can be, and knows what it must know there; its write
\* has taken effect only after the call that makes it.
Placed(r) ==
  /\ reqs[r].at = "idle" <=> reqs[r].op = "none"
  /\ reqs[r].at \in {"create", "created"} => reqs[r].op = "register"
  /\ reqs[r].at = "compare" => reqs[r].op = "login" /\ users[reqs[r].email] # Nobody
  /\ reqs[r].at \in {"store", "stored"} => reqs[r].op \in {"register", "login"}
  /\ reqs[r].at \in {"find", "drop", "dropped"} => reqs[r].op = "refresh"
  /\ reqs[r].at \in {"logout", "deleted"} => reqs[r].op = "logout"
  /\ reqs[r].at \in {"idle", "create", "created", "compare", "store", "logout"} => r \notin done
  /\ reqs[r].at \in {"stored", "deleted"} \/ Granted(r) => r \in done
  /\ reqs[r].op \in {"register", "login"} => reqs[r].email \in Emails
  /\ reqs[r].op \in {"refresh", "logout"} \/ reqs[r].at = "store" \/ Stored(r) =>
       reqs[r].token \in Token

Places == \A r \in Requests : Placed(r)

IInv ==
  /\ TypeOK /\ RegisteredOnce /\ StoredKept /\ StoredOnce /\ LogoutIsFinal
  /\ PresentedWasGiven /\ DropsExpired /\ Places

-------------------------------------------------------------------------------
\* What a test says, and does not hold: auth.routes.test.ts:141 "should login
\* successfully and return 200 with tokens".  A login with the right password is not
\* refused as a conflict.
LoginSucceeds ==
  \A r \in Requests : ~(reqs[r].op = "login" /\ reqs[r].at = "conflict")
===============================================================================
