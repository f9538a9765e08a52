------------------------------ MODULE Auth_proofs ------------------------------
(***************************************************************************)
(* Proofs about Auth, for any requests, e-mails, lifetimes and bound on the  *)
(* clock: IInv is an invariant, and with it the parts that the runs check.   *)
(***************************************************************************)
EXTENDS Auth, TLAPS

-------------------------------------------------------------------------------
\* What every step does: how a request ended does not change, a token that was stored or
\* deleted was so by the request that did it, a user stays, time passes.
Onward ==
  /\ \A q \in Requests : reqs[q].at \in Ended => reqs'[q] = reqs[q]
  /\ \A q \in done : q \in done' /\ reqs'[q].op = reqs[q].op /\ reqs'[q].token = reqs[q].token
  /\ \A e \in Emails : users[e] # Nobody => users'[e] = users[e]
  /\ now' >= now

\* What was given, stored, logged out or over, is so after a step.
LEMMA GivenStays ==
  ASSUME IInv, TypeOK', Onward
  PROVE  /\ Given \subseteq Given'
         /\ \A q \in Requests : Stored(q) => Stored(q)' /\ reqs'[q].token = reqs[q].token
         /\ \A q \in Requests : LogoutDone(q) => reqs'[q].token = reqs[q].token
         /\ \A token \in Token : LoggedOut(token) => LoggedOut(token)'
         /\ \A token \in Token : MayBeOver(token) => MayBeOver(token)'
<1>1. \A q \in Requests : Granted(q) => Granted(q)' /\ reqs'[q] = reqs[q]
  BY DEF Onward, Granted, Ended
<1>2. Given \subseteq Given'
  BY <1>1 DEF Given
<1>3. \A q \in Requests : Stored(q) => Stored(q)' /\ reqs'[q].token = reqs[q].token
  BY DEF Onward, Stored
<1>4. \A q \in Requests : LogoutDone(q) => reqs'[q].token = reqs[q].token
  BY DEF Onward, LogoutDone, Ended
<1>5. \A token \in Token : LoggedOut(token) => LoggedOut(token)'
  BY DEF Onward, LoggedOut
<1>6. ASSUME NEW token \in Token, MayBeOver(token)
      PROVE  MayBeOver(token)'
  <2>1. token.issued \in Int /\ now \in Int /\ now' \in Int /\ RowLife \in Int
    BY AuthAssumption DEF Token, IInv, TypeOK
  <2> QED
    BY <1>6, <2>1 DEF Onward, MayBeOver
<1> QED
  BY <1>2, <1>3, <1>4, <1>5, <1>6

\* What is promised of stored tokens, after a step that stores one token at most, which
\* was not there, and removes only what is logged out or over; a logout that is done by
\* it leaves its token out of the table.
LEMMA StoredStep ==
  ASSUME IInv, TypeOK', Onward,
         \A p, q \in Requests :
           Stored(p)' /\ ~Stored(p) /\ Stored(q)' /\ ~Stored(q) => p = q,
         \A q \in Requests :
           Stored(q)' /\ ~Stored(q) => reqs'[q].token \in tokens' \ tokens,
         \A token \in tokens' \ tokens :
           \E q \in Requests : Stored(q)' /\ ~Stored(q) /\ reqs'[q].token = token,
         \A token \in tokens \ tokens' : LoggedOut(token)' \/ MayBeOver(token)',
         \A q \in Requests : LogoutDone(q)' /\ ~LogoutDone(q) => reqs'[q].token \notin tokens'
  PROVE  StoredKept' /\ StoredOnce' /\ LogoutIsFinal'
<1>1. \A q \in Requests : Stored(q)' => reqs'[q].token \in Token
  <2>1. ASSUME NEW q \in Requests, Stored(q)', Stored(q)
        PROVE  reqs'[q].token \in Token
    BY <2>1, GivenStays DEF IInv, Places, Placed
  <2>2. ASSUME NEW q \in Requests, Stored(q)', ~Stored(q)
        PROVE  reqs'[q].token \in Token
    BY <2>2 DEF TypeOK
  <2> QED
    BY <2>1, <2>2
<1>2. StoredKept'
  <2> SUFFICES ASSUME NEW q \in Requests, Stored(q)'
               PROVE  \/ reqs'[q].token \in tokens'
                      \/ LoggedOut(reqs[q].token)'
                      \/ MayBeOver(reqs[q].token)'
    BY DEF StoredKept
  <2>1. CASE Stored(q)
    <3>1. reqs'[q].token = reqs[q].token /\ reqs[q].token \in Token
      BY <2>1, <1>1, GivenStays
    <3>2. \/ reqs[q].token \in tokens
          \/ LoggedOut(reqs[q].token) \/ MayBeOver(reqs[q].token)
      BY <2>1 DEF IInv, StoredKept
    <3>3. LoggedOut(reqs[q].token) => LoggedOut(reqs[q].token)'
      BY <3>1, GivenStays DEF LoggedOut
    <3>4. MayBeOver(reqs[q].token) => MayBeOver(reqs[q].token)'
      BY <3>1, GivenStays DEF MayBeOver
    <3>5. reqs[q].token \in tokens \ tokens' =>
            LoggedOut(reqs[q].token)' \/ MayBeOver(reqs[q].token)'
      BY <3>1 DEF LoggedOut, MayBeOver
    <3> QED
      BY <3>1, <3>2, <3>3, <3>4, <3>5
  <2>2. CASE ~Stored(q)
    BY <2>2
  <2> QED
    BY <2>1, <2>2
<1>3. StoredOnce'
  <2> SUFFICES ASSUME NEW p \in Requests, NEW q \in Requests, Stored(p)', Stored(q)',
                      p # q, reqs'[p].token = reqs'[q].token, Stored(p)
               PROVE  LoggedOut(reqs[p].token)' \/ MayBeOver(reqs[p].token)'
    BY DEF StoredOnce, LoggedOut, MayBeOver
  <2>1. reqs'[p].token = reqs[p].token /\ reqs[p].token \in Token
    BY <1>1, GivenStays
  <2>2. LoggedOut(reqs[p].token) \/ MayBeOver(reqs[p].token) =>
          LoggedOut(reqs[p].token)' \/ MayBeOver(reqs[p].token)'
    BY <2>1, GivenStays DEF LoggedOut, MayBeOver
  <2>3. CASE Stored(q)
    <3>1. reqs[q].token = reqs[p].token
      BY <2>1, <2>3, GivenStays
    <3> QED
      BY <2>2, <2>3, <3>1 DEF IInv, StoredOnce
  <2>4. CASE ~Stored(q)
    <3>1. reqs[p].token \notin tokens
      BY <2>1, <2>4
    <3> QED
      BY <2>2, <3>1 DEF IInv, StoredKept
  <2> QED
    BY <2>3, <2>4
<1>4. LogoutIsFinal'
  <2> SUFFICES ASSUME NEW l \in Requests, LogoutDone(l)', reqs'[l].token \in tokens'
               PROVE  \E p, q \in Requests :
                        /\ p # q /\ Stored(p)' /\ Stored(q)'
                        /\ reqs'[p].token = reqs'[l].token /\ reqs'[q].token = reqs'[l].token
    BY DEF LogoutIsFinal
  <2>1. LogoutDone(l) /\ reqs'[l].token = reqs[l].token
    BY GivenStays
  <2>2. CASE reqs[l].token \in tokens
    <3>1. PICK p \in Requests, q \in Requests :
            /\ p # q /\ Stored(p) /\ Stored(q)
            /\ reqs[p].token = reqs[l].token /\ reqs[q].token = reqs[l].token
      BY <2>1, <2>2 DEF IInv, LogoutIsFinal
    <3> QED
      BY <2>1, <3>1, GivenStays
  <2>3. CASE reqs[l].token \notin tokens
    <3>1. PICK p \in Requests : Stored(p)' /\ ~Stored(p) /\ reqs'[p].token = reqs[l].token
      BY <2>1, <2>3
    <3>2. reqs[l].token \in Given
      BY <2>1 DEF LogoutDone, IInv, PresentedWasGiven
    <3>3. PICK q \in Requests : Granted(q) /\ reqs[q].token = reqs[l].token
      BY <3>2 DEF Given
    <3>4. Stored(q)
      BY <3>3 DEF Granted, Stored, IInv, Places, Placed
    <3> QED
      BY <2>1, <3>1, <3>3, <3>4, GivenStays
  <2> QED
    BY <2>2, <2>3
<1> QED
  BY <1>2, <1>3, <1>4

\* The other conjuncts speak of one request each.
LEMMA PlacesStep ==
  ASSUME IInv, TypeOK', Onward, NEW r \in Requests,
         \A q \in Requests \ {r} : reqs'[q] = reqs[q] /\ (q \in done' <=> q \in done),
         reqs'[r].op = "register" /\ reqs'[r].at \in {"created", "store", "stored", "ok"} =>
           users'[reqs'[r].email] = r,
         reqs'[r].op \in {"refresh", "logout"} => reqs'[r].token \in Given,
         reqs'[r].at = "drop" => MayBeOver(reqs[r].token)',
         Placed(r)'
  PROVE  RegisteredOnce' /\ PresentedWasGiven' /\ DropsExpired' /\ Places'
<1>1. RegisteredOnce'
  <2> SUFFICES ASSUME NEW q \in Requests \ {r}, reqs[q].op = "register",
                      reqs[q].at \in {"created", "store", "stored", "ok"}
               PROVE  users'[reqs[q].email] = q
    BY DEF RegisteredOnce
  <2>1. reqs[q].email \in Emails /\ users[reqs[q].email] = q /\ q # Nobody
    BY AuthAssumption DEF IInv, RegisteredOnce, Places, Placed
  <2> QED
    BY <2>1 DEF Onward
<1>2. PresentedWasGiven'
  BY GivenStays DEF PresentedWasGiven, IInv
<1>3. DropsExpired'
  <2> SUFFICES ASSUME NEW q \in Requests \ {r}, reqs'[q].at = "drop"
               PROVE  MayBeOver(reqs[q].token)'
    BY DEF DropsExpired
  <2>1. reqs'[q] = reqs[q] /\ reqs[q].token \in Token /\ MayBeOver(reqs[q].token)
    BY DEF IInv, DropsExpired, Places, Placed
  <2> QED
    BY <2>1, GivenStays DEF MayBeOver
<1>4. Places'
  <2> SUFFICES ASSUME NEW q \in Requests \ {r}
               PROVE  Placed(q)'
    BY DEF Places
  <2>1. reqs'[q] = reqs[q] /\ Placed(q) /\ (q \in done' <=> q \in done)
    BY DEF IInv, Places
  <2>2. reqs[q].at = "compare" => users'[reqs[q].email] # Nobody
    BY <2>1 DEF Placed, Onward
  <2>3. (Granted(q)' <=> Granted(q)) /\ (Stored(q)' <=> Stored(q))
    BY <2>1 DEF Granted, Stored
  <2> QED
    BY <2>1, <2>2, <2>3 DEF Placed
<1> QED
  BY <1>1, <1>2, <1>3, <1>4

\* A step that stores no token, adds no row, logs nobody out and removes expired rows
\* only.
LEMMA QuietSessions ==
  ASSUME IInv, TypeOK', Onward, done' = done,
         tokens' \subseteq tokens,
         \A token \in tokens \ tokens' : MayBeOver(token)',
         \A q \in Requests : LogoutDone(q)' /\ ~LogoutDone(q) => reqs'[q].token \notin tokens'
  PROVE  StoredKept' /\ StoredOnce' /\ LogoutIsFinal'
<1>1. \A q \in Requests : Stored(q)' => Stored(q)
  BY DEF Stored, Onward
<1> QED
  BY <1>1, StoredStep

-------------------------------------------------------------------------------
\* Types.  The handler of r after a step that moves it, or gives it a token.
LEMMA HandlerType ==
  ASSUME TypeOK, NEW r \in Requests
  PROVE  /\ reqs[r] \in Handler
         /\ \A at \in Waiting \cup Ended : Goes(r, at) =>
              /\ reqs' \in [Requests -> Handler]
              /\ reqs'[r] = [reqs[r] EXCEPT !.at = at]
              /\ \A q \in Requests \ {r} : reqs'[q] = reqs[q]
         /\ \A user \in Requests : Issue(r, user) =>
              /\ reqs' \in [Requests -> Handler]
              /\ reqs'[r] = [reqs[r] EXCEPT !.at = "store",
                                            !.token = [user |-> user, issued |-> now]]
              /\ reqs'[r].token \in Token
              /\ \A q \in Requests \ {r} : reqs'[q] = reqs[q]
<1>1. reqs[r] \in Handler
  BY DEF TypeOK
<1>2. ASSUME NEW at \in Waiting \cup Ended, Goes(r, at)
      PROVE  /\ reqs' \in [Requests -> Handler]
             /\ reqs'[r] = [reqs[r] EXCEPT !.at = at]
             /\ \A q \in Requests \ {r} : reqs'[q] = reqs[q]
  <2>1. [reqs[r] EXCEPT !.at = at] \in Handler
    BY <1>1 DEF Handler
  <2> QED
    BY <1>2, <2>1 DEF Goes, TypeOK
<1>3. ASSUME NEW user \in Requests, Issue(r, user)
      PROVE  /\ reqs' \in [Requests -> Handler]
             /\ reqs'[r] = [reqs[r] EXCEPT !.at = "store",
                                           !.token = [user |-> user, issued |-> now]]
             /\ reqs'[r].token \in Token
             /\ \A q \in Requests \ {r} : reqs'[q] = reqs[q]
  <2>1. [user |-> user, issued |-> now] \in Token
    BY DEF Token, TypeOK
  <2>2. [reqs[r] EXCEPT !.at = "store", !.token = [user |-> user, issued |-> now]] \in Handler
    BY <1>1, <2>1 DEF Handler, Waiting
  <2>3. /\ reqs' \in [Requests -> Handler]
        /\ reqs'[r] = [reqs[r] EXCEPT !.at = "store",
                                      !.token = [user |-> user, issued |-> now]]
        /\ \A q \in Requests \ {r} : reqs'[q] = reqs[q]
    BY <1>3, <2>2 DEF Issue, TypeOK
  <2>4. reqs'[r].token = [user |-> user, issued |-> now]
    BY <1>1, <2>3 DEF Handler
  <2> QED
    BY <2>1, <2>3, <2>4
<1> QED
  BY <1>1, <1>2, <1>3

LEMMA BeginType ==
  ASSUME TypeOK, NEW r \in Requests, NEW op \in {"register", "login", "refresh", "logout"},
         NEW at \in Waiting, NEW email \in Emails \cup {Nobody},
         NEW token \in Token \cup {NoToken}, Begin(r, op, at, email, token)
  PROVE  /\ reqs' \in [Requests -> Handler]
         /\ reqs'[r] = [op |-> op, at |-> at, email |-> email, token |-> token]
         /\ \A q \in Requests \ {r} : reqs'[q] = reqs[q]
         /\ reqs[r].at = "idle"
<1>1. [op |-> op, at |-> at, email |-> email, token |-> token] \in Handler
  BY DEF Handler
<1>2. reqs[r].at = "idle"
  BY DEF Begin, Idle
<1> QED
  BY <1>1, <1>2 DEF Begin, TypeOK

\* Clients hold tokens.
LEMMA GivenAreTokens == IInv => Given \subseteq Token
BY DEF Given, Granted, Stored, IInv, Places, Placed

\* A request that begins.
LEMMA BeginKeeps ==
  ASSUME IInv, UNCHANGED <<now, users, tokens, done>>, NEW r \in Requests,
         NEW op \in {"register", "login", "refresh", "logout"},
         NEW at \in Waiting, NEW email \in Emails \cup {Nobody},
         NEW token \in Token \cup {NoToken}, Begin(r, op, at, email, token),
         \/ op = "register" /\ at = "create" /\ email \in Emails
         \/ op = "login" /\ at = "compare" /\ email \in Emails /\ users[email] # Nobody
         \/ op = "refresh" /\ at = "find" /\ token \in Given
         \/ op = "logout" /\ at = "logout" /\ token \in Given
  PROVE  IInv'
<1>1. TypeOK
  BY DEF IInv
<1>2. /\ reqs' \in [Requests -> Handler]
      /\ reqs'[r] = [op |-> op, at |-> at, email |-> email, token |-> token]
      /\ \A q \in Requests \ {r} : reqs'[q] = reqs[q]
      /\ reqs[r].at = "idle"
  BY <1>1, BeginType
<1>3. r \notin done
  BY <1>2 DEF IInv, Places, Placed
<1>4. TypeOK' /\ Onward
  BY <1>1, <1>2, <1>3 DEF TypeOK, Onward, Ended
<1>5. StoredKept' /\ StoredOnce' /\ LogoutIsFinal'
  <2>1. \A q \in Requests : LogoutDone(q)' => LogoutDone(q)
    BY <1>2, <1>3 DEF LogoutDone, Waiting, Written
  <2> QED
    BY <1>4, <2>1, QuietSessions
<1>6. Placed(r)'
  BY <1>2, <1>3, GivenAreTokens DEF Placed, Granted, Stored
<1>7. RegisteredOnce' /\ PresentedWasGiven' /\ DropsExpired' /\ Places'
  BY <1>2, <1>4, <1>6, PlacesStep
<1> QED
  BY <1>4, <1>5, <1>7 DEF IInv

-------------------------------------------------------------------------------
\* A handler that goes on or ends without writing, but for rows that are over.
LEMMA MoveKeeps ==
  ASSUME IInv, UNCHANGED <<now, users, done>>, NEW r \in Requests,
         NEW at \in Waiting \cup Ended, reqs[r].at \in Waiting, Goes(r, at),
         at = "ok" => \/ reqs[r].op = "refresh" \/ reqs[r].at \in {"stored", "deleted"}
                      \/ reqs[r].at = "logout" /\ reqs[r].token \notin tokens,
         at = "drop" => reqs[r].at = "find" /\ MayBeOver(reqs[r].token),
         at = "dropped" => reqs[r].at = "drop",
         at \in Waiting => at \in {"drop", "dropped"},
         tokens' \subseteq tokens, \A token \in tokens \ tokens' : MayBeOver(token)
  PROVE  IInv'
<1>1. TypeOK
  BY DEF IInv
<1>2. /\ reqs[r] \in Handler
      /\ reqs' \in [Requests -> Handler]
      /\ reqs'[r] = [reqs[r] EXCEPT !.at = at]
      /\ \A q \in Requests \ {r} : reqs'[q] = reqs[q]
  BY <1>1, HandlerType
<1>3. /\ reqs'[r].at = at /\ reqs'[r].op = reqs[r].op
      /\ reqs'[r].email = reqs[r].email /\ reqs'[r].token = reqs[r].token
  BY <1>2 DEF Handler
<1>4. TypeOK' /\ Onward
  <2>1. \A q \in Requests : reqs[q].at \in Ended => reqs'[q] = reqs[q]
    BY <1>2 DEF Ended, Waiting, Written
  <2>2. \A q \in Requests : reqs'[q].op = reqs[q].op /\ reqs'[q].token = reqs[q].token
    BY <1>2, <1>3
  <2>3. TypeOK'
    BY <1>1, <1>2 DEF TypeOK
  <2> QED
    BY <1>1, <2>1, <2>2, <2>3 DEF TypeOK, Onward
<1>5. Placed(r) /\ reqs[r].op # "none"
  BY DEF IInv, Places, Placed, Waiting, Written
<1>6. StoredKept' /\ StoredOnce' /\ LogoutIsFinal'
  <2>1. \A token \in tokens \ tokens' : MayBeOver(token)'
    BY DEF MayBeOver
  <2>2. \A q \in Requests : LogoutDone(q)' /\ ~LogoutDone(q) => reqs'[q].token \notin tokens'
    BY <1>2, <1>3, <1>5 DEF LogoutDone, Placed
  <2> QED
    BY <1>4, <2>1, <2>2, QuietSessions
<1>7. Placed(r)'
  BY <1>3, <1>5 DEF Placed, Granted, Stored, Waiting, Written, Ended
<1>8. /\ reqs'[r].op = "register" /\ reqs'[r].at \in {"created", "store", "stored", "ok"} =>
           users'[reqs'[r].email] = r
      /\ reqs'[r].op \in {"refresh", "logout"} => reqs'[r].token \in Given
      /\ reqs'[r].at = "drop" => MayBeOver(reqs[r].token)'
  BY <1>3, <1>5 DEF IInv, RegisteredOnce, PresentedWasGiven, Placed, MayBeOver, Waiting, Written
<1>9. RegisteredOnce' /\ PresentedWasGiven' /\ DropsExpired' /\ Places'
  BY <1>2, <1>4, <1>7, <1>8, PlacesStep
<1> QED
  BY <1>4, <1>6, <1>9 DEF IInv

\* A registration whose user is inserted.
LEMMA CreatedKeeps ==
  ASSUME IInv, UNCHANGED <<now, tokens, done>>, NEW r \in Requests, Goes(r, "created"),
         reqs[r].at = "create", users[reqs[r].email] = Nobody,
         users' = [users EXCEPT ![reqs[r].email] = r]
  PROVE  IInv'
<1>1. TypeOK /\ Placed(r) /\ reqs[r].op = "register" /\ reqs[r].email \in Emails
  BY DEF IInv, Places, Placed
<1>2. /\ reqs[r] \in Handler
      /\ reqs' \in [Requests -> Handler]
      /\ reqs'[r] = [reqs[r] EXCEPT !.at = "created"]
      /\ \A q \in Requests \ {r} : reqs'[q] = reqs[q]
  BY <1>1, HandlerType DEF Waiting, Written
<1>3. /\ reqs'[r].at = "created" /\ reqs'[r].op = reqs[r].op
      /\ reqs'[r].email = reqs[r].email /\ reqs'[r].token = reqs[r].token
  BY <1>2 DEF Handler
<1>4. /\ users' \in [Emails -> Requests \cup {Nobody}]
      /\ \A e \in Emails : users[e] # Nobody => users'[e] = users[e]
      /\ users'[reqs[r].email] = r
  BY <1>1 DEF TypeOK
<1>5. TypeOK' /\ Onward
  <2>1. \A q \in Requests : reqs[q].at \in Ended => reqs'[q] = reqs[q]
    BY <1>2 DEF Ended
  <2>2. \A q \in Requests : reqs'[q].op = reqs[q].op /\ reqs'[q].token = reqs[q].token
    BY <1>2, <1>3
  <2>3. TypeOK'
    BY <1>1, <1>2, <1>4 DEF TypeOK
  <2> QED
    BY <1>1, <1>4, <2>1, <2>2, <2>3 DEF TypeOK, Onward
<1>6. StoredKept' /\ StoredOnce' /\ LogoutIsFinal'
  <2>1. \A q \in Requests : LogoutDone(q)' => LogoutDone(q)
    BY <1>2, <1>3 DEF LogoutDone
  <2> QED
    BY <1>5, <2>1, QuietSessions
<1>7. Placed(r)'
  BY <1>1, <1>3 DEF Placed, Granted, Stored
<1>8. RegisteredOnce' /\ PresentedWasGiven' /\ DropsExpired' /\ Places'
  BY <1>1, <1>2, <1>3, <1>4, <1>5, <1>7, PlacesStep
<1> QED
  BY <1>5, <1>6, <1>8 DEF IInv

\* A handler that makes the token it will store.
LEMMA IssueKeeps ==
  ASSUME IInv, UNCHANGED <<now, users, tokens, done>>, NEW r \in Requests,
         NEW user \in Requests, Issue(r, user), reqs[r].at \in {"created", "compare"}
  PROVE  IInv'
<1>1. TypeOK
  BY DEF IInv
<1>2. /\ reqs[r] \in Handler
      /\ reqs' \in [Requests -> Handler]
      /\ reqs'[r] = [reqs[r] EXCEPT !.at = "store",
                                    !.token = [user |-> user, issued |-> now]]
      /\ reqs'[r].token \in Token
      /\ \A q \in Requests \ {r} : reqs'[q] = reqs[q]
  BY <1>1, HandlerType
<1>3. reqs'[r].at = "store" /\ reqs'[r].op = reqs[r].op /\ reqs'[r].email = reqs[r].email
  BY <1>2 DEF Handler
<1>4. Placed(r) /\ reqs[r].op \in {"register", "login"} /\ r \notin done
  BY DEF IInv, Places, Placed
<1>5. TypeOK' /\ Onward
  BY <1>1, <1>2, <1>4 DEF TypeOK, Onward, Ended
<1>6. StoredKept' /\ StoredOnce' /\ LogoutIsFinal'
  <2>1. \A q \in Requests : LogoutDone(q)' => LogoutDone(q)
    BY <1>2, <1>3 DEF LogoutDone
  <2> QED
    BY <1>5, <2>1, QuietSessions
<1>7. Placed(r)'
  BY <1>2, <1>3, <1>4 DEF Placed, Granted, Stored
<1>8. reqs'[r].op = "register" => users'[reqs'[r].email] = r
  BY <1>3, <1>4 DEF IInv, RegisteredOnce, Placed
<1>9. RegisteredOnce' /\ PresentedWasGiven' /\ DropsExpired' /\ Places'
  BY <1>2, <1>3, <1>4, <1>5, <1>7, <1>8, PlacesStep
<1> QED
  BY <1>5, <1>6, <1>9 DEF IInv

-------------------------------------------------------------------------------
\* The two steps that store a token and delete one to log out.
LEMMA StoreTokenKeeps ==
  ASSUME IInv, NEW r \in Requests, StoreToken(r)
  PROVE  IInv'
<1>1. TypeOK /\ Placed(r)
  BY DEF IInv, Places
<1>2. /\ reqs[r].at = "store" /\ reqs[r].token \in Token
      /\ reqs[r].op \in {"register", "login"} /\ r \notin done
  BY <1>1 DEF StoreToken, Placed
<1>3. CASE reqs[r].token \in tokens
  <2>1. Goes(r, "conflict") /\ UNCHANGED <<now, users, tokens, done>>
    BY <1>3 DEF StoreToken
  <2> QED
    BY <1>2, <2>1, MoveKeeps DEF Waiting, Written, Ended
<1>4. CASE reqs[r].token \notin tokens
  <2>1. /\ Goes(r, "stored") /\ UNCHANGED <<now, users>>
        /\ tokens' = tokens \cup {reqs[r].token} /\ done' = done \cup {r}
    BY <1>4 DEF StoreToken
  <2>2. /\ reqs[r] \in Handler
        /\ reqs' \in [Requests -> Handler]
        /\ reqs'[r] = [reqs[r] EXCEPT !.at = "stored"]
        /\ \A q \in Requests \ {r} : reqs'[q] = reqs[q]
    BY <1>1, <2>1, HandlerType DEF Waiting, Written
  <2>3. /\ reqs'[r].at = "stored" /\ reqs'[r].op = reqs[r].op
        /\ reqs'[r].email = reqs[r].email /\ reqs'[r].token = reqs[r].token
    BY <2>2 DEF Handler
  <2>4. TypeOK' /\ Onward
    BY <1>1, <1>2, <2>1, <2>2, <2>3 DEF TypeOK, Onward, Ended
  <2>5. Stored(r)' /\ ~Stored(r)
    BY <1>2, <2>1, <2>3 DEF Stored
  <2>6. \A q \in Requests \ {r} : Stored(q)' <=> Stored(q)
    BY <2>1, <2>2 DEF Stored
  <2>7. \A q \in Requests : LogoutDone(q)' => LogoutDone(q)
    BY <1>2, <2>1, <2>2, <2>3 DEF LogoutDone
  <2>8. StoredKept' /\ StoredOnce' /\ LogoutIsFinal'
    BY <1>4, <2>1, <2>3, <2>4, <2>5, <2>6, <2>7, StoredStep
  <2>9. Placed(r)'
    BY <1>1, <1>2, <2>1, <2>3 DEF Placed, Granted
  <2>10. reqs'[r].op = "register" => users'[reqs'[r].email] = r
    BY <1>2, <2>1, <2>3 DEF IInv, RegisteredOnce
  <2>11. RegisteredOnce' /\ PresentedWasGiven' /\ DropsExpired' /\ Places'
    BY <1>2, <2>1, <2>2, <2>3, <2>4, <2>9, <2>10, PlacesStep
  <2> QED
    BY <2>4, <2>8, <2>11 DEF IInv
<1> QED
  BY <1>3, <1>4

LEMMA DeleteTokenKeeps ==
  ASSUME IInv, NEW r \in Requests, DeleteToken(r)
  PROVE  IInv'
<1>1. TypeOK /\ Placed(r)
  BY DEF IInv, Places
<1>2. /\ reqs[r].at = "logout" /\ reqs[r].op = "logout"
      /\ reqs[r].token \in Token /\ r \notin done
  BY <1>1 DEF DeleteToken, Placed
<1>3. CASE reqs[r].token \notin tokens
  <2>1. Goes(r, "ok") /\ UNCHANGED <<now, users, tokens, done>>
    BY <1>3 DEF DeleteToken
  <2> QED
    BY <1>2, <1>3, <2>1, MoveKeeps DEF Waiting, Written, Ended
<1>4. CASE reqs[r].token \in tokens
  <2>1. /\ Goes(r, "deleted") /\ UNCHANGED <<now, users>>
        /\ tokens' = tokens \ {reqs[r].token} /\ done' = done \cup {r}
    BY <1>4 DEF DeleteToken
  <2>2. /\ reqs[r] \in Handler
        /\ reqs' \in [Requests -> Handler]
        /\ reqs'[r] = [reqs[r] EXCEPT !.at = "deleted"]
        /\ \A q \in Requests \ {r} : reqs'[q] = reqs[q]
    BY <1>1, <2>1, HandlerType DEF Waiting, Written
  <2>3. /\ reqs'[r].at = "deleted" /\ reqs'[r].op = reqs[r].op
        /\ reqs'[r].email = reqs[r].email /\ reqs'[r].token = reqs[r].token
    BY <2>2 DEF Handler
  <2>4. TypeOK' /\ Onward
    BY <1>1, <1>2, <2>1, <2>2, <2>3 DEF TypeOK, Onward, Ended
  <2>5. \A q \in Requests : Stored(q)' => Stored(q)
    BY <1>2, <2>1, <2>2, <2>3 DEF Stored
  <2>6. \A token \in tokens \ tokens' : LoggedOut(token)'
    BY <1>2, <2>1, <2>3 DEF LoggedOut
  <2>7. \A q \in Requests : LogoutDone(q)' /\ ~LogoutDone(q) => reqs'[q].token \notin tokens'
    BY <2>1, <2>2, <2>3 DEF LogoutDone
  <2>8. StoredKept' /\ StoredOnce' /\ LogoutIsFinal'
    BY <2>1, <2>4, <2>5, <2>6, <2>7, StoredStep
  <2>9. Placed(r)'
    BY <1>1, <1>2, <2>1, <2>3 DEF Placed, Granted, Stored
  <2>10. reqs'[r].token \in Given
    BY <1>2, <2>3 DEF IInv, PresentedWasGiven
  <2>11. RegisteredOnce' /\ PresentedWasGiven' /\ DropsExpired' /\ Places'
    BY <1>2, <2>1, <2>2, <2>3, <2>4, <2>9, <2>10, PlacesStep
  <2> QED
    BY <2>4, <2>8, <2>11 DEF IInv
<1> QED
  BY <1>3, <1>4

-------------------------------------------------------------------------------
\* The steps that are no handler's.
LEMMA SameRequests ==
  ASSUME IInv, TypeOK', now' >= now, UNCHANGED <<users, reqs, done>>,
         tokens' \subseteq tokens, \A token \in tokens \ tokens' : MayBeOver(token)'
  PROVE  IInv'
<1>1. Onward
  BY DEF Onward
<1>2. StoredKept' /\ StoredOnce' /\ LogoutIsFinal'
  <2>1. \A q \in Requests : LogoutDone(q)' => LogoutDone(q)
    BY DEF LogoutDone
  <2> QED
    BY <1>1, <2>1, QuietSessions
<1>3. RegisteredOnce' /\ Places'
  BY DEF IInv, RegisteredOnce, Places, Placed, Granted, Stored
<1>4. PresentedWasGiven'
  BY <1>1, GivenStays DEF IInv, PresentedWasGiven
<1>5. DropsExpired'
  <2> SUFFICES ASSUME NEW q \in Requests, reqs[q].at = "drop"
               PROVE  MayBeOver(reqs[q].token)'
    BY DEF DropsExpired, MayBeOver
  <2>1. reqs[q].token \in Token /\ MayBeOver(reqs[q].token)
    BY DEF IInv, DropsExpired, Places, Placed
  <2> QED
    BY <1>1, <2>1, GivenStays DEF MayBeOver
<1> QED
  BY <1>2, <1>3, <1>4, <1>5 DEF IInv

LEMMA StopKeeps ==
  ASSUME IInv, Stop
  PROVE  IInv'
<1>1. TypeOK
  BY DEF IInv
<1>2. \A q \in Requests :
        reqs'[q] = IF reqs[q].at \in Waiting THEN [reqs[q] EXCEPT !.at = "lost"] ELSE reqs[q]
  BY DEF Stop
<1>3. \A q \in Requests :
        /\ reqs[q] \in Handler /\ reqs'[q] \in Handler
        /\ reqs'[q].op = reqs[q].op /\ reqs'[q].email = reqs[q].email
        /\ reqs'[q].token = reqs[q].token
        /\ reqs'[q].at = IF reqs[q].at \in Waiting THEN "lost" ELSE reqs[q].at
  <2> TAKE q \in Requests
  <2>1. reqs[q] \in Handler
    BY <1>1 DEF TypeOK
  <2>2. CASE reqs[q].at \in Waiting
    <3>1. reqs'[q] = [reqs[q] EXCEPT !.at = "lost"]
      BY <1>2, <2>2
    <3> QED
      BY <2>1, <2>2, <3>1 DEF Handler, Ended
  <2>3. CASE reqs[q].at \notin Waiting
    BY <1>2, <2>1, <2>3
  <2> QED
    BY <2>2, <2>3
<1>4. TypeOK' /\ Onward
  <2>1. reqs' \in [Requests -> Handler]
    BY <1>3 DEF Stop
  <2>2. \A q \in Requests : reqs[q].at \in Ended => reqs'[q] = reqs[q]
    BY <1>2 DEF Waiting, Written, Ended
  <2> QED
    BY <1>1, <1>3, <2>1, <2>2 DEF Stop, TypeOK, Onward
<1>5. \A q \in Requests : (Granted(q)' <=> Granted(q)) /\ (Stored(q)' <=> Stored(q))
  BY <1>3 DEF Granted, Stored, Stop, Waiting, Written
<1>6. StoredKept' /\ StoredOnce' /\ LogoutIsFinal'
  <2>1. \A q \in Requests : LogoutDone(q)' => LogoutDone(q)
    BY <1>3 DEF LogoutDone, Stop
  <2>2. tokens' = tokens /\ done' = done
    BY DEF Stop
  <2> QED
    BY <1>4, <2>1, <2>2, QuietSessions
<1>7. RegisteredOnce'
  BY <1>3 DEF IInv, RegisteredOnce, Stop, Waiting, Written
<1>8. PresentedWasGiven'
  BY <1>3, <1>4, GivenStays DEF IInv, PresentedWasGiven
<1>9. DropsExpired'
  BY <1>3 DEF DropsExpired, Waiting, Written
<1>10. Places'
  <2> SUFFICES ASSUME NEW q \in Requests
               PROVE  Placed(q)'
    BY DEF Places
  <2>1. Placed(q)
    BY DEF IInv, Places
  <2> QED
    BY <1>3, <1>5, <2>1 DEF Placed, Stop, Waiting, Written
<1> QED
  BY <1>4, <1>6, <1>7, <1>8, <1>9, <1>10 DEF IInv

-------------------------------------------------------------------------------
LEMMA InitIInv == Init => IInv
<1> SUFFICES ASSUME Init PROVE IInv
  OBVIOUS
<1>1. Idle \in Handler
  BY DEF Idle, Handler
<1>2. TypeOK
  BY AuthAssumption, <1>1 DEF Init, TypeOK
<1>3. \A r \in Requests : reqs[r].op = "none" /\ reqs[r].at = "idle"
  BY DEF Init, Idle
<1>4. Places
  BY <1>3 DEF Init, Places, Placed, Granted, Stored
<1>5. /\ RegisteredOnce /\ StoredKept /\ StoredOnce
      /\ PresentedWasGiven /\ DropsExpired
  BY <1>3 DEF RegisteredOnce, StoredKept, StoredOnce, PresentedWasGiven, DropsExpired, Stored
<1>6. LogoutIsFinal
  BY DEF Init, LogoutIsFinal
<1> QED
  BY <1>2, <1>4, <1>5, <1>6 DEF IInv

LEMMA AnswerKeeps ==
  ASSUME IInv, NEW r \in Requests, Answer(r)
  PROVE  IInv'
<1>1. TypeOK /\ Placed(r) /\ reqs[r] \in Handler
  BY DEF IInv, Places, TypeOK
<1>2. CASE CreateUser(r)
  <2>1. reqs[r].at = "create"
    BY <1>2 DEF CreateUser
  <2>2. CASE users[reqs[r].email] = Nobody
    BY <1>2, <2>1, <2>2, CreatedKeeps DEF CreateUser
  <2>3. CASE users[reqs[r].email] # Nobody
    BY <1>2, <2>1, <2>3, MoveKeeps DEF CreateUser, Waiting, Written, Ended
  <2> QED
    BY <2>2, <2>3
<1>3. CASE UserCreated(r)
  BY <1>3, IssueKeeps DEF UserCreated
<1>4. CASE Compare(r)
  <2>1. /\ reqs[r].at = "compare" /\ reqs[r].email \in Emails
        /\ users[reqs[r].email] # Nobody
    BY <1>1, <1>4 DEF Compare, Placed
  <2>2. CASE Issue(r, users[reqs[r].email])
    <3>1. users[reqs[r].email] \in Requests
      BY <1>1, <2>1 DEF TypeOK
    <3> QED
      BY <1>4, <2>1, <2>2, <3>1, IssueKeeps DEF Compare
  <2>3. CASE Goes(r, "refused")
    BY <1>4, <2>1, <2>3, MoveKeeps DEF Compare, Waiting, Written, Ended
  <2> QED
    BY <1>4, <2>2, <2>3 DEF Compare
<1>5. CASE StoreToken(r)
  BY <1>5, StoreTokenKeeps
<1>6. CASE TokenStored(r)
  BY <1>6, MoveKeeps DEF TokenStored, Waiting, Written, Ended
<1>7. CASE FindToken(r)
  <2>1. reqs[r].at = "find" /\ reqs[r].op = "refresh" /\ UNCHANGED <<now, users, tokens, done>>
    BY <1>1, <1>7 DEF FindToken, Placed
  <2>2. \/ Goes(r, "refused") \/ Goes(r, "ok")
        \/ MayBeOver(reqs[r].token) /\ Goes(r, "drop")
    BY <1>7 DEF FindToken
  <2> QED
    BY <2>1, <2>2, MoveKeeps DEF Waiting, Written, Ended
<1>8. CASE DropExpired(r)
  <2>1. reqs[r].at = "drop" /\ MayBeOver(reqs[r].token)
    BY <1>8 DEF DropExpired, IInv, DropsExpired
  <2>2. /\ UNCHANGED <<now, users, done>> /\ tokens' = tokens \ {reqs[r].token}
        /\ Goes(r, "dropped") \/ Goes(r, "missing")
    BY <1>8 DEF DropExpired
  <2> QED
    BY <2>1, <2>2, MoveKeeps DEF Waiting, Written, Ended
<1>9. CASE ExpiredDropped(r)
  BY <1>9, MoveKeeps DEF ExpiredDropped, Waiting, Written, Ended
<1>10. CASE DeleteToken(r)
  BY <1>10, DeleteTokenKeeps
<1>11. CASE TokenDeleted(r)
  BY <1>11, MoveKeeps DEF TokenDeleted, Waiting, Written, Ended
<1> QED
  BY <1>2, <1>3, <1>4, <1>5, <1>6, <1>7, <1>8, <1>9, <1>10, <1>11 DEF Answer

LEMMA ArriveKeeps ==
  ASSUME IInv, NEW r \in Requests, Arrive(r)
  PROVE  IInv'
<1>1. CASE \E e \in Emails : Register(r, e)
  BY <1>1, BeginKeeps DEF Register, Waiting
<1>2. CASE \E e \in Emails : Login(r, e)
  BY <1>2, BeginKeeps DEF Login, Waiting
<1>3. Given \subseteq Token
  BY GivenAreTokens
<1>4. CASE \E token \in Given : Refresh(r, token)
  BY <1>3, <1>4, BeginKeeps DEF Refresh, Waiting
<1>5. CASE \E token \in Given : Logout(r, token)
  BY <1>3, <1>5, BeginKeeps DEF Logout, Waiting
<1> QED
  BY <1>1, <1>2, <1>4, <1>5 DEF Arrive

LEMMA NextIInv == IInv /\ [Next]_vars => IInv'
<1> SUFFICES ASSUME IInv, [Next]_vars PROVE IInv'
  OBVIOUS
<1>1. TypeOK
  BY DEF IInv
<1>2. CASE Tick
  <2>1. TypeOK' /\ now' >= now
    BY <1>1, <1>2, AuthAssumption DEF Tick, TypeOK
  <2> QED
    BY <1>2, <2>1, SameRequests DEF Tick
<1>3. CASE Cleanup
  <2>1. /\ tokens' \subseteq tokens /\ \A token \in tokens \ tokens' : MayBeOver(token)
        /\ UNCHANGED <<now, users, reqs, done>>
    BY <1>3 DEF Cleanup
  <2>2. TypeOK' /\ now' >= now /\ \A token \in tokens \ tokens' : MayBeOver(token)'
    BY <1>1, <2>1, AuthAssumption DEF TypeOK, MayBeOver
  <2> QED
    BY <2>1, <2>2, SameRequests
<1>4. CASE Stop
  BY <1>4, StopKeeps
<1>5. CASE \E r \in Requests : Arrive(r)
  BY <1>5, ArriveKeeps
<1>6. CASE \E r \in Requests : Answer(r)
  BY <1>6, AnswerKeeps
<1>7. CASE \E r \in Requests : DatabaseFails(r)
  <2>1. PICK r \in Requests : DatabaseFails(r)
    BY <1>7
  <2>2. /\ reqs[r].at \in Waiting /\ UNCHANGED <<now, users, tokens, done>>
        /\ Goes(r, "swallowed") \/ Goes(r, "error")
    BY <2>1 DEF DatabaseFails
  <2> QED
    BY <2>2, MoveKeeps DEF Waiting, Written, Ended
<1>8. CASE UNCHANGED vars
  <2>1. TypeOK' /\ now' >= now /\ UNCHANGED <<now, users, tokens, reqs, done>>
    BY <1>1, <1>8, AuthAssumption DEF vars, TypeOK
  <2> QED
    BY <2>1, SameRequests
<1> QED
  BY <1>2, <1>3, <1>4, <1>5, <1>6, <1>7, <1>8 DEF Next

LEMMA Inductive == Spec => []IInv
<1> QED
  BY InitIInv, NextIInv, PTL DEF Spec

\* The accounts, the tokens and the handlers' variables keep their types, whatever fails.
THEOREM TypeCorrect == Spec => []TypeOK
<1>1. IInv => TypeOK
  BY DEF IInv
<1> QED
  BY <1>1, Inductive, PTL

\* A registration that goes on to its token owns the account of its e-mail: of
\* concurrent registrations one at most succeeds (register-user.usecase.ts).
THEOREM RegisteredOnceHolds == Spec => []RegisteredOnce
<1>1. IInv => RegisteredOnce
  BY DEF IInv
<1> QED
  BY <1>1, Inductive, PTL

\* What holds of the tokens that were stored holds of those that clients were given.
LEMMA GivenWereStored ==
  ASSUME IInv
  PROVE  SessionsKept /\ OwnSession
<1>1. \A r \in Requests : Granted(r) => Stored(r)
  BY DEF Granted, Stored, IInv, Places, Placed
<1>2. SessionsKept
  BY <1>1 DEF SessionsKept, IInv, StoredKept
<1>3. OwnSession
  BY <1>1 DEF OwnSession, IInv, StoredOnce
<1> QED
  BY <1>2, <1>3

\* A refresh token that was given to a client is in its table until a logout has deleted
\* it or it is over, whatever fails before or after its effect (login-user.usecase.ts,
\* refresh-access-token.usecase.ts, logout-user.usecase.ts).
THEOREM SessionsKeptHolds == Spec => []SessionsKept
<1>1. IInv => SessionsKept
  BY GivenWereStored
<1> QED
  BY <1>1, Inductive, PTL

\* Two clients are given one token only if a logout deleted it in between, answered or
\* not, or it is over.
THEOREM OwnSessionHolds == Spec => []OwnSession
<1>1. IInv => OwnSession
  BY GivenWereStored
<1> QED
  BY <1>1, Inductive, PTL

\* A token that a logout deleted, or that a logout was answered for without an error of
\* the database, is in its table only if two requests have stored it.
THEOREM LogoutIsFinalHolds == Spec => []LogoutIsFinal
<1>1. IInv => LogoutIsFinal
  BY DEF IInv
<1> QED
  BY <1>1, Inductive, PTL
================================================================================
