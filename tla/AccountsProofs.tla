---------------------------- MODULE AccountsProofs ----------------------------
(***************************************************************************)
(* Proofs about Accounts, for any number of accounts, tabs, browsers,      *)
(* sessions and versions.                                                  *)
(*                                                                         *)
(* All of it rests on copies: what a form, a request or a session has of   *)
(* an account is an earlier version of it, and a copy with the account's   *)
(* revision is the account (EarlierOf).  A change of an account advances   *)
(* its revision, so no copy of the version before passes for the new one.  *)
(***************************************************************************)
EXTENDS Accounts, TLAPS

\* A copy that was taken of an account, which is "row" now.
EarlierOf(row, base) ==
    /\ base.revision <= row.revision
    /\ base.revision = row.revision => base = row

SessionOK(id) ==
    /\ sessions[id].user \in Names
    /\ sessions[id].revision = account[sessions[id].user].revision
         => sessions[id].opened = account[sessions[id].user].password

\* The page of a session that is live shows the user of that session.
TabOK(t) ==
    /\ tab[t].token \in 0 .. issued
    /\ tab[t].token \in DOMAIN sessions => tab[t].user = sessions[tab[t].token].user

FormOK(t) ==
    form[t] # None =>
        /\ form[t].name \in Names /\ form[t].base \in Row
        /\ EarlierOf(account[form[t].name], form[t].base)

\* What a request has of the account it is about.
Compared(r) ==
    /\ r.kind \in {"login", "save", "password"}
    /\ r.name \in Names /\ r.base \in Row
    /\ r.actor = r.shown
    /\ r.kind = "login" => r.base.revision > 0 /\ r.change.password = r.base.password
    /\ r.kind = "save" => r.change \in Changes /\ (r.base.revision = 0 => r.change.password # NoPassword)
    /\ r.kind = "password" =>
         /\ r.actor = r.name /\ r.base.revision > 0
         /\ r.change.old = r.base.password /\ r.change.password \in Passwords

RequestOK(t) ==
    request[t] # None =>
        Compared(request[t]) /\ EarlierOf(account[request[t].name], request[t].base)

IInv ==
    /\ TypeOK
    /\ \A id \in DOMAIN sessions : SessionOK(id)
    /\ \A t \in Tabs : TabOK(t) /\ FormOK(t) /\ RequestOK(t)
    /\ AdminRemains

-----------------------------------------------------------------------------
(***************************************************************************)
(* Copies and the changes of an account.                                   *)
(***************************************************************************)

\* A change of some account, which advances its revision.
Advances(u) ==
    /\ account' \in [Names -> Row]
    /\ account'[u].revision = account[u].revision + 1
    /\ \A v \in Names \ {u} : account'[v] = account[v]

\* No copy passes for a version stored later.
LEMMA CopiesAge ==
    ASSUME TypeOK, NEW u \in Names, Advances(u),
           NEW v \in Names, NEW base \in Row, EarlierOf(account[v], base)
    PROVE  EarlierOf(account'[v], base)
<1>1. account[v].revision \in Nat /\ base.revision \in Nat
  BY DEF TypeOK, Row
<1>2. CASE v = u
  BY <1>1, <1>2 DEF EarlierOf, Advances
<1>3. CASE v # u
  BY <1>3 DEF EarlierOf, Advances
<1> QED BY <1>2, <1>3

\* Forms that stay, with accounts that stay or advance, are all right still.
LEMMA FormsKept ==
    ASSUME IInv, NEW t \in Tabs, form'[t] \in {form[t], None},
           UNCHANGED account \/ \E u \in Names : Advances(u)
    PROVE  FormOK(t)'
<1> SUFFICES ASSUME form'[t] # None PROVE FormOK(t)'
  BY DEF FormOK
<1>1. form'[t] = form[t] /\ FormOK(t)
  BY DEF IInv
<1>2. CASE UNCHANGED account
  BY <1>1, <1>2 DEF FormOK
<1>3. CASE \E u \in Names : Advances(u)
  <2>1. PICK u \in Names : Advances(u)
    BY <1>3
  <2>2. EarlierOf(account'[form[t].name], form[t].base)
    BY <1>1, <2>1, CopiesAge DEF FormOK, IInv
  <2> QED BY <1>1, <2>2 DEF FormOK
<1> QED BY <1>2, <1>3

LEMMA RequestsKept ==
    ASSUME IInv, NEW t \in Tabs, request'[t] \in {request[t], None},
           UNCHANGED account \/ \E u \in Names : Advances(u)
    PROVE  RequestOK(t)'
<1> SUFFICES ASSUME request'[t] # None PROVE RequestOK(t)'
  BY DEF RequestOK
<1>1. request'[t] = request[t] /\ RequestOK(t)
  BY DEF IInv
<1>2. CASE UNCHANGED account
  BY <1>1, <1>2 DEF RequestOK
<1>3. CASE \E u \in Names : Advances(u)
  <2>1. PICK u \in Names : Advances(u)
    BY <1>3
  <2>2. EarlierOf(account'[request[t].name], request[t].base)
    BY <1>1, <2>1, CopiesAge DEF RequestOK, Compared, IInv
  <2> QED BY <1>1, <2>2 DEF RequestOK
<1> QED BY <1>2, <1>3

\* Sessions that stay are all right still: their accounts have the revision of
\* the sign-in, or a later one for ever.
LEMMA SessionsKept ==
    ASSUME IInv, NEW id \in DOMAIN sessions, id \in DOMAIN sessions', sessions'[id] = sessions[id],
           UNCHANGED account \/ \E u \in Names : Advances(u)
    PROVE  /\ SessionOK(id)'
           /\ sessions'[id].user \in Names
           /\ sessions'[id].revision \in 1 .. account'[sessions'[id].user].revision
<1>1. /\ SessionOK(id) /\ sessions[id].user \in Names
      /\ sessions[id].revision \in 1 .. account[sessions[id].user].revision
      /\ \A u \in Names : account[u].revision \in Nat
  BY DEF IInv, TypeOK, Row
<1>2. CASE UNCHANGED account
  BY <1>1, <1>2 DEF SessionOK
<1>3. CASE \E u \in Names : Advances(u)
  <2>1. PICK u \in Names : Advances(u)
    BY <1>3
  <2>2. CASE sessions[id].user = u
    BY <1>1, <2>1, <2>2 DEF SessionOK, Advances
  <2>3. CASE sessions[id].user # u
    BY <1>1, <2>1, <2>3 DEF SessionOK, Advances
  <2> QED BY <2>2, <2>3
<1> QED BY <1>2, <1>3

-----------------------------------------------------------------------------
(***************************************************************************)
(* The invariant is inductive.                                             *)
(***************************************************************************)

LEMMA InitIInv == Init => IInv
<1> SUFFICES ASSUME Init PROVE IInv
  OBVIOUS
<1>1. PICK made \in (SUBSET Names) \ {{}} :
        account = [u \in Names |->
            IF u \in made THEN [revision |-> 1, roles |-> {"admin"}, enabled |-> TRUE,
                                must |-> FALSE, password |-> First]
            ELSE NoRow]
  BY DEF Init
<1>2. \A u \in Names : account[u] \in Row /\ (account[u].revision = 0 <=> account[u] = NoRow)
  <2> TAKE u \in Names
  <2>1. CASE u \in made
    BY <1>1, <2>1, AccountsAssumption DEF Row, NoRow, Roles
  <2>2. CASE u \notin made
    BY <1>1, <2>2, AccountsAssumption DEF Row, NoRow, Roles
  <2> QED BY <2>1, <2>2
<1>3. account \in [Names -> Row]
  BY <1>1, <1>2
<1>4. sessions = << >> /\ DOMAIN sessions = {} /\ issued = 0
  BY DEF Init
<1>5. TypeOK
  <2>1. issued \in 0 .. MaxSessions /\ cookie \in [Browsers -> 0 .. issued]
    BY <1>4, AccountsAssumption DEF Init
  <2>2. /\ browser \in [Tabs -> Browsers]
        /\ DOMAIN tab = Tabs /\ DOMAIN form = Tabs /\ DOMAIN request = Tabs
        /\ \A t \in Tabs : form[t] = None
    BY DEF Init
  <2>3. DOMAIN sessions \subseteq 1 .. issued
    BY <1>4
  <2> QED BY <1>2, <1>3, <1>4, <2>1, <2>2, <2>3 DEF TypeOK
<1>6. \A t \in Tabs : TabOK(t) /\ FormOK(t) /\ RequestOK(t)
  BY <1>4 DEF Init, TabOK, FormOK, RequestOK, SignIn
<1>7. AdminRemains
  <2>1. PICK u \in made : TRUE
    BY <1>1
  <2> QED BY <1>1, <2>1 DEF AdminRemains, IsAdmin
<1> QED BY <1>4, <1>5, <1>6, <1>7 DEF IInv

\* Steps that leave the accounts and the sessions alone.
LEMMA Quiet ==
    ASSUME IInv, UNCHANGED <<account, sessions, issued, browser, cookie>>,
           DOMAIN tab' = Tabs, DOMAIN form' = Tabs, DOMAIN request' = Tabs,
           \A t \in Tabs : TabOK(t)' /\ FormOK(t)' /\ RequestOK(t)',
           \A t \in Tabs : form'[t] # None => Administering(t)'
    PROVE  IInv'
<1>1. TypeOK'
  BY DEF IInv, TypeOK
<1>2. \A id \in DOMAIN sessions' : SessionOK(id)'
  BY SessionsKept
<1>3. AdminRemains'
  BY DEF IInv, AdminRemains, IsAdmin
<1> QED BY <1>1, <1>2, <1>3 DEF IInv

\* Another page in a tab: the forms that stay, stay on the page of administration.
LEMMA Turned ==
    ASSUME IInv, NEW t \in Tabs, NEW view, Show(t, view)
    PROVE  /\ DOMAIN tab' = Tabs /\ DOMAIN form' = Tabs
           /\ tab'[t] = view /\ \A s \in Tabs \ {t} : tab'[s] = tab[s]
           /\ \A s \in Tabs : form'[s] \in {form[s], None}
           /\ \A s \in Tabs : form'[s] # None => Administering(s)'
<1>1. /\ DOMAIN tab = Tabs /\ DOMAIN form = Tabs
      /\ \A s \in Tabs : form[s] # None => Administering(s)
  BY DEF IInv, TypeOK
<1> QED BY <1>1 DEF Show, Administering

LEMMA Reloaded ==
    ASSUME IInv, NEW t \in Tabs, Reload(t)
    PROVE  /\ DOMAIN tab' = Tabs /\ DOMAIN form' = Tabs
           /\ tab'[t] = SignIn /\ \A s \in Tabs \ {t} : tab'[s] = tab[s]
           /\ \A s \in Tabs : form'[s] \in {form[s], None}
           /\ \A s \in Tabs : form'[s] # None => Administering(s)'
<1>1. /\ DOMAIN tab = Tabs /\ DOMAIN form = Tabs
      /\ \A s \in Tabs : form[s] # None => Administering(s)
  BY DEF IInv, TypeOK
<1> QED BY <1>1 DEF Reload, Administering

\* The sign-in names no session, so it is all right whatever sessions there are.
LEMMA SignInOK ==
    ASSUME NEW t \in Tabs, tab[t] = SignIn, issued \in Nat, DOMAIN sessions \subseteq 1 .. issued
    PROVE  TabOK(t)
<1>1. tab[t].token = 0 /\ 0 \notin DOMAIN sessions /\ 0 \in 0 .. issued
  BY DEF SignIn
<1> QED BY <1>1 DEF TabOK

\* Tabs that do not change, while sessions end or are opened.
LEMMA TabsKept ==
    ASSUME IInv, NEW t \in Tabs, tab'[t] = tab[t],
           issued' \in Nat, issued' >= issued,
           \A id \in DOMAIN sessions' :
              (id \in DOMAIN sessions /\ sessions'[id] = sessions[id]) \/ id > issued
    PROVE  TabOK(t)'
<1>1. TabOK(t) /\ issued \in Nat
  BY AccountsAssumption DEF IInv, TypeOK
<1>2. tab[t].token \in 0 .. issued' /\ ~(tab[t].token > issued)
  BY <1>1 DEF TabOK
<1> QED BY <1>1, <1>2 DEF TabOK

LEMMA StepFetchSession ==
    ASSUME IInv, NEW t \in Tabs, FetchSession(t) PROVE IInv'
<1>1. UNCHANGED <<account, sessions, issued, browser, cookie, request>>
  BY DEF FetchSession
<1>2. /\ DOMAIN sessions \subseteq 1 .. issued /\ issued \in Nat /\ DOMAIN request = Tabs
  BY AccountsAssumption DEF IInv, TypeOK
<1> DEFINE id == Here(t)
           u == sessions[id].user
           Page == [page |-> PageFor(u), user |-> u, roles |-> account[u].roles, token |-> id]
<1>3. CASE Current(id)
  <2>1. Show(t, Page)
    BY <1>3 DEF FetchSession
  <2>2. TabOK(t)'
    <3>1. tab'[t].token = id /\ tab'[t].user = u
      BY <2>1, Turned
    <3>2. id \in 0 .. issued
      BY <1>2, <1>3 DEF Current
    <3> QED BY <1>1, <3>1, <3>2 DEF TabOK
  <2>3. \A s \in Tabs : TabOK(s)' /\ FormOK(s)' /\ RequestOK(s)'
    BY <1>1, <1>2, <2>1, <2>2, Turned, TabsKept, FormsKept, RequestsKept
  <2> QED BY <1>1, <1>2, <2>1, <2>3, Turned, Quiet
<1>4. CASE ~Current(id)
  <2>1. Show(t, SignIn)
    BY <1>4 DEF FetchSession
  <2>2. TabOK(t)'
    BY <1>1, <1>2, <2>1, Turned DEF SignIn, TabOK
  <2>3. \A s \in Tabs : TabOK(s)' /\ FormOK(s)' /\ RequestOK(s)'
    BY <1>1, <1>2, <2>1, <2>2, Turned, TabsKept, FormsKept, RequestsKept
  <2> QED BY <1>1, <1>2, <2>1, <2>3, Turned, Quiet
<1> QED BY <1>3, <1>4

\* A tab is reloaded, and nothing else happens.
LEMMA StepReload ==
    ASSUME IInv, NEW t \in Tabs, Reload(t),
           UNCHANGED <<account, sessions, issued, browser, cookie, request>>
    PROVE  IInv'
<1>1. /\ DOMAIN sessions \subseteq 1 .. issued /\ issued \in Nat /\ DOMAIN request = Tabs
  BY AccountsAssumption DEF IInv, TypeOK
<1>2. TabOK(t)'
  BY <1>1, Reloaded DEF SignIn, TabOK
<1>3. \A s \in Tabs : TabOK(s)' /\ FormOK(s)' /\ RequestOK(s)'
  BY <1>1, <1>2, Reloaded, TabsKept, FormsKept, RequestsKept
<1> QED BY <1>1, <1>3, Reloaded, Quiet

\* A request is sent that has what it needs of an account as it is.
LEMMA StepSend ==
    ASSUME IInv, NEW t \in Tabs, NEW r, Send(t, r), Compared(r),
           EarlierOf(account[r.name], r.base),
           UNCHANGED <<account, sessions, issued, browser, cookie, tab, form>>
    PROVE  IInv'
<1>1. /\ DOMAIN request' = Tabs /\ request'[t] = r
      /\ \A s \in Tabs \ {t} : request'[s] = request[s]
      /\ DOMAIN tab = Tabs /\ DOMAIN form = Tabs
      /\ issued \in Nat
      /\ \A s \in Tabs : form[s] # None => Administering(s)
  BY AccountsAssumption DEF IInv, TypeOK, Send
<1>2. RequestOK(t)'
  BY <1>1 DEF RequestOK
<1>3. \A s \in Tabs : TabOK(s)' /\ FormOK(s)' /\ RequestOK(s)'
  BY <1>1, <1>2, TabsKept, FormsKept, RequestsKept
<1> QED BY <1>1, <1>3, Quiet DEF Administering

LEMMA StepLose ==
    ASSUME IInv, NEW t \in Tabs, Lose(t) PROVE IInv'
<1>1. /\ DOMAIN request' = Tabs /\ \A s \in Tabs : request'[s] \in {request[s], None}
      /\ DOMAIN tab = Tabs /\ DOMAIN form = Tabs
      /\ issued \in Nat
      /\ \A s \in Tabs : form[s] # None => Administering(s)
      /\ UNCHANGED <<account, sessions, issued, browser, cookie, tab, form>>
  BY AccountsAssumption DEF IInv, TypeOK, Lose, Dropped
<1>2. \A s \in Tabs : TabOK(s)' /\ FormOK(s)' /\ RequestOK(s)'
  BY <1>1, TabsKept, FormsKept, RequestsKept
<1> QED BY <1>1, <1>2, Quiet DEF Administering

-----------------------------------------------------------------------------
(***************************************************************************)
(* Sessions.                                                               *)
(***************************************************************************)

\* A session that ends takes its cookie along.
LEMMA Ended ==
    ASSUME IInv, NEW id, End(id)
    PROVE  /\ cookie' \in [Browsers -> 0 .. issued]
           /\ DOMAIN sessions' \subseteq DOMAIN sessions
           /\ \A s \in DOMAIN sessions' : sessions'[s] = sessions[s]
<1>1. cookie \in [Browsers -> 0 .. issued] /\ issued \in Nat
  BY AccountsAssumption DEF IInv, TypeOK
<1> QED BY <1>1 DEF End

\* Sessions end, and accounts stay or one of them advances.
LEMMA SessionsShrink ==
    ASSUME IInv,
           account' \in [Names -> Row],
           \A u \in Names : account'[u].revision = 0 <=> account'[u] = NoRow,
           AdminRemains',
           UNCHANGED account \/ \E u \in Names : Advances(u),
           cookie' \in [Browsers -> 0 .. issued],
           DOMAIN sessions' \subseteq DOMAIN sessions,
           \A id \in DOMAIN sessions' : sessions'[id] = sessions[id],
           UNCHANGED <<issued, browser>>,
           DOMAIN tab' = Tabs, DOMAIN form' = Tabs, DOMAIN request' = Tabs,
           \A t \in Tabs : form'[t] # None => Administering(t)',
           \A t \in Tabs : tab'[t] \in {tab[t], SignIn},
           \A t \in Tabs : form'[t] \in {form[t], None},
           \A t \in Tabs : request'[t] \in {request[t], None}
    PROVE  IInv'
<1>1. DOMAIN sessions \subseteq 1 .. issued /\ issued \in 0 .. MaxSessions /\ issued \in Nat
  BY AccountsAssumption DEF IInv, TypeOK
<1>2. \A id \in DOMAIN sessions' :
        /\ SessionOK(id)'
        /\ sessions'[id].user \in Names
        /\ sessions'[id].revision \in 1 .. account'[sessions'[id].user].revision
  BY SessionsKept
<1>3. browser' \in [Tabs -> Browsers]
  BY DEF IInv, TypeOK
<1>4. TypeOK'
  BY <1>1, <1>2, <1>3 DEF TypeOK
<1>5. \A t \in Tabs : TabOK(t)'
  <2> TAKE t \in Tabs
  <2>1. CASE tab'[t] = tab[t]
    BY <1>1, <2>1, TabsKept
  <2>2. CASE tab'[t] = SignIn
    BY <1>1, <2>2 DEF SignIn, TabOK
  <2> QED BY <2>1, <2>2
<1>6. \A t \in Tabs : FormOK(t)' /\ RequestOK(t)'
  BY FormsKept, RequestsKept
<1> QED BY <1>2, <1>4, <1>5, <1>6 DEF IInv

LEMMA StepSessionEnds ==
    ASSUME IInv, SessionEnds PROVE IInv'
<1>1. PICK id \in DOMAIN sessions : End(id)
  BY DEF SessionEnds
<1>2. UNCHANGED <<account, issued, browser, tab, form, request>>
  BY DEF SessionEnds
<1>3. /\ account' \in [Names -> Row] /\ AdminRemains'
      /\ \A u \in Names : account'[u].revision = 0 <=> account'[u] = NoRow
      /\ DOMAIN tab' = Tabs /\ DOMAIN form' = Tabs /\ DOMAIN request' = Tabs
      /\ \A t \in Tabs : form'[t] # None => Administering(t)'
  BY <1>2 DEF IInv, TypeOK, AdminRemains, IsAdmin, Administering
<1> QED BY <1>1, <1>2, <1>3, Ended, SessionsShrink

LEMMA StepLogout ==
    ASSUME IInv, NEW t \in Tabs, logout(t) PROVE IInv'
<1>1. UNCHANGED <<account, issued, browser, request>> /\ Reload(t)
  BY DEF logout
<1>2. /\ account' \in [Names -> Row] /\ AdminRemains'
      /\ \A u \in Names : account'[u].revision = 0 <=> account'[u] = NoRow
      /\ DOMAIN request' = Tabs /\ cookie \in [Browsers -> 0 .. issued]
  BY <1>1 DEF IInv, TypeOK, AdminRemains, IsAdmin
<1>3. /\ cookie' \in [Browsers -> 0 .. issued]
      /\ DOMAIN sessions' \subseteq DOMAIN sessions
      /\ \A id \in DOMAIN sessions' : sessions'[id] = sessions[id]
  <2>1. CASE End(Here(t))
    BY <2>1, Ended
  <2>2. CASE UNCHANGED <<sessions, cookie>>
    BY <1>2, <2>2
  <2> QED BY <2>1, <2>2 DEF logout
<1>4. \A s \in Tabs : tab'[s] \in {tab[s], SignIn}
  BY <1>1, Reloaded
<1> QED BY <1>1, <1>2, <1>3, <1>4, Reloaded, SessionsShrink

\* A session is opened for what the sign-in has read of the account.
LEMMA StepEstablish ==
    ASSUME IInv, NEW t \in Tabs, Establish(t) PROVE IInv'
<1> DEFINE r == request[t]
           new == issued + 1
<1>1. /\ UNCHANGED <<account, browser, tab, form>>
      /\ issued' = new /\ issued < MaxSessions
      /\ sessions' = [id \in DOMAIN sessions \cup {new} |->
           IF id = new
           THEN [user |-> r.name, revision |-> r.base.revision, opened |-> r.change.password]
           ELSE sessions[id]]
      /\ cookie' \in {cookie, [cookie EXCEPT ![browser[t]] = new]}
      /\ request' = [request EXCEPT ![t] = None]
  BY DEF Establish, Dropped
<1>2. /\ issued \in Nat /\ DOMAIN sessions \subseteq 1 .. issued
      /\ cookie \in [Browsers -> 0 .. issued] /\ account \in [Names -> Row]
      /\ DOMAIN request = Tabs
  BY AccountsAssumption DEF IInv, TypeOK
<1>3. /\ r.name \in Names /\ r.base \in Row /\ EarlierOf(account[r.name], r.base)
      /\ r.base.revision > 0 /\ r.change.password = r.base.password
  BY DEF IInv, RequestOK, Compared, Establish, Under
<1>4. /\ new \in DOMAIN sessions' /\ new \notin DOMAIN sessions
      /\ sessions'[new].user = r.name /\ sessions'[new].revision = r.base.revision
      /\ sessions'[new].opened = r.change.password
      /\ DOMAIN sessions' = DOMAIN sessions \cup {new}
      /\ \A id \in DOMAIN sessions : sessions'[id] = sessions[id]
  BY <1>1, <1>2
<1>5. /\ SessionOK(issued)'
      /\ sessions'[new].revision \in 1 .. account'[sessions'[new].user].revision
  <2>1. r.base.revision \in Nat /\ account[r.name].revision \in Nat
    BY <1>2, <1>3 DEF Row
  <2>2. /\ r.base.revision <= account[r.name].revision
        /\ r.base.revision = account[r.name].revision => r.base = account[r.name]
    BY <1>3 DEF EarlierOf
  <2>3. account' = account
    BY <1>1
  <2>4. r.base.revision \in 1 .. account[r.name].revision
    BY <1>3, <2>1, <2>2
  <2>5. SessionOK(issued)'
    BY <1>1, <1>3, <1>4, <2>2, <2>3 DEF SessionOK
  <2> QED BY <1>4, <2>3, <2>4, <2>5
<1>6. \A id \in DOMAIN sessions' :
        /\ SessionOK(id)' /\ sessions'[id].user \in Names
        /\ sessions'[id].revision \in 1 .. account'[sessions'[id].user].revision
  <2> TAKE id \in DOMAIN sessions'
  <2>1. CASE id = new
    BY <1>1, <1>3, <1>4, <1>5, <2>1
  <2>2. CASE id # new
    <3>1. id \in DOMAIN sessions /\ sessions'[id] = sessions[id] /\ UNCHANGED account
      BY <1>1, <1>4, <2>2
    <3> QED BY <3>1, SessionsKept
  <2> QED BY <2>1, <2>2
<1>7. /\ issued' \in 0 .. MaxSessions /\ DOMAIN sessions' \subseteq 1 .. issued'
      /\ cookie' \in [Browsers -> 0 .. issued']
  <2>1. issued' \in 0 .. MaxSessions /\ 0 .. issued \subseteq 0 .. issued' /\ new \in 0 .. issued'
    BY <1>1, <1>2, AccountsAssumption
  <2>2. cookie \in [Browsers -> 0 .. issued']
    BY <1>2, <2>1
  <2>3. DOMAIN sessions' \subseteq 1 .. issued'
    BY <1>1, <1>2, <1>4
  <2> QED BY <1>1, <2>1, <2>2, <2>3
<1>8. TypeOK'
  BY <1>1, <1>2, <1>6, <1>7 DEF IInv, TypeOK, Administering
<1>9. \A s \in Tabs : TabOK(s)' /\ FormOK(s)' /\ RequestOK(s)'
  <2> TAKE s \in Tabs
  <2>1. TabOK(s)'
    BY <1>1, <1>2, <1>4, TabsKept
  <2> QED BY <1>1, <1>2, <2>1, FormsKept, RequestsKept
<1>10. AdminRemains'
  BY <1>1 DEF IInv, AdminRemains, IsAdmin
<1> QED BY <1>6, <1>8, <1>9, <1>10 DEF IInv

-----------------------------------------------------------------------------
(***************************************************************************)
(* Requests are sent.                                                      *)
(***************************************************************************)

\* Whoever the session is for, is who the page is for.
LEMMA ShownIsUser ==
    ASSUME IInv, NEW t \in Tabs, Verified(Here(t), tab[t].token)
    PROVE  /\ Here(t) \in DOMAIN sessions
           /\ sessions[Here(t)].user \in Names
           /\ account[sessions[Here(t)].user].enabled
           /\ tab[t].user = sessions[Here(t)].user
BY DEF IInv, TypeOK, TabOK, Verified, Current

\* An account with a right was made.
LEMMA EnabledIsMade ==
    ASSUME TypeOK, NEW u \in Names, account[u].enabled
    PROVE  /\ account[u] \in Row /\ account[u].revision > 0
           /\ EarlierOf(account[u], account[u])
<1>1. account[u] \in Row /\ account[u] # NoRow
  BY DEF TypeOK, NoRow
<1> QED BY <1>1 DEF TypeOK, Row, EarlierOf

LEMMA StepLogin ==
    ASSUME IInv, NEW t \in Tabs, NEW u \in Names, NEW p \in Passwords, login(t, u, p)
    PROVE  IInv'
<1> DEFINE r == [kind |-> "login", name |-> u, base |-> account[u], change |-> [password |-> p],
                 cookie |-> 0, shown |-> u, actor |-> u]
<1>1. /\ Send(t, r) /\ account[u].enabled /\ account[u].password = p
      /\ UNCHANGED <<account, sessions, issued, browser, cookie, tab, form>>
  BY DEF login
<1>2. Compared(r) /\ EarlierOf(account[r.name], r.base)
  BY <1>1, EnabledIsMade DEF IInv, Compared
<1> HIDE DEF r
<1> QED BY <1>1, <1>2, StepSend

LEMMA StepSendSave ==
    ASSUME IInv, NEW t \in Tabs, NEW change \in Changes, save(t, change)
    PROVE  IInv'
<1> DEFINE id == Here(t)
           u == sessions[id].user
           r == [kind |-> "save", name |-> form[t].name, base |-> form[t].base,
                 change |-> change, cookie |-> id, shown |-> tab[t].user, actor |-> u]
<1>1. CASE ~Current(id)
  BY <1>1, StepReload DEF save
<1>2. CASE Current(id)
  <2>1. /\ Send(t, r) /\ Verified(id, tab[t].token) /\ form[t] # None
        /\ form[t].base.revision = 0 => change.password # NoPassword
        /\ UNCHANGED <<account, sessions, issued, browser, cookie, tab, form>>
    BY <1>2 DEF save
  <2>2. FormOK(t)
    BY DEF IInv
  <2>3. Compared(r) /\ EarlierOf(account[r.name], r.base)
    BY <2>1, <2>2, ShownIsUser DEF FormOK, Compared
  <2> HIDE DEF r
  <2> QED BY <2>1, <2>3, StepSend
<1> QED BY <1>1, <1>2

LEMMA StepSendPassword ==
    ASSUME IInv, NEW t \in Tabs, NEW old \in Passwords, NEW next \in Passwords,
           changePassword(t, old, next)
    PROVE  IInv'
<1> DEFINE u == sessions[Here(t)].user
           r == [kind |-> "password", name |-> u, base |-> account[u],
                 change |-> [old |-> old, password |-> next],
                 cookie |-> Here(t), shown |-> tab[t].user, actor |-> u]
<1>1. /\ Send(t, r) /\ Verified(Here(t), tab[t].token) /\ account[u].password = old
      /\ UNCHANGED <<account, sessions, issued, browser, cookie, tab, form>>
  BY DEF changePassword
<1>2. u \in Names /\ account[u].enabled /\ tab[t].user = u
  BY <1>1, ShownIsUser
<1>3. account[u] \in Row /\ account[u].revision > 0 /\ EarlierOf(account[u], account[u])
  BY <1>2, EnabledIsMade DEF IInv
<1>4. Compared(r) /\ EarlierOf(account[r.name], r.base)
  BY <1>1, <1>2, <1>3 DEF Compared
<1> HIDE DEF r
<1> QED BY <1>1, <1>4, StepSend

LEMMA StepEdit ==
    ASSUME IInv, NEW t \in Tabs, NEW u \in Names, Edit(t, u) PROVE IInv'
<1>1. /\ DOMAIN tab = Tabs /\ DOMAIN form = Tabs /\ DOMAIN request = Tabs /\ issued \in Nat
      /\ account[u] \in Row /\ account[u].revision \in Nat
      /\ \A s \in Tabs : form[s] # None => Administering(s)
  BY AccountsAssumption DEF IInv, TypeOK, Row
<1>2. /\ form' = [form EXCEPT ![t] = [name |-> u, base |-> account[u]]]
      /\ Administering(t)
      /\ UNCHANGED <<account, sessions, issued, browser, cookie, tab, request>>
  BY DEF Edit
<1>3. FormOK(t)'
  BY <1>1, <1>2 DEF FormOK, EarlierOf
<1>4. \A s \in Tabs : TabOK(s)' /\ FormOK(s)' /\ RequestOK(s)'
  BY <1>1, <1>2, <1>3, TabsKept, FormsKept, RequestsKept
<1>5. DOMAIN form' = Tabs /\ \A s \in Tabs : form'[s] # None => Administering(s)'
  BY <1>1, <1>2 DEF Administering
<1> QED BY <1>1, <1>2, <1>4, <1>5, Quiet

-----------------------------------------------------------------------------
(***************************************************************************)
(* Accounts change.                                                        *)
(***************************************************************************)

\* What SaveUser makes of an account.
Saved(row, change) ==
    [revision |-> row.revision + 1, roles |-> change.roles, enabled |-> change.enabled,
     must |-> row.must \/ change.password # NoPassword,
     password |-> IF change.password = NoPassword THEN row.password ELSE change.password]

LEMMA SaveAdvances ==
    ASSUME IInv, NEW u \in Names, NEW base \in Row, NEW change \in Changes,
           EarlierOf(account[u], base), SaveUser(u, base, change)
    PROVE  /\ Advances(u) /\ AdminRemains'
           /\ base = account[u] /\ account'[u] = Saved(account[u], change)
           /\ \A v \in Names : account'[v].revision = 0 <=> account'[v] = NoRow
<1>1. /\ account \in [Names -> Row] /\ account[u] \in Row /\ account[u].revision \in Nat
      /\ \A v \in Names : account[v].revision = 0 <=> account[v] = NoRow
      /\ change \in [roles : (SUBSET Roles) \ {{}}, enabled : BOOLEAN,
                     password : Passwords \cup {NoPassword}]
  BY AccountsAssumption DEF IInv, TypeOK, Row
<1>2. account' = [account EXCEPT ![u] = Saved(account[u], change)]
  BY DEF SaveUser, Saved
<1>3. base = account[u]
  BY DEF SaveUser, EarlierOf
<1>4. Saved(account[u], change) \in Row
  BY <1>1 DEF Saved, Row
<1>5. Advances(u) /\ account'[u] = Saved(account[u], change)
  BY <1>1, <1>2, <1>4 DEF Saved, Advances
<1>6. \A v \in Names : account'[v].revision = 0 <=> account'[v] = NoRow
  <2>1. account'[u].revision # 0 /\ NoRow.revision = 0
    BY <1>1, <1>5 DEF Advances, NoRow
  <2> QED BY <1>1, <1>5, <2>1 DEF Advances
<1>7. AdminRemains'
  <2>1. PICK admin \in Names : IsAdmin(admin)
    BY DEF IInv, AdminRemains
  <2>2. CASE \E v \in Names \ {u} : IsAdmin(v)
    BY <1>5, <2>2 DEF AdminRemains, IsAdmin, Advances
  <2>3. CASE ~\E v \in Names \ {u} : IsAdmin(v)
    <3>1. IsAdmin(u)
      BY <2>1, <2>3
    <3>2. base.revision > 0
      BY <1>1, <1>3, <3>1 DEF IsAdmin, NoRow
    <3>3. change.enabled /\ "admin" \in change.roles
      BY <2>3, <3>1, <3>2 DEF SaveUser, KeepsAnAdmin
    <3> QED BY <1>5, <3>3 DEF AdminRemains, IsAdmin, Saved
  <2> QED BY <2>2, <2>3
<1> QED BY <1>3, <1>5, <1>6, <1>7

LEMMA StepSave ==
    ASSUME IInv, NEW t \in Tabs, Save(t) PROVE IInv'
<1> DEFINE r == request[t]
<1>1. /\ SaveUser(r.name, r.base, r.change)
      /\ request' = [request EXCEPT ![t] = None]
      /\ form' \in {form, [form EXCEPT ![t] = None]}
      /\ UNCHANGED <<sessions, issued, browser, cookie, tab>>
  BY DEF Save, Dropped
<1>2. /\ r.name \in Names /\ r.base \in Row /\ r.change \in Changes
      /\ EarlierOf(account[r.name], r.base)
  BY DEF IInv, RequestOK, Compared, Save, Under
<1>3. /\ Advances(r.name) /\ AdminRemains'
      /\ \A v \in Names : account'[v].revision = 0 <=> account'[v] = NoRow
  BY <1>1, <1>2, SaveAdvances
<1>4. /\ DOMAIN tab' = Tabs /\ DOMAIN form' = Tabs /\ DOMAIN request' = Tabs
      /\ cookie' \in [Browsers -> 0 .. issued]
      /\ \A s \in Tabs : form'[s] \in {form[s], None}
      /\ \A s \in Tabs : request'[s] \in {request[s], None}
      /\ \A s \in Tabs : form'[s] # None => Administering(s)'
  BY <1>1 DEF IInv, TypeOK, Administering
<1>5. account' \in [Names -> Row]
  BY <1>3 DEF Advances
<1> HIDE DEF r
<1> QED BY <1>1, <1>2, <1>3, <1>4, <1>5, SessionsShrink

\* A change of one's own password replaces what was compared.
LEMMA PasswordAdvances ==
    ASSUME IInv, NEW t \in Tabs, ChangePassword(t)
    PROVE  LET r == request[t] IN
           /\ r.name \in Names /\ r.actor = r.name
           /\ r.base = account[r.name] /\ r.change.old = account[r.name].password
           /\ Advances(r.name) /\ AdminRemains'
           /\ \A v \in Names : account'[v].revision = 0 <=> account'[v] = NoRow
<1> DEFINE r == request[t]
           u == r.name
<1>1. /\ r.kind = "password" /\ u \in Names /\ r.base \in Row /\ EarlierOf(account[u], r.base)
      /\ r.actor = u /\ r.base.revision > 0
      /\ r.change.old = r.base.password /\ r.change.password \in Passwords
  BY DEF IInv, RequestOK, Compared, ChangePassword, Under
<1>2. /\ account[u].revision = r.base.revision
      /\ account' = [account EXCEPT ![u].revision = @ + 1, ![u].must = FALSE,
                                    ![u].password = r.change.password]
  BY <1>1 DEF ChangePassword, Unchanged
<1>3. /\ account \in [Names -> Row] /\ account[u] \in Row /\ account[u].revision \in Nat
      /\ \A v \in Names : account[v].revision = 0 <=> account[v] = NoRow
  BY <1>1 DEF IInv, TypeOK, Row
<1>4. r.base = account[u]
  BY <1>1, <1>2 DEF EarlierOf
<1>5. /\ account'[u] = [account[u] EXCEPT !.revision = @ + 1, !.must = FALSE,
                                          !.password = r.change.password]
      /\ \A v \in Names \ {u} : account'[v] = account[v]
      /\ DOMAIN account' = Names
  BY <1>1, <1>2, <1>3
<1>6. /\ account'[u] \in Row /\ account'[u].revision = account[u].revision + 1
      /\ account'[u].roles = account[u].roles /\ account'[u].enabled = account[u].enabled
  <2>1. account[u].revision + 1 \in Nat /\ r.change.password \in Passwords
    BY <1>1, <1>3
  <2>2. account'[u] = [revision |-> account[u].revision + 1, roles |-> account[u].roles,
                       enabled |-> account[u].enabled, must |-> FALSE,
                       password |-> r.change.password]
    BY <1>3, <1>5 DEF Row
  <2> HIDE DEF r
  <2> QED BY <1>3, <2>1, <2>2 DEF Row
<1>7. Advances(u)
  BY <1>2, <1>3, <1>5, <1>6 DEF Advances
<1>8. AdminRemains'
  BY <1>5, <1>6 DEF IInv, AdminRemains, IsAdmin
<1>9. \A v \in Names : account'[v].revision = 0 <=> account'[v] = NoRow
  <2>1. account'[u].revision # 0 /\ NoRow.revision = 0
    BY <1>3, <1>6 DEF NoRow
  <2> QED BY <1>3, <1>5, <2>1
<1> QED BY <1>1, <1>4, <1>7, <1>8, <1>9

LEMMA StepPassword ==
    ASSUME IInv, NEW t \in Tabs, ChangePassword(t) PROVE IInv'
<1> DEFINE r == request[t]
<1>1. /\ End(r.cookie)
      /\ request' = [request EXCEPT ![t] = None]
      /\ Reload(t) \/ UNCHANGED <<tab, form>>
      /\ UNCHANGED <<issued, browser>>
  BY DEF ChangePassword, Dropped
<1>2. /\ r.name \in Names /\ Advances(r.name) /\ AdminRemains'
      /\ \A v \in Names : account'[v].revision = 0 <=> account'[v] = NoRow
  BY PasswordAdvances
<1>3. /\ DOMAIN tab' = Tabs /\ DOMAIN form' = Tabs
      /\ \A s \in Tabs : tab'[s] \in {tab[s], SignIn}
      /\ \A s \in Tabs : form'[s] \in {form[s], None}
      /\ \A s \in Tabs : form'[s] # None => Administering(s)'
  <2>1. CASE Reload(t)
    BY <2>1, Reloaded
  <2>2. CASE UNCHANGED <<tab, form>>
    BY <2>2 DEF IInv, TypeOK, Administering
  <2> QED BY <1>1, <2>1, <2>2
<1>4. DOMAIN request' = Tabs /\ \A s \in Tabs : request'[s] \in {request[s], None}
  BY <1>1 DEF IInv, TypeOK
<1>5. account' \in [Names -> Row]
  BY <1>2 DEF Advances
<1> HIDE DEF r
<1> QED BY <1>1, <1>2, <1>3, <1>4, <1>5, Ended, SessionsShrink

-----------------------------------------------------------------------------
(***************************************************************************)
(* The theorems.                                                           *)
(***************************************************************************)

LEMMA StepIInv == IInv /\ [Next]_vars => IInv'
<1> SUFFICES ASSUME IInv, [Next]_vars PROVE IInv'
  OBVIOUS
<1>1. CASE UNCHANGED vars
  <2>1. UNCHANGED <<account, sessions, issued, browser, cookie, tab, form, request>>
    BY <1>1 DEF vars
  <2> QED BY <2>1 DEF IInv, TypeOK, SessionOK, TabOK, FormOK, RequestOK, AdminRemains, IsAdmin,
                      Administering
<1>2. ASSUME NEW t \in Tabs, InTab(t) PROVE IInv'
  <2>1. CASE FetchSession(t) BY <2>1, StepFetchSession
  <2>2. CASE FetchFails(t) BY <2>2, StepReload DEF FetchFails
  <2>3. CASE Read(t) BY <2>3, StepReload DEF Read
  <2>4. CASE Lose(t) BY <2>4, StepLose
  <2>5. CASE \E u \in Names, p \in Passwords : login(t, u, p) BY <2>5, StepLogin
  <2>6. CASE Establish(t) BY <2>6, StepEstablish
  <2>7. CASE logout(t) BY <2>7, StepLogout
  <2>8. CASE \E u \in Names : Edit(t, u) BY <2>8, StepEdit
  <2>9. CASE \E change \in Changes : save(t, change) BY <2>9, StepSendSave
  <2>10. CASE Save(t) BY <2>10, StepSave
  <2>11. CASE \E old \in Passwords, next \in Passwords : changePassword(t, old, next)
    BY <2>11, StepSendPassword
  <2>12. CASE ChangePassword(t) BY <2>12, StepPassword
  <2> QED BY <1>2, <2>1, <2>2, <2>3, <2>4, <2>5, <2>6, <2>7, <2>8, <2>9, <2>10, <2>11, <2>12
             DEF InTab
<1> QED BY <1>1, <1>2, StepSessionEnds DEF Next

LEMMA Invariance == Spec => []IInv
BY InitIInv, StepIInv, PTL DEF Spec

\* Everything keeps its type: no session is newer than its account, and a form is
\* open on the page of administration only (App, Admin).
THEOREM TypeCorrect == Spec => []TypeOK
<1>1. IInv => TypeOK
  BY DEF IInv
<1> QED BY <1>1, Invariance, PTL

\* However many administrators save at once, one that is enabled remains
\* (SaveUser counts them under the tenant's row).
THEOREM AdministratorRemains == Spec => []AdminRemains
<1>1. IInv => AdminRemains
  BY DEF IInv
<1> QED BY <1>1, Invariance, PTL

\* A session that Current accepts was opened with the password the account has,
\* and its account is enabled, however long the sign-in took.
THEOREM AcceptedSessionsProveAccess == Spec => []SessionsProveAccess
<1>1. IInv => SessionsProveAccess
  BY DEF IInv, SessionOK, SessionsProveAccess, Current
<1> QED BY <1>1, Invariance, PTL

\* A request acts for whom its tab showed, whoever else has signed in from the
\* same browser (the request token of Mutation).
THEOREM ShownIsActor == Spec => []ActsAsShown
<1>1. IInv => ActsAsShown
  BY DEF IInv, RequestOK, Compared, ActsAsShown
<1> QED BY <1>1, Invariance, PTL

-----------------------------------------------------------------------------
(* The action properties. *)

\* The request that changes account u in this step, which has replaced the
\* account it was made for.
Replaces(t, u) ==
    /\ request[t] # None /\ request'[t] = None
    /\ request[t].name = u /\ request[t].base = account[u]

\* An account changes by a save of what its form was opened with, or by a change
\* of the password that it had.
LEMMA ChangesReplace ==
    ASSUME IInv, Next, NEW u \in Names, account'[u] # account[u]
    PROVE  \E t \in Tabs :
             /\ Replaces(t, u)
             /\ \/ request[t].kind = "save" /\ account'[u].must = (account[u].must \/ request[t].change.password # NoPassword)
                \/ /\ request[t].kind = "password" /\ request[t].actor = u
                   /\ request[t].change.old = account[u].password
<1>1. PICK t \in Tabs : Save(t) \/ ChangePassword(t)
  BY DEF Next, InTab, SessionEnds, FetchSession, FetchFails, Read, Lose, login, Establish, logout,
         Edit, save, changePassword
<1> DEFINE r == request[t]
<1>2. r # None /\ request' = [request EXCEPT ![t] = None] /\ DOMAIN request = Tabs
  BY <1>1 DEF Save, ChangePassword, Dropped, Under, IInv, TypeOK
<1>3. CASE Save(t)
  <2>1. /\ r.kind = "save" /\ r.name \in Names /\ r.base \in Row /\ r.change \in Changes
        /\ EarlierOf(account[r.name], r.base) /\ SaveUser(r.name, r.base, r.change)
    BY <1>3 DEF IInv, RequestOK, Compared, Save, Under
  <2>2. /\ Advances(r.name) /\ r.base = account[r.name]
        /\ account'[r.name] = Saved(account[r.name], r.change)
    BY <2>1, SaveAdvances
  <2>3. r.name = u
    BY <2>1, <2>2 DEF Advances
  <2>4. account'[u].must = (account[u].must \/ r.change.password # NoPassword)
    BY <2>2, <2>3 DEF Saved
  <2> QED BY <1>2, <2>1, <2>2, <2>3, <2>4 DEF Replaces
<1>4. CASE ChangePassword(t)
  <2>1. /\ r.kind = "password" /\ r.name \in Names /\ r.actor = r.name /\ r.base = account[r.name]
        /\ r.change.old = account[r.name].password /\ Advances(r.name)
    BY <1>4, PasswordAdvances DEF ChangePassword, Under
  <2>2. r.name = u
    BY <2>1 DEF Advances
  <2> QED BY <1>2, <2>1, <2>2 DEF Replaces
<1> QED BY <1>1, <1>3, <1>4

\* The obligation to change a password that was reset is lifted only by a change
\* that gives the password as it is now, never by one that was under way when it
\* was reset (ChangePassword compares the revision).
THEOREM ResetsAreKept == Spec => ResetsStand
<1> DEFINE A == \A u \in Names :
         account[u].must /\ ~account'[u].must =>
            \E t \in Tabs : /\ request[t] # None /\ request[t].kind = "password"
                            /\ request[t].actor = u
                            /\ request[t].change.old = account[u].password
<1>1. IInv /\ [Next]_vars => [A]_vars
  <2> SUFFICES ASSUME IInv, Next, NEW u \in Names, account[u].must, ~account'[u].must
               PROVE  \E t \in Tabs : /\ request[t] # None /\ request[t].kind = "password"
                                      /\ request[t].actor = u
                                      /\ request[t].change.old = account[u].password
    OBVIOUS
  <2>1. account'[u] # account[u]
    OBVIOUS
  <2> QED BY <2>1, ChangesReplace DEF Replaces
<1> HIDE DEF A
<1>2. Spec => [][A]_vars
  BY <1>1, Invariance, PTL DEF Spec
<1> QED BY <1>2 DEF ResetsStand, A

\* A save replaces the version of the account that its form was opened with, and a
\* change of a password the account it was compared with: nothing is overwritten
\* unseen (the revisions of SaveUser and ChangePassword).
THEOREM NothingUnseenIsReplaced == Spec => SavesReplaceTheirBase
<1> DEFINE A == \A u \in Names :
         account'[u] # account[u] =>
            \E t \in Tabs : /\ request[t] # None /\ request'[t] = None
                            /\ request[t].kind = "password" \/ request[t].name = u
                            /\ request[t].base = account[u]
<1>1. IInv /\ [Next]_vars => [A]_vars
  <2> SUFFICES ASSUME IInv, Next, NEW u \in Names, account'[u] # account[u]
               PROVE  \E t \in Tabs : /\ request[t] # None /\ request'[t] = None
                                      /\ request[t].kind = "password" \/ request[t].name = u
                                      /\ request[t].base = account[u]
    OBVIOUS
  <2> QED BY ChangesReplace DEF Replaces
<1> HIDE DEF A
<1>2. Spec => [][A]_vars
  BY <1>1, Invariance, PTL DEF Spec
<1> QED BY <1>2 DEF SavesReplaceTheirBase, A

=============================================================================
