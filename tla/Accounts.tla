------------------------------- MODULE Accounts -------------------------------
(***************************************************************************)
(* Local accounts, sessions and the tabs people work in: SaveUser and      *)
(* ChangePassword on the table local_user, the session table of            *)
(* auth.Manager, and App, Admin and ChangePassword in the browser.         *)
(*                                                                         *)
(* A request is admitted, by the cookie and the request token it was sent  *)
(* with, and carried out later: a sign-in and a change of one's password   *)
(* read the account and compare a password, which takes long, before they  *)
(* write.  Other requests come between, and an answer may be lost.  (One   *)
(* that waits to be admitted is refused or could have been admitted when   *)
(* it was sent.)  The tabs of one browser share its cookie, so a tab can   *)
(* show somebody else than its requests carry.  A session answer that      *)
(* arrives late shows what an earlier one showed, so fetching the session  *)
(* is one step.  A sign-in may always be refused (the attempts of five     *)
(* minutes are counted, and so are the sessions).                          *)
(***************************************************************************)
EXTENDS Naturals, FiniteSets, Access

CONSTANTS
    Names,         \* usernames
    Passwords,
    First,         \* the password accounts are made with
    NoPassword,    \* "leave blank to keep current"
    Changes,       \* what an administrator fills in for an account
    Tabs, Browsers,
    None,
    MaxVersions,   \* bound on the versions of all accounts together
    MaxSessions    \* bound on the sessions opened

ASSUME AccountsAssumption ==
    /\ First \in Passwords /\ NoPassword \notin Passwords /\ None \notin Names
    /\ Changes \subseteq [roles : (SUBSET Roles) \ {{}}, enabled : BOOLEAN,
                          password : Passwords \cup {NoPassword}]
    /\ MaxVersions \in Nat /\ MaxSessions \in Nat

VARIABLES
    account,    \* table local_user; revision 0: no row
    sessions,   \* the live sessions; a session's number is its request token, too
    issued,     \* how many were opened
    browser,    \* the browser each tab is in
    cookie,     \* each browser's session cookie; 0: none
    tab,        \* what each tab shows, and for whom
    form,       \* the account each tab's form was opened with
    request     \* the request each tab has under way

vars == <<account, sessions, issued, browser, cookie, tab, form, request>>

-----------------------------------------------------------------------------

\* The versions of accounts stored so far.  A request that comes to nothing for
\* the bounds is not sent.
Versions == UNION {{<<u, n>> : n \in 1 .. account[u].revision} : u \in Names}
Bounded == Cardinality(Versions) < MaxVersions

NoRow == [revision |-> 0, roles |-> {}, enabled |-> FALSE, must |-> FALSE, password |-> NoPassword]

\* The sign-in, and a page that is loading, which shows nothing yet: whoever
\* signs in from it could have done so before.
SignIn == [page |-> "signin", user |-> None, roles |-> {}, token |-> 0]

IsAdmin(u) == account[u].enabled /\ "admin" \in account[u].roles

\* Administrators, who have changed their first password.  (Revisions are counted
\* from here.)
Init ==
    /\ \E made \in (SUBSET Names) \ {{}} :
         account = [u \in Names |->
            IF u \in made THEN [revision |-> 1, roles |-> {"admin"}, enabled |-> TRUE,
                                must |-> FALSE, password |-> First]
            ELSE NoRow]
    /\ browser \in [Tabs -> Browsers]
    /\ sessions = << >> /\ issued = 0
    /\ cookie = [b \in Browsers |-> 0]
    /\ tab = [t \in Tabs |-> SignIn]
    /\ form = [t \in Tabs |-> None]
    /\ request = [t \in Tabs |-> None]

Here(t) == cookie[browser[t]]

\* Slip: the roles of the sign-in are trusted, and the account is not looked at.
Current_Cached(id) == id \in DOMAIN sessions

\* Current: the session is live and its account is as it was at the sign-in.
Current(id) ==
    /\ id \in DOMAIN sessions
    /\ account[sessions[id].user].enabled
    /\ account[sessions[id].user].revision = sessions[id].revision

\* A session is deleted.  Its cookie, where it is kept, counts as none.
End(id) ==
    /\ sessions' = [s \in DOMAIN sessions \ {id} |-> sessions[s]]
    /\ cookie' = [b \in Browsers |-> IF cookie[b] = id THEN 0 ELSE cookie[b]]

\* Eight hours are over, or the API was restarted.
SessionEnds ==
    /\ \E id \in DOMAIN sessions : End(id)
    /\ UNCHANGED <<account, issued, browser, tab, form, request>>

-----------------------------------------------------------------------------
(* A tab and its session. *)

\* location.reload, location.replace: the page and its request token are gone.
\* The server goes on with what it has.
Reload(t) ==
    /\ tab' = [tab EXCEPT ![t] = SignIn]
    /\ form' = [form EXCEPT ![t] = None]

\* Slip: the form outlives the page it is on.
Show_KeepsForm(t, view) == tab' = [tab EXCEPT ![t] = view] /\ UNCHANGED form

Show(t, view) ==
    /\ tab' = [tab EXCEPT ![t] = view]
    /\ form' = IF view.page = "workspace" /\ "admin" \in view.roles
               THEN form ELSE [form EXCEPT ![t] = None]

\* What the App of an account is: with a first or reset password, nothing but the
\* form to change it.
PageFor(u) == IF account[u].must THEN "gate" ELSE "workspace"

\* GET /api/session: when the page is mounted, after a sign-in and when the
\* window gets the focus.  The form stays while the page of administration does.
FetchSession(t) ==
    /\ LET id == Here(t) IN
         IF Current(id)
         THEN LET u == sessions[id].user IN
              Show(t, [page |-> PageFor(u), user |-> u, roles |-> account[u].roles, token |-> id])
         ELSE Show(t, SignIn)
    /\ UNCHANGED <<account, sessions, issued, browser, cookie, request>>

\* ... and when it fails nothing is shown but "Retry connection".
FetchFails(t) ==
    /\ Reload(t)
    /\ UNCHANGED <<account, sessions, issued, browser, cookie, request>>

\* Any GET of the workspace that is answered 401.
Read(t) ==
    /\ tab[t].page = "workspace" /\ ~Current(Here(t))
    /\ Reload(t)
    /\ UNCHANGED <<account, sessions, issued, browser, cookie, request>>

\* At most one request of a tab is under way.
Send(t, r) ==
    /\ request[t] = None
    /\ request' = [request EXCEPT ![t] = r]

Under(t, kind) == request[t] # None /\ request[t].kind = kind

Dropped(t) == request' = [request EXCEPT ![t] = None]

\* A request that is refused or lost.  The tab shows an error.
Lose(t) ==
    /\ request[t] # None
    /\ Dropped(t)
    /\ UNCHANGED <<account, sessions, issued, browser, cookie, tab, form>>

-----------------------------------------------------------------------------
(* Signing in and out. *)

\* PasswordLogin reads the account and compares the password ...
login(t, u, p) ==
    /\ tab[t].page = "signin" /\ issued < MaxSessions
    /\ account[u].enabled /\ account[u].password = p
    /\ Send(t, [kind |-> "login", name |-> u, base |-> account[u], change |-> [password |-> p],
                cookie |-> 0, shown |-> u, actor |-> u])
    /\ UNCHANGED <<account, sessions, issued, browser, cookie, tab, form>>

\* ... and opens a session for the account it has read.  The cookie reaches the
\* browser with the answer.
Establish(t) ==
    /\ Under(t, "login")
    /\ issued < MaxSessions
    /\ issued' = issued + 1
    /\ sessions' = [id \in DOMAIN sessions \cup {issued'} |->
         IF id = issued'
         THEN [user |-> request[t].name, revision |-> request[t].base.revision,
               opened |-> request[t].change.password]
         ELSE sessions[id]]
    /\ cookie' \in {cookie, [cookie EXCEPT ![browser[t]] = issued']}
    /\ Dropped(t)
    /\ UNCHANGED <<account, browser, tab, form>>

\* Slip: any session may be used, whoever the page is for.
Verified_Cookie(id, token) == Current(id)

\* Current and Mutation: the session is accepted, and the page that sent the
\* request is a page of that session.
Verified(id, token) == Current(id) /\ token = id

\* The tab is reloaded, whatever the answer.
logout(t) ==
    /\ tab[t].page \in {"workspace", "gate"}
    /\ \/ /\ Verified(Here(t), tab[t].token)
          /\ End(Here(t))
       \/ UNCHANGED <<sessions, cookie>>
    /\ Reload(t)
    /\ UNCHANGED <<account, issued, browser, request>>

-----------------------------------------------------------------------------
(* The accounts in the page of administration. *)

Administering(t) == tab[t].page = "workspace" /\ "admin" \in tab[t].roles

\* "Edit": the form takes the row of the list, which is as old as the form may
\* become; or "New account", and a name that is free.
Edit(t, u) ==
    /\ Administering(t) /\ Bounded
    /\ form' = [form EXCEPT ![t] = [name |-> u, base |-> account[u]]]
    /\ UNCHANGED <<account, sessions, issued, browser, cookie, tab, request>>

\* The route of a save: 401 sends the tab to the sign-in, 403 shows an error.
save(t, change) ==
    /\ Administering(t) /\ form[t] # None /\ Bounded
    /\ form[t].base.revision = 0 => change.password # NoPassword
    /\ LET id == Here(t)
           u == sessions[id].user
       IN  IF ~Current(id) THEN Reload(t) /\ UNCHANGED request
           ELSE /\ Verified(id, tab[t].token)
                /\ ~account[u].must /\ Allowed(account[u].roles, "admin.write")
                /\ Send(t, [kind |-> "save", name |-> form[t].name, base |-> form[t].base,
                            change |-> change, cookie |-> id, shown |-> tab[t].user, actor |-> u])
                /\ UNCHANGED <<tab, form>>
    /\ UNCHANGED <<account, sessions, issued, browser, cookie>>

\* Slip: the count of the other administrators is not taken.
KeepsAnAdmin_Unchecked(u, change) == TRUE

KeepsAnAdmin(u, change) ==
    \/ change.enabled /\ "admin" \in change.roles
    \/ ~IsAdmin(u)
    \/ \E other \in Names \ {u} : IsAdmin(other)

\* Slips: the statement does not ask for the revision; it does not advance it.
SaveUser_AnyRevision(u, base, change) ==
    /\ Bounded
    /\ IF base.revision = 0 THEN account[u].revision = 0
       ELSE account[u].revision > 0 /\ KeepsAnAdmin(u, change)
    /\ account' = [account EXCEPT ![u] =
         [revision |-> @.revision + 1, roles |-> change.roles, enabled |-> change.enabled,
          must |-> @.must \/ change.password # NoPassword,
          password |-> IF change.password = NoPassword THEN @.password ELSE change.password]]

SaveUser_SameRevision(u, base, change) ==
    /\ account[u].revision = base.revision /\ base.revision > 0
    /\ KeepsAnAdmin(u, change)
    /\ account' = [account EXCEPT ![u] =
         [revision |-> @.revision, roles |-> change.roles, enabled |-> change.enabled,
          must |-> @.must \/ change.password # NoPassword,
          password |-> IF change.password = NoPassword THEN @.password ELSE change.password]]

\* SaveUser holds the tenant's row: a new account, or the new version of the
\* one the form was opened with.  A password that is set must be changed.
SaveUser(u, base, change) ==
    /\ account[u].revision = base.revision /\ Bounded
    /\ base.revision > 0 => KeepsAnAdmin(u, change)
    /\ account' = [account EXCEPT ![u] =
         [revision |-> @.revision + 1, roles |-> change.roles, enabled |-> change.enabled,
          must |-> @.must \/ change.password # NoPassword,
          password |-> IF change.password = NoPassword THEN @.password ELSE change.password]]

\* With the answer the form is emptied, whatever is in it by then.
Save(t) ==
    /\ Under(t, "save")
    /\ SaveUser(request[t].name, request[t].base, request[t].change)
    /\ Dropped(t)
    /\ form' \in {form, [form EXCEPT ![t] = None]}
    /\ UNCHANGED <<sessions, issued, browser, cookie, tab>>

-----------------------------------------------------------------------------
(* Changing one's own password. *)

\* The session is accepted, and the account is read and the password compared
\* without a lock ...
changePassword(t, old, next) ==
    /\ tab[t].page \in {"workspace", "gate"} /\ Bounded
    /\ Verified(Here(t), tab[t].token)
    /\ LET u == sessions[Here(t)].user IN
       /\ account[u].password = old /\ old # next
       /\ Send(t, [kind |-> "password", name |-> u, base |-> account[u],
                   change |-> [old |-> old, password |-> next],
                   cookie |-> Here(t), shown |-> tab[t].user, actor |-> u])
    /\ UNCHANGED <<account, sessions, issued, browser, cookie, tab, form>>

\* Slip: the statement does not ask for the revision.
Unchanged_Any(u, base) == TRUE

Unchanged(u, base) == account[u].revision = base.revision

\* ... so the new one is written if the account is still the one that was read.
\* This session ends with the change; the account's others no longer count.
ChangePassword(t) ==
    /\ Under(t, "password")
    /\ LET r == request[t] IN
       /\ Unchanged(r.actor, r.base) /\ Bounded
       /\ account' = [account EXCEPT ![r.actor].revision = @ + 1, ![r.actor].must = FALSE,
                                     ![r.actor].password = r.change.password]
       /\ End(r.cookie)
       /\ Dropped(t)
       /\ Reload(t) \/ UNCHANGED <<tab, form>>
    /\ UNCHANGED <<issued, browser>>

-----------------------------------------------------------------------------

InTab(t) ==
    \/ FetchSession(t) \/ FetchFails(t) \/ Read(t) \/ Lose(t)
    \/ \E u \in Names, p \in Passwords : login(t, u, p)
    \/ Establish(t) \/ logout(t)
    \/ \E u \in Names : Edit(t, u)
    \/ \E change \in Changes : save(t, change)
    \/ Save(t)
    \/ \E old \in Passwords, next \in Passwords : changePassword(t, old, next)
    \/ ChangePassword(t)

Next == SessionEnds \/ \E t \in Tabs : InTab(t)

Spec == Init /\ [][Next]_vars

-----------------------------------------------------------------------------
(* Properties. *)

Row == [revision : Nat, roles : SUBSET Roles, enabled : BOOLEAN,
        must : BOOLEAN, password : Passwords \cup {NoPassword}]

TypeOK ==
    /\ account \in [Names -> Row]
    /\ \A u \in Names : account[u].revision = 0 <=> account[u] = NoRow
    /\ issued \in 0 .. MaxSessions
    /\ DOMAIN sessions \subseteq 1 .. issued
    /\ \A id \in DOMAIN sessions :
         /\ sessions[id].user \in Names
         /\ sessions[id].revision \in 1 .. account[sessions[id].user].revision
    /\ browser \in [Tabs -> Browsers]
    /\ cookie \in [Browsers -> 0 .. issued]
    /\ DOMAIN tab = Tabs /\ DOMAIN form = Tabs /\ DOMAIN request = Tabs
    /\ \A t \in Tabs : form[t] # None => Administering(t)

\* docs/user/administration.md: "The last enabled administrator cannot be
\* removed" - nor do two administrators remove each other.
AdminRemains == \E u \in Names : IsAdmin(u)

\* "Changed accounts must sign in again": a session that is accepted was opened
\* with the password its account has now, also when the account changed while
\* the sign-in was under way.
SessionsProveAccess ==
    \A id \in DOMAIN sessions :
        Current(id) => /\ account[sessions[id].user].enabled
                       /\ sessions[id].opened = account[sessions[id].user].password

\* A request acts for the person its tab showed when it was sent, although
\* another tab of the browser may have signed in somebody else.
ActsAsShown ==
    \A t \in Tabs :
        request[t] # None => request[t].actor = request[t].shown

\* "Password resets require a change on next login", by whoever has the new
\* password: a change that was under way when the password was reset does not
\* undo the reset.
ResetsStand ==
    [][\A u \in Names :
         account[u].must /\ ~account'[u].must =>
            \E t \in Tabs : /\ request[t] # None /\ request[t].kind = "password"
                            /\ request[t].actor = u
                            /\ request[t].change.old = account[u].password]_vars

\* An administrator replaces the version of an account the form was opened
\* with, and nothing else that happened to the account since.
SavesReplaceTheirBase ==
    [][\A u \in Names :
         account'[u] # account[u] =>
            \E t \in Tabs : /\ request[t] # None /\ request'[t] = None
                            /\ request[t].kind = "password" \/ request[t].name = u
                            /\ request[t].base = account[u]]_vars

=============================================================================
