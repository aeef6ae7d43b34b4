------------------------------ MODULE Accounts ------------------------------
(* Accounts and their sessions. A login creates a session row, found by the *)
(* hash of its refresh token; a refresh replaces the row by one with a new  *)
(* token and the same expiry; a short-lived access token lets requests in.  *)
(* The tabs of a browser share one cookie jar and one hint in the local     *)
(* storage, each runs its own store (useAuthStore) and its own single-flight*)
(* refresh (api.ts), and the answers of their requests arrive in any order. *)
EXTENDS Integers, FiniteSets, FiniteSetsExt

CONSTANTS
    User,       \* accounts, each created at most once
    Tab,        \* tabs of one browser
    Acting,     \* the tabs whose forms and buttons are used (bound)
    Tokens,     \* bound: refresh tokens issued, used in order 1..Tokens
    MaxTime,    \* bound of the clock
    AccessLife, \* ACCESS_TOKEN_DURATION
    BrowserLife, RememberedLife, \* session lifetimes
    MaxRev,     \* bound of a tab's authStateRevision
    None

ASSUME AccountsAssumption ==
    /\ Tokens \in Nat /\ MaxTime \in Nat /\ MaxRev \in Nat
    /\ AccessLife \in Nat \ {0}
    /\ BrowserLife \in Nat \ {0} /\ RememberedLife \in Nat \ {0}
    /\ AccessLife <= BrowserLife /\ AccessLife <= RememberedLife
    /\ Acting \subseteq Tab
    /\ None \notin User \cup Tab \cup Nat

VARIABLES
    now,       \* the clock of the server and of the database
    account,   \* users, by deletion_status
    session,   \* sessions, by refresh token
    issued,    \* refresh tokens issued so far
    granted,   \* history: the login a token belongs to, named by its first
               \* token, its user and the expiry it was given
    jar,       \* the browser's cookies access_token, refresh_token and
               \* github_oauth_context, a signed state named here by its tab
    hint,      \* authSessionHintStorage
    page,      \* the store of a tab
    call,      \* a tab's requests: those behind the guard (the
               \* check of a new page, then profile changes), logins, logouts
    refresh,   \* refreshPromise of a tab, and its request at the server
    loggedOut, \* history: logins ended by a logout
    raced      \* history: logins with a refresh between its request and the
               \* arrival of its answer while a logout was under way, or whose
               \* refresh answer was lost

vars == <<now, account, session, issued, granted, jar, hint, page, call,
          refresh, loggedOut, raced>>
database == <<account, session, issued, granted>>
client == <<jar, hint, page>>
history == <<loggedOut, raced>>

Token == 1..Tokens
SessionRow == [user : User, expires : Nat]
Access == [user : User, until : Nat, root : Token]
NoCookies == [access |-> None, refresh |-> None, context |-> None]
Slot == {"guarded", "login", "logout"}
NoCall == [kind |-> "none", at |-> "idle", rev |-> 0, user |-> None,
           access |-> None, token |-> None, retried |-> FALSE]
NewPage == [up |-> FALSE, user |-> None, loading |-> TRUE, rev |-> 0]
NoRefresh == [at |-> "idle", token |-> None, new |-> None, access |-> None]

AccountsTypeOK ==
    /\ now \in 0..MaxTime
    /\ account \in [User -> {"absent", "active", "pending"}]
    /\ session \in [Token -> {None} \cup SessionRow]
    /\ issued \in 0..Tokens
    /\ granted \in [Token -> {None} \cup
                       [user : User, expires : Nat, root : Token]]
    /\ jar \in [access : {None} \cup Access, refresh : {None} \cup Token,
                context : {None} \cup Tab]
    /\ hint \in BOOLEAN
    /\ page \in [Tab -> [up : BOOLEAN, user : {None} \cup User,
                         loading : BOOLEAN, rev : Nat]]
    /\ call \in [Tab -> [Slot ->
          [kind : {"none", "me", "login", "register", "update", "delete",
                   "logout", "github"},
           at : {"idle", "sent", "verified", "done", "denied", "failed",
                 "waiting"},
           rev : Nat, user : {None} \cup User,
           access : {None} \cup Access, token : {None} \cup Token,
           retried : BOOLEAN]]]
    /\ refresh \in [Tab -> [at : {"idle", "sent", "read", "rotated", "done",
                                  "denied", "failed"},
                            token : {None} \cup Token,
                            new : {None} \cup Token,
                            access : {None} \cup Access]]
    /\ loggedOut \subseteq Token /\ raced \subseteq Token

Init ==
    /\ now = 0
    /\ account = [u \in User |-> "absent"]
    /\ session = [k \in Token |-> None]
    /\ issued = 0
    /\ granted = [k \in Token |-> None]
    /\ jar = NoCookies
    /\ hint = FALSE
    /\ page = [t \in Tab |-> NewPage]
    /\ call = [t \in Tab |-> [c \in Slot |-> NoCall]]
    /\ refresh = [t \in Tab |-> NoRefresh]
    /\ loggedOut = {} /\ raced = {}

-----------------------------------------------------------------------------
(* Sessions of the database.                                                *)

Live(k) == k \in Token /\ session[k] # None
Unexpired(k) == Live(k) /\ session[k].expires > now
RootOf(k) == IF k = None THEN None ELSE granted[k].root
LiveOf(root) == {k \in Token : Live(k) /\ RootOf(k) = root}

\* Mutant: every access token lives its full time.
AccessForFull(u, root, left) ==
    [user |-> u, until |-> now + AccessLife, root |-> root]

\* generateAccessToken: never longer than what is left of the session.
AccessFor(u, root, left) ==
    [user |-> u, until |-> now + Min({AccessLife, left}), root |-> root]

\* verifyAccessToken, resolveAuthenticatedUser and AuthGuard.
Verified(a) == a # None /\ a.until > now
Admitted(a) == Verified(a) /\ account[a.user] = "active"

\* The new row of a login, by the hash of a fresh random token.
Issue(u, life) ==
    /\ issued < Tokens
    /\ issued' = issued + 1
    /\ session' = [session EXCEPT ![issued + 1] =
                     [user |-> u, expires |-> now + life]]
    /\ granted' = [granted EXCEPT ![issued + 1] =
                     [user |-> u, expires |-> now + life, root |-> issued + 1]]

\* createSession: under the lock of an active user. The database part of
\* createAuthenticatedSession, whose answer carries the new tokens.
CreateSession(u, life) == account[u] = "active" /\ Issue(u, life)

\* Mutant: the old row is kept, so that a second rotation finds it too.
RotateKeepingTheOld(old, new) ==
    session' = [session EXCEPT ![new] = session[old]]

\* The delete of rotateSession returns the row only to the first of two
\* rotations; the new row keeps the expiry that was read before the lock.
Rotate(old, new) ==
    session' = [session EXCEPT ![old] = None, ![new] = session[old]]

\* Mutant: the logout only clears the cookies.
DeleteSessionForgotten(k) == session' = session

\* deleteSession: of the one token the request's cookie named.
DeleteSession(k) ==
    session' = IF Live(k) THEN [session EXCEPT ![k] = None] ELSE session

\* The browser stores what an answer sets.
SetCookies(a, k) == jar' = [jar EXCEPT !.access = a, !.refresh = k]

ClearCookies == jar' = [jar EXCEPT !.access = None, !.refresh = None]


InRefresh(root) == \E t \in Tab : /\ refresh[t].at # "idle"
                                  /\ RootOf(refresh[t].token) = root
InLogout(root) == \E t \in Tab : /\ call[t]["logout"].at # "idle"
                                 /\ RootOf(call[t]["logout"].token) = root

-----------------------------------------------------------------------------
(* Requests of a tab. A guarded request is let in or answered 401 when the  *)
(* server takes it; its cookies are those of the moment it is sent.         *)

Guarded == {"me", "update", "delete"}

Send(t, c, kind, user, page2) ==
    /\ call[t][c].at = "idle"
    /\ page[t].up
    /\ page' = page2
    /\ call' = [call EXCEPT ![t][c] =
          [kind |-> kind, at |-> "sent", rev |-> page2[t].rev,
           user |-> user, access |-> jar.access,
           token |-> jar.refresh, retried |-> FALSE]]

\* advanceAuthStateRevision, resetUserScopedStores and what the caller shows.
Advanced(t, user) ==
    [page EXCEPT ![t].rev = @ + 1, ![t].user = user, ![t].loading = FALSE]

\* authSessionHintStorage.read: a browser without the hint has not logged in.
HintRead == hint

\* checkAuth: joins a check under way, skips the request when the hint says
\* that nobody logged in, unless the page was opened by a GitHub login.
CheckAuth(t, force) ==
    /\ call[t]["guarded"].at = "idle"
    /\ IF ~force /\ ~HintRead
       THEN /\ page' = [page EXCEPT ![t].up = TRUE, ![t].user = None,
                                    ![t].loading = FALSE]
            /\ UNCHANGED call
       ELSE /\ page' = [page EXCEPT ![t].up = TRUE, ![t].loading = TRUE]
            /\ call' = [call EXCEPT ![t]["guarded"] =
                  [kind |-> "me", at |-> "sent", rev |-> page[t].rev,
                   user |-> None,
                   access |-> jar.access, token |-> jar.refresh,
                   retried |-> FALSE]]
    /\ UNCHANGED <<now, jar, hint, refresh, history>> /\ UNCHANGED database

\* The page loads: App checks once.
OpenPage(t) == /\ ~page[t].up /\ call[t]["login"].at = "idle"
               /\ CheckAuth(t, FALSE)

\* The login page is shown to nobody who is logged in, and its form, once
\* valid, has one submission at a time.
LoginFormSubmits(t) == /\ page[t].user = None /\ ~page[t].loading
                       /\ call[t]["login"].at = "idle"

\* loginWithPassword and register.
SubmitLogin(t, kind, u) ==
    /\ kind \in {"login", "register"}
    /\ t \in Acting /\ LoginFormSubmits(t) /\ page[t].rev < MaxRev
    /\ Send(t, "login", kind, u, Advanced(t, None))
    /\ UNCHANGED <<now, jar, hint, refresh, history>> /\ UNCHANGED database

\* logout: the store is cleared before the request is sent.
SubmitLogout(t) ==
    /\ t \in Acting /\ page[t].user # None /\ page[t].rev < MaxRev
    /\ Send(t, "logout", "logout", None, Advanced(t, None))
    /\ hint' = FALSE
    /\ raced' = IF InRefresh(RootOf(jar.refresh))
                THEN raced \cup ({RootOf(jar.refresh)} \ {None}) ELSE raced
    /\ UNCHANGED <<now, jar, refresh, loggedOut>> /\ UNCHANGED database

\* updateProfile and deleteAccount: nothing changes before the answer.
SubmitProfile(t, kind) ==
    /\ kind \in {"update", "delete"}
    /\ t \in Acting /\ page[t].user # None /\ page[t].rev < MaxRev
    /\ Send(t, "guarded", kind, None, page)
    /\ UNCHANGED <<now, jar, hint, refresh, history>> /\ UNCHANGED database

\* loginWithGithub and githubLogin: the tab leaves for GitHub, and the cookie
\* of the browser names its state.
GithubLogin(t) ==
    /\ page[t].up /\ page[t].user = None /\ ~page[t].loading
    /\ \A c \in Slot : call[t][c].at = "idle"
    /\ refresh[t].at = "idle"
    /\ page' = [page EXCEPT ![t] = NewPage]
    /\ jar' = [jar EXCEPT !.context = t]
    /\ call' = [call EXCEPT ![t]["login"] =
                  [NoCall EXCEPT !.kind = "github", !.at = "sent"]]
    /\ UNCHANGED <<now, hint, refresh, history>> /\ UNCHANGED database

\* parseGithubOauthContext and matchesOauthState.
OwnState(t) == jar.context = t

\* The account GitHub names is found, or created; a pending one is refused.
GithubAccount(u) ==
    /\ account[u] # "pending"
    /\ account' = [account EXCEPT ![u] = "active"]

\* githubCallback, and the page its redirect loads, which checks at once
\* whatever the hint says. The state's cookie is cleared in any case; a
\* refusal leaves the tab on an error, from where the user goes back.
GithubCallback(t, u, life) ==
    LET r == call[t]["login"]
        a == AccessFor(u, issued + 1, AccessLife)
    IN
    /\ r.kind = "github"
    /\ \/ /\ OwnState(t)
          /\ GithubAccount(u)
          /\ Issue(u, life)
          /\ jar' = [access |-> a, refresh |-> issued + 1, context |-> None]
          /\ page' = [page EXCEPT ![t].up = TRUE]
          /\ call' = [call EXCEPT ![t] = [c \in Slot |->
                IF c = "guarded"
                THEN [NoCall EXCEPT !.kind = "me", !.at = "sent",
                        !.access = a, !.token = issued + 1]
                ELSE NoCall]]
       \/ /\ jar' = [jar EXCEPT !.context = None]
          /\ call' = [call EXCEPT ![t]["login"] = NoCall]
          /\ UNCHANGED <<account, session, issued, granted, page>>
    /\ UNCHANGED <<now, hint, refresh, history>>

-----------------------------------------------------------------------------
(* The server.                                                              *)

\* The password matches the one of an active user.
HasCredentials(u) == account[u] = "active" /\ UNCHANGED account

\* createLocalUser: the email is new, by its unique index.
CreateLocalUser(u) == /\ account[u] = "absent"
                      /\ account' = [account EXCEPT ![u] = "active"]

\* login and register, up to the session. Otherwise 401 and 409.
VerifyLogin(t, ok) ==
    LET r == call[t]["login"] IN
    /\ r.at = "sent" /\ r.kind \in {"login", "register"}
    /\ CASE ok /\ r.kind = "login" -> HasCredentials(r.user)
         [] ok /\ r.kind = "register" -> CreateLocalUser(r.user)
         [] OTHER -> UNCHANGED account
    /\ call' = [call EXCEPT ![t]["login"].at =
                  IF ok THEN "verified" ELSE "failed"]
    /\ UNCHANGED <<now, session, issued, granted, client, refresh, history>>

\* createAuthenticatedSession; 500 when the user was deleted meanwhile.
AnswerLogin(t, life) ==
    LET r == call[t]["login"] IN
    /\ r.at = "verified"
    /\ \/ /\ CreateSession(r.user, life)
          /\ call' = [call EXCEPT ![t]["login"] =
                [r EXCEPT !.at = "done", !.token = issued + 1,
                   !.access = AccessFor(r.user, issued + 1, AccessLife)]]
       \/ /\ account[r.user] # "active"
          /\ call' = [call EXCEPT ![t]["login"].at = "failed"]
          /\ UNCHANGED <<session, issued, granted>>
    /\ UNCHANGED <<now, account, client, refresh, history>>

\* AuthGuard and the handlers behind it: getMe, updateProfile and
\* deleteAccount, whose job marks the user and deletes its sessions.
ServeGuarded(t, c) ==
    LET r == call[t][c] IN
    /\ r.at = "sent" /\ r.kind \in Guarded
    /\ IF Admitted(r.access)
       THEN call' = [call EXCEPT ![t][c] =
                       [r EXCEPT !.at = "done", !.user = r.access.user]]
       ELSE call' = [call EXCEPT ![t][c].at = "denied"]
    /\ IF Admitted(r.access) /\ r.kind = "delete"
       THEN /\ account' = [account EXCEPT ![r.access.user] = "pending"]
            /\ session' = [k \in Token |->
                  IF Live(k) /\ session[k].user = r.access.user
                  THEN None ELSE session[k]]
       ELSE UNCHANGED <<account, session>>
    /\ UNCHANGED <<now, issued, granted, client, refresh, history>>

\* logout.
ServeLogout(t) ==
    LET r == call[t]["logout"] IN
    /\ r.at = "sent" /\ r.kind = "logout"
    /\ IF r.token = None THEN UNCHANGED <<session, loggedOut>>
       ELSE /\ DeleteSession(r.token)
            /\ loggedOut' = loggedOut \cup {RootOf(r.token)}
    /\ call' = [call EXCEPT ![t]["logout"].at = "done"]
    /\ UNCHANGED <<now, account, issued, granted, client, refresh, raced>>

\* deleteExpiredSessions, of the maintenance.
ExpireSessions ==
    /\ \E k \in Token : Live(k) /\ session[k].expires < now
    /\ session' = [k \in Token |-> IF Live(k) /\ session[k].expires < now
                                   THEN None ELSE session[k]]
    /\ UNCHANGED <<now, account, issued, granted, client, call, refresh,
                   history>>

\* rotateSession first reads the row, without a lock.
ReadCandidate(t) ==
    LET r == refresh[t] IN
    /\ r.at = "sent"
    /\ refresh' = [refresh EXCEPT ![t].at =
                     IF Unexpired(r.token) THEN "read" ELSE "denied"]
    /\ UNCHANGED <<now, client, call, history>> /\ UNCHANGED database

\* Then, under the lock of its active user, it deletes the row and inserts
\* the next one. Two rotations of a row meet here, and a logout, whose
\* delete takes no lock of the user.
RotateSession(t) ==
    LET r == refresh[t] IN
    /\ r.at = "read"
    /\ \/ /\ Unexpired(r.token) /\ account[session[r.token].user] = "active"
          /\ issued < Tokens
          /\ Rotate(r.token, issued + 1)
          /\ issued' = issued + 1
          /\ granted' = [granted EXCEPT ![issued + 1] = granted[r.token]]
          /\ refresh' = [refresh EXCEPT ![t] =
                            [r EXCEPT !.at = "rotated", !.new = issued + 1]]
       \/ /\ ~(Unexpired(r.token) /\ account[session[r.token].user] = "active")
          /\ refresh' = [refresh EXCEPT ![t].at = "denied"]
          /\ UNCHANGED <<session, issued, granted>>
    /\ UNCHANGED <<now, account, client, call, history>>

\* The rest of refresh: an access token for what is left of the session.
SignRefreshed(t) ==
    LET r == refresh[t]
        left == granted[r.new].expires - now
    IN
    /\ r.at = "rotated"
    /\ refresh' = IF left <= 0 THEN [refresh EXCEPT ![t].at = "denied"]
                  ELSE [refresh EXCEPT ![t] = [r EXCEPT !.at = "done", !.access =
                          AccessFor(granted[r.new].user, RootOf(r.new), left)]]
    /\ UNCHANGED <<now, client, call, history>> /\ UNCHANGED database

Tick == /\ now < MaxTime
        /\ now' = now + 1
        /\ UNCHANGED <<client, call, refresh, history>> /\ UNCHANGED database

-----------------------------------------------------------------------------
(* Answers, in the tab. The browser applies an answer's cookies whatever    *)
(* the store then makes of it.                                              *)

Idle(t, c) == [call EXCEPT ![t][c] = NoCall]
SameRevision(t, c) == call[t][c].rev = page[t].rev

\* What checkAuth shows, unless a login, a logout or a profile change has
\* advanced the revision since the request was sent.
FinishCheck(t) ==
    LET r == call[t]["guarded"] IN
    /\ r.kind = "me"
    /\ r.at \in {"done", "failed"} \/ (r.at = "denied" /\ r.retried)
    /\ IF SameRevision(t, "guarded")
       THEN /\ page' = [page EXCEPT
                 ![t].user = IF r.at = "done" THEN r.user ELSE None,
                 ![t].loading = FALSE]
            /\ hint' = ((r.at = "done") \/ (hint /\ r.at = "failed"))
       ELSE UNCHANGED <<page, hint>>
    /\ call' = Idle(t, "guarded")
    /\ UNCHANGED <<now, jar, refresh, history>> /\ UNCHANGED database

\* loginWithPassword and register.
FinishLogin(t) ==
    LET r == call[t]["login"] IN
    /\ r.kind \in {"login", "register"} /\ r.at \in {"done", "failed"}
    /\ IF r.at = "done"
       THEN /\ SetCookies(r.access, r.token)
            /\ IF SameRevision(t, "login")
               THEN /\ page' = [page EXCEPT
                         ![t].user = r.user, ![t].loading = FALSE]
                    /\ hint' = TRUE
               ELSE UNCHANGED <<page, hint>>
       ELSE UNCHANGED <<jar, page, hint>>
    /\ call' = Idle(t, "login")
    /\ UNCHANGED <<now, refresh, history>> /\ UNCHANGED database

FinishLogout(t) ==
    LET r == call[t]["logout"] IN
    /\ r.kind = "logout" /\ r.at \in {"done", "failed"}
    /\ IF r.at = "done" THEN ClearCookies ELSE UNCHANGED jar
    /\ call' = Idle(t, "logout")
    /\ UNCHANGED <<now, hint, page, refresh, history>> /\ UNCHANGED database

\* updateProfile looks at no revision: it starts a new one.
FinishUpdate(t) ==
    LET r == call[t]["guarded"] IN
    /\ r.kind = "update"
    /\ r.at \in {"done", "failed"} \/ (r.at = "denied" /\ r.retried)
    /\ page' = IF r.at = "done"
               THEN [page EXCEPT ![t].user = r.user, ![t].loading = FALSE,
                       ![t].rev = @ + 1]
               ELSE page
    /\ call' = Idle(t, "guarded")
    /\ UNCHANGED <<now, jar, hint, refresh, history>> /\ UNCHANGED database

\* deleteAccount reloads the page at /login; the tab's other requests end
\* with it, and what a refresh among them did is not known to the browser.
FinishDelete(t) ==
    LET r == call[t]["guarded"] IN
    /\ r.kind = "delete"
    /\ r.at \in {"done", "failed"} \/ (r.at = "denied" /\ r.retried)
    /\ IF r.at = "done"
       THEN /\ ClearCookies
            /\ hint' = FALSE
            /\ page' = [page EXCEPT ![t] = NewPage]
            /\ call' = [call EXCEPT ![t] = [c \in Slot |-> NoCall]]
            /\ refresh' = [refresh EXCEPT ![t] = NoRefresh]
            /\ raced' = raced \cup ({RootOf(refresh[t].token)} \ {None})
       ELSE /\ call' = Idle(t, "guarded")
            /\ UNCHANGED <<jar, hint, page, refresh, raced>>
    /\ UNCHANGED <<now, loggedOut>> /\ UNCHANGED database

\* The interceptor: a first 401 waits for the tab's refresh, which it starts
\* if none is under way.
AwaitRefresh(t, c) ==
    LET r == call[t][c] IN
    /\ r.kind \in Guarded /\ r.at = "denied" /\ ~r.retried
    /\ call' = [call EXCEPT ![t][c].at = "waiting"]
    /\ IF refresh[t].at = "idle"
       THEN /\ refresh' = [refresh EXCEPT ![t] =
                 [at |-> IF jar.refresh = None THEN "denied" ELSE "sent",
                  token |-> jar.refresh, new |-> None, access |-> None]]
            /\ raced' = IF InLogout(RootOf(jar.refresh))
                        THEN raced \cup ({RootOf(jar.refresh)} \ {None})
                        ELSE raced
       ELSE UNCHANGED <<refresh, raced>>
    /\ UNCHANGED <<now, client, loggedOut>> /\ UNCHANGED database

\* Its answer: the waiting requests are sent once more, or fail with it. A
\* refused token clears the cookies, whoever has set them meanwhile.
FinishRefresh(t) ==
    LET r == refresh[t]
        Waiting == {c \in Slot : call[t][c].at = "waiting"}
        After(c) ==
          CASE r.at = "done" -> [call[t][c] EXCEPT !.at = "sent",
                                   !.access = r.access, !.retried = TRUE]
            [] r.at = "denied" -> [call[t][c] EXCEPT !.at = "denied",
                                     !.retried = TRUE]
            [] OTHER -> [call[t][c] EXCEPT !.at = "failed"]
    IN
    /\ r.at \in {"done", "denied", "failed"}
    /\ CASE r.at = "done" -> SetCookies(r.access, r.new)
         [] r.at = "denied" /\ r.token # None -> ClearCookies
         [] OTHER -> UNCHANGED jar
    /\ call' = [call EXCEPT ![t] = [c \in Slot |->
                  IF c \in Waiting THEN After(c) ELSE call[t][c]]]
    /\ refresh' = [refresh EXCEPT ![t] = NoRefresh]
    /\ UNCHANGED <<now, hint, page, history>> /\ UNCHANGED database

\* An answer is lost on the network, or comes after the 60 s of the request.
LoseCall(t, c) ==
    /\ call[t][c].at = "done"
    /\ call' = [call EXCEPT ![t][c].at = "failed"]
    /\ UNCHANGED <<now, client, refresh, history>> /\ UNCHANGED database

LoseRefresh(t) ==
    /\ refresh[t].at \in {"sent", "done"}
    /\ refresh' = [refresh EXCEPT ![t].at = "failed"]
    /\ raced' = raced \cup {RootOf(refresh[t].token)}
    /\ UNCHANGED <<now, client, call, loggedOut>> /\ UNCHANGED database

Next ==
    \/ \E t \in Tab :
         \/ OpenPage(t) \/ SubmitLogout(t) \/ GithubLogin(t)
         \/ \E u \in User : \/ \E kind \in {"login", "register"} :
                                 SubmitLogin(t, kind, u)
                            \/ \E life \in {BrowserLife, RememberedLife} :
                                 GithubCallback(t, u, life)
         \/ \E kind \in {"update", "delete"} : SubmitProfile(t, kind)
         \/ \E ok \in BOOLEAN : VerifyLogin(t, ok)
         \/ \E life \in {BrowserLife, RememberedLife} : AnswerLogin(t, life)
         \/ \E c \in Slot :
              ServeGuarded(t, c) \/ AwaitRefresh(t, c) \/ LoseCall(t, c)
         \/ ServeLogout(t) \/ ReadCandidate(t) \/ RotateSession(t)
         \/ SignRefreshed(t) \/ FinishCheck(t) \/ FinishLogin(t)
         \/ FinishLogout(t) \/ FinishUpdate(t) \/ FinishDelete(t)
         \/ FinishRefresh(t) \/ LoseRefresh(t)
    \/ ExpireSessions \/ Tick

Spec == Init /\ [][Next]_vars

-----------------------------------------------------------------------------

\* A login never has two live sessions: of two tabs that refresh at once, or
\* of a refresh whose answer was lost and its retry, one gets the next
\* token, and an account whose deletion has begun has none (rotateSession,
\* createSession, enqueueAccountCleanup).
OneSessionPerLogin ==
    /\ AccountsTypeOK
    /\ \A k1, k2 \in Token :
         Live(k1) /\ Live(k2) /\ RootOf(k1) = RootOf(k2) => k1 = k2
    /\ \A k \in Token : Live(k) => account[session[k].user] = "active"

\* Refreshing never lengthens a login: its session keeps the expiry the login
\* was given, and no access token, in the jar or on its way there, is good
\* after it (refresh, generateAccessToken).
LoginsEndOnTime ==
    /\ \A k \in Token : Live(k) =>
         /\ session[k].expires = granted[k].expires
         /\ granted[k].expires = granted[RootOf(k)].expires
    /\ \A a \in {jar.access} \cup {refresh[t].access : t \in Tab}
               \cup {call[t]["login"].access : t \in Tab} :
         a # None => a.until <= granted[a.root].expires

\* A logout ends its login: once the server has handled it no session of the
\* login is left, whatever token the login had reached, unless a refresh
\* overlapped the logout or its answer never came (logout, deleteSession).
LogoutEndsTheLogin == \A root \in loggedOut \ raced : LiveOf(root) = {}
=============================================================================
