----------------------------- MODULE AccountProofs -----------------------------
(* Theorems about the accounts and their sessions, for every number of        *)
(* accounts, tabs, tokens and every lifetime.                                 *)
EXTENDS Accounts, TLAPS

Grant == [user : User, expires : Nat, root : Token]
CallRow == [kind : {"none", "me", "login", "register", "update", "delete", "logout", "github"},
            at : {"idle", "sent", "verified", "done", "denied", "failed", "waiting"},
            rev : Nat, user : {None} \cup User, access : {None} \cup Access,
            token : {None} \cup Token, retried : BOOLEAN]
CallStage == {"idle", "sent", "verified", "done", "denied", "failed", "waiting"}
RefreshRow == [at : {"idle", "sent", "read", "rotated", "done", "denied", "failed"},
               token : {None} \cup Token, new : {None} \cup Token, access : {None} \cup Access]
PageRow == [up : BOOLEAN, user : {None} \cup User, loading : BOOLEAN, rev : Nat]
Cookies == [access : {None} \cup Access, refresh : {None} \cup Token, context : {None} \cup Tab]

Types ==
    /\ now \in Nat /\ now <= MaxTime
    /\ account \in [User -> {"absent", "active", "pending"}]
    /\ session \in [Token -> {None} \cup SessionRow]
    /\ issued \in Nat /\ issued <= Tokens
    /\ granted \in [Token -> {None} \cup Grant]
    /\ jar \in Cookies /\ hint \in BOOLEAN
    /\ page \in [Tab -> PageRow]
    /\ call \in [Tab -> [Slot -> CallRow]]
    /\ refresh \in [Tab -> RefreshRow]
    /\ loggedOut \subseteq Token /\ raced \subseteq Token

\* Every token that was issued has a grant, a login is named by its first one
\* and its tokens expire together. A live session is what its token was granted,
\* of an active account, and the only one of its login.
SessionsAreRight ==
    /\ \A k \in 1..issued :
         /\ granted[k] \in Grant
         /\ granted[k].root \in 1..k
         /\ granted[granted[k].root].root = granted[k].root
         /\ granted[granted[k].root].expires = granted[k].expires
    /\ \A k \in Token : session[k] # None =>
         /\ k \in 1..issued
         /\ session[k].user = granted[k].user /\ session[k].expires = granted[k].expires
         /\ account[session[k].user] = "active"
         /\ \A m \in Token : session[m] # None /\ granted[m].root = granted[k].root => m = k

\* A token somebody has was issued; an access token ends with its login.
Known(k, n) == k = None \/ k \in 1..n
EndsInTime(a, g, n) ==
    a = None \/ (a \in Access /\ a.root \in 1..n /\ a.until <= g[a.root].expires)

KindsOf(c) ==
    CASE c = "guarded" -> {"none"} \cup Guarded
      [] c = "login" -> {"none", "login", "register", "github"}
      [] c = "logout" -> {"none", "logout"}

\* What a request of a slot holds.
CallIsRight(c, r, g, n) ==
    /\ r.kind \in KindsOf(c)
    /\ r.at = "waiting" => c = "guarded"
    /\ Known(r.token, n) /\ EndsInTime(r.access, g, n)
    /\ c = "login" =>
         /\ r.kind \in {"login", "register"} => r.user \in User
         /\ r.at # "idle" => r.kind \in {"login", "register", "github"}
         /\ r.at \in {"verified", "done"} => r.kind \in {"login", "register"}
         /\ r.at = "done" => r.token \in 1..n /\ g[r.token].root = r.token

\* What a refresh has in hand.
RefreshIsRight(r, g, n, over) ==
    /\ Known(r.token, n) /\ EndsInTime(r.access, g, n)
    /\ r.at \in {"sent", "read", "rotated", "done", "failed"} => r.token \in 1..n
    /\ r.at \in {"rotated", "done"} => r.new \in 1..n /\ g[r.new].root = g[r.token].root
    /\ r.at = "failed" => g[r.token].root \in over

HandsAreRight ==
    /\ Known(jar.refresh, issued) /\ EndsInTime(jar.access, granted, issued)
    /\ \A t \in Tab :
         /\ RefreshIsRight(refresh[t], granted, issued, raced)
         /\ \A c \in Slot : CallIsRight(c, call[t][c], granted, issued)

\* The new token that an answer on its way will put into the cookie jar.
Brings(t, c) ==
    IF c = "login"
    THEN IF call[t]["login"].at = "done" THEN call[t]["login"].token ELSE None
    ELSE IF refresh[t].at \in {"rotated", "done"} THEN refresh[t].new ELSE None

Answer == {"login", "refresh"}

\* Until its answer arrives nobody has a new token.
NewAreUnseen ==
    \A t \in Tab, c \in Answer : Brings(t, c) # None =>
        /\ jar.refresh # Brings(t, c)
        /\ \A u \in Tab : refresh[u].token # Brings(t, c)
        /\ \A u \in Tab, d \in Answer : Brings(u, d) = Brings(t, c) => u = t /\ d = c

\* At most this token of the login is live.
OnlyLive(root, k) == \A m \in Token : session[m] # None /\ granted[m].root = root => m = k

\* Of a login that no overlap is recorded of: what an answer brings, what the
\* jar has while nothing refreshes it, and what a logout names, is the one token
\* that may be live; and nothing is after the logout.
NewestAreHeld ==
    /\ \A t \in Tab, c \in Answer :
         Brings(t, c) # None /\ granted[Brings(t, c)].root \notin raced
           => OnlyLive(granted[Brings(t, c)].root, Brings(t, c))
    /\ jar.refresh # None /\ granted[jar.refresh].root \notin raced
         => \/ OnlyLive(granted[jar.refresh].root, jar.refresh)
            \/ InRefresh(granted[jar.refresh].root)
    /\ \A t \in Tab : LET r == call[t]["logout"] IN
         r.at = "sent" /\ r.token # None /\ granted[r.token].root \notin raced
           => OnlyLive(granted[r.token].root, r.token)

\* A refresh that meets a logout is recorded.
OverlapsAreRecorded ==
    \A t, u \in Tab :
        LET r == call[u]["logout"] IN
        /\ refresh[t].at # "idle" /\ refresh[t].token # None
        /\ r.at # "idle" /\ r.token # None
        /\ granted[r.token].root = granted[refresh[t].token].root
        => granted[r.token].root \in raced

LogoutsAreLast ==
    \A root \in loggedOut : root \in 1..issued /\ (root \notin raced => OnlyLive(root, None))

AccountsInv ==
    Types /\ SessionsAreRight /\ HandsAreRight /\ NewAreUnseen /\ NewestAreHeld
      /\ OverlapsAreRecorded /\ LogoutsAreLast

-----------------------------------------------------------------------------
(* Rows. *)

\* The bounds and lifetimes are numbers, and the null value is none of them.
LEMMA Numbers ==
    /\ Tokens \in Nat /\ MaxTime \in Nat /\ MaxRev \in Nat
    /\ AccessLife \in Nat /\ BrowserLife \in Nat /\ RememberedLife \in Nat
    /\ AccessLife <= BrowserLife /\ AccessLife <= RememberedLife
    /\ None \notin User /\ None \notin Tab /\ None \notin Nat /\ None \notin Token
BY AccountsAssumption DEF Token

\* A request as it is sent.
LEMMA CallRows ==
    ASSUME NEW kind \in {"none", "me", "login", "register", "update", "delete", "logout", "github"},
           NEW at \in {"idle", "sent", "verified", "done", "denied", "failed", "waiting"},
           NEW rev \in Nat, NEW user \in {None} \cup User, NEW access \in {None} \cup Access,
           NEW token \in {None} \cup Token, NEW retried \in BOOLEAN
    PROVE  [kind |-> kind, at |-> at, rev |-> rev, user |-> user, access |-> access,
            token |-> token, retried |-> retried] \in CallRow
BY DEF CallRow

\* No request.
LEMMA NoCallRow == NoCall \in CallRow
BY CallRows, 0 \in Nat, FALSE \in BOOLEAN, Zenon DEF NoCall

\* What the row of a request holds.
LEMMA CallFields ==
    ASSUME NEW r \in CallRow
    PROVE  /\ r.kind \in {"none", "me", "login", "register", "update", "delete", "logout", "github"}
           /\ r.at \in {"idle", "sent", "verified", "done", "denied", "failed", "waiting"}
           /\ r.rev \in Nat /\ r.user \in {None} \cup User /\ r.access \in {None} \cup Access
           /\ r.token \in {None} \cup Token /\ r.retried \in BOOLEAN
BY DEF CallRow

\* A request moves on.
LEMMA CallGoesOn ==
    ASSUME NEW r \in CallRow, NEW at \in CallStage
    PROVE  /\ [r EXCEPT !.at = at] \in CallRow
           /\ [r EXCEPT !.at = at].at = at
           /\ [r EXCEPT !.at = at].kind = r.kind /\ [r EXCEPT !.at = at].user = r.user
           /\ [r EXCEPT !.at = at].access = r.access /\ [r EXCEPT !.at = at].token = r.token
BY DEF CallRow, CallStage

\* A guarded request is let in.
LEMMA CallIsLetIn ==
    ASSUME NEW r \in CallRow, NEW user \in User
    PROVE  /\ [r EXCEPT !.at = "done", !.user = user] \in CallRow
           /\ [r EXCEPT !.at = "done", !.user = user].at = "done"
           /\ [r EXCEPT !.at = "done", !.user = user].kind = r.kind
           /\ [r EXCEPT !.at = "done", !.user = user].access = r.access
           /\ [r EXCEPT !.at = "done", !.user = user].token = r.token
BY DEF CallRow

\* What holds of an access token, of a request and of a refresh still does when
\* tokens are added and more overlaps recorded.
LEMMA StillRight ==
    ASSUME NEW g, NEW h, NEW n \in Nat, NEW m \in Nat, n <= m, \A k \in 1..n : h[k] = g[k],
           NEW over, NEW more, over \subseteq more
    PROVE  /\ \A k : Known(k, n) => Known(k, m)
           /\ \A a : EndsInTime(a, g, n) => EndsInTime(a, h, m)
           /\ \A c, r : CallIsRight(c, r, g, n) => CallIsRight(c, r, h, m)
           /\ \A r : RefreshIsRight(r, g, n, over) => RefreshIsRight(r, h, m, more)
<1>1. ASSUME NEW k, Known(k, n) PROVE Known(k, m)
  BY <1>1 DEF Known
<1>2. ASSUME NEW a, EndsInTime(a, g, n) PROVE EndsInTime(a, h, m)
  BY <1>2 DEF EndsInTime
<1>3. ASSUME NEW c, NEW r, CallIsRight(c, r, g, n) PROVE CallIsRight(c, r, h, m)
  BY <1>1, <1>2, <1>3 DEF CallIsRight
<1>4. ASSUME NEW r, RefreshIsRight(r, g, n, over) PROVE RefreshIsRight(r, h, m, more)
  <2>1. Known(r.token, m) /\ EndsInTime(r.access, h, m)
    BY <1>1, <1>2, <1>4 DEF RefreshIsRight
  <2>2. r.token \in 1..n => r.token \in 1..m /\ h[r.token].root = g[r.token].root
    OBVIOUS
  <2>3. r.new \in 1..n => r.new \in 1..m /\ h[r.new].root = g[r.new].root
    OBVIOUS
  <2> QED BY <1>4, <2>1, <2>2, <2>3 DEF RefreshIsRight
<1> QED BY <1>1, <1>2, <1>3, <1>4

-----------------------------------------------------------------------------
(* Steps by what they leave alone. *)

\* Tokens are only added.
Grows == issued \in Nat /\ issued' \in Nat /\ issued <= issued' /\ \A k \in 1..issued : granted'[k] = granted[k]

\* Sessions are only ended, and no account of one that goes on.
Shrinks ==
    /\ issued' = issued /\ granted' = granted
    /\ session' \in [Token -> {None} \cup SessionRow]
    /\ \A k \in Token : session'[k] # None =>
         session'[k] = session[k] /\ account'[session[k].user] = "active"

BringsLess == \A t \in Tab, c \in Answer : Brings(t, c)' = Brings(t, c) \/ Brings(t, c)' = None

RefreshesGoOn ==
    \A t \in Tab :
        /\ refresh'[t].token \in {refresh[t].token, None}
        /\ refresh'[t].at # "idle" /\ refresh'[t].token # None => refresh[t].at # "idle"

LogoutsGoOn ==
    \A t \in Tab : call'[t]["logout"].at # "idle" =>
        /\ call[t]["logout"].at # "idle" /\ call'[t]["logout"].token = call[t]["logout"].token
        /\ call'[t]["logout"].at = "sent" => call[t]["logout"].at = "sent"

\* A refresh that is gone was recorded, or the jar is empty.
RefreshesStay ==
    jar'.refresh # None =>
        \A t \in Tab : refresh[t].at # "idle" /\ refresh[t].token # None =>
            \/ refresh'[t].at # "idle" /\ refresh'[t].token = refresh[t].token
            \/ granted[refresh[t].token].root \in raced'

\* Sessions that end leave the others as they are.
LEMMA SessionsStay ==
    ASSUME Types, SessionsAreRight, Shrinks
    PROVE  SessionsAreRight'
BY DEF Types, SessionsAreRight, Shrinks

\* What is held and on its way stays right, but for what changes.
LEMMA HandsStay ==
    ASSUME HandsAreRight, Grows, raced \subseteq raced',
           jar' = jar \/ (Known(jar'.refresh, issued') /\ EndsInTime(jar'.access, granted', issued')),
           \A t \in Tab : \/ refresh'[t] = refresh[t]
                          \/ RefreshIsRight(refresh'[t], granted', issued', raced'),
           \A t \in Tab, c \in Slot : \/ call'[t][c] = call[t][c]
                                      \/ CallIsRight(c, call'[t][c], granted', issued')
    PROVE  HandsAreRight'
<1>1. /\ \A k : Known(k, issued) => Known(k, issued')
      /\ \A a : EndsInTime(a, granted, issued) => EndsInTime(a, granted', issued')
      /\ \A c, r : CallIsRight(c, r, granted, issued) => CallIsRight(c, r, granted', issued')
      /\ \A r : RefreshIsRight(r, granted, issued, raced) => RefreshIsRight(r, granted', issued', raced')
  BY StillRight DEF Grows
<1>2. Known(jar'.refresh, issued') /\ EndsInTime(jar'.access, granted', issued')
  BY <1>1 DEF HandsAreRight
<1>3. ASSUME NEW t \in Tab PROVE RefreshIsRight(refresh'[t], granted', issued', raced')
  BY <1>1, <1>3 DEF HandsAreRight
<1>4. ASSUME NEW t \in Tab, NEW c \in Slot PROVE CallIsRight(c, call'[t][c], granted', issued')
  BY <1>1, <1>4 DEF HandsAreRight
<1> QED BY <1>2, <1>3, <1>4 DEF HandsAreRight

\* New tokens stay unseen while nothing but the jar is read.
LEMMA UnseenStay ==
    ASSUME NewAreUnseen, BringsLess,
           jar'.refresh = jar.refresh \/ jar'.refresh = None,
           \A t \in Tab : refresh'[t].token \in {refresh[t].token, jar.refresh, None}
    PROVE  NewAreUnseen'
<1> SUFFICES ASSUME NEW t \in Tab, NEW c \in Answer, Brings(t, c)' # None
             PROVE  /\ jar'.refresh # Brings(t, c)'
                    /\ \A u \in Tab : refresh'[u].token # Brings(t, c)'
                    /\ \A u \in Tab, d \in Answer : Brings(u, d)' = Brings(t, c)' => u = t /\ d = c
  BY DEF NewAreUnseen
<1>1. Brings(t, c)' = Brings(t, c) /\ Brings(t, c) # None
  BY DEF BringsLess
<1>2. /\ jar.refresh # Brings(t, c)
      /\ \A u \in Tab : refresh[u].token # Brings(t, c)
      /\ \A u \in Tab, d \in Answer : Brings(u, d) = Brings(t, c) => u = t /\ d = c
  BY <1>1 DEF NewAreUnseen
<1>3. \A u \in Tab, d \in Answer : Brings(u, d)' = Brings(t, c)' => u = t /\ d = c
  BY <1>1, <1>2 DEF BringsLess
<1>4. \A u \in Tab : refresh'[u].token # Brings(t, c)'
  BY <1>1, <1>2
<1> QED BY <1>1, <1>2, <1>3, <1>4

\* An only session is so after others have ended.
LEMMA OnlyStays ==
    ASSUME Shrinks, NEW root, NEW k, OnlyLive(root, k)
    PROVE  OnlyLive(root, k)'
BY DEF Shrinks, OnlyLive

\* A logout names the token it named, or the one of the jar, that nothing refreshes.
LogoutsNameTheJar ==
    \A t \in Tab : call'[t]["logout"].at = "sent" =>
        \/ /\ call[t]["logout"].at = "sent" /\ call'[t]["logout"].token = call[t]["logout"].token
        \/ /\ call'[t]["logout"].token = jar.refresh
           /\ jar.refresh # None =>
                granted[jar.refresh].root \in raced' \/ ~InRefresh(granted[jar.refresh].root)

\* What is held stays the newest when sessions end and requests go on.
LEMMA HeldStay ==
    ASSUME Types, SessionsAreRight, HandsAreRight, NewestAreHeld, Shrinks, BringsLess,
           LogoutsNameTheJar, RefreshesStay, raced \subseteq raced',
           jar'.refresh = jar.refresh \/ jar'.refresh = None
    PROVE  NewestAreHeld'
<1>1. \A root, k : OnlyLive(root, k) => OnlyLive(root, k)'
  BY OnlyStays
<1>2. granted' = granted
  BY DEF Shrinks
<1>3. ASSUME NEW t \in Tab, NEW c \in Answer, Brings(t, c)' # None, granted'[Brings(t, c)'].root \notin raced'
      PROVE  OnlyLive(granted[Brings(t, c)].root, Brings(t, c))'
  <2>1. Brings(t, c)' = Brings(t, c) /\ Brings(t, c) # None
    BY <1>3 DEF BringsLess
  <2>2. PICK b : b = Brings(t, c)
    OBVIOUS
  <2>3. OnlyLive(granted[b].root, b)
    BY <1>2, <1>3, <2>1, <2>2 DEF NewestAreHeld
  <2>4. PICK root : root = granted[b].root
    OBVIOUS
  <2>5. OnlyLive(root, b)'
    BY <1>1, <2>3, <2>4
  <2> QED BY <1>2, <2>1, <2>2, <2>4, <2>5 DEF OnlyLive
<1>4. ASSUME jar'.refresh # None, granted'[jar'.refresh].root \notin raced'
      PROVE  \/ OnlyLive(granted[jar.refresh].root, jar.refresh)'
             \/ InRefresh(granted[jar.refresh].root)'
  <2>1. PICK k : k = jar.refresh
    OBVIOUS
  <2>2. PICK root : root = granted[k].root
    OBVIOUS
  <2>3. jar'.refresh = k /\ granted' = granted /\ root \notin raced /\ k # None
    BY <1>2, <1>4, <2>1, <2>2
  <2>4. CASE OnlyLive(root, k)
    <3>1. OnlyLive(root, k)'
      BY <1>1, <2>4
    <3> QED BY <2>2, <2>3, <3>1 DEF OnlyLive
  <2>5. CASE InRefresh(root)
    <3>1. PICK t \in Tab : refresh[t].at # "idle" /\ RootOf(refresh[t].token) = root
      BY <2>5 DEF InRefresh
    <3>2. refresh[t].token # None
      <4>1. k \in 1..issued /\ root \in Nat
        BY <2>1, <2>2, <2>3, Numbers DEF HandsAreRight, Known, SessionsAreRight, Types
      <4> QED BY <3>1, <4>1, Numbers DEF RootOf
    <3>3. granted[refresh[t].token].root = root
      BY <3>1, <3>2 DEF RootOf
    <3>4. refresh'[t].at # "idle" /\ refresh'[t].token = refresh[t].token
      BY <1>2, <1>4, <2>2, <2>3, <3>1, <3>2, <3>3 DEF RefreshesStay
    <3>5. InRefresh(root)'
      BY <1>2, <3>1, <3>3, <3>4, <3>2 DEF InRefresh, RootOf
    <3> QED BY <2>2, <2>3, <3>5 DEF InRefresh
  <2> QED BY <2>1, <2>2, <2>3, <2>4, <2>5 DEF NewestAreHeld
<1>5. ASSUME NEW t \in Tab, call'[t]["logout"].at = "sent", call'[t]["logout"].token # None,
             granted'[call'[t]["logout"].token].root \notin raced'
      PROVE  OnlyLive(granted[call[t]["logout"].token].root, call[t]["logout"].token)'
  <2>1. PICK k : k = call'[t]["logout"].token
    OBVIOUS
  <2>2. PICK root : root = granted[k].root
    OBVIOUS
  <2>3. root \notin raced /\ root \notin raced' /\ k # None
    BY <1>2, <1>5, <2>1, <2>2
  <2>4. OnlyLive(root, k)
    <3>1. CASE call[t]["logout"].at = "sent" /\ call[t]["logout"].token = k
      BY <2>2, <2>3, <3>1 DEF NewestAreHeld
    <3>2. CASE k = jar.refresh /\ ~InRefresh(root)
      BY <2>2, <2>3, <3>2 DEF NewestAreHeld
    <3> QED BY <1>5, <2>1, <2>2, <2>3, <3>1, <3>2 DEF LogoutsNameTheJar
  <2>5. OnlyLive(root, k)'
    BY <1>1, <2>4
  <2> QED BY <1>2, <2>1, <2>2, <2>5 DEF OnlyLive
<1> QED BY <1>3, <1>4, <1>5 DEF NewestAreHeld

\* Overlaps stay recorded while refreshes and logouts go on.
LEMMA OverlapsStay ==
    ASSUME OverlapsAreRecorded, granted' = granted, RefreshesGoOn, LogoutsGoOn, raced \subseteq raced'
    PROVE  OverlapsAreRecorded'
BY DEF OverlapsAreRecorded, RefreshesGoOn, LogoutsGoOn

\* After a logout nothing of its login comes back while sessions only end.
LEMMA LastStay ==
    ASSUME LogoutsAreLast, Shrinks, loggedOut' = loggedOut, raced \subseteq raced'
    PROVE  LogoutsAreLast'
BY DEF LogoutsAreLast, Shrinks, OnlyLive

\* One step in which sessions only end, and requests go on or are over.
LEMMA TokensStay ==
    ASSUME AccountsInv, Types', Shrinks, BringsLess, RefreshesGoOn, LogoutsGoOn, RefreshesStay,
           loggedOut' = loggedOut \/ LogoutsAreLast', raced \subseteq raced', HandsAreRight',
           jar'.refresh = jar.refresh \/ jar'.refresh = None
    PROVE  AccountsInv'
<1>1. SessionsAreRight'
  BY SessionsStay DEF AccountsInv
<1>2. NewestAreHeld'
  <2>1. LogoutsNameTheJar
    BY DEF LogoutsGoOn, LogoutsNameTheJar
  <2> QED BY <2>1, HeldStay DEF AccountsInv
<1>3. OverlapsAreRecorded' /\ LogoutsAreLast'
  BY OverlapsStay, LastStay DEF AccountsInv, Shrinks
<1>4. NewAreUnseen'
  BY UnseenStay DEF AccountsInv, RefreshesGoOn
<1> QED BY <1>1, <1>2, <1>3, <1>4 DEF AccountsInv

\* A step without one of the database.
LEMMA NothingEnds ==
    ASSUME Types, SessionsAreRight, UNCHANGED <<session, issued, granted>>,
           \A u \in User : account[u] = "active" => account'[u] = "active"
    PROVE  Shrinks /\ Grows
BY DEF Types, SessionsAreRight, Shrinks, Grows, SessionRow

\* One request moves on, while sessions may end and the jar may be cleared.
LEMMA CallMoves ==
    ASSUME AccountsInv, NEW t \in Tab, NEW c \in Slot, NEW row \in CallRow,
           CallIsRight(c, row, granted, issued),
           call' = [call EXCEPT ![t][c] = row],
           UNCHANGED <<now, refresh, history>>, Shrinks,
           account' \in [User -> {"absent", "active", "pending"}],
           jar' \in Cookies, hint' \in BOOLEAN, page' \in [Tab -> PageRow],
           \/ jar'.refresh = jar.refresh /\ jar'.access = jar.access
           \/ jar'.refresh = None /\ jar'.access = None,
           c = "login" => row.at # "done",
           c = "logout" => \/ row.at = "idle"
                           \/ /\ call[t][c].at # "idle" /\ row.token = call[t][c].token
                              /\ row.at # "sent"
    PROVE  AccountsInv'
<1>1. /\ call' \in [Tab -> [Slot -> CallRow]] /\ call'[t][c] = row
      /\ \A u \in Tab, d \in Slot : u # t \/ d # c => call'[u][d] = call[u][d]
  BY DEF AccountsInv, Types
<1>2. Types'
  BY <1>1 DEF AccountsInv, Types, Shrinks, history
<1>3. Grows /\ issued' = issued /\ granted' = granted /\ raced' = raced
  BY DEF AccountsInv, Types, Shrinks, Grows, history
<1>4. Known(jar'.refresh, issued) /\ EndsInTime(jar'.access, granted, issued)
  BY DEF AccountsInv, HandsAreRight, Known, EndsInTime
<1>5. \A u \in Tab, d \in Slot : call'[u][d] = call[u][d] \/ CallIsRight(d, call'[u][d], granted', issued')
  BY <1>1, <1>3
<1>6. HandsAreRight'
  BY <1>3, <1>4, <1>5, HandsStay DEF AccountsInv
<1>7. "login" \in Slot /\ "logout" \in Slot
  BY DEF Slot
<1>8. BringsLess
  BY <1>1, <1>7 DEF BringsLess, Brings
<1>9. LogoutsGoOn
  BY <1>1, <1>7 DEF LogoutsGoOn
<1>10. RefreshesGoOn /\ RefreshesStay
  BY DEF RefreshesGoOn, RefreshesStay
<1> QED BY <1>2, <1>3, <1>6, <1>8, <1>9, <1>10, TokensStay DEF history

\* One refresh moves on.
LEMMA RefreshMoves ==
    ASSUME AccountsInv, NEW t \in Tab, NEW row \in RefreshRow,
           refresh' = [refresh EXCEPT ![t] = row],
           UNCHANGED <<now, client, call, loggedOut>>, UNCHANGED database,
           raced \subseteq raced', raced' \subseteq Token,
           RefreshIsRight(row, granted, issued, raced'),
           refresh[t].at # "idle", row.at # "idle", row.token = refresh[t].token,
           row.at \in {"rotated", "done"} =>
             refresh[t].at \in {"rotated", "done"} /\ row.new = refresh[t].new
    PROVE  AccountsInv'
<1>1. /\ refresh' \in [Tab -> RefreshRow] /\ refresh'[t] = row
      /\ \A u \in Tab : u # t => refresh'[u] = refresh[u]
  BY DEF AccountsInv, Types
<1>2. Shrinks /\ Grows
  BY NothingEnds DEF AccountsInv, database
<1>3. Types'
  BY <1>1 DEF AccountsInv, Types, client, database
<1>4. \A u \in Tab : refresh'[u] = refresh[u] \/ RefreshIsRight(refresh'[u], granted', issued', raced')
  BY <1>1 DEF database
<1>5. HandsAreRight'
  BY <1>2, <1>4, HandsStay DEF AccountsInv, client
<1>6. BringsLess
  BY <1>1 DEF BringsLess, Brings
<1>7. LogoutsGoOn /\ RefreshesGoOn /\ RefreshesStay
  BY <1>1 DEF LogoutsGoOn, RefreshesGoOn, RefreshesStay
<1> QED BY <1>2, <1>3, <1>5, <1>6, <1>7, TokensStay DEF client

-----------------------------------------------------------------------------
(* The steps. *)

\* The store of a tab changes.
LEMMA PageRows ==
    ASSUME NEW p \in PageRow, NEW up \in BOOLEAN, NEW user \in {None} \cup User,
           NEW loading \in BOOLEAN, NEW rev \in Nat
    PROVE  /\ [p EXCEPT !.up = up, !.user = user, !.loading = loading] \in PageRow
           /\ [p EXCEPT !.up = up, !.loading = loading] \in PageRow
           /\ [p EXCEPT !.up = up] \in PageRow
           /\ [p EXCEPT !.user = user, !.loading = loading] \in PageRow
           /\ [p EXCEPT !.rev = rev, !.user = user, !.loading = loading] \in PageRow
           /\ [p EXCEPT !.user = user, !.loading = loading, !.rev = rev] \in PageRow
BY DEF PageRow

\* The store of a page.
LEMMA PageIsRow ==
    ASSUME NEW up \in BOOLEAN, NEW user \in {None} \cup User, NEW loading \in BOOLEAN, NEW rev \in Nat
    PROVE  [up |-> up, user |-> user, loading |-> loading, rev |-> rev] \in PageRow
BY DEF PageRow

\* A page that is not yet loaded.
LEMMA NewPageRow == NewPage \in PageRow
<1>1. 0 \in Nat /\ FALSE \in BOOLEAN /\ TRUE \in BOOLEAN /\ None \in {None} \cup User
  OBVIOUS
<1>2. [up |-> FALSE, user |-> None, loading |-> TRUE, rev |-> 0] \in PageRow
  BY <1>1, PageIsRow, Zenon
<1> QED BY <1>2 DEF NewPage

\* A request is sent with the cookies of the jar.
LEMMA Sends ==
    ASSUME AccountsInv, NEW c \in Slot, NEW kind \in KindsOf(c) \ {"none"}, NEW rev \in Nat,
           NEW user \in {None} \cup User, kind \in {"login", "register"} => user \in User,
           NEW row, row = [kind |-> kind, at |-> "sent", rev |-> rev, user |-> user,
                           access |-> jar.access, token |-> jar.refresh, retried |-> FALSE]
    PROVE  row \in CallRow /\ CallIsRight(c, row, granted, issued)
           /\ row.at = "sent" /\ row.token = jar.refresh
<1>1. jar.access \in {None} \cup Access /\ jar.refresh \in {None} \cup Token
  BY DEF AccountsInv, Types, Cookies
<1>2. kind \in {"none", "me", "login", "register", "update", "delete", "logout", "github"}
  BY DEF KindsOf, Slot, Guarded
<1>3. row \in CallRow
  BY <1>1, <1>2, CallRows, FALSE \in BOOLEAN, Zenon
<1>4. CallIsRight(c, row, granted, issued)
  BY DEF CallIsRight, AccountsInv, HandsAreRight, KindsOf, Slot, Guarded
<1> QED BY <1>3, <1>4

\* A page is opened and checks who is logged in.
LEMMA OpenPageKeeps ==
    ASSUME AccountsInv, NEW t \in Tab, OpenPage(t)
    PROVE  AccountsInv'
<1>1. /\ UNCHANGED <<now, jar, hint, refresh, history>> /\ UNCHANGED database
      /\ page[t] \in PageRow /\ page[t].rev \in Nat /\ page \in [Tab -> PageRow]
      /\ "guarded" \in Slot /\ jar \in Cookies /\ hint \in BOOLEAN
      /\ call[t]["guarded"] \in CallRow
      /\ CallIsRight("guarded", call[t]["guarded"], granted, issued)
  BY DEF OpenPage, CheckAuth, AccountsInv, Types, PageRow, Slot, HandsAreRight
<1>2. Shrinks
  BY <1>1, NothingEnds DEF AccountsInv, database
<1>3. page' \in [Tab -> PageRow]
  <2>1. PICK p : page' = [page EXCEPT ![t] = p]
            /\ (p = [page[t] EXCEPT !.up = TRUE, !.user = None, !.loading = FALSE]
                \/ p = [page[t] EXCEPT !.up = TRUE, !.loading = TRUE])
    BY <1>1 DEF OpenPage, CheckAuth
  <2>2. p \in PageRow
    <3>1. TRUE \in BOOLEAN /\ FALSE \in BOOLEAN /\ None \in {None} \cup User
      OBVIOUS
    <3>2. [page[t] EXCEPT !.up = TRUE, !.user = None, !.loading = FALSE] \in PageRow
      BY <1>1, <3>1, PageRows, Zenon
    <3>3. [page[t] EXCEPT !.up = TRUE, !.loading = TRUE] \in PageRow
      BY <1>1, <3>1, PageRows, Zenon
    <3> QED BY <2>1, <3>2, <3>3
  <2> QED BY <1>1, <2>1, <2>2
<1>4. account' \in [User -> {"absent", "active", "pending"}]
  BY <1>1 DEF AccountsInv, Types, database
<1>5. CASE UNCHANGED call
  <2>1. call' = [call EXCEPT ![t]["guarded"] = call[t]["guarded"]]
    BY <1>5 DEF AccountsInv, Types
  <2> QED BY <1>1, <1>2, <1>3, <1>4, <2>1, CallMoves
<1>6. CASE ~UNCHANGED call
  <2>1. PICK row : /\ call' = [call EXCEPT ![t]["guarded"] = row]
                   /\ row = [kind |-> "me", at |-> "sent", rev |-> page[t].rev, user |-> None,
                             access |-> jar.access, token |-> jar.refresh, retried |-> FALSE]
    BY <1>6 DEF OpenPage, CheckAuth
  <2>2. row \in CallRow /\ CallIsRight("guarded", row, granted, issued)
    <3>1. "me" \in KindsOf("guarded") \ {"none"}
      BY DEF KindsOf, Guarded
    <3> QED BY <1>1, <2>1, <3>1, Sends
  <2> QED BY <1>1, <1>2, <1>3, <1>4, <2>1, <2>2, CallMoves
<1> QED BY <1>5, <1>6

\* What the types of the state say of one tab.
LEMMA TabTypes ==
    ASSUME AccountsInv, NEW t \in Tab
    PROVE  /\ page \in [Tab -> PageRow] /\ page[t] \in PageRow /\ page[t].rev \in Nat
           /\ page[t].user \in {None} \cup User
           /\ jar \in Cookies /\ hint \in BOOLEAN
           /\ account \in [User -> {"absent", "active", "pending"}]
           /\ refresh \in [Tab -> RefreshRow] /\ refresh[t] \in RefreshRow
           /\ RefreshIsRight(refresh[t], granted, issued, raced)
           /\ \A c \in Slot : /\ call[t][c] \in CallRow
                              /\ CallIsRight(c, call[t][c], granted, issued)
           /\ "guarded" \in Slot /\ "login" \in Slot /\ "logout" \in Slot
           /\ call \in [Tab -> [Slot -> CallRow]] /\ issued \in Nat
BY DEF AccountsInv, Types, PageRow, Slot, HandsAreRight

\* The store after a login or a logout begins.
LEMMA AdvancedPage ==
    ASSUME AccountsInv, NEW t \in Tab
    PROVE  Advanced(t, None) \in [Tab -> PageRow] /\ Advanced(t, None)[t].rev \in Nat
<1>1. PICK p : p = [page[t] EXCEPT !.rev = page[t].rev + 1, !.user = None, !.loading = FALSE]
  OBVIOUS
<1>2. p \in PageRow
  <2>1. page[t] \in PageRow /\ page[t].rev + 1 \in Nat /\ None \in {None} \cup User /\ FALSE \in BOOLEAN
    BY TabTypes
  <2> QED BY <1>1, <2>1, PageRows, Zenon
<1>3. Advanced(t, None) = [page EXCEPT ![t] = p]
  BY <1>1, TabTypes DEF Advanced, PageRow
<1> QED BY <1>2, <1>3, TabTypes DEF PageRow

\* A login or a registration is sent.
LEMMA SubmitLoginKeeps ==
    ASSUME AccountsInv, NEW t \in Tab, NEW kind, NEW u \in User, SubmitLogin(t, kind, u)
    PROVE  AccountsInv'
<1>1. /\ UNCHANGED <<now, jar, hint, refresh, history>> /\ UNCHANGED database
      /\ kind \in {"login", "register"} /\ page' = Advanced(t, None)
  BY DEF SubmitLogin, Send
<1>2. Shrinks
  BY <1>1, NothingEnds DEF AccountsInv, database
<1>3. PICK row : /\ call' = [call EXCEPT ![t]["login"] = row]
                 /\ row = [kind |-> kind, at |-> "sent", rev |-> Advanced(t, None)[t].rev, user |-> u,
                           access |-> jar.access, token |-> jar.refresh, retried |-> FALSE]
  BY DEF SubmitLogin, Send
<1>4. kind \in KindsOf("login") \ {"none"}
  BY <1>1 DEF KindsOf
<1>5. row \in CallRow /\ CallIsRight("login", row, granted, issued) /\ row.at # "done"
  BY <1>1, <1>3, <1>4, AdvancedPage, TabTypes, Sends
<1>6. page' \in [Tab -> PageRow] /\ account' = account
  BY <1>1, AdvancedPage DEF database
<1> QED BY <1>1, <1>2, <1>3, <1>5, <1>6, TabTypes, CallMoves

\* A profile change or a deletion is sent.
LEMMA SubmitProfileKeeps ==
    ASSUME AccountsInv, NEW t \in Tab, NEW kind, SubmitProfile(t, kind)
    PROVE  AccountsInv'
<1>1. /\ UNCHANGED <<now, jar, hint, refresh, history>> /\ UNCHANGED database
      /\ kind \in {"update", "delete"} /\ page' = page
  BY DEF SubmitProfile, Send
<1>2. Shrinks
  BY <1>1, NothingEnds DEF AccountsInv, database
<1>3. PICK row : /\ call' = [call EXCEPT ![t]["guarded"] = row]
                 /\ row = [kind |-> kind, at |-> "sent", rev |-> page[t].rev, user |-> None,
                           access |-> jar.access, token |-> jar.refresh, retried |-> FALSE]
  BY DEF SubmitProfile, Send
<1>4. kind \in KindsOf("guarded") \ {"none"}
  BY <1>1 DEF KindsOf, Guarded
<1>5. row \in CallRow /\ CallIsRight("guarded", row, granted, issued)
  BY <1>1, <1>3, <1>4, TabTypes, Sends
<1>6. account' = account
  BY <1>1 DEF database
<1> QED BY <1>1, <1>2, <1>3, <1>5, <1>6, TabTypes, CallMoves

\* The tab leaves for GitHub.
LEMMA GithubLoginKeeps ==
    ASSUME AccountsInv, NEW t \in Tab, GithubLogin(t)
    PROVE  AccountsInv'
<1>1. /\ UNCHANGED <<now, hint, refresh, history>> /\ UNCHANGED database
      /\ jar' = [jar EXCEPT !.context = t] /\ page' = [page EXCEPT ![t] = NewPage]
  BY DEF GithubLogin
<1>2. Shrinks
  BY <1>1, NothingEnds DEF AccountsInv, database
<1>3. PICK row : /\ call' = [call EXCEPT ![t]["login"] = row]
                 /\ row = [NoCall EXCEPT !.kind = "github", !.at = "sent"]
  BY DEF GithubLogin
<1>4. row = [kind |-> "github", at |-> "sent", rev |-> 0, user |-> None, access |-> None,
             token |-> None, retried |-> FALSE]
  BY <1>3 DEF NoCall
<1>5. row \in CallRow
  BY <1>4, CallRows, 0 \in Nat, FALSE \in BOOLEAN, Zenon
<1>6. CallIsRight("login", row, granted, issued) /\ row.at # "done"
  BY <1>4 DEF CallIsRight, KindsOf, Known, EndsInTime
<1>7. NewPage \in PageRow
  BY NewPageRow
<1>8. jar' \in Cookies /\ jar'.refresh = jar.refresh /\ jar'.access = jar.access
  BY <1>1, TabTypes DEF Cookies
<1>9. page' \in [Tab -> PageRow] /\ account' = account
  BY <1>1, <1>7, TabTypes DEF database
<1> QED BY <1>1, <1>2, <1>3, <1>5, <1>6, <1>8, <1>9, TabTypes, CallMoves

\* The server checks the password, or creates the account.
LEMMA VerifyLoginKeeps ==
    ASSUME AccountsInv, NEW t \in Tab, NEW ok \in BOOLEAN, VerifyLogin(t, ok)
    PROVE  AccountsInv'
<1>1. /\ UNCHANGED <<now, session, issued, granted, client, refresh, history>>
      /\ call[t]["login"].at = "sent" /\ call[t]["login"].kind \in {"login", "register"}
  BY DEF VerifyLogin
<1>2. call[t]["login"].user \in User
  BY <1>1, TabTypes DEF CallIsRight
<1>3. /\ account' \in [User -> {"absent", "active", "pending"}]
      /\ \A u \in User : account[u] = "active" => account'[u] = "active"
  BY <1>2, TabTypes DEF VerifyLogin, HasCredentials, CreateLocalUser
<1>4. Shrinks
  BY <1>1, <1>3, NothingEnds DEF AccountsInv
<1>5. PICK at \in {"verified", "failed"} :
        call' = [call EXCEPT ![t]["login"] = [call[t]["login"] EXCEPT !.at = at]]
  BY DEF VerifyLogin
<1>6. PICK row : row = [call[t]["login"] EXCEPT !.at = at]
  OBVIOUS
<1>7. /\ row \in CallRow /\ row.at = at /\ row.kind = call[t]["login"].kind
      /\ row.user = call[t]["login"].user /\ row.access = call[t]["login"].access
      /\ row.token = call[t]["login"].token
  <2>1. call[t]["login"] \in CallRow /\ at \in CallStage
    BY TabTypes DEF CallStage
  <2> QED BY <1>6, <2>1, CallGoesOn, Zenon
<1>8. CallIsRight("login", row, granted, issued)
  BY <1>1, <1>7, TabTypes DEF CallIsRight
<1> QED BY <1>1, <1>3, <1>4, <1>5, <1>6, <1>7, <1>8, TabTypes, CallMoves DEF client

\* A guarded request is let in, or answered 401; a deletion ends its sessions.
LEMMA ServeGuardedKeeps ==
    ASSUME AccountsInv, NEW t \in Tab, NEW c \in Slot, ServeGuarded(t, c)
    PROVE  AccountsInv'
<1>1. /\ UNCHANGED <<now, issued, granted, client, refresh, history>>
      /\ call[t][c].at = "sent" /\ call[t][c].kind \in Guarded
  BY DEF ServeGuarded
<1>2. c = "guarded"
  BY <1>1, TabTypes DEF CallIsRight, KindsOf, Slot, Guarded
<1>3. Admitted(call[t][c].access) => call[t][c].access.user \in User
  BY TabTypes DEF CallRow, Access, Admitted, Verified
<1>4. Shrinks /\ account' \in [User -> {"absent", "active", "pending"}]
  <2>1. CASE UNCHANGED <<account, session>>
    BY <1>1, <2>1, NothingEnds, TabTypes DEF AccountsInv
  <2>2. CASE Admitted(call[t][c].access) /\ call[t][c].kind = "delete"
    <3>1. PICK u \in User : u = call[t][c].access.user
      BY <1>3, <2>2
    <3>2. /\ account' = [account EXCEPT ![u] = "pending"]
          /\ session' = [k \in Token |-> IF Live(k) /\ session[k].user = u THEN None ELSE session[k]]
      BY <2>2, <3>1 DEF ServeGuarded
    <3>3. ASSUME NEW k \in Token, session'[k] # None
          PROVE  session'[k] = session[k] /\ account'[session[k].user] = "active"
      <4>1. session[k] # None /\ session[k].user # u /\ session'[k] = session[k]
        BY <3>2, <3>3 DEF Live
      <4>2. account[session[k].user] = "active" /\ session[k].user \in User
        BY <4>1 DEF AccountsInv, SessionsAreRight, Types, SessionRow
      <4> QED BY <3>2, <4>1, <4>2, TabTypes
    <3>4. session' \in [Token -> {None} \cup SessionRow]
      BY <3>2 DEF AccountsInv, Types
    <3> QED BY <1>1, <3>2, <3>3, <3>4, TabTypes DEF Shrinks
  <2> QED BY <2>1, <2>2 DEF ServeGuarded
<1>5. PICK row : /\ call' = [call EXCEPT ![t][c] = row] /\ row \in CallRow
                 /\ row.at \in {"done", "denied"} /\ row.kind = call[t][c].kind
                 /\ row.access = call[t][c].access /\ row.token = call[t][c].token
  <2>1. CASE Admitted(call[t][c].access)
    <3>1. PICK u \in User : u = call[t][c].access.user
      BY <1>3, <2>1
    <3>2. call' = [call EXCEPT ![t][c] = [call[t][c] EXCEPT !.at = "done", !.user = u]]
      BY <2>1, <3>1 DEF ServeGuarded
    <3>3. call[t][c] \in CallRow
      BY TabTypes
    <3> QED BY <3>2, <3>3, CallIsLetIn, ZenonT(60)
  <2>2. CASE ~Admitted(call[t][c].access)
    <3>1. call' = [call EXCEPT ![t][c] = [call[t][c] EXCEPT !.at = "denied"]]
      BY <2>2 DEF ServeGuarded
    <3>2. call[t][c] \in CallRow /\ "denied" \in CallStage
      BY TabTypes DEF CallStage
    <3>3. PICK row : row = [call[t][c] EXCEPT !.at = "denied"]
      OBVIOUS
    <3>4. /\ row \in CallRow /\ row.at = "denied" /\ row.kind = call[t][c].kind
          /\ row.access = call[t][c].access /\ row.token = call[t][c].token
      BY <3>2, <3>3, CallGoesOn, Zenon
    <3> QED BY <3>1, <3>3, <3>4
  <2> QED BY <2>1, <2>2
<1>6. CallIsRight(c, row, granted, issued)
  BY <1>1, <1>2, <1>5, TabTypes DEF CallIsRight
<1> QED BY <1>1, <1>2, <1>4, <1>5, <1>6, TabTypes, CallMoves DEF client

\* An answer is lost.
LEMMA LoseCallKeeps ==
    ASSUME AccountsInv, NEW t \in Tab, NEW c \in Slot, LoseCall(t, c)
    PROVE  AccountsInv'
<1>1. /\ UNCHANGED <<now, client, refresh, history>> /\ UNCHANGED database
      /\ call[t][c].at = "done"
      /\ call' = [call EXCEPT ![t][c] = [call[t][c] EXCEPT !.at = "failed"]]
  BY DEF LoseCall
<1>2. Shrinks
  BY <1>1, NothingEnds DEF AccountsInv, database
<1>3. PICK row : row = [call[t][c] EXCEPT !.at = "failed"]
  OBVIOUS
<1>4. call[t][c] \in CallRow /\ "failed" \in CallStage
  BY TabTypes DEF CallStage
<1>5. /\ row \in CallRow /\ row.at = "failed" /\ row.kind = call[t][c].kind /\ row.user = call[t][c].user
      /\ row.access = call[t][c].access /\ row.token = call[t][c].token
  BY <1>3, <1>4, CallGoesOn, Zenon
<1>6. CallIsRight(c, row, granted, issued)
  BY <1>1, <1>5, TabTypes DEF CallIsRight
<1> QED BY <1>1, <1>2, <1>3, <1>5, <1>6, TabTypes, CallMoves DEF client, database

\* No request is a right one of every slot.
LEMMA NoCallRight == \A c \in Slot : CallIsRight(c, NoCall, granted, issued)
BY DEF CallIsRight, NoCall, KindsOf, Slot, Known, EndsInTime

\* The answers that end a request without a token: those to the check and to a
\* profile change.
LEMMA FinishKeeps ==
    ASSUME AccountsInv, NEW t \in Tab, NEW c \in Slot, call' = Idle(t, c),
           UNCHANGED <<now, refresh, history>>, UNCHANGED database,
           jar' = jar \/ jar' = [jar EXCEPT !.access = None, !.refresh = None],
           page' \in [Tab -> PageRow], hint' \in BOOLEAN
    PROVE  AccountsInv'
<1>1. Shrinks
  BY NothingEnds DEF AccountsInv, database
<1>2. /\ jar' \in Cookies
      /\ \/ jar'.refresh = jar.refresh /\ jar'.access = jar.access
         \/ jar'.refresh = None /\ jar'.access = None
  BY TabTypes DEF Cookies
<1>3. NoCall \in CallRow /\ CallIsRight(c, NoCall, granted, issued) /\ NoCall.at = "idle"
  BY NoCallRow, NoCallRight DEF NoCall
<1> QED BY <1>1, <1>2, <1>3, TabTypes, CallMoves DEF Idle, database

\* The check of a page is answered.
LEMMA FinishCheckKeeps ==
    ASSUME AccountsInv, NEW t \in Tab, FinishCheck(t)
    PROVE  AccountsInv'
<1>1. /\ UNCHANGED <<now, jar, refresh, history>> /\ UNCHANGED database
      /\ call' = Idle(t, "guarded")
  BY DEF FinishCheck
<1>2. page' \in [Tab -> PageRow] /\ hint' \in BOOLEAN
  <2>1. CASE UNCHANGED <<page, hint>>
    BY <2>1, TabTypes
  <2>2. CASE ~UNCHANGED <<page, hint>>
    <3>1. PICK user \in {None} \cup User : page' = [page EXCEPT ![t] = [page[t] EXCEPT !.user = user, !.loading = FALSE]]
      <4>1. call[t]["guarded"].user \in {None} \cup User
        BY TabTypes DEF CallRow
      <4> QED BY <2>2, <4>1, TabTypes DEF FinishCheck, PageRow
    <3>2. PICK p : p = [page[t] EXCEPT !.user = user, !.loading = FALSE]
      OBVIOUS
    <3>3. p \in PageRow
      <4>1. page[t] \in PageRow /\ FALSE \in BOOLEAN
        BY TabTypes
      <4> QED BY <3>2, <4>1, PageRows, Zenon
    <3>4. hint' \in BOOLEAN
      BY <2>2, TabTypes DEF FinishCheck
    <3> QED BY <3>1, <3>2, <3>3, <3>4, TabTypes
  <2> QED BY <2>1, <2>2
<1> QED BY <1>1, <1>2, TabTypes, FinishKeeps

\* The logout is answered: its cookies are cleared.
LEMMA FinishLogoutKeeps ==
    ASSUME AccountsInv, NEW t \in Tab, FinishLogout(t)
    PROVE  AccountsInv'
<1>1. /\ UNCHANGED <<now, hint, page, refresh, history>> /\ UNCHANGED database
      /\ call' = Idle(t, "logout")
      /\ jar' = jar \/ jar' = [jar EXCEPT !.access = None, !.refresh = None]
  BY DEF FinishLogout, ClearCookies
<1> QED BY <1>1, TabTypes, FinishKeeps

\* A profile change is answered.
LEMMA FinishUpdateKeeps ==
    ASSUME AccountsInv, NEW t \in Tab, FinishUpdate(t)
    PROVE  AccountsInv'
<1>1. /\ UNCHANGED <<now, jar, hint, refresh, history>> /\ UNCHANGED database
      /\ call' = Idle(t, "guarded")
  BY DEF FinishUpdate
<1>2. page' \in [Tab -> PageRow]
  <2>1. PICK user \in {None} \cup User :
          \/ page' = page
          \/ page' = [page EXCEPT ![t] = [page[t] EXCEPT !.user = user, !.loading = FALSE, !.rev = page[t].rev + 1]]
    <3>1. call[t]["guarded"].user \in {None} \cup User
      BY TabTypes DEF CallRow
    <3> QED BY <3>1, TabTypes DEF FinishUpdate, PageRow
  <2>2. PICK p : p = [page[t] EXCEPT !.user = user, !.loading = FALSE, !.rev = page[t].rev + 1]
    OBVIOUS
  <2>3. p \in PageRow
    <3>1. page[t] \in PageRow /\ FALSE \in BOOLEAN /\ page[t].rev + 1 \in Nat
      BY TabTypes
    <3> QED BY <2>2, <3>1, PageRows, Zenon
  <2> QED BY <2>1, <2>2, <2>3, TabTypes
<1> QED BY <1>1, <1>2, TabTypes, FinishKeeps

\* Sessions expire.
LEMMA ExpireSessionsKeeps ==
    ASSUME AccountsInv, ExpireSessions
    PROVE  AccountsInv'
<1>1. /\ UNCHANGED <<now, account, issued, granted, client, call, refresh, history>>
      /\ session' = [k \in Token |-> IF Live(k) /\ session[k].expires < now THEN None ELSE session[k]]
  BY DEF ExpireSessions
<1>2. Shrinks /\ Grows
  BY <1>1 DEF Shrinks, Grows, AccountsInv, Types, SessionsAreRight
<1>3. Types'
  BY <1>1, <1>2 DEF AccountsInv, Types, Shrinks, client, history
<1>4. HandsAreRight'
  BY <1>1, <1>2, HandsStay DEF AccountsInv, client, history
<1>5. BringsLess /\ RefreshesGoOn /\ LogoutsGoOn /\ RefreshesStay
  BY <1>1 DEF BringsLess, Brings, RefreshesGoOn, LogoutsGoOn, RefreshesStay
<1> QED BY <1>1, <1>2, <1>3, <1>4, <1>5, TokensStay DEF client, history

\* Time passes.
LEMMA TickKeeps ==
    ASSUME AccountsInv, Tick
    PROVE  AccountsInv'
<1>1. Types'
  BY Numbers DEF Tick, AccountsInv, Types, client, database, history
<1> QED BY <1>1, SMTT(60) DEF Tick, AccountsInv, SessionsAreRight, HandsAreRight, NewAreUnseen, NewestAreHeld,
           OverlapsAreRecorded, LogoutsAreLast, OnlyLive, InRefresh, RootOf, Brings, client, database, history

-----------------------------------------------------------------------------
(* A refresh. *)

\* A refresh moves on.
LEMMA RefreshGoesOn ==
    ASSUME NEW r \in RefreshRow,
           NEW at \in {"idle", "sent", "read", "rotated", "done", "denied", "failed"}
    PROVE  /\ [r EXCEPT !.at = at] \in RefreshRow
           /\ [r EXCEPT !.at = at].at = at /\ [r EXCEPT !.at = at].token = r.token
           /\ [r EXCEPT !.at = at].new = r.new /\ [r EXCEPT !.at = at].access = r.access
BY DEF RefreshRow

\* A refresh has its new token.
LEMMA RefreshRotates ==
    ASSUME NEW r \in RefreshRow, NEW new \in Token
    PROVE  /\ [r EXCEPT !.at = "rotated", !.new = new] \in RefreshRow
           /\ [r EXCEPT !.at = "rotated", !.new = new].at = "rotated"
           /\ [r EXCEPT !.at = "rotated", !.new = new].token = r.token
           /\ [r EXCEPT !.at = "rotated", !.new = new].new = new
           /\ [r EXCEPT !.at = "rotated", !.new = new].access = r.access
BY DEF RefreshRow

\* A refresh has its access token.
LEMMA RefreshIsSigned ==
    ASSUME NEW r \in RefreshRow, NEW access \in Access
    PROVE  /\ [r EXCEPT !.at = "done", !.access = access] \in RefreshRow
           /\ [r EXCEPT !.at = "done", !.access = access].at = "done"
           /\ [r EXCEPT !.at = "done", !.access = access].token = r.token
           /\ [r EXCEPT !.at = "done", !.access = access].new = r.new
           /\ [r EXCEPT !.at = "done", !.access = access].access = access
BY DEF RefreshRow

\* The login of an issued token is named by one that was issued, and ends with it.
LEMMA RootsAreTokens ==
    ASSUME AccountsInv, NEW k \in 1..issued
    PROVE  /\ k # None /\ RootOf(k) = granted[k].root /\ k \in Token
           /\ granted[k] \in Grant /\ granted[k].root \in 1..issued /\ granted[k].root \in Token
           /\ granted[k].user \in User /\ granted[k].expires \in Nat
           /\ granted[granted[k].root].expires = granted[k].expires
           /\ granted[granted[k].root].root = granted[k].root
<1>1. issued \in Nat /\ issued <= Tokens /\ k \in Nat /\ k # None /\ Tokens \in Nat
  BY Numbers DEF AccountsInv, Types
<1>2. granted[k] \in Grant /\ granted[k].root \in 1..k
  BY DEF AccountsInv, SessionsAreRight
<1> QED BY <1>1, <1>2 DEF AccountsInv, SessionsAreRight, RootOf, Token, Grant

\* The lesser of two numbers.
LEMMA Lesser ==
    ASSUME NEW a \in Int, NEW b \in Int
    PROVE  Min({a, b}) \in {a, b} /\ Min({a, b}) <= a /\ Min({a, b}) <= b
<1>1. \E x \in {a, b} : \A y \in {a, b} : x <= y
  BY DEF Min
<1> QED BY <1>1 DEF Min

\* An access token is good for no longer than what is left of the login.
LEMMA AccessIsBounded ==
    ASSUME Types, NEW u \in User, NEW root \in Token, NEW left \in Nat
    PROVE  /\ AccessFor(u, root, left) \in Access
           /\ AccessFor(u, root, left).root = root /\ AccessFor(u, root, left).user = u
           /\ AccessFor(u, root, left).until <= now + left
<1>1. Min({AccessLife, left}) \in Nat /\ Min({AccessLife, left}) <= left
  BY Lesser, Numbers
<1> QED BY <1>1 DEF AccessFor, Access, Types

\* The row is read.
LEMMA ReadCandidateKeeps ==
    ASSUME AccountsInv, NEW t \in Tab, ReadCandidate(t)
    PROVE  AccountsInv'
<1>1. /\ UNCHANGED <<now, client, call, history>> /\ UNCHANGED database /\ refresh[t].at = "sent"
  BY DEF ReadCandidate
<1>2. PICK at \in {"read", "denied"} : refresh' = [refresh EXCEPT ![t] = [refresh[t] EXCEPT !.at = at]]
  BY DEF ReadCandidate
<1>3. PICK row : row = [refresh[t] EXCEPT !.at = at]
  OBVIOUS
<1>4. /\ row \in RefreshRow /\ row.at = at /\ row.token = refresh[t].token /\ row.new = refresh[t].new
      /\ row.access = refresh[t].access
  <2>1. refresh[t] \in RefreshRow
    BY TabTypes
  <2>2. at \in {"idle", "sent", "read", "rotated", "done", "denied", "failed"}
    OBVIOUS
  <2> QED BY <1>3, <2>1, <2>2, RefreshGoesOn, ZenonT(60)
<1>5. RefreshIsRight(row, granted, issued, raced)
  BY <1>1, <1>4, TabTypes DEF RefreshIsRight
<1>6. raced \subseteq Token
  BY DEF AccountsInv, Types
<1> QED BY <1>1, <1>2, <1>3, <1>4, <1>5, <1>6, RefreshMoves DEF history

\* The answer of a refresh is lost, and its login recorded.
LEMMA LoseRefreshKeeps ==
    ASSUME AccountsInv, NEW t \in Tab, LoseRefresh(t)
    PROVE  AccountsInv'
<1>1. /\ UNCHANGED <<now, client, call, loggedOut>> /\ UNCHANGED database
      /\ refresh[t].at \in {"sent", "done"}
      /\ raced' = raced \cup {RootOf(refresh[t].token)}
      /\ refresh' = [refresh EXCEPT ![t] = [refresh[t] EXCEPT !.at = "failed"]]
  BY DEF LoseRefresh
<1>2. PICK row : row = [refresh[t] EXCEPT !.at = "failed"]
  OBVIOUS
<1>3. /\ row \in RefreshRow /\ row.at = "failed" /\ row.token = refresh[t].token
      /\ row.access = refresh[t].access
  BY <1>2, TabTypes, RefreshGoesOn
<1>4. PICK k \in 1..issued : k = refresh[t].token
  BY <1>1, TabTypes DEF RefreshIsRight
<1>5. RootOf(k) = granted[k].root /\ granted[k].root \in Token
  BY RootsAreTokens
<1>6. raced \subseteq raced' /\ raced' \subseteq Token
  BY <1>1, <1>4, <1>5 DEF AccountsInv, Types
<1>7. RefreshIsRight(row, granted, issued, raced')
  BY <1>1, <1>3, <1>4, <1>5, TabTypes DEF RefreshIsRight
<1> QED BY <1>1, <1>2, <1>3, <1>6, <1>7, RefreshMoves

\* The access token of a refresh is signed, unless the session has ended.
LEMMA SignRefreshedKeeps ==
    ASSUME AccountsInv, NEW t \in Tab, SignRefreshed(t)
    PROVE  AccountsInv'
<1>1. /\ UNCHANGED <<now, client, call, history>> /\ UNCHANGED database
      /\ refresh[t].at = "rotated" /\ raced \subseteq Token
  BY DEF SignRefreshed, AccountsInv, Types
<1>2. PICK k \in 1..issued : k = refresh[t].new /\ granted[k].root = granted[refresh[t].token].root
  BY <1>1, TabTypes DEF RefreshIsRight
<1>3. PICK left : left = granted[k].expires - now
  OBVIOUS
<1>4. left \in Int /\ now \in Nat
  BY <1>3, RootsAreTokens DEF AccountsInv, Types
<1>5. CASE left <= 0
  <2>1. refresh' = [refresh EXCEPT ![t] = [refresh[t] EXCEPT !.at = "denied"]]
    BY <1>2, <1>3, <1>5 DEF SignRefreshed
  <2>2. PICK row : row = [refresh[t] EXCEPT !.at = "denied"]
    OBVIOUS
  <2>3. /\ row \in RefreshRow /\ row.at = "denied" /\ row.token = refresh[t].token
        /\ row.access = refresh[t].access
    BY <2>2, TabTypes, RefreshGoesOn
  <2>4. RefreshIsRight(row, granted, issued, raced)
    BY <2>3, TabTypes DEF RefreshIsRight
  <2> QED BY <1>1, <2>1, <2>2, <2>3, <2>4, RefreshMoves DEF history
<1>6. CASE ~(left <= 0)
  <2>1. PICK a : a = AccessFor(granted[k].user, RootOf(k), left)
    OBVIOUS
  <2>2. a \in Access /\ a.root = granted[k].root /\ a.until <= now + left
    BY <1>4, <1>6, <2>1, RootsAreTokens, AccessIsBounded DEF AccountsInv
  <2>3. EndsInTime(a, granted, issued)
    BY <1>3, <1>4, <2>2, RootsAreTokens DEF EndsInTime
  <2>4. refresh' = [refresh EXCEPT ![t] = [refresh[t] EXCEPT !.at = "done", !.access = a]]
    BY <1>2, <1>3, <1>6, <2>1 DEF SignRefreshed
  <2>5. PICK row : row = [refresh[t] EXCEPT !.at = "done", !.access = a]
    OBVIOUS
  <2>6. /\ row \in RefreshRow /\ row.at = "done" /\ row.token = refresh[t].token
        /\ row.new = refresh[t].new /\ row.access = a
    <3>1. refresh[t] \in RefreshRow
      BY TabTypes
    <3> QED BY <2>2, <2>5, <3>1, RefreshIsSigned, Zenon
  <2>7. RefreshIsRight(row, granted, issued, raced)
    BY <1>1, <2>3, <2>6, TabTypes DEF RefreshIsRight
  <2> QED BY <1>1, <2>4, <2>5, <2>6, <2>7, RefreshMoves DEF history
<1> QED BY <1>5, <1>6

-----------------------------------------------------------------------------
(* A new token. *)

\* A token is added that alone may be live of its login.
Adds(n, g) ==
    /\ n = issued + 1 /\ n \in Token /\ g \in Grant
    /\ issued' = n /\ granted' = [granted EXCEPT ![n] = g]
    /\ \A m \in Token : session'[m] # None =>
         m = n \/ (session[m] # None /\ granted[m].root # g.root)

\* The tokens before the new one stay as they are.
LEMMA AddedToken ==
    ASSUME AccountsInv, NEW n, NEW g, Adds(n, g)
    PROVE  /\ Grows /\ n \in Nat /\ n # None /\ granted'[n] = g
           /\ \A k \in 1..issued : granted'[k] = granted[k] /\ k # n /\ k \in Token
           /\ OnlyLive(g.root, n)'
           /\ \A root, k : root # g.root /\ OnlyLive(root, k) => OnlyLive(root, k)'
<1>1. issued \in Nat /\ issued <= Tokens /\ Tokens \in Nat /\ granted \in [Token -> {None} \cup Grant]
  BY Numbers DEF AccountsInv, Types
<1>2. /\ n \in Nat /\ n # None /\ granted'[n] = g
      /\ \A m \in Token : m # n => granted'[m] = granted[m]
  BY <1>1, Numbers DEF Adds, Token
<1>3. \A k \in 1..issued : granted'[k] = granted[k] /\ k # n /\ k \in Token
  BY <1>1, <1>2 DEF Adds, Token
<1>4. Grows
  BY <1>1, <1>2, <1>3 DEF Grows, Adds
<1>5. OnlyLive(g.root, n)'
  BY <1>2 DEF OnlyLive, Adds
<1>6. \A root, k : root # g.root /\ OnlyLive(root, k) => OnlyLive(root, k)'
  BY <1>2 DEF OnlyLive, Adds
<1> QED BY <1>2, <1>3, <1>4, <1>5, <1>6

\* Nobody has a token that was not issued.
LEMMA HeldAreIssued ==
    ASSUME AccountsInv
    PROVE  /\ Known(jar.refresh, issued)
           /\ \A t \in Tab : Known(refresh[t].token, issued) /\ Known(call[t]["logout"].token, issued)
           /\ \A t \in Tab, c \in Answer : Known(Brings(t, c), issued)
<1>1. \A t \in Tab : Known(refresh[t].token, issued) /\ Known(call[t]["logout"].token, issued)
  BY DEF AccountsInv, HandsAreRight, RefreshIsRight, CallIsRight, Slot
<1>2. \A t \in Tab, c \in Answer : Known(Brings(t, c), issued)
  BY TabTypes DEF Brings, Known, RefreshIsRight, CallIsRight
<1> QED BY <1>1, <1>2 DEF AccountsInv, HandsAreRight

\* A token that one answer brings, or the jar now has, is seen by nobody else.
LEMMA UnseenGrow ==
    ASSUME AccountsInv, NEW n, NEW g, Adds(n, g),
           \A t \in Tab, c \in Answer : Brings(t, c)' \in {Brings(t, c), None, n},
           \A t, u \in Tab, c, d \in Answer :
             Brings(t, c)' = n /\ Brings(u, d)' = n => u = t /\ d = c,
           \/ jar'.refresh = jar.refresh
           \/ jar'.refresh = n /\ \A t \in Tab, c \in Answer : Brings(t, c)' # n,
           \A t \in Tab : refresh'[t].token = refresh[t].token
    PROVE  NewAreUnseen'
<1> SUFFICES ASSUME NEW t \in Tab, NEW c \in Answer, Brings(t, c)' # None
             PROVE  /\ jar'.refresh # Brings(t, c)'
                    /\ \A u \in Tab : refresh'[u].token # Brings(t, c)'
                    /\ \A u \in Tab, d \in Answer : Brings(u, d)' = Brings(t, c)' => u = t /\ d = c
  BY DEF NewAreUnseen
<1>1. /\ jar.refresh # n /\ \A u \in Tab : refresh[u].token # n
      /\ \A u \in Tab, d \in Answer : Brings(u, d) # n
  BY HeldAreIssued, AddedToken DEF Known
<1>2. CASE Brings(t, c)' = n
  BY <1>1, <1>2
<1>3. CASE Brings(t, c)' # n
  <2>1. Brings(t, c)' = Brings(t, c) /\ Brings(t, c) # None
    BY <1>3
  <2>2. /\ jar.refresh # Brings(t, c)
        /\ \A u \in Tab : refresh[u].token # Brings(t, c)
        /\ \A u \in Tab, d \in Answer : Brings(u, d) = Brings(t, c) => u = t /\ d = c
    BY <2>1 DEF AccountsInv, NewAreUnseen
  <2>3. jar'.refresh # Brings(t, c)'
    BY <1>3, <2>1, <2>2
  <2>4. \A u \in Tab : refresh'[u].token # Brings(t, c)'
    BY <2>1, <2>2
  <2>5. ASSUME NEW u \in Tab, NEW d \in Answer, Brings(u, d)' = Brings(t, c)'
        PROVE  u = t /\ d = c
    BY <1>3, <2>1, <2>2, <2>5
  <2> QED BY <2>3, <2>4, <2>5
<1> QED BY <1>2, <1>3

\* What is held stays the newest when a token is added to a login of which nobody
\* else has the newest one.
LEMMA HeldGrow ==
    ASSUME AccountsInv, NEW n, NEW g, Adds(n, g), UNCHANGED <<raced, loggedOut>>,
           \A t \in Tab, c \in Answer :
             \/ Brings(t, c)' \in {None, n}
             \/ /\ Brings(t, c)' = Brings(t, c)
                /\ granted[Brings(t, c)].root \notin raced => granted[Brings(t, c)].root # g.root,
           \/ jar'.refresh = n
           \/ /\ jar'.refresh = jar.refresh
              /\ jar.refresh # None => granted[jar.refresh].root # g.root \/ InRefresh(g.root)',
           \A t \in Tab : /\ refresh[t].at # "idle" <=> refresh'[t].at # "idle"
                          /\ refresh'[t].token = refresh[t].token,
           LogoutsGoOn,
           \A t \in Tab : LET r == call[t]["logout"] IN
             r.at = "sent" /\ r.token # None /\ granted[r.token].root \notin raced
               => granted[r.token].root # g.root,
           \A root \in loggedOut \ raced : root # g.root
    PROVE  NewestAreHeld' /\ OverlapsAreRecorded' /\ LogoutsAreLast'
<1>1. /\ \A k \in 1..issued : granted'[k] = granted[k] /\ k # None
      /\ granted'[n] = g /\ OnlyLive(g.root, n)' /\ n # None /\ issued \in Nat /\ issued' = issued + 1
      /\ \A root, k : root # g.root /\ OnlyLive(root, k) => OnlyLive(root, k)'
  <2>1. \A k \in 1..issued : granted'[k] = granted[k]
    BY AddedToken
  <2>2. \A k \in 1..issued : k # None
    BY RootsAreTokens
  <2>3. granted'[n] = g /\ OnlyLive(g.root, n)' /\ n # None
    BY AddedToken
  <2>4. \A root, k : root # g.root /\ OnlyLive(root, k) => OnlyLive(root, k)'
    BY AddedToken
  <2>5. issued \in Nat /\ issued' = issued + 1
    BY DEF Adds, AccountsInv, Types
  <2> QED BY <2>1, <2>2, <2>3, <2>4, <2>5
<1>2. ASSUME NEW t \in Tab, NEW c \in Answer, Brings(t, c)' # None, granted'[Brings(t, c)'].root \notin raced'
      PROVE  OnlyLive(granted[Brings(t, c)].root, Brings(t, c))'
  <2>1. CASE Brings(t, c)' = n
    BY <1>1, <2>1 DEF OnlyLive
  <2>2. CASE Brings(t, c)' # n
    <3>1. PICK b : b = Brings(t, c) /\ b = Brings(t, c)'
      BY <1>2, <2>2
    <3>2. b \in 1..issued
      BY <1>2, <3>1, HeldAreIssued DEF Known
    <3>3. PICK root : root = granted[b].root
      OBVIOUS
    <3>4. granted'[b].root = root /\ root \notin raced
      BY <1>1, <1>2, <3>1, <3>2, <3>3
    <3>5. OnlyLive(root, b) /\ root # g.root
      BY <1>2, <2>2, <3>1, <3>3, <3>4 DEF AccountsInv, NewestAreHeld
    <3>6. OnlyLive(root, b)'
      BY <1>1, <3>5
    <3> QED BY <3>1, <3>4, <3>6 DEF OnlyLive
  <2> QED BY <2>1, <2>2
<1>3. ASSUME jar'.refresh # None, granted'[jar'.refresh].root \notin raced'
      PROVE  \/ OnlyLive(granted[jar.refresh].root, jar.refresh)'
             \/ InRefresh(granted[jar.refresh].root)'
  <2>1. CASE jar'.refresh = n
    BY <1>1, <2>1 DEF OnlyLive
  <2>2. CASE jar'.refresh # n
    <3>1. PICK k : k = jar.refresh /\ k = jar'.refresh
      BY <2>2
    <3>2. k \in 1..issued
      BY <1>3, <3>1, HeldAreIssued DEF Known
    <3>3. PICK root : root = granted[k].root
      OBVIOUS
    <3>4. granted'[k].root = root /\ root \notin raced
      BY <1>1, <1>3, <3>1, <3>2, <3>3
    <3>5. CASE root = g.root
      BY <1>3, <2>2, <3>1, <3>3, <3>4, <3>5 DEF InRefresh
    <3>6. CASE root # g.root /\ OnlyLive(root, k)
      <4>1. OnlyLive(root, k)'
        BY <1>1, <3>6
      <4> QED BY <3>1, <3>4, <4>1 DEF OnlyLive
    <3>7. CASE InRefresh(root)
      <4>1. PICK t \in Tab : refresh[t].at # "idle" /\ RootOf(refresh[t].token) = root
        BY <3>7 DEF InRefresh
      <4>2. root # None
        BY <3>2, <3>3, RootsAreTokens, Numbers
      <4>3. refresh[t].token \in 1..issued /\ granted[refresh[t].token].root = root
        BY <4>1, <4>2, HeldAreIssued DEF Known, RootOf
      <4>4. RootOf(refresh[t].token)' = root /\ refresh'[t].at # "idle"
        BY <1>1, <4>1, <4>3 DEF RootOf
      <4> QED BY <3>1, <3>4, <4>4 DEF InRefresh
    <3> QED BY <1>3, <3>1, <3>3, <3>4, <3>5, <3>6, <3>7 DEF AccountsInv, NewestAreHeld
  <2> QED BY <2>1, <2>2
<1>4. ASSUME NEW t \in Tab, call'[t]["logout"].at = "sent", call'[t]["logout"].token # None,
             granted'[call'[t]["logout"].token].root \notin raced'
      PROVE  OnlyLive(granted[call[t]["logout"].token].root, call[t]["logout"].token)'
  <2>1. PICK k : k = call[t]["logout"].token /\ k = call'[t]["logout"].token
    BY <1>4 DEF LogoutsGoOn
  <2>2. k \in 1..issued /\ call[t]["logout"].at = "sent"
    BY <1>4, <2>1, HeldAreIssued DEF Known, LogoutsGoOn
  <2>3. PICK root : root = granted[k].root
    OBVIOUS
  <2>4. granted'[k].root = root /\ root \notin raced
    BY <1>1, <1>4, <2>1, <2>2, <2>3
  <2>5. OnlyLive(root, k) /\ root # g.root
    BY <1>4, <2>1, <2>2, <2>3, <2>4 DEF AccountsInv, NewestAreHeld
  <2>6. OnlyLive(root, k)'
    BY <1>1, <2>5
  <2> QED BY <2>1, <2>4, <2>6 DEF OnlyLive
<1>5. OverlapsAreRecorded'
  <2> SUFFICES ASSUME NEW t \in Tab, NEW u \in Tab,
                      refresh'[t].at # "idle", refresh'[t].token # None,
                      call'[u]["logout"].at # "idle", call'[u]["logout"].token # None,
                      granted'[call'[u]["logout"].token].root = granted'[refresh'[t].token].root
               PROVE  granted'[call'[u]["logout"].token].root \in raced'
    BY DEF OverlapsAreRecorded
  <2>1. /\ refresh[t].at # "idle" /\ refresh[t].token \in 1..issued
        /\ call[u]["logout"].at # "idle" /\ call[u]["logout"].token \in 1..issued
        /\ call'[u]["logout"].token = call[u]["logout"].token
    BY HeldAreIssued DEF Known, LogoutsGoOn
  <2> QED BY <1>1, <2>1 DEF AccountsInv, OverlapsAreRecorded
<1>6. LogoutsAreLast'
  <2> SUFFICES ASSUME NEW root \in loggedOut
               PROVE  root \in 1..issued' /\ (root \notin raced => OnlyLive(root, None)')
    BY DEF LogoutsAreLast, OnlyLive
  <2>1. root \in 1..issued /\ (root \notin raced => OnlyLive(root, None))
    BY DEF AccountsInv, LogoutsAreLast
  <2> QED BY <1>1, <2>1
<1> QED BY <1>2, <1>3, <1>4, <1>5, <1>6 DEF NewestAreHeld

\* The row of a session is replaced, unless it is gone.
LEMMA RotateSessionKeeps ==
    ASSUME AccountsInv, NEW t \in Tab, RotateSession(t)
    PROVE  AccountsInv'
<1>1. /\ UNCHANGED <<now, account, client, call, history>> /\ refresh[t].at = "read"
      /\ raced \subseteq Token
  BY DEF RotateSession, AccountsInv, Types
<1>2. CASE UNCHANGED <<session, issued, granted>>
  <2>1. refresh' = [refresh EXCEPT ![t] = [refresh[t] EXCEPT !.at = "denied"]]
    <3>1. issued' # issued + 1
      BY <1>2, TabTypes
    <3> QED BY <3>1 DEF RotateSession
  <2>2. PICK row : row = [refresh[t] EXCEPT !.at = "denied"]
    OBVIOUS
  <2>3. /\ row \in RefreshRow /\ row.at = "denied" /\ row.token = refresh[t].token
        /\ row.access = refresh[t].access
    BY <2>2, TabTypes, RefreshGoesOn
  <2>4. RefreshIsRight(row, granted, issued, raced)
    BY <2>3, TabTypes DEF RefreshIsRight
  <2> QED BY <1>1, <1>2, <2>1, <2>2, <2>3, <2>4, RefreshMoves DEF history, database
<1>3. CASE ~UNCHANGED <<session, issued, granted>>
  <2>1. PICK old \in 1..issued : old = refresh[t].token
    BY <1>1, TabTypes DEF RefreshIsRight
  <2>2. PICK n : n = issued + 1
    OBVIOUS
  <2>3. PICK g : g = granted[old]
    OBVIOUS
  <2>4. /\ old \in Token /\ session[old] # None /\ account[session[old].user] = "active"
        /\ issued < Tokens /\ issued' = n
        /\ session' = [session EXCEPT ![old] = None, ![n] = session[old]]
        /\ granted' = [granted EXCEPT ![n] = g]
        /\ refresh' = [refresh EXCEPT ![t] = [refresh[t] EXCEPT !.at = "rotated", !.new = n]]
    BY <1>3, <2>1, <2>2, <2>3 DEF RotateSession, Unexpired, Live, Rotate
  <2>5. /\ g \in Grant /\ g.root \in 1..issued /\ granted[g.root].root = g.root
        /\ granted[g.root].expires = g.expires /\ g.root \in 1..old
    BY <2>3, RootsAreTokens DEF AccountsInv, SessionsAreRight
  <2>6. issued \in Nat /\ n \in Token /\ n \notin 1..issued /\ n # old
    BY <2>1, <2>2, <2>4, Numbers DEF AccountsInv, Types, Token
  <2>7. /\ \A m \in Token : m # n /\ m # old => session'[m] = session[m]
        /\ session'[old] = None /\ session'[n] = session[old]
        /\ session' \in [Token -> {None} \cup SessionRow]
    BY <2>4, <2>6 DEF AccountsInv, Types
  <2>8. Adds(n, g)
    <3>1. \A m \in Token : session[m] # None /\ granted[m].root = g.root => m = old
      BY <2>3, <2>4 DEF AccountsInv, SessionsAreRight
    <3> QED BY <2>2, <2>4, <2>5, <2>6, <2>7, <3>1 DEF Adds
  <2>9. /\ Grows /\ n # None /\ granted'[n] = g
        /\ \A k \in 1..issued : granted'[k] = granted[k]
    BY <2>8, AddedToken
  <2>10. PICK row : row = [refresh[t] EXCEPT !.at = "rotated", !.new = n]
    OBVIOUS
  <2>11. /\ row \in RefreshRow /\ row.at = "rotated" /\ row.token = old /\ row.new = n
         /\ row.access = refresh[t].access
    BY <2>1, <2>6, <2>10, TabTypes, RefreshRotates
  <2>12. /\ refresh' \in [Tab -> RefreshRow] /\ refresh'[t] = row
         /\ \A u \in Tab : u # t => refresh'[u] = refresh[u]
    BY <2>4, <2>10, <2>11, TabTypes
  <2>13. Types'
    <3>1. granted' \in [Token -> {None} \cup Grant] /\ issued' \in Nat /\ issued' <= Tokens
      BY <2>2, <2>4, <2>5, <2>6, Numbers DEF AccountsInv, Types
    <3> QED BY <1>1, <2>7, <2>12, <3>1 DEF AccountsInv, Types, client, history
  <2>14. SessionsAreRight'
    <3>1. ASSUME NEW k \in 1..issued'
          PROVE  /\ granted'[k] \in Grant /\ granted'[k].root \in 1..k
                 /\ granted'[granted'[k].root].root = granted'[k].root
                 /\ granted'[granted'[k].root].expires = granted'[k].expires
      <4>1. CASE k = n
        BY <2>1, <2>5, <2>6, <2>9, <4>1
      <4>2. CASE k # n
        <5>1. k \in 1..issued
          BY <2>2, <2>4, <2>6, <4>2
        <5>2. granted[k] \in Grant /\ granted[k].root \in 1..k /\ granted[k].root \in 1..issued
          BY <5>1, RootsAreTokens DEF AccountsInv, SessionsAreRight
        <5> QED BY <2>9, <5>1, <5>2, RootsAreTokens
      <4> QED BY <4>1, <4>2
    <3>2. ASSUME NEW k \in Token, session'[k] # None
          PROVE  /\ k \in 1..issued' /\ session'[k].user = granted'[k].user
                 /\ session'[k].expires = granted'[k].expires
                 /\ account'[session'[k].user] = "active"
                 /\ \A m \in Token : session'[m] # None /\ granted'[m].root = granted'[k].root => m = k
      <4>1. CASE k = n
        <5>1. session[old].user = g.user /\ session[old].expires = g.expires
          BY <2>3, <2>4 DEF AccountsInv, SessionsAreRight
        <5>2. \A m \in Token : session'[m] # None /\ granted'[m].root = g.root => m = n
          BY <2>8, AddedToken DEF OnlyLive
        <5> QED BY <1>1, <2>2, <2>4, <2>6, <2>7, <2>9, <4>1, <5>1, <5>2
      <4>2. CASE k # n
        <5>1. session[k] # None /\ session'[k] = session[k] /\ granted[k].root # g.root /\ k \in 1..issued
          BY <2>7, <2>8, <3>2, <4>2 DEF Adds, AccountsInv, SessionsAreRight
        <5>2. OnlyLive(granted[k].root, k)
          BY <5>1 DEF AccountsInv, SessionsAreRight, OnlyLive
        <5>3. PICK root : root = granted[k].root
          OBVIOUS
        <5>4. OnlyLive(root, k)'
          BY <2>8, <5>1, <5>2, <5>3, AddedToken
        <5>5. /\ session[k].user = granted[k].user /\ session[k].expires = granted[k].expires
              /\ account[session[k].user] = "active"
          BY <5>1 DEF AccountsInv, SessionsAreRight
        <5>6. k \in 1..issued' /\ granted'[k] = granted[k]
          BY <2>2, <2>4, <2>6, <2>9, <5>1
        <5>7. \A m \in Token : session'[m] # None /\ granted'[m].root = granted'[k].root => m = k
          BY <5>3, <5>4, <5>6 DEF OnlyLive
        <5> QED BY <1>1, <5>1, <5>5, <5>6, <5>7
      <4> QED BY <4>1, <4>2
    <3> QED BY <3>1, <3>2 DEF SessionsAreRight
  <2>15. HandsAreRight'
    <3>1. /\ \A k : Known(k, issued) => Known(k, issued')
          /\ \A a : EndsInTime(a, granted, issued) => EndsInTime(a, granted', issued')
      BY <2>9, StillRight DEF Grows
    <3>2. EndsInTime(row.access, granted', issued')
      BY <2>11, <3>1, TabTypes DEF RefreshIsRight
    <3>3. row.token \in 1..issued' /\ row.new \in 1..issued' /\ granted'[row.token].root = granted'[row.new].root
      BY <2>1, <2>2, <2>3, <2>4, <2>6, <2>9, <2>11
    <3>4. RefreshIsRight(row, granted', issued', raced')
      BY <2>11, <3>2, <3>3 DEF RefreshIsRight, Known
    <3> QED BY <1>1, <2>9, <2>12, <3>4, HandsStay DEF AccountsInv, client, history
  <2>16. /\ \A u \in Tab, c \in Answer : Brings(u, c)' = IF u = t /\ c = "refresh" THEN n ELSE Brings(u, c)
         /\ Brings(t, "refresh") = None
    BY <1>1, <2>11, <2>12 DEF Brings, Answer
  <2>17. NewAreUnseen'
    <3>1. \A u \in Tab : refresh'[u].token = refresh[u].token
      BY <2>1, <2>11, <2>12
    <3>2. \A u \in Tab, c \in Answer : Brings(u, c) # n
      BY <2>6, <2>9, HeldAreIssued DEF Known
    <3> QED BY <1>1, <2>8, <2>16, <3>1, <3>2, UnseenGrow DEF client
  <2>18. NewestAreHeld' /\ OverlapsAreRecorded' /\ LogoutsAreLast'
    <3>1. \A u \in Tab : /\ refresh[u].at # "idle" <=> refresh'[u].at # "idle"
                         /\ refresh'[u].token = refresh[u].token
      BY <1>1, <2>1, <2>11, <2>12
    <3>2. ASSUME NEW u \in Tab, NEW c \in Answer
          PROVE  \/ Brings(u, c)' \in {None, n}
                 \/ /\ Brings(u, c)' = Brings(u, c)
                    /\ granted[Brings(u, c)].root \notin raced => granted[Brings(u, c)].root # g.root
      <4>1. CASE Brings(u, c)' = Brings(u, c) /\ Brings(u, c) # None /\ granted[Brings(u, c)].root \notin raced
        <5>1. OnlyLive(granted[Brings(u, c)].root, Brings(u, c)) /\ old # Brings(u, c)
          BY <2>1, <4>1 DEF AccountsInv, NewestAreHeld, NewAreUnseen
        <5> QED BY <2>3, <2>4, <4>1, <5>1 DEF OnlyLive
      <4> QED BY <2>16, <4>1
    <3>3. InRefresh(g.root)'
      BY <2>1, <2>3, <2>9, <2>11, <2>12, RootsAreTokens DEF InRefresh, RootOf
    <3>4. LogoutsGoOn
      BY <1>1 DEF LogoutsGoOn
    <3>5. ASSUME NEW u \in Tab, call[u]["logout"].at = "sent", call[u]["logout"].token # None,
                 granted[call[u]["logout"].token].root \notin raced
          PROVE  granted[call[u]["logout"].token].root # g.root
      <4>1. refresh[t].at # "idle" /\ refresh[t].token # None
        BY <1>1, <2>1, RootsAreTokens
      <4> QED BY <2>1, <2>3, <3>5, <4>1 DEF AccountsInv, OverlapsAreRecorded
    <3>6. \A root \in loggedOut \ raced : root # g.root
      <4>1. old # None
        BY RootsAreTokens
      <4> QED BY <2>3, <2>4, <4>1 DEF AccountsInv, LogoutsAreLast, OnlyLive
    <3> QED BY <1>1, <2>8, <3>1, <3>2, <3>3, <3>4, <3>5, <3>6, HeldGrow DEF client, history
  <2> QED BY <2>13, <2>14, <2>15, <2>17, <2>18 DEF AccountsInv
<1> QED BY <1>2, <1>3

\* The session of a new login is right, and its access token ends before it.
LEMMA IssueAdds ==
    ASSUME AccountsInv, NEW u \in User, NEW life \in {BrowserLife, RememberedLife}, Issue(u, life),
           UNCHANGED now, account'[u] = "active",
           \A w \in User : account[w] = "active" => account'[w] = "active",
           NEW n, n = issued + 1, NEW a, a = AccessFor(u, n, AccessLife)
    PROVE  /\ \E g : Adds(n, g) /\ g.root = n
           /\ Grows /\ SessionsAreRight' /\ n \in Token /\ n # None /\ issued' = n
           /\ session' \in [Token -> {None} \cup SessionRow]
           /\ granted' \in [Token -> {None} \cup Grant] /\ issued' \in Nat /\ issued' <= Tokens
           /\ granted'[n].root = n /\ a \in Access /\ EndsInTime(a, granted', issued')
           /\ \A k \in 1..issued : granted[k].root # n
<1>1. /\ issued \in Nat /\ issued < Tokens /\ n \in Nat /\ n \in Token /\ Tokens \in Nat /\ now \in Nat
      /\ now + life \in Nat /\ issued' = n /\ now + AccessLife <= now + life /\ n # None
      /\ n \notin 1..issued
  BY Numbers DEF AccountsInv, Types, Issue, Token
<1>2. PICK g : g = [user |-> u, expires |-> now + life, root |-> n]
  OBVIOUS
<1>3. g \in Grant /\ g.root = n /\ g.user = u /\ g.expires = now + life
  BY <1>1, <1>2 DEF Grant
<1>4. PICK row : row = [user |-> u, expires |-> now + life]
  OBVIOUS
<1>5. row \in SessionRow /\ row.user = u /\ row.expires = now + life
  BY <1>1, <1>4 DEF SessionRow
<1>6. granted' = [granted EXCEPT ![n] = g] /\ session' = [session EXCEPT ![n] = row]
  BY <1>2, <1>4 DEF Issue
<1>7. /\ \A m \in Token : m # n => session'[m] = session[m]
      /\ session'[n] = row /\ session' \in [Token -> {None} \cup SessionRow]
      /\ granted' \in [Token -> {None} \cup Grant]
  BY <1>1, <1>3, <1>5, <1>6 DEF AccountsInv, Types
<1>8. \A k \in 1..issued : granted[k].root \in 1..issued
  BY RootsAreTokens
<1>9. Adds(n, g)
  <2>1. \A m \in Token : session[m] # None => granted[m].root # n
    BY <1>1, <1>8 DEF AccountsInv, SessionsAreRight
  <2> QED BY <1>1, <1>3, <1>6, <1>7, <2>1 DEF Adds
<1>10. /\ Grows /\ granted'[n] = g /\ \A k \in 1..issued : granted'[k] = granted[k]
  BY <1>9, AddedToken
<1>11. SessionsAreRight'
  <2>1. ASSUME NEW k \in 1..issued'
        PROVE  /\ granted'[k] \in Grant /\ granted'[k].root \in 1..k
               /\ granted'[granted'[k].root].root = granted'[k].root
               /\ granted'[granted'[k].root].expires = granted'[k].expires
    <3>1. CASE k = n
      BY <1>1, <1>3, <1>10, <3>1
    <3>2. CASE k # n
      <4>1. k \in 1..issued
        BY <1>1, <3>2
      <4>2. granted[k] \in Grant /\ granted[k].root \in 1..k /\ granted[k].root \in 1..issued
        BY <4>1, RootsAreTokens DEF AccountsInv, SessionsAreRight
      <4> QED BY <1>10, <4>1, <4>2, RootsAreTokens
    <3> QED BY <3>1, <3>2
  <2>2. ASSUME NEW k \in Token, session'[k] # None
        PROVE  /\ k \in 1..issued' /\ session'[k].user = granted'[k].user
               /\ session'[k].expires = granted'[k].expires
               /\ account'[session'[k].user] = "active"
               /\ \A m \in Token : session'[m] # None /\ granted'[m].root = granted'[k].root => m = k
    <3>1. CASE k = n
      <4>1. \A m \in Token : session'[m] # None /\ granted'[m].root = g.root => m = n
        BY <1>9, AddedToken DEF OnlyLive
      <4> QED BY <1>1, <1>3, <1>5, <1>7, <1>10, <3>1, <4>1
    <3>2. CASE k # n
      <4>1. session[k] # None /\ session'[k] = session[k] /\ granted[k].root # g.root /\ k \in 1..issued
        BY <1>7, <1>9, <2>2, <3>2 DEF Adds, AccountsInv, SessionsAreRight
      <4>2. OnlyLive(granted[k].root, k)
        BY <4>1 DEF AccountsInv, SessionsAreRight, OnlyLive
      <4>3. PICK root : root = granted[k].root
        OBVIOUS
      <4>4. OnlyLive(root, k)'
        BY <1>9, <4>1, <4>2, <4>3, AddedToken
      <4>5. /\ session[k].user = granted[k].user /\ session[k].expires = granted[k].expires
            /\ account[session[k].user] = "active" /\ session[k].user \in User
        BY <4>1 DEF AccountsInv, SessionsAreRight, Types, SessionRow
      <4>6. k \in 1..issued' /\ granted'[k] = granted[k]
        BY <1>1, <1>10, <4>1
      <4>7. \A m \in Token : session'[m] # None /\ granted'[m].root = granted'[k].root => m = k
        BY <4>3, <4>4, <4>6 DEF OnlyLive
      <4> QED BY <4>1, <4>5, <4>6, <4>7
    <3> QED BY <3>1, <3>2
  <2> QED BY <2>1, <2>2 DEF SessionsAreRight
<1>12. a \in Access /\ a.root = n /\ a.until <= now + AccessLife
  BY <1>1, AccessIsBounded, Numbers DEF AccountsInv
<1>13. EndsInTime(a, granted', issued')
  <2>1. a.until \in Int
    BY <1>12 DEF Access
  <2> QED BY <1>1, <1>3, <1>10, <1>12, <2>1, Numbers DEF EndsInTime
<1> QED BY <1>1, <1>3, <1>7, <1>8, <1>9, <1>10, <1>11, <1>12, <1>13

\* A login is answered with a new session, or fails without one.
LEMMA AnswerLoginKeeps ==
    ASSUME AccountsInv, NEW t \in Tab, NEW life \in {BrowserLife, RememberedLife}, AnswerLogin(t, life)
    PROVE  AccountsInv'
<1>1. /\ UNCHANGED <<now, account, client, refresh, history>> /\ call[t]["login"].at = "verified"
      /\ raced \subseteq Token
  BY DEF AnswerLogin, AccountsInv, Types
<1>2. PICK r : r = call[t]["login"]
  OBVIOUS
<1>3. r \in CallRow /\ r.kind \in {"login", "register"} /\ r.user \in User /\ CallIsRight("login", r, granted, issued)
  BY <1>1, <1>2, TabTypes DEF CallIsRight
<1>4. CASE UNCHANGED <<session, issued, granted>>
  <2>1. call' = [call EXCEPT ![t]["login"] = [r EXCEPT !.at = "failed"]]
    <3>1. issued' # issued + 1
      BY <1>4, TabTypes
    <3> QED BY <1>2, <3>1 DEF AnswerLogin, CreateSession, Issue
  <2>2. PICK row : row = [r EXCEPT !.at = "failed"]
    OBVIOUS
  <2>3. /\ row \in CallRow /\ row.at = "failed" /\ row.kind = r.kind /\ row.user = r.user
        /\ row.access = r.access /\ row.token = r.token
    BY <1>3, <2>2, CallGoesOn DEF CallStage
  <2>4. CallIsRight("login", row, granted, issued)
    BY <1>3, <2>3 DEF CallIsRight
  <2>5. Shrinks
    BY <1>1, <1>4, NothingEnds DEF AccountsInv
  <2> QED BY <1>1, <2>1, <2>2, <2>3, <2>4, <2>5, TabTypes, CallMoves DEF client
<1>5. CASE ~UNCHANGED <<session, issued, granted>>
  <2>1. PICK n : n = issued + 1
    OBVIOUS
  <2>2. PICK a : a = AccessFor(r.user, n, AccessLife)
    OBVIOUS
  <2>3. /\ CreateSession(r.user, life)
        /\ call' = [call EXCEPT ![t]["login"] = [r EXCEPT !.at = "done", !.token = n, !.access = a]]
    BY <1>2, <1>5, <2>1, <2>2 DEF AnswerLogin
  <2>4. /\ \E g : Adds(n, g) /\ g.root = n
        /\ Grows /\ SessionsAreRight' /\ n \in Token /\ n # None /\ issued' = n
        /\ session' \in [Token -> {None} \cup SessionRow]
        /\ granted' \in [Token -> {None} \cup Grant] /\ issued' \in Nat /\ issued' <= Tokens
        /\ granted'[n].root = n /\ a \in Access /\ EndsInTime(a, granted', issued')
        /\ \A k \in 1..issued : granted[k].root # n
    <3>1. Issue(r.user, life) /\ account'[r.user] = "active"
      BY <1>1, <2>3 DEF CreateSession
    <3> QED BY <1>1, <1>3, <2>1, <2>2, <3>1, IssueAdds
  <2>5. PICK g : Adds(n, g) /\ g.root = n
    BY <2>4
  <2>6. PICK row : row = [r EXCEPT !.at = "done", !.token = n, !.access = a]
    OBVIOUS
  <2>7. /\ row \in CallRow /\ row.at = "done" /\ row.kind = r.kind /\ row.user = r.user
        /\ row.token = n /\ row.access = a
    <3>1. n \in Token /\ a \in Access
      BY <2>4
    <3>2. r \in CallRow
      BY <1>3
    <3> QED BY <2>6, <3>1, <3>2 DEF CallRow
  <2>8. /\ call' \in [Tab -> [Slot -> CallRow]] /\ call'[t]["login"] = row
        /\ \A u \in Tab, d \in Slot : u # t \/ d # "login" => call'[u][d] = call[u][d]
    BY <2>3, <2>6, <2>7, TabTypes
  <2>9. Types'
    BY <1>1, <2>4, <2>8 DEF AccountsInv, Types, client, history
  <2>10. CallIsRight("login", row, granted', issued')
    BY <1>3, <2>4, <2>7 DEF CallIsRight, Known, KindsOf, Token
  <2>11. HandsAreRight'
    BY <1>1, <2>4, <2>8, <2>10, HandsStay DEF AccountsInv, client, history
  <2>12. /\ \A u \in Tab, c \in Answer : Brings(u, c)' = IF u = t /\ c = "login" THEN n ELSE Brings(u, c)
         /\ \A u \in Tab, c \in Answer : Brings(u, c) # n
    <3>1. \A u \in Tab, c \in Answer : Brings(u, c) # n
      BY <2>1, <2>4, HeldAreIssued, TabTypes DEF Known
    <3> QED BY <1>1, <2>7, <2>8, <3>1, TabTypes DEF Brings, Answer
  <2>13. NewAreUnseen'
    BY <1>1, <2>5, <2>12, UnseenGrow DEF client
  <2>14. NewestAreHeld' /\ OverlapsAreRecorded' /\ LogoutsAreLast'
    <3>1. \A u \in Tab : call'[u]["logout"] = call[u]["logout"]
      BY <2>8, TabTypes
    <3>2. LogoutsGoOn
      BY <3>1 DEF LogoutsGoOn
    <3>3. \A u \in Tab, c \in Answer : Brings(u, c) # None => granted[Brings(u, c)].root # n
      BY <2>4, HeldAreIssued DEF Known
    <3>4. jar.refresh # None => granted[jar.refresh].root # n
      BY <2>4, HeldAreIssued DEF Known
    <3>5. \A u \in Tab : call[u]["logout"].token # None => granted[call[u]["logout"].token].root # n
      BY <2>4, HeldAreIssued DEF Known
    <3>6. \A root \in loggedOut : root # n
      BY <2>1, <2>4, TabTypes DEF AccountsInv, LogoutsAreLast
    <3> QED BY <1>1, <2>5, <2>12, <3>2, <3>3, <3>4, <3>5, <3>6, HeldGrow DEF client, history
  <2> QED BY <2>4, <2>9, <2>11, <2>13, <2>14 DEF AccountsInv
<1> QED BY <1>4, <1>5

\* GitHub sends the browser back, and the account it names is logged in, or not.
LEMMA GithubCallbackKeeps ==
    ASSUME AccountsInv, NEW t \in Tab, NEW u \in User, NEW life \in {BrowserLife, RememberedLife},
           GithubCallback(t, u, life)
    PROVE  AccountsInv'
<1>1. /\ UNCHANGED <<now, hint, refresh, history>> /\ call[t]["login"].kind = "github"
      /\ raced \subseteq Token /\ Brings(t, "login") = None
  BY TabTypes DEF GithubCallback, AccountsInv, Types, Brings, CallIsRight
<1>2. NoCall \in CallRow /\ NoCall.at = "idle" /\ \A c \in Slot : CallIsRight(c, NoCall, granted, issued)
  BY NoCallRow, NoCallRight DEF NoCall
<1>3. CASE UNCHANGED <<session, issued, granted>>
  <2>1. /\ jar' = [jar EXCEPT !.context = None]
        /\ call' = [call EXCEPT ![t]["login"] = NoCall] /\ UNCHANGED <<account, page>>
    <3>1. issued' # issued + 1
      BY <1>3, TabTypes
    <3> QED BY <3>1 DEF GithubCallback, Issue
  <2>2. jar' \in Cookies /\ jar'.refresh = jar.refresh /\ jar'.access = jar.access
    BY <2>1, TabTypes DEF Cookies
  <2>3. Shrinks
    BY <1>3, <2>1, NothingEnds DEF AccountsInv
  <2> QED BY <1>1, <1>2, <2>1, <2>2, <2>3, TabTypes, CallMoves
<1>4. CASE ~UNCHANGED <<session, issued, granted>>
  <2>1. PICK n : n = issued + 1
    OBVIOUS
  <2>2. PICK a : a = AccessFor(u, n, AccessLife)
    OBVIOUS
  <2>3. PICK row : row = [NoCall EXCEPT !.kind = "me", !.at = "sent", !.access = a, !.token = n]
    OBVIOUS
  <2>4. /\ GithubAccount(u) /\ Issue(u, life)
        /\ jar' = [access |-> a, refresh |-> n, context |-> None]
        /\ page' = [page EXCEPT ![t] = [page[t] EXCEPT !.up = TRUE]]
        /\ call' = [call EXCEPT ![t] = [c \in Slot |-> IF c = "guarded" THEN row ELSE NoCall]]
    BY <1>4, <2>1, <2>2, <2>3 DEF GithubCallback
  <2>5. /\ account' \in [User -> {"absent", "active", "pending"}] /\ account'[u] = "active"
        /\ \A w \in User : account[w] = "active" => account'[w] = "active"
    BY <2>4, TabTypes DEF GithubAccount
  <2>6. /\ \E g : Adds(n, g) /\ g.root = n
        /\ Grows /\ SessionsAreRight' /\ n \in Token /\ n # None /\ issued' = n
        /\ session' \in [Token -> {None} \cup SessionRow]
        /\ granted' \in [Token -> {None} \cup Grant] /\ issued' \in Nat /\ issued' <= Tokens
        /\ granted'[n].root = n /\ a \in Access /\ EndsInTime(a, granted', issued')
        /\ \A k \in 1..issued : granted[k].root # n
    BY <1>1, <2>1, <2>2, <2>4, <2>5, IssueAdds
  <2>7. PICK g : Adds(n, g) /\ g.root = n
    BY <2>6
  <2>8. n \in 1..issued'
    BY <2>6 DEF Token
  <2>9. row = [kind |-> "me", at |-> "sent", rev |-> 0, user |-> None, access |-> a,
               token |-> n, retried |-> FALSE]
    BY <2>3 DEF NoCall
  <2>10. row \in CallRow
    <3>1. a \in {None} \cup Access /\ n \in {None} \cup Token /\ None \in {None} \cup User
      BY <2>6
    <3> QED BY <2>9, <3>1, CallRows, 0 \in Nat, FALSE \in BOOLEAN, Zenon
  <2>11. CallIsRight("guarded", row, granted', issued')
    BY <2>6, <2>8, <2>9 DEF CallIsRight, Known, KindsOf, Guarded
  <2>12. /\ call' \in [Tab -> [Slot -> CallRow]] /\ call'[t]["guarded"] = row
         /\ \A c \in Slot : c # "guarded" => call'[t][c] = NoCall
         /\ \A w \in Tab, d \in Slot : w # t => call'[w][d] = call[w][d]
    BY <1>2, <2>4, <2>10, TabTypes
  <2>13. page' \in [Tab -> PageRow]
    <3>1. PICK p : p = [page[t] EXCEPT !.up = TRUE]
      OBVIOUS
    <3>2. page[t] \in PageRow /\ TRUE \in BOOLEAN
      BY TabTypes
    <3>3. p \in PageRow
      <4>1. page[t].user \in {None} \cup User /\ page[t].loading \in BOOLEAN /\ page[t].rev \in Nat
        BY <3>2 DEF PageRow
      <4>2. \A q \in PageRow, up \in BOOLEAN : [q EXCEPT !.up = up] \in PageRow
        BY DEF PageRow
      <4> QED BY <3>1, <3>2, <4>2, Zenon
    <3> QED BY <2>4, <3>1, <3>3, TabTypes
  <2>14. jar' \in Cookies /\ jar'.refresh = n /\ jar'.access = a
    BY <2>4, <2>6 DEF Cookies
  <2>15. Types'
    BY <1>1, <2>5, <2>6, <2>12, <2>13, <2>14 DEF AccountsInv, Types, history
  <2>16. HandsAreRight'
    <3>1. ASSUME NEW w \in Tab, NEW d \in Slot
          PROVE  call'[w][d] = call[w][d] \/ CallIsRight(d, call'[w][d], granted', issued')
      <4>1. CASE w = t /\ d # "guarded"
        <5>1. CallIsRight(d, NoCall, granted', issued')
          BY DEF CallIsRight, NoCall, KindsOf, Slot, Known, EndsInTime
        <5> QED BY <2>12, <4>1, <5>1
      <4> QED BY <2>11, <2>12, <4>1
    <3>2. Known(jar'.refresh, issued') /\ EndsInTime(jar'.access, granted', issued')
      BY <2>6, <2>8, <2>14 DEF Known
    <3> QED BY <1>1, <2>6, <3>1, <3>2, HandsStay DEF AccountsInv, history
  <2>17. \A w \in Tab, c \in Answer : Brings(w, c)' = Brings(w, c) /\ Brings(w, c) # n
    <3>1. \A w \in Tab, c \in Answer : Brings(w, c) # n
      BY <2>1, <2>6, HeldAreIssued, TabTypes DEF Known
    <3>2. ASSUME NEW w \in Tab, NEW c \in Answer PROVE Brings(w, c)' = Brings(w, c)
      <4>1. CASE w = t /\ c = "login"
        BY <1>1, <1>2, <2>12, <4>1, TabTypes DEF Brings
      <4> QED BY <1>1, <2>12, <4>1, TabTypes DEF Brings, Answer
    <3> QED BY <3>1, <3>2
  <2>18. NewAreUnseen'
    BY <1>1, <2>7, <2>14, <2>17, UnseenGrow
  <2>19. NewestAreHeld' /\ OverlapsAreRecorded' /\ LogoutsAreLast'
    <3>1. LogoutsGoOn
      BY <1>2, <2>12, TabTypes DEF LogoutsGoOn
    <3>2. \A w \in Tab, c \in Answer : Brings(w, c) # None => granted[Brings(w, c)].root # n
      BY <2>6, HeldAreIssued DEF Known
    <3>3. \A w \in Tab : call[w]["logout"].token # None => granted[call[w]["logout"].token].root # n
      BY <2>6, HeldAreIssued DEF Known
    <3>4. \A root \in loggedOut : root # n
      BY <2>1, <2>6, TabTypes DEF AccountsInv, LogoutsAreLast
    <3>5. \A w \in Tab, c \in Answer :
             \/ Brings(w, c)' \in {None, n}
             \/ /\ Brings(w, c)' = Brings(w, c)
                /\ granted[Brings(w, c)].root \notin raced => granted[Brings(w, c)].root # n
      BY <2>17, <3>2
    <3> QED BY <1>1, <2>7, <2>14, <3>1, <3>3, <3>4, <3>5, HeldGrow DEF history
  <2> QED BY <2>6, <2>15, <2>16, <2>18, <2>19 DEF AccountsInv
<1> QED BY <1>3, <1>4

-----------------------------------------------------------------------------
(* Logouts, and what the jar receives. *)

\* The server ends the session that the logout named.
LEMMA ServeLogoutKeeps ==
    ASSUME AccountsInv, NEW t \in Tab, ServeLogout(t)
    PROVE  AccountsInv'
<1>1. /\ UNCHANGED <<now, account, issued, granted, client, refresh, raced>>
      /\ call[t]["logout"].at = "sent"
      /\ call' = [call EXCEPT ![t]["logout"] = [call[t]["logout"] EXCEPT !.at = "done"]]
  BY DEF ServeLogout
<1>2. PICK k : k = call[t]["logout"].token
  OBVIOUS
<1>3. Known(k, issued)
  BY <1>2, HeldAreIssued
<1>4. /\ session' \in [Token -> {None} \cup SessionRow]
      /\ \A m \in Token : session'[m] # None => session'[m] = session[m]
      /\ k \in Token => session'[k] = None
      /\ k = None => loggedOut' = loggedOut
      /\ k # None => loggedOut' = loggedOut \cup {RootOf(k)}
  BY <1>2, <1>3, Numbers, RootsAreTokens DEF ServeLogout, DeleteSession, Live, AccountsInv, Types, Known
<1>5. Shrinks
  <2>1. \A m \in Token : session[m] # None => account[session[m].user] = "active"
    BY DEF AccountsInv, SessionsAreRight
  <2> QED BY <1>1, <1>4, <2>1 DEF Shrinks
<1>6. PICK row : row = [call[t]["logout"] EXCEPT !.at = "done"]
  OBVIOUS
<1>7. /\ row \in CallRow /\ row.at = "done" /\ row.kind = call[t]["logout"].kind /\ row.token = k
      /\ row.access = call[t]["logout"].access
  BY <1>2, <1>6, TabTypes, CallGoesOn, ZenonT(60) DEF CallStage
<1>8. CallIsRight("logout", row, granted, issued)
  BY <1>2, <1>7, TabTypes DEF CallIsRight
<1>9. /\ call' \in [Tab -> [Slot -> CallRow]] /\ call'[t]["logout"] = row
      /\ \A u \in Tab, d \in Slot : u # t \/ d # "logout" => call'[u][d] = call[u][d]
  BY <1>1, <1>6, <1>7, TabTypes
<1>10. k # None => RootOf(k) = granted[k].root /\ granted[k].root \in 1..issued /\ granted[k].root \in Token
  BY <1>3, RootsAreTokens DEF Known
<1>11. Types'
  BY <1>1, <1>4, <1>9, <1>10 DEF AccountsInv, Types, client
<1>12. HandsAreRight'
  <2>1. Grows
    BY <1>1, TabTypes DEF Grows
  <2>2. \A u \in Tab, d \in Slot : call'[u][d] = call[u][d] \/ CallIsRight(d, call'[u][d], granted', issued')
    BY <1>1, <1>8, <1>9
  <2> QED BY <1>1, <2>1, <2>2, HandsStay DEF AccountsInv, client
<1>13. LogoutsAreLast'
  <2>1. ASSUME k # None, granted[k].root \notin raced
        PROVE  OnlyLive(granted[k].root, None)'
    <3>1. PICK root : root = granted[k].root
      OBVIOUS
    <3>2. OnlyLive(root, k)
      BY <1>1, <1>2, <2>1, <3>1 DEF AccountsInv, NewestAreHeld
    <3>3. OnlyLive(root, k)'
      BY <1>5, <3>2, OnlyStays
    <3> QED BY <1>1, <1>4, <2>1, <3>1, <3>3 DEF OnlyLive
  <2>2. \A root \in loggedOut : root \in 1..issued /\ (root \notin raced => OnlyLive(root, None)')
    <3>1. \A root : OnlyLive(root, None) => OnlyLive(root, None)'
      BY <1>5, OnlyStays
    <3> QED BY <3>1 DEF AccountsInv, LogoutsAreLast
  <2> QED BY <1>1, <1>4, <1>10, <2>1, <2>2 DEF LogoutsAreLast, OnlyLive
<1>14. BringsLess /\ LogoutsGoOn /\ RefreshesGoOn /\ RefreshesStay
  BY <1>1, <1>2, <1>7, <1>9, TabTypes DEF BringsLess, Brings, LogoutsGoOn, RefreshesGoOn, RefreshesStay
<1> QED BY <1>1, <1>5, <1>11, <1>12, <1>13, <1>14, TokensStay DEF client

\* A logout is sent with the token of the jar.
LEMMA SubmitLogoutKeeps ==
    ASSUME AccountsInv, NEW t \in Tab, SubmitLogout(t)
    PROVE  AccountsInv'
<1>1. /\ UNCHANGED <<now, jar, refresh, loggedOut>> /\ UNCHANGED database
      /\ call[t]["logout"].at = "idle" /\ page' = Advanced(t, None) /\ hint' \in BOOLEAN
  BY DEF SubmitLogout, Send
<1>2. PICK row : /\ call' = [call EXCEPT ![t]["logout"] = row]
                 /\ row = [kind |-> "logout", at |-> "sent", rev |-> Advanced(t, None)[t].rev,
                           user |-> None, access |-> jar.access, token |-> jar.refresh, retried |-> FALSE]
  BY DEF SubmitLogout, Send
<1>3. row \in CallRow /\ CallIsRight("logout", row, granted, issued) /\ row.at = "sent" /\ row.token = jar.refresh
  <2>1. "logout" \in KindsOf("logout") \ {"none"}
    BY DEF KindsOf
  <2> QED BY <1>2, <2>1, AdvancedPage, TabTypes, Sends
<1>4. /\ call' \in [Tab -> [Slot -> CallRow]] /\ call'[t]["logout"] = row
      /\ \A u \in Tab, d \in Slot : u # t \/ d # "logout" => call'[u][d] = call[u][d]
  BY <1>2, <1>3, TabTypes
<1>5. PICK k : k = jar.refresh
  OBVIOUS
<1>6. Known(k, issued) /\ (k # None => RootOf(k) = granted[k].root /\ granted[k].root \in Token)
  BY <1>5, HeldAreIssued, RootsAreTokens DEF Known
<1>7. /\ raced \subseteq raced' /\ raced' \subseteq Token
      /\ k # None => granted[k].root \in raced' \/ ~InRefresh(granted[k].root)
  <2>1. raced' = IF InRefresh(RootOf(k)) THEN raced \cup ({RootOf(k)} \ {None}) ELSE raced
    BY <1>5 DEF SubmitLogout
  <2>2. RootOf(k) = None \/ RootOf(k) \in Token
    BY <1>6 DEF RootOf
  <2>3. k # None => RootOf(k) # None
    BY <1>6, Numbers
  <2> QED BY <1>6, <2>1, <2>2, <2>3 DEF AccountsInv, Types
<1>8. Shrinks /\ Grows
  BY <1>1, NothingEnds DEF AccountsInv, database
<1>9. Types'
  BY <1>1, <1>4, <1>7, AdvancedPage DEF AccountsInv, Types, database
<1>10. HandsAreRight'
  <2>1. \A u \in Tab, d \in Slot : call'[u][d] = call[u][d] \/ CallIsRight(d, call'[u][d], granted', issued')
    BY <1>1, <1>3, <1>4 DEF database
  <2> QED BY <1>1, <1>7, <1>8, <2>1, HandsStay DEF AccountsInv
<1>11. BringsLess /\ RefreshesStay /\ RefreshesGoOn
  BY <1>1, <1>4, TabTypes DEF BringsLess, Brings, RefreshesStay, RefreshesGoOn
<1>12. LogoutsNameTheJar
  BY <1>3, <1>4, <1>5, <1>7, TabTypes DEF LogoutsNameTheJar
<1>13. NewestAreHeld' /\ NewAreUnseen' /\ LogoutsAreLast' /\ SessionsAreRight'
  BY <1>1, <1>7, <1>8, <1>11, <1>12, HeldStay, UnseenStay, LastStay, SessionsStay DEF AccountsInv, RefreshesGoOn
<1>14. OverlapsAreRecorded'
  <2> SUFFICES ASSUME NEW u \in Tab, NEW w \in Tab, refresh[u].at # "idle", refresh[u].token # None,
                      call'[w]["logout"].at # "idle", call'[w]["logout"].token # None,
                      granted[call'[w]["logout"].token].root = granted[refresh[u].token].root
               PROVE  granted[call'[w]["logout"].token].root \in raced'
    BY <1>1 DEF OverlapsAreRecorded, database
  <2>1. CASE w = t
    <3>1. RootOf(refresh[u].token) = granted[k].root /\ call'[w]["logout"].token = k /\ k # None
      BY <1>3, <1>4, <1>5, <2>1 DEF RootOf
    <3> QED BY <1>7, <3>1 DEF InRefresh
  <2>2. CASE w # t
    BY <1>4, <1>7, <2>2, TabTypes DEF AccountsInv, OverlapsAreRecorded
  <2> QED BY <2>1, <2>2
<1> QED BY <1>9, <1>10, <1>13, <1>14 DEF AccountsInv

\* An answer arrives, and the jar receives its token.
LEMMA TokenArrives ==
    ASSUME AccountsInv, NEW t \in Tab, NEW c \in Answer, Brings(t, c) # None,
           jar'.refresh = Brings(t, c), Brings(t, c)' = None, BringsLess,
           UNCHANGED database, UNCHANGED history, LogoutsGoOn, RefreshesGoOn
    PROVE  SessionsAreRight' /\ NewAreUnseen' /\ NewestAreHeld' /\ OverlapsAreRecorded' /\ LogoutsAreLast'
<1>1. Shrinks
  BY NothingEnds DEF AccountsInv, database
<1>2. SessionsAreRight' /\ OverlapsAreRecorded' /\ LogoutsAreLast'
  BY <1>1, SessionsStay, OverlapsStay, LastStay DEF AccountsInv, database, history
<1>3. PICK k : k = Brings(t, c)
  OBVIOUS
<1>4. /\ \A u \in Tab : refresh[u].token # k
      /\ \A u \in Tab, d \in Answer : Brings(u, d) = k => u = t /\ d = c
  BY <1>3 DEF AccountsInv, NewAreUnseen
<1>5. \A u \in Tab, d \in Answer : Brings(u, d)' # None => Brings(u, d)' = Brings(u, d) /\ Brings(u, d) # k
  <2> SUFFICES ASSUME NEW u \in Tab, NEW d \in Answer, Brings(u, d)' # None
               PROVE  Brings(u, d)' = Brings(u, d) /\ Brings(u, d) # k
    OBVIOUS
  <2>1. Brings(u, d)' = Brings(u, d)
    BY DEF BringsLess
  <2>2. CASE u = t /\ d = c
    BY <2>2
  <2> QED BY <1>4, <2>1, <2>2
<1>6. NewAreUnseen'
  <2> SUFFICES ASSUME NEW u \in Tab, NEW d \in Answer, Brings(u, d)' # None
               PROVE  /\ jar'.refresh # Brings(u, d)'
                      /\ \A w \in Tab : refresh'[w].token # Brings(u, d)'
                      /\ \A w \in Tab, e \in Answer : Brings(w, e)' = Brings(u, d)' => w = u /\ e = d
    BY DEF NewAreUnseen
  <2>1. /\ Brings(u, d)' = Brings(u, d) /\ Brings(u, d) # k /\ Brings(u, d) # None
    BY <1>5
  <2>2. /\ \A w \in Tab : refresh[w].token # Brings(u, d)
        /\ \A w \in Tab, e \in Answer : Brings(w, e) = Brings(u, d) => w = u /\ e = d
    BY <2>1 DEF AccountsInv, NewAreUnseen
  <2>3. \A w \in Tab : refresh'[w].token # Brings(u, d)'
    BY <2>1, <2>2 DEF RefreshesGoOn
  <2>4. \A w \in Tab, e \in Answer : Brings(w, e)' = Brings(u, d)' => w = u /\ e = d
    BY <2>1, <2>2 DEF BringsLess
  <2> QED BY <1>3, <2>1, <2>3, <2>4
<1>7. NewestAreHeld'
  <2>1. granted' = granted /\ session' = session /\ raced' = raced
    BY DEF database, history
  <2>2. ASSUME NEW u \in Tab, NEW d \in Answer, Brings(u, d)' # None, granted'[Brings(u, d)'].root \notin raced'
        PROVE  OnlyLive(granted[Brings(u, d)].root, Brings(u, d))'
    <3>1. Brings(u, d)' = Brings(u, d)
      BY <1>5, <2>2
    <3>2. OnlyLive(granted[Brings(u, d)].root, Brings(u, d))
      BY <2>1, <2>2, <3>1 DEF AccountsInv, NewestAreHeld
    <3> QED BY <2>1, <3>1, <3>2 DEF OnlyLive
  <2>3. ASSUME jar'.refresh # None, granted'[jar'.refresh].root \notin raced'
        PROVE  OnlyLive(granted[jar.refresh].root, jar.refresh)'
    <3>1. OnlyLive(granted[k].root, k)
      BY <1>3, <2>1, <2>3 DEF AccountsInv, NewestAreHeld
    <3> QED BY <1>3, <2>1, <3>1 DEF OnlyLive
  <2>4. ASSUME NEW u \in Tab, call'[u]["logout"].at = "sent", call'[u]["logout"].token # None,
               granted'[call'[u]["logout"].token].root \notin raced'
        PROVE  OnlyLive(granted[call[u]["logout"].token].root, call[u]["logout"].token)'
    <3>1. call[u]["logout"].at = "sent" /\ call'[u]["logout"].token = call[u]["logout"].token
      BY <2>4 DEF LogoutsGoOn
    <3>2. OnlyLive(granted[call[u]["logout"].token].root, call[u]["logout"].token)
      BY <2>1, <2>4, <3>1 DEF AccountsInv, NewestAreHeld
    <3> QED BY <2>1, <3>1, <3>2 DEF OnlyLive
  <2> QED BY <2>2, <2>3, <2>4 DEF NewestAreHeld
<1> QED BY <1>2, <1>6, <1>7

\* The answer of a login arrives.
LEMMA FinishLoginKeeps ==
    ASSUME AccountsInv, NEW t \in Tab, FinishLogin(t)
    PROVE  AccountsInv'
<1>1. /\ UNCHANGED <<now, refresh, history>> /\ UNCHANGED database /\ call' = Idle(t, "login")
      /\ call[t]["login"].kind \in {"login", "register"} /\ call[t]["login"].at \in {"done", "failed"}
  BY DEF FinishLogin
<1>2. CASE call[t]["login"].at # "done"
  <2>1. UNCHANGED <<jar, page, hint>>
    BY <1>2 DEF FinishLogin
  <2> QED BY <1>1, <2>1, TabTypes, FinishKeeps
<1>3. CASE call[t]["login"].at = "done"
  <2>1. PICK r : r = call[t]["login"]
    OBVIOUS
  <2>2. /\ r \in CallRow /\ r.user \in User /\ r.token \in 1..issued /\ r.token \in Token /\ r.token # None
        /\ EndsInTime(r.access, granted, issued) /\ r.access \in {None} \cup Access
    BY <1>1, <1>3, <2>1, TabTypes, RootsAreTokens, CallFields DEF CallIsRight
  <2>3. jar' = [jar EXCEPT !.access = r.access, !.refresh = r.token]
    BY <1>3, <2>1 DEF FinishLogin, SetCookies
  <2>4. jar' \in Cookies /\ jar'.refresh = r.token /\ jar'.access = r.access
    BY <2>2, <2>3, TabTypes DEF Cookies
  <2>5. page' \in [Tab -> PageRow] /\ hint' \in BOOLEAN
    <3>1. CASE UNCHANGED <<page, hint>>
      BY <3>1, TabTypes
    <3>2. CASE ~UNCHANGED <<page, hint>>
      <4>1. /\ page' = [page EXCEPT ![t] = [page[t] EXCEPT !.user = r.user, !.loading = FALSE]]
            /\ hint' = TRUE
        BY <1>3, <2>1, <3>2, TabTypes DEF FinishLogin, PageRow
      <4>2. PICK p : p = [page[t] EXCEPT !.user = r.user, !.loading = FALSE]
        OBVIOUS
      <4>3. p \in PageRow
        <5>1. page[t] \in PageRow /\ FALSE \in BOOLEAN /\ r.user \in {None} \cup User
          BY <2>2, TabTypes
        <5> QED BY <4>2, <5>1, PageRows, Zenon
      <4> QED BY <4>1, <4>2, <4>3, TabTypes
    <3> QED BY <3>1, <3>2
  <2>6. /\ call' \in [Tab -> [Slot -> CallRow]] /\ call'[t]["login"] = NoCall
        /\ \A u \in Tab, d \in Slot : u # t \/ d # "login" => call'[u][d] = call[u][d]
    BY <1>1, NoCallRow, TabTypes DEF Idle
  <2>7. Types'
    BY <1>1, <2>4, <2>5, <2>6 DEF AccountsInv, Types, database, history
  <2>8. HandsAreRight'
    <3>1. Grows
      BY <1>1, NothingEnds DEF AccountsInv, database
    <3>2. \A u \in Tab, d \in Slot : call'[u][d] = call[u][d] \/ CallIsRight(d, call'[u][d], granted', issued')
      BY <1>1, <2>6, NoCallRight DEF database
    <3> QED BY <1>1, <2>2, <2>4, <3>1, <3>2, HandsStay DEF AccountsInv, Known, database, history
  <2>9. Brings(t, "login") = r.token /\ Brings(t, "login")' = None /\ "login" \in Answer
    BY <1>3, <2>1, <2>6 DEF Brings, NoCall, Answer
  <2>10. BringsLess /\ LogoutsGoOn /\ RefreshesGoOn
    BY <1>1, <2>6, <2>9, TabTypes DEF BringsLess, Brings, LogoutsGoOn, RefreshesGoOn, Answer
  <2> QED BY <1>1, <2>2, <2>4, <2>7, <2>8, <2>9, <2>10, TokenArrives DEF AccountsInv
<1> QED BY <1>2, <1>3

\* The account was deleted, and its page is left.
LEMMA FinishDeleteKeeps ==
    ASSUME AccountsInv, NEW t \in Tab, FinishDelete(t)
    PROVE  AccountsInv'
<1>1. UNCHANGED <<now, loggedOut>> /\ UNCHANGED database
  BY DEF FinishDelete
<1>2. CASE call[t]["guarded"].at # "done"
  <2>1. call' = Idle(t, "guarded") /\ UNCHANGED <<jar, hint, page, refresh, raced>>
    BY <1>2 DEF FinishDelete
  <2> QED BY <1>1, <2>1, TabTypes, FinishKeeps DEF history
<1>3. CASE call[t]["guarded"].at = "done"
  <2>1. /\ jar' = [jar EXCEPT !.access = None, !.refresh = None] /\ hint' = FALSE
        /\ page' = [page EXCEPT ![t] = NewPage]
        /\ call' = [call EXCEPT ![t] = [c \in Slot |-> NoCall]]
        /\ refresh' = [refresh EXCEPT ![t] = NoRefresh]
        /\ raced' = raced \cup ({RootOf(refresh[t].token)} \ {None})
    BY <1>3 DEF FinishDelete, ClearCookies
  <2>2. Shrinks /\ Grows
    BY <1>1, NothingEnds DEF AccountsInv, database
  <2>3. jar' \in Cookies /\ jar'.refresh = None /\ jar'.access = None
    BY <2>1, TabTypes DEF Cookies
  <2>4. /\ call' \in [Tab -> [Slot -> CallRow]] /\ \A c \in Slot : call'[t][c] = NoCall
        /\ \A u \in Tab, d \in Slot : u # t => call'[u][d] = call[u][d]
    BY <2>1, NoCallRow, TabTypes
  <2>5. NoRefresh \in RefreshRow /\ NoRefresh.at = "idle" /\ NoRefresh.token = None /\ NoRefresh.access = None
    BY DEF NoRefresh, RefreshRow
  <2>6. /\ refresh' \in [Tab -> RefreshRow] /\ refresh'[t] = NoRefresh
        /\ \A u \in Tab : u # t => refresh'[u] = refresh[u]
    BY <2>1, <2>5, TabTypes
  <2>7. raced \subseteq raced' /\ raced' \subseteq Token
    <3>1. Known(refresh[t].token, issued)
      BY HeldAreIssued
    <3>2. RootOf(refresh[t].token) = None \/ RootOf(refresh[t].token) \in Token
      BY <3>1, RootsAreTokens DEF Known, RootOf
    <3> QED BY <2>1, <3>2 DEF AccountsInv, Types
  <2>8. page' \in [Tab -> PageRow] /\ hint' \in BOOLEAN
    BY <2>1, NewPageRow, TabTypes
  <2>9. Types'
    BY <1>1, <2>3, <2>4, <2>6, <2>7, <2>8 DEF AccountsInv, Types, database
  <2>10. HandsAreRight'
    <3>1. \A u \in Tab, d \in Slot : call'[u][d] = call[u][d] \/ CallIsRight(d, call'[u][d], granted', issued')
      BY <1>1, <2>4, NoCallRight DEF database
    <3>2. RefreshIsRight(NoRefresh, granted', issued', raced')
      BY <2>5 DEF RefreshIsRight, Known, EndsInTime
    <3> QED BY <2>2, <2>3, <2>6, <2>7, <3>1, <3>2, HandsStay DEF AccountsInv, Known, EndsInTime
  <2>11. BringsLess /\ LogoutsGoOn /\ RefreshesGoOn /\ RefreshesStay
    <3>1. NoCall.at = "idle"
      BY DEF NoCall
    <3> QED BY <2>3, <2>4, <2>5, <2>6, <3>1, TabTypes
          DEF BringsLess, Brings, LogoutsGoOn, RefreshesGoOn, RefreshesStay
  <2> QED BY <1>1, <2>2, <2>3, <2>7, <2>9, <2>10, <2>11, TokensStay
<1> QED BY <1>2, <1>3

\* A refused request waits for the tab's refresh, which it may start.
LEMMA AwaitRefreshKeeps ==
    ASSUME AccountsInv, NEW t \in Tab, NEW c \in Slot, AwaitRefresh(t, c)
    PROVE  AccountsInv'
<1>1. /\ UNCHANGED <<now, client, loggedOut>> /\ UNCHANGED database
      /\ call[t][c].kind \in Guarded /\ call[t][c].at = "denied"
      /\ call' = [call EXCEPT ![t][c] = [call[t][c] EXCEPT !.at = "waiting"]]
  BY DEF AwaitRefresh
<1>2. c = "guarded"
  BY <1>1, TabTypes DEF CallIsRight, KindsOf, Slot, Guarded
<1>3. PICK row : row = [call[t][c] EXCEPT !.at = "waiting"]
  OBVIOUS
<1>4. /\ row \in CallRow /\ row.at = "waiting" /\ row.kind = call[t][c].kind
      /\ row.access = call[t][c].access /\ row.token = call[t][c].token
  BY <1>3, TabTypes, CallGoesOn DEF CallStage
<1>5. CallIsRight(c, row, granted, issued)
  BY <1>2, <1>4, TabTypes DEF CallIsRight
<1>6. CASE UNCHANGED <<refresh, raced>>
  <2>1. Shrinks
    BY <1>1, NothingEnds DEF AccountsInv, database
  <2> QED BY <1>1, <1>2, <1>3, <1>4, <1>5, <1>6, <2>1, TabTypes, CallMoves DEF client, database, history
<1>7. CASE ~UNCHANGED <<refresh, raced>>
  <2>1. PICK k : k = jar.refresh
    OBVIOUS
  <2>2. PICK r : r = [at |-> IF k = None THEN "denied" ELSE "sent", token |-> k, new |-> None, access |-> None]
    OBVIOUS
  <2>3. /\ refresh[t].at = "idle" /\ refresh' = [refresh EXCEPT ![t] = r]
        /\ raced' = IF InLogout(RootOf(k)) THEN raced \cup ({RootOf(k)} \ {None}) ELSE raced
    BY <1>7, <2>1, <2>2 DEF AwaitRefresh
  <2>4. Known(k, issued) /\ (k # None => RootOf(k) = granted[k].root /\ granted[k].root \in Token /\ k \in Token)
    BY <2>1, HeldAreIssued, RootsAreTokens DEF Known
  <2>5. /\ r \in RefreshRow /\ r.token = k /\ r.access = None /\ r.at \in {"sent", "denied"}
        /\ r.at = "sent" => k # None
    BY <2>2, <2>4 DEF RefreshRow
  <2>6. /\ raced \subseteq raced' /\ raced' \subseteq Token
        /\ k # None => granted[k].root \in raced' \/ ~InLogout(granted[k].root)
    <3>1. RootOf(k) = None \/ RootOf(k) \in Token
      BY <2>4 DEF RootOf
    <3>2. k # None => RootOf(k) # None
      BY <2>4, Numbers
    <3> QED BY <2>3, <2>4, <3>1, <3>2 DEF AccountsInv, Types
  <2>7. /\ refresh' \in [Tab -> RefreshRow] /\ refresh'[t] = r
        /\ \A u \in Tab : u # t => refresh'[u] = refresh[u]
    BY <2>3, <2>5, TabTypes
  <2>8. /\ call' \in [Tab -> [Slot -> CallRow]] /\ call'[t][c] = row
        /\ \A u \in Tab, d \in Slot : u # t \/ d # c => call'[u][d] = call[u][d]
    BY <1>1, <1>3, <1>4, TabTypes
  <2>9. Shrinks /\ Grows
    BY <1>1, NothingEnds DEF AccountsInv, database
  <2>10. Types'
    BY <1>1, <2>6, <2>7, <2>8 DEF AccountsInv, Types, client, database
  <2>11. HandsAreRight'
    <3>1. \A u \in Tab, d \in Slot : call'[u][d] = call[u][d] \/ CallIsRight(d, call'[u][d], granted', issued')
      BY <1>1, <1>5, <2>8 DEF database
    <3>2. RefreshIsRight(r, granted', issued', raced')
      BY <1>1, <2>4, <2>5 DEF RefreshIsRight, Known, EndsInTime, database
    <3> QED BY <1>1, <2>6, <2>7, <2>9, <3>1, <3>2, HandsStay DEF AccountsInv, client
  <2>12. BringsLess /\ LogoutsGoOn /\ RefreshesStay
    BY <1>2, <2>3, <2>5, <2>7, <2>8, TabTypes DEF BringsLess, Brings, LogoutsGoOn, RefreshesStay
  <2>13. LogoutsNameTheJar
    BY <2>12 DEF LogoutsNameTheJar, LogoutsGoOn
  <2>14. \A u \in Tab : refresh'[u].token \in {refresh[u].token, jar.refresh, None}
    BY <2>1, <2>5, <2>7
  <2>15. NewestAreHeld' /\ NewAreUnseen' /\ LogoutsAreLast' /\ SessionsAreRight'
    BY <1>1, <2>6, <2>9, <2>12, <2>13, <2>14, HeldStay, UnseenStay, LastStay, SessionsStay DEF AccountsInv, client
  <2>16. OverlapsAreRecorded'
    <3> SUFFICES ASSUME NEW u \in Tab, NEW w \in Tab, refresh'[u].at # "idle", refresh'[u].token # None,
                        call'[w]["logout"].at # "idle", call'[w]["logout"].token # None,
                        granted[call'[w]["logout"].token].root = granted[refresh'[u].token].root
                 PROVE  granted[call'[w]["logout"].token].root \in raced'
      BY <1>1 DEF OverlapsAreRecorded, database
    <3>1. call'[w]["logout"] = call[w]["logout"]
      BY <1>2, <2>8, TabTypes
    <3>2. CASE u = t
      <4>1. RootOf(call[w]["logout"].token) = granted[k].root /\ k # None
        BY <2>5, <2>7, <3>1, <3>2 DEF RootOf
      <4> QED BY <2>5, <2>6, <2>7, <3>1, <3>2, <4>1 DEF InLogout
    <3>3. CASE u # t
      BY <2>6, <2>7, <3>1, <3>3 DEF AccountsInv, OverlapsAreRecorded
    <3> QED BY <3>2, <3>3
  <2> QED BY <2>10, <2>11, <2>15, <2>16 DEF AccountsInv
<1> QED BY <1>6, <1>7

\* A request that waited for a refresh is sent again.
LEMMA CallIsSentAgain ==
    ASSUME NEW q \in CallRow, NEW access \in {None} \cup Access, NEW retried \in BOOLEAN
    PROVE  /\ [q EXCEPT !.at = "sent", !.access = access, !.retried = retried] \in CallRow
           /\ [q EXCEPT !.at = "sent", !.access = access, !.retried = retried].at = "sent"
           /\ [q EXCEPT !.at = "sent", !.access = access, !.retried = retried].kind = q.kind
           /\ [q EXCEPT !.at = "sent", !.access = access, !.retried = retried].token = q.token
           /\ [q EXCEPT !.at = "sent", !.access = access, !.retried = retried].access = access
BY DEF CallRow

\* A request that waited for a refresh is refused for good.
LEMMA CallIsRefused ==
    ASSUME NEW q \in CallRow, NEW retried \in BOOLEAN
    PROVE  /\ [q EXCEPT !.at = "denied", !.retried = retried] \in CallRow
           /\ [q EXCEPT !.at = "denied", !.retried = retried].at = "denied"
           /\ [q EXCEPT !.at = "denied", !.retried = retried].kind = q.kind
           /\ [q EXCEPT !.at = "denied", !.retried = retried].token = q.token
           /\ [q EXCEPT !.at = "denied", !.retried = retried].access = q.access
BY DEF CallRow

\* The answer of a refresh arrives.
LEMMA FinishRefreshKeeps ==
    ASSUME AccountsInv, NEW t \in Tab, FinishRefresh(t)
    PROVE  AccountsInv'
<1>1. /\ UNCHANGED <<now, hint, page, history>> /\ UNCHANGED database
      /\ refresh[t].at \in {"done", "denied", "failed"}
      /\ refresh' = [refresh EXCEPT ![t] = NoRefresh]
  BY DEF FinishRefresh
<1>2. PICK r : r = refresh[t]
  OBVIOUS
<1>3. PICK q : q = call[t]["guarded"]
  OBVIOUS
<1>4. /\ q \in CallRow /\ CallIsRight("guarded", q, granted, issued)
      /\ r \in RefreshRow /\ RefreshIsRight(r, granted, issued, raced)
      /\ r.access \in {None} \cup Access /\ r.at \in {"done", "denied", "failed"}
  BY <1>1, <1>2, <1>3, TabTypes DEF RefreshRow
<1>5. PICK row : row = IF q.at = "waiting"
                       THEN CASE r.at = "done" -> [q EXCEPT !.at = "sent", !.access = r.access, !.retried = TRUE]
                              [] r.at = "denied" -> [q EXCEPT !.at = "denied", !.retried = TRUE]
                              [] OTHER -> [q EXCEPT !.at = "failed"]
                       ELSE q
  OBVIOUS
<1>6. /\ row \in CallRow /\ row.kind = q.kind /\ row.token = q.token /\ row.at # "waiting"
      /\ row.access \in {q.access, r.access}
  <2>1. TRUE \in BOOLEAN /\ "failed" \in CallStage /\ q \in CallRow /\ r.access \in {None} \cup Access
    BY <1>4 DEF CallStage
  <2>2. PICK x : x = [q EXCEPT !.at = "sent", !.access = r.access, !.retried = TRUE]
    OBVIOUS
  <2>3. x \in CallRow /\ x.kind = q.kind /\ x.token = q.token /\ x.at = "sent" /\ x.access = r.access
    BY <2>1, <2>2, CallIsSentAgain, Zenon
  <2>4. PICK y : y = [q EXCEPT !.at = "denied", !.retried = TRUE]
    OBVIOUS
  <2>5. y \in CallRow /\ y.kind = q.kind /\ y.token = q.token /\ y.at = "denied" /\ y.access = q.access
    BY <2>1, <2>4, CallIsRefused, Zenon
  <2>6. PICK z : z = [q EXCEPT !.at = "failed"]
    OBVIOUS
  <2>7. z \in CallRow /\ z.kind = q.kind /\ z.token = q.token /\ z.at = "failed" /\ z.access = q.access
    BY <2>1, <2>6, CallGoesOn, Zenon
  <2>8. row \in {x, y, z} \/ (row = q /\ q.at # "waiting")
    BY <1>5, <2>2, <2>4, <2>6
  <2> QED BY <1>4, <2>3, <2>5, <2>7, <2>8
<1>7. CallIsRight("guarded", row, granted, issued)
  BY <1>4, <1>6 DEF CallIsRight, RefreshIsRight
<1>8. /\ call' \in [Tab -> [Slot -> CallRow]] /\ call'[t]["guarded"] = row
      /\ \A u \in Tab, d \in Slot : u # t \/ d # "guarded" => call'[u][d] = call[u][d]
  <2>1. \A d \in Slot : d # "guarded" => call[t][d].at # "waiting"
    BY TabTypes DEF CallIsRight
  <2>2. call'[t]["guarded"] = row
    BY <1>2, <1>3, <1>5, TabTypes DEF FinishRefresh
  <2>3. \A u \in Tab, d \in Slot : u # t \/ d # "guarded" => call'[u][d] = call[u][d]
    BY <2>1, TabTypes DEF FinishRefresh
  <2>4. PICK f : call' = [call EXCEPT ![t] = [c \in Slot |-> f[c]]]
    <3>1. PICK f : f = [c \in Slot |-> call'[t][c]]
      OBVIOUS
    <3>2. call' = [call EXCEPT ![t] = [c \in Slot |-> f[c]]]
      BY <3>1, TabTypes DEF FinishRefresh
    <3> QED BY <3>2
  <2>5. \A d \in Slot : f[d] \in CallRow
    BY <1>6, <2>2, <2>3, <2>4, TabTypes
  <2>6. call' \in [Tab -> [Slot -> CallRow]]
    BY <2>4, <2>5, TabTypes
  <2> QED BY <2>2, <2>3, <2>6
<1>9. NoRefresh \in RefreshRow /\ NoRefresh.at = "idle" /\ NoRefresh.token = None /\ NoRefresh.access = None
  BY DEF NoRefresh, RefreshRow
<1>10. /\ refresh' \in [Tab -> RefreshRow] /\ refresh'[t] = NoRefresh
       /\ \A u \in Tab : u # t => refresh'[u] = refresh[u]
  BY <1>1, <1>9, TabTypes
<1>11. Shrinks /\ Grows
  BY <1>1, NothingEnds DEF AccountsInv, database
<1>12. BringsLess /\ LogoutsGoOn /\ RefreshesGoOn
  BY <1>8, <1>9, <1>10, TabTypes DEF BringsLess, Brings, LogoutsGoOn, RefreshesGoOn
<1>13. ASSUME Known(jar'.refresh, issued), EndsInTime(jar'.access, granted, issued) PROVE HandsAreRight'
  <2>1. \A u \in Tab, d \in Slot : call'[u][d] = call[u][d] \/ CallIsRight(d, call'[u][d], granted', issued')
    BY <1>1, <1>7, <1>8 DEF database
  <2>2. RefreshIsRight(NoRefresh, granted', issued', raced')
    BY <1>9 DEF RefreshIsRight, Known, EndsInTime
  <2> QED BY <1>1, <1>10, <1>11, <1>13, <2>1, <2>2, HandsStay DEF AccountsInv, database, history
<1>14. CASE r.at = "done"
  <2>1. jar' = [jar EXCEPT !.access = r.access, !.refresh = r.new]
    BY <1>2, <1>14 DEF FinishRefresh, SetCookies
  <2>2. r.new \in 1..issued /\ r.new \in Token /\ r.new # None
    BY <1>4, <1>14, RootsAreTokens DEF RefreshIsRight
  <2>3. jar' \in Cookies /\ jar'.refresh = r.new /\ jar'.access = r.access
    BY <1>4, <2>1, <2>2, TabTypes DEF Cookies
  <2>4. Types'
    BY <1>1, <1>8, <1>10, <2>3 DEF AccountsInv, Types, database, history
  <2>5. HandsAreRight'
    BY <1>4, <1>13, <2>2, <2>3 DEF Known, RefreshIsRight
  <2>6. Brings(t, "refresh") = r.new /\ Brings(t, "refresh")' = None /\ "refresh" \in Answer
    BY <1>2, <1>9, <1>10, <1>14 DEF Brings, Answer
  <2> QED BY <1>1, <1>12, <2>2, <2>3, <2>4, <2>5, <2>6, TokenArrives DEF AccountsInv
<1>15. CASE r.at # "done"
  <2>1. \/ jar' = jar /\ (r.at = "denied" => r.token = None)
        \/ jar' = [jar EXCEPT !.access = None, !.refresh = None]
    BY <1>2, <1>4, <1>15 DEF FinishRefresh, ClearCookies
  <2>2. /\ jar' \in Cookies
        /\ \/ jar' = jar /\ (r.at = "denied" => r.token = None)
           \/ jar'.refresh = None /\ jar'.access = None
    BY <2>1, TabTypes DEF Cookies
  <2>3. Types'
    BY <1>1, <1>8, <1>10, <2>2 DEF AccountsInv, Types, database, history
  <2>4. HandsAreRight'
    BY <1>13, <2>2 DEF AccountsInv, HandsAreRight, Known, EndsInTime
  <2>5. RefreshesStay
    <3>1. r.at = "failed" => granted[r.token].root \in raced
      BY <1>4 DEF RefreshIsRight
    <3> QED BY <1>1, <1>2, <1>4, <1>10, <1>15, <2>2, <3>1 DEF RefreshesStay, history
  <2> QED BY <1>1, <1>11, <1>12, <2>2, <2>3, <2>4, <2>5, TokensStay DEF history
<1> QED BY <1>14, <1>15

-----------------------------------------------------------------------------
(* The theorems. *)

\* Nobody has an account yet, no page is open and nothing is under way.
LEMMA InitIsRight == Init => AccountsInv
<1> SUFFICES ASSUME Init PROVE AccountsInv
  OBVIOUS
<1>1. Types
  <2>1. jar \in Cookies
    BY DEF Init, NoCookies, Cookies
  <2>2. page \in [Tab -> PageRow] /\ call \in [Tab -> [Slot -> CallRow]]
    BY NewPageRow, NoCallRow DEF Init
  <2>3. refresh \in [Tab -> RefreshRow]
    <3>1. NoRefresh \in RefreshRow
      BY DEF NoRefresh, RefreshRow
    <3> QED BY <3>1 DEF Init
  <2>4. /\ account \in [User -> {"absent", "active", "pending"}]
        /\ session \in [Token -> {None} \cup SessionRow] /\ granted \in [Token -> {None} \cup Grant]
        /\ loggedOut \subseteq Token /\ raced \subseteq Token
    BY DEF Init
  <2>5. now = 0 /\ issued = 0 /\ hint = FALSE
    BY DEF Init
  <2>6. now \in Nat /\ now <= MaxTime /\ issued \in Nat /\ issued <= Tokens
    BY <2>5, Numbers
  <2> QED BY <2>1, <2>2, <2>3, <2>4, <2>5, <2>6 DEF Types
<1>2. SessionsAreRight
  BY DEF Init, SessionsAreRight
<1>3. HandsAreRight
  BY NoCallRight DEF Init, HandsAreRight, NoCookies, NoRefresh, RefreshIsRight, Known, EndsInTime
<1>4. NewAreUnseen
  <2>1. \A t \in Tab, c \in Answer : Brings(t, c) = None
    BY DEF Init, Brings, NoCall, NoRefresh, Slot
  <2> QED BY <2>1 DEF NewAreUnseen
<1>5. NewestAreHeld
  BY DEF Init, NewestAreHeld, OnlyLive
<1>6. OverlapsAreRecorded
  BY DEF Init, OverlapsAreRecorded, NoRefresh
<1>7. LogoutsAreLast
  BY DEF Init, LogoutsAreLast
<1> QED BY <1>1, <1>2, <1>3, <1>4, <1>5, <1>6, <1>7 DEF AccountsInv

\* Every step keeps the invariant.
LEMMA StepsKeepAccounts == AccountsInv /\ [Next]_vars => AccountsInv'
<1> SUFFICES ASSUME AccountsInv, [Next]_vars PROVE AccountsInv'
  OBVIOUS
<1>1. ASSUME NEW t \in Tab, OpenPage(t) PROVE AccountsInv'
  BY <1>1, OpenPageKeeps
<1>2. ASSUME NEW t \in Tab, SubmitLogout(t) PROVE AccountsInv'
  BY <1>2, SubmitLogoutKeeps
<1>3. ASSUME NEW t \in Tab, GithubLogin(t) PROVE AccountsInv'
  BY <1>3, GithubLoginKeeps
<1>4. ASSUME NEW t \in Tab, NEW u \in User, NEW kind \in {"login", "register"}, SubmitLogin(t, kind, u)
      PROVE  AccountsInv'
  BY <1>4, SubmitLoginKeeps
<1>5. ASSUME NEW t \in Tab, NEW u \in User, NEW life \in {BrowserLife, RememberedLife}, GithubCallback(t, u, life)
      PROVE  AccountsInv'
  BY <1>5, GithubCallbackKeeps
<1>6. ASSUME NEW t \in Tab, NEW kind \in {"update", "delete"}, SubmitProfile(t, kind) PROVE AccountsInv'
  BY <1>6, SubmitProfileKeeps
<1>7. ASSUME NEW t \in Tab, NEW ok \in BOOLEAN, VerifyLogin(t, ok) PROVE AccountsInv'
  BY <1>7, VerifyLoginKeeps
<1>8. ASSUME NEW t \in Tab, NEW life \in {BrowserLife, RememberedLife}, AnswerLogin(t, life) PROVE AccountsInv'
  BY <1>8, AnswerLoginKeeps
<1>9. ASSUME NEW t \in Tab, NEW c \in Slot, ServeGuarded(t, c) PROVE AccountsInv'
  BY <1>9, ServeGuardedKeeps
<1>10. ASSUME NEW t \in Tab, NEW c \in Slot, AwaitRefresh(t, c) PROVE AccountsInv'
  BY <1>10, AwaitRefreshKeeps
<1>11. ASSUME NEW t \in Tab, NEW c \in Slot, LoseCall(t, c) PROVE AccountsInv'
  BY <1>11, LoseCallKeeps
<1>12. ASSUME NEW t \in Tab, ServeLogout(t) PROVE AccountsInv'
  BY <1>12, ServeLogoutKeeps
<1>13. ASSUME NEW t \in Tab, ReadCandidate(t) PROVE AccountsInv'
  BY <1>13, ReadCandidateKeeps
<1>14. ASSUME NEW t \in Tab, RotateSession(t) PROVE AccountsInv'
  BY <1>14, RotateSessionKeeps
<1>15. ASSUME NEW t \in Tab, SignRefreshed(t) PROVE AccountsInv'
  BY <1>15, SignRefreshedKeeps
<1>16. ASSUME NEW t \in Tab, FinishCheck(t) PROVE AccountsInv'
  BY <1>16, FinishCheckKeeps
<1>17. ASSUME NEW t \in Tab, FinishLogin(t) PROVE AccountsInv'
  BY <1>17, FinishLoginKeeps
<1>18. ASSUME NEW t \in Tab, FinishLogout(t) PROVE AccountsInv'
  BY <1>18, FinishLogoutKeeps
<1>19. ASSUME NEW t \in Tab, FinishUpdate(t) PROVE AccountsInv'
  BY <1>19, FinishUpdateKeeps
<1>20. ASSUME NEW t \in Tab, FinishDelete(t) PROVE AccountsInv'
  BY <1>20, FinishDeleteKeeps
<1>21. ASSUME NEW t \in Tab, FinishRefresh(t) PROVE AccountsInv'
  BY <1>21, FinishRefreshKeeps
<1>22. ASSUME NEW t \in Tab, LoseRefresh(t) PROVE AccountsInv'
  BY <1>22, LoseRefreshKeeps
<1>23. CASE UNCHANGED vars
  BY <1>23, SMTT(60) DEF vars, AccountsInv, Types, SessionsAreRight, HandsAreRight, NewAreUnseen, NewestAreHeld,
               OverlapsAreRecorded, LogoutsAreLast, OnlyLive, InRefresh, RootOf, Brings
<1> QED BY <1>1, <1>2, <1>3, <1>4, <1>5, <1>6, <1>7, <1>8, <1>9, <1>10, <1>11, <1>12, <1>13, <1>14, <1>15,
           <1>16, <1>17, <1>18, <1>19, <1>20, <1>21, <1>22, <1>23, ExpireSessionsKeeps, TickKeeps DEF Next

\* The invariant of the accounts: the sessions of the database, what the jar, the
\* requests and the refreshes hold of them, and the overlaps that are recorded.
THEOREM AccountsStayRight == Spec => []AccountsInv
<1>1. Init => AccountsInv
  BY InitIsRight
<1>2. AccountsInv /\ [Next]_vars => AccountsInv'
  BY StepsKeepAccounts
<1> QED BY <1>1, <1>2, PTL DEF Spec

\* A login has one live session, of an active account (rotateSession,
\* createSession, enqueueAccountCleanup).
THEOREM LoginsHaveOneSession == Spec => []OneSessionPerLogin
<1>1. AccountsInv => OneSessionPerLogin
  <2> SUFFICES ASSUME AccountsInv PROVE OneSessionPerLogin
    OBVIOUS
  <2>1. AccountsTypeOK
    BY Numbers DEF AccountsInv, Types, AccountsTypeOK, CallRow, PageRow, RefreshRow, Cookies, Grant
  <2>2. ASSUME NEW k \in Token, Live(k) PROVE RootOf(k) = granted[k].root
    BY <2>2, RootsAreTokens DEF Live, AccountsInv, SessionsAreRight
  <2>3. \A k \in Token : Live(k) => account[session[k].user] = "active"
    BY DEF AccountsInv, SessionsAreRight, Live
  <2>4. ASSUME NEW k1 \in Token, NEW k2 \in Token, Live(k1), Live(k2), RootOf(k1) = RootOf(k2) PROVE k1 = k2
    BY <2>2, <2>4 DEF AccountsInv, SessionsAreRight, Live
  <2> QED BY <2>1, <2>3, <2>4 DEF OneSessionPerLogin
<1> QED BY <1>1, AccountsStayRight, PTL

\* Refreshing never lengthens a login, and no access token outlives it (refresh,
\* generateAccessToken).
THEOREM LoginsEnd == Spec => []LoginsEndOnTime
<1>1. AccountsInv => LoginsEndOnTime
  <2> SUFFICES ASSUME AccountsInv PROVE LoginsEndOnTime
    OBVIOUS
  <2>1. ASSUME NEW k \in Token, Live(k)
        PROVE  session[k].expires = granted[k].expires /\ granted[k].expires = granted[RootOf(k)].expires
    <3>1. k \in 1..issued /\ session[k].expires = granted[k].expires
      BY <2>1 DEF AccountsInv, SessionsAreRight, Live
    <3> QED BY <3>1, RootsAreTokens
  <2>2. ASSUME NEW a, EndsInTime(a, granted, issued), a # None PROVE a.until <= granted[a.root].expires
    BY <2>2 DEF EndsInTime
  <2>3. /\ EndsInTime(jar.access, granted, issued)
        /\ \A t \in Tab : /\ EndsInTime(refresh[t].access, granted, issued)
                          /\ EndsInTime(call[t]["login"].access, granted, issued)
    BY DEF AccountsInv, HandsAreRight, RefreshIsRight, CallIsRight, Slot
  <2> QED BY <2>1, <2>2, <2>3 DEF LoginsEndOnTime
<1> QED BY <1>1, AccountsStayRight, PTL

\* After a logout that no refresh overlapped no session of the login is left
\* (logout, deleteSession, rotateSession).
THEOREM LogoutsEndLogins == Spec => []LogoutEndsTheLogin
<1>1. AccountsInv => LogoutEndsTheLogin
  <2> SUFFICES ASSUME AccountsInv, NEW root \in loggedOut \ raced, NEW k \in Token, Live(k), RootOf(k) = root
               PROVE  FALSE
    BY DEF LogoutEndsTheLogin, LiveOf
  <2>1. k \in 1..issued /\ session[k] # None
    BY DEF Live, AccountsInv, SessionsAreRight
  <2>2. granted[k].root = root /\ k # None
    BY <2>1, RootsAreTokens
  <2> QED BY <2>1, <2>2 DEF AccountsInv, LogoutsAreLast, OnlyLive
<1> QED BY <1>1, AccountsStayRight, PTL
=============================================================================
