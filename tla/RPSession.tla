------------------------------ MODULE RPSession ------------------------------
(***************************************************************************)
(* The OIDC relying party, PoC/RPApp/poc-rp-app/app.js and                *)
(* routes/profile.js, as seen by one browser whose tabs send requests     *)
(* concurrently with the same session cookie.                             *)
(*                                                                         *)
(* express-session (resave: false, saveUninitialized: true) loads the     *)
(* cookie's session from the store when a request starts and writes the   *)
(* request's copy back when it ends, if the copy is new or modified and   *)
(* was not destroyed.  passport-openidconnect keeps the authorization     *)
(* state in the session: /login stores a fresh one and redirects to the   *)
(* IdP; the callback deletes the stored state, fails unless it equals the *)
(* returned one, exchanges the code at the token endpoint (an await) and  *)
(* passport's req.logIn puts the user in the session.  /logout calls      *)
(* req.logout() and req.session.destroy().  /profile renders the user     *)
(* when req.isAuthenticated(), else redirects to /login.                  *)
(*                                                                         *)
(* An attacker holds an authorization of its own (its state and code) and *)
(* may lure the browser to the callback URL with it (login CSRF).         *)
(***************************************************************************)
EXTENDS Naturals

CONSTANTS
  Tabs,         \* browser tabs sharing the cookie
  MaxSessions,  \* bound on session ids created
  MaxLogins,    \* bound on /login requests (fresh states 1..MaxLogins)
  User,         \* the browser's user at the IdP
  Attacker,     \* the attacker's identity at the IdP
  Anon,         \* no passport user in the session
  None          \* no state stored / no cookie / no session

ASSUME MaxSessions \in Nat \ {0} /\ MaxLogins \in Nat \ {0}

AttackerState == 0    \* the state of the attacker's own authorization
States == 0..MaxLogins
Sids == 1..MaxSessions

\* A session: passport's user and the stored OIDC authorization state.
Session == [user: {User, Attacker, Anon}, state: States \cup {None}]
EmptySession == [user |-> Anon, state |-> None]

VARIABLES
  store,      \* the session store: session id -> session, or None
  cookie,     \* the browser's connect.sid cookie
  nextSid,    \* next session id generated
  logins,     \* /login requests served (the last state issued)
  grants,     \* authorizations the browser can be redirected back with
  req,        \* per tab: the request awaiting the token endpoint, or None
  loggedOut   \* a /logout has ended and no callback has started since

vars == <<store, cookie, nextSid, logins, grants, req, loggedOut>>

Grant == [state: States, user: {User, Attacker}]
Pending == [sid: Sids, isNew: BOOLEAN, sess: Session, user: {User, Attacker}]

TypeOK ==
  /\ store \in [Sids -> Session \cup {None}]
  /\ cookie \in Sids \cup {None}
  /\ nextSid \in 1..MaxSessions + 1
  /\ logins \in 0..MaxLogins
  /\ grants \subseteq Grant
  /\ req \in [Tabs -> Pending \cup {None}]
  /\ loggedOut \in BOOLEAN

Init ==
  /\ store = [s \in Sids |-> None]
  /\ cookie = None
  /\ nextSid = 1
  /\ logins = 0
  /\ grants = {[state |-> AttackerState, user |-> Attacker]}
  /\ req = [t \in Tabs |-> None]
  /\ loggedOut = FALSE

\* express-session at request start: the cookie's session if the store has
\* it, else a new session with a fresh id (the cookie is then replaced).
CanLoad == (cookie # None /\ store[cookie] # None) \/ nextSid <= MaxSessions
Loaded ==
  IF cookie # None /\ store[cookie] # None
    THEN [sid |-> cookie, isNew |-> FALSE, sess |-> store[cookie]]
    ELSE [sid |-> nextSid, isNew |-> TRUE, sess |-> EmptySession]
NextSidAfterLoad == IF Loaded.isNew THEN nextSid + 1 ELSE nextSid

\* express-session at request end: a new or modified session is written
\* back (saveUninitialized: true, resave: false) and the cookie is set.
SaveStore(l, sess) ==
  IF l.isNew \/ sess # l.sess THEN [store EXCEPT ![l.sid] = sess] ELSE store

\* GET /login: passport.authenticate('daga_oidc') stores a fresh state in
\* the session and redirects to the IdP, where the user signs in; the IdP
\* redirects back to the callback with that state and the user's code.
Login ==
  /\ CanLoad
  /\ logins < MaxLogins
  /\ LET l == Loaded
         s == logins + 1
     IN  /\ store' = SaveStore(l, [l.sess EXCEPT !.state = s])
         /\ cookie' = l.sid
         /\ grants' = grants \cup {[state |-> s, user |-> User]}
  /\ logins' = logins + 1
  /\ nextSid' = NextSidAfterLoad
  /\ UNCHANGED <<req, loggedOut>>

\* The state stored in the session equals the state returned by the IdP.
StateMatches(l, g) == l.sess.state = g.state

\* GET /authorization-code/callback with grant g, first part: the stored
\* state is deleted and compared with g.state; on a mismatch the request
\* ends with the failureRedirect, else it awaits the token endpoint.
CallbackStart(t, g) ==
  /\ req[t] = None
  /\ CanLoad
  /\ g \in grants
  /\ LET l    == Loaded
         sess == [l.sess EXCEPT !.state = None]
     IN  IF StateMatches(l, g)
           THEN /\ req' = [req EXCEPT ![t] = [sid |-> l.sid, isNew |-> l.isNew,
                                              sess |-> sess, user |-> g.user]]
                /\ UNCHANGED <<store, cookie>>
           ELSE /\ store' = SaveStore(l, sess)
                /\ cookie' = l.sid
                /\ UNCHANGED req
  /\ grants' = grants \ {g}
  /\ nextSid' = NextSidAfterLoad
  /\ loggedOut' = FALSE
  /\ UNCHANGED logins

\* Defect variant: the verify callback yields the issuer, not the subject.
VerifiedIssuer(p) == "dex"

\* The verify callback (issuer, sub, done) => done(null, sub): the subject.
VerifiedUser(p) == p.user

\* passport.serializeUser: the user is stored in the session as it is.
SerializeUser(u) == u

\* Second part: the token endpoint answers.  On success the verify
\* callback yields the subject, req.logIn stores it in the session and the
\* route redirects to /profile; on failure the failureRedirect is taken.
\* Either way the request's copy of the session is written back; the
\* cookie is set only for a session that was new when the request began.
CallbackFinish(t) ==
  /\ req[t] # None
  /\ LET p == req[t]
     IN  \E ok \in BOOLEAN :
           LET sess == IF ok THEN [p.sess EXCEPT !.user = SerializeUser(VerifiedUser(p))] ELSE p.sess
           IN  /\ store' = [store EXCEPT ![p.sid] = sess]
               /\ cookie' = IF p.isNew THEN p.sid ELSE cookie
  /\ req' = [req EXCEPT ![t] = None]
  /\ UNCHANGED <<nextSid, logins, grants, loggedOut>>

\* GET /logout: req.logout(); req.session.destroy(); redirect to /.  The
\* destroyed session is not saved and the cookie is left as it is.
Logout ==
  /\ CanLoad
  /\ store' = [store EXCEPT ![Loaded.sid] = None]
  /\ nextSid' = NextSidAfterLoad
  /\ loggedOut' = TRUE
  /\ UNCHANGED <<cookie, logins, grants, req>>

\* GET /profile: ensureLoggedIn renders the profile of req.user or
\* redirects to /login; the session is not modified.
Profile ==
  /\ CanLoad
  /\ LET l == Loaded
     IN  /\ store' = SaveStore(l, l.sess)
         /\ cookie' = l.sid
  /\ nextSid' = NextSidAfterLoad
  /\ UNCHANGED <<logins, grants, req, loggedOut>>

Next ==
  \/ Login \/ Logout \/ Profile
  \/ \E t \in Tabs :
       \/ \E g \in grants : CallbackStart(t, g)
       \/ CallbackFinish(t)

Spec == Init /\ [][Next]_vars

-----------------------------------------------------------------------------

LoggedInAs(u) == cookie # None /\ store[cookie] # None /\ store[cookie].user = u

\* After /logout has ended (app.js 86-90), the browser is signed out until
\* it starts a new sign-in through the callback.
LogoutSticks ==
  loggedOut => ~LoggedInAs(User)

=============================================================================
