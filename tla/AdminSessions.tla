---------------------------- MODULE AdminSessions ----------------------------
(***************************************************************************)
(* Who may use the administration API (apps/admin_api/auth.py and the      *)
(* dependencies of main.py). Users come from the environment and change    *)
(* with a restart only. A session is a signed cookie that the service does *)
(* not remember: it ends by expiry or by a change of its user. The login   *)
(* throttle lives in memory: a lock is held for the check and for the      *)
(* count, and not for the password hash in between.                        *)
(***************************************************************************)
EXTENDS Integers, FiniteSets

CONSTANTS
  Browsers,   \* browsers of one client address; each logs in by itself
  Accounts,   \* Accounts[i]: users and their roles, as configured after i restarts
  Limit,      \* failures that close a login (5)
  Earlier,    \* failures of each user that were counted when the clock starts
  Window,     \* ticks for which a failure counts (300 s)
  Ttl,        \* ticks for which a session is valid (8 h)
  LastTick    \* BOUND: the clock stops here

ASSUME SessionsAssumption ==
  /\ IsFiniteSet(Browsers) /\ Browsers # {}
  /\ Limit \in Nat /\ Limit > 0 /\ Earlier \in 0 .. Limit
  /\ Window \in Nat

VARIABLES
  clock,      \* time.time()
  configured, \* restarts with other settings so far
  failures,   \* failures[u]: failed logins of user u that count, by when they began
  login,      \* locals of authenticate_credentials
  cookie,     \* the session cookie of each browser
  tried       \* history: tried[u]: those since the last success

sessionVars == <<configured, failures, login, cookie, tried>>

Users == UNION {DOMAIN Accounts[i] : i \in DOMAIN Accounts}
Ticks == 0 .. LastTick
\* numbered, because several may begin at one moment
Failure(t, n) == [begun |-> t, number |-> n]
NoLogin == [pc |-> "idle", user |-> "nobody", begun |-> 0]
NoCookie == [user |-> "nobody", role |-> "none", issued |-> 0, expires |-> 0]

\* a session is issued for the role and the password of the moment
Issue(u, i, t) == [user |-> u, role |-> Accounts[i][u].role, issued |-> i, expires |-> t + Ttl]

\* signedIn: users of the browsers that have a session at the start
SessionInit(signedIn) ==
  /\ clock = 0
  /\ configured = 0
  /\ failures = [u \in Users |-> {Failure(0, n) : n \in 0 .. Earlier - 1}]
  /\ login = [b \in Browsers |-> NoLogin]
  /\ cookie = [b \in Browsers |-> IF b \in DOMAIN signedIn THEN Issue(signedIn[b], 0, 0) ELSE NoCookie]
  /\ tried = failures

-----------------------------------------------------------------------------
Known(u) == u \in DOMAIN Accounts[configured]
Answer(b) == login' = [login EXCEPT ![b] = NoLogin]

\* the clock is read once, before the throttle is asked
BeginLogin(b, u) ==
  /\ login[b].pc = "idle"
  /\ login' = [login EXCEPT ![b] = [NoLogin EXCEPT !.pc = "checking", !.user = u, !.begun = clock]]
  /\ UNCHANGED <<configured, failures, cookie, tried>>

\* mutant: a failure of this very moment does not count yet
RecentEarlier(u, now) == {f \in failures[u] : now - f.begun \in 1 .. Window - 1}
\* failures that count for a login begun at `now'; later ones count too
Recent(u, now) == {f \in failures[u] : now - f.begun < Window}

Closed(recent) == Cardinality(recent) >= Limit

\* _assert_not_rate_limited forgets the failures that no longer count
CheckThrottle(b) ==
  /\ login[b].pc = "checking"
  /\ LET u == login[b].user  recent == Recent(u, login[b].begun)
     IN /\ failures' = [failures EXCEPT ![u] = recent]
        /\ IF Closed(recent) THEN Answer(b)
           ELSE login' = [login EXCEPT ![b].pc = "verifying"]
  /\ UNCHANGED <<configured, cookie, tried>>

\* a right password forgets the failures and issues a session
Accept(b) ==
  /\ login[b].pc = "verifying"
  /\ LET u == login[b].user
     IN /\ Known(u)
        /\ failures' = [failures EXCEPT ![u] = {}]
        /\ tried' = [tried EXCEPT ![u] = {}]
        /\ cookie' = [cookie EXCEPT ![b] = Issue(u, configured, clock)]
  /\ Answer(b)
  /\ UNCHANGED configured

\* an unknown user costs the same hash and counts the same
Deny(b) ==
  /\ login[b].pc = "verifying"
  /\ LET u == login[b].user
         failure == Failure(login[b].begun, Cardinality(tried[u]))
     IN /\ failures' = [failures EXCEPT ![u] = @ \cup {failure}]
        /\ tried' = [tried EXCEPT ![u] = @ \cup {failure}]
  /\ Answer(b)
  /\ UNCHANGED <<configured, cookie>>

-----------------------------------------------------------------------------
\* verify_session: the user is configured with the role and the password of
\* the day the session was issued
SessionValid(b) ==
  LET s == cookie[b]
  IN /\ s # NoCookie
     /\ Known(s.user)
     /\ Accounts[configured][s.user] = Accounts[s.issued][s.user]
     /\ s.expires > clock

\* get_principal, then get_reviewer or get_admin; a read asks for a session only
Admission(b, roles, origin, csrf) ==
  CASE ~SessionValid(b) -> "session_invalid"
    [] SessionValid(b) /\ ~origin -> "origin_forbidden"
    [] SessionValid(b) /\ origin /\ ~csrf -> "csrf_invalid"
    [] SessionValid(b) /\ origin /\ csrf /\ cookie[b].role \notin roles -> "permission_denied"
    [] OTHER -> "admitted"
Admitted(b, roles) == Admission(b, roles, TRUE, TRUE) = "admitted"

\* logout asks for every header, deletes the cookie and revokes nothing
Logout(b) ==
  /\ login[b].pc = "idle"
  /\ SessionValid(b)
  /\ cookie' = [cookie EXCEPT ![b] = NoCookie]
  /\ UNCHANGED <<configured, failures, login, tried>>

\* a restart with the next settings: logins in flight and the throttle are lost
Restart ==
  /\ configured + 1 \in DOMAIN Accounts
  /\ configured' = configured + 1
  /\ failures' = [u \in Users |-> {}]
  /\ tried' = [u \in Users |-> {}]
  /\ login' = [b \in Browsers |-> NoLogin]
  /\ UNCHANGED cookie

-----------------------------------------------------------------------------
\* Between two successes, the wrong passwords of one user that are verified
\* within one window are the limit and two for each other login at most: the
\* check and the count are under two holds of the lock, so others pass the
\* check before a failure is counted, and a login that waits for the check may
\* find the failures it has to see forgotten by one that began a window later.
InWindow(all, t) == {f \in all : t <= f.begun /\ f.begun < t + Window}
ThrottleBounds ==
  \A u \in Users : \A first \in tried[u] :
    Cardinality(InWindow(tried[u], first.begun)) <= Limit + 2 * (Cardinality(Browsers) - 1)
=============================================================================
