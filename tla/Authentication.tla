--------------------------- MODULE Authentication ---------------------------
(***************************************************************************)
(* Login, browser sessions and API tokens: package auth, the middlewares    *)
(* and handlers of handlers/auth.go and the part of main that sets up the   *)
(* password.  A password stands for its hash, a session or a token for the  *)
(* random value whose hash is the key of its row; such a value is never     *)
(* drawn twice, and the id of a token is never given again                  *)
(* (AUTOINCREMENT).  Requests are served by Workers, each of which makes    *)
(* one database statement per step; the process may die between any two.    *)
(***************************************************************************)
EXTENDS Integers, FiniteSets

CONSTANTS
  Workers,           \* requests that can be under way at once
  Clients,           \* client addresses
  Passwords,         \* passwords an administrator may set, or that are tried
  Sessions,          \* values a session cookie can have
  Tokens,            \* values an API token can have
  Names,             \* names of API tokens
  None,              \* no row, no cookie, no password
  Idle,              \* idleTimeout
  Lifetime,          \* maxLifetime
  LoginMaxAttempts,  \* loginMaxAttempts
  LoginWindow,       \* loginWindow
  Expiries,          \* expires_in_days that users ask for, 0 for never
  MaxClock           \* bound: the clock

VARIABLES
  now,       \* the clock
  phase,     \* the process: "down", "start", "clear", "up", or "open" without authentication
  env,       \* KUBENDT_ADMIN_PASSWORD of the process
  stored,    \* auth_config: the password on disk
  admin,     \* adminHash: the password in memory
  session,   \* sessions: the row of each cookie, or None
  token,     \* api_tokens: the row of each token, or None
  attempt,   \* loginAttempts: the entry of each client
  job,       \* what each worker is doing
  issued,    \* (history variable) sessions and tokens handed out
  ended      \* (history variable) sessions and tokens whose row was deleted

vars == <<now, phase, env, stored, admin, session, token, attempt, job, issued, ended>>
tables == <<session, token, issued, ended>>
process == <<phase, env, stored, admin>>

----------------------------------------------------------------------------
\* A request: the cookie and the bearer token it carries, the row it has read,
\* the time it took, and what it is for.  made, late are history: the password
\* a login was granted for, the credentials that had ended at the start.
Free == [pc |-> "free", cookie |-> None, bearer |-> None, created |-> 0, seen |-> 0,
         at |-> 0, by |-> "none", client |-> None, made |-> None, name |-> None, exp |-> 0,
         late |-> {}]
NoAttempt == [fails |-> 0, resetAt |-> 0]

Serving == phase \in {"up", "open"}

\* The first start of an installation.
Init ==
  /\ now = 1 /\ phase = "down" /\ env = None /\ stored = None /\ admin = None
  /\ session = [s \in Sessions |-> None] /\ token = [t \in Tokens |-> None]
  /\ attempt = [c \in Clients |-> NoAttempt]
  /\ job = [w \in Workers |-> Free]
  /\ issued = {} /\ ended = {}

\* main: the process starts, with or without a password in its environment,
\* or with authentication switched off.
Boot(password, disabled) ==
  /\ phase = "down"
  /\ phase' = IF disabled THEN "open" ELSE "start"
  /\ env' = password
  /\ UNCHANGED <<now, stored, admin, tables, attempt, job>>

\* resolveAdminPassword: the password of the environment, saved when it is not
\* the one on disk; else the one on disk; else a generated one.
ResolveAdminPassword ==
  /\ phase = "start" /\ phase' = "clear"
  /\ \E p \in Passwords :
       /\ p = IF env # None THEN env ELSE IF stored # None THEN stored ELSE p
       /\ stored' = p /\ admin' = p
  /\ UNCHANGED <<now, env, tables, attempt, job>>

InvalidateAllSessions ==
  /\ session' = [s \in Sessions |-> None]
  /\ ended' = ended \cup {s \in Sessions : session[s] # None}

\* Init: no session survives a restart.
ClearSessions ==
  /\ phase = "clear" /\ phase' = "up"
  /\ InvalidateAllSessions
  /\ UNCHANGED <<now, env, stored, admin, token, attempt, job, issued>>

\* The process dies, or gives up because a statement of its start failed.
Crash ==
  /\ phase # "down" /\ phase' = "down"
  /\ admin' = None /\ env' = None
  /\ attempt' = [c \in Clients |-> NoAttempt]
  /\ job' = [w \in Workers |-> Free]
  /\ UNCHANGED <<now, stored, tables>>

Tick ==
  /\ now < MaxClock /\ now' = now + 1
  /\ UNCHANGED <<process, tables, attempt, job>>

----------------------------------------------------------------------------
(* Logging in.                                                              *)

\* An entry whose window has elapsed is as good as none.
Fails(c) == IF now > attempt[c].resetAt THEN 0 ELSE attempt[c].fails

\* LoginAllowed
Login(w, c) ==
  /\ phase = "up" /\ job[w].pc = "free"
  /\ Fails(c) < LoginMaxAttempts
  /\ job' = [job EXCEPT ![w] = [Free EXCEPT !.pc = "password", !.client = c]]
  /\ UNCHANGED <<now, process, tables, attempt>>

\* A body that is not a password.
LoginUnparsed(w) ==
  /\ job[w].pc = "password"
  /\ job' = [job EXCEPT ![w] = Free]
  /\ UNCHANGED <<now, process, tables, attempt>>

\* RegisterLoginFailure: one more in the window, which starts again; entries
\* whose window has elapsed are dropped.
LoginFails(w, password) ==
  LET c == job[w].client
  IN /\ job[w].pc = "password" /\ password # admin
     /\ attempt' = [d \in Clients |->
          IF d = c THEN [fails |-> Fails(c) + 1, resetAt |-> now + LoginWindow]
          ELSE IF now > attempt[d].resetAt THEN NoAttempt ELSE attempt[d]]
     /\ job' = [job EXCEPT ![w] = Free]
     /\ UNCHANGED <<now, process, tables>>

\* RegisterLoginSuccess
LoginSucceeds(w) ==
  /\ job[w].pc = "password" /\ admin # None
  /\ attempt' = [attempt EXCEPT ![job[w].client] = NoAttempt]
  /\ job' = [job EXCEPT ![w] = [Free EXCEPT !.pc = "create", !.made = admin]]
  /\ UNCHANGED <<now, process, tables>>

\* CreateSession, or an insert that fails.
CreateSession(w) ==
  /\ job[w].pc = "create"
  /\ job' = [job EXCEPT ![w] = Free]
  /\ \/ \E s \in Sessions \ issued :
          /\ session' = [session EXCEPT ![s] =
                           [made |-> job[w].made, created |-> now, seen |-> now]]
          /\ issued' = issued \cup {s}
     \/ UNCHANGED <<session, issued>>
  /\ UNCHANGED <<now, process, token, ended, attempt>>

\* Logout, which needs no valid session.  An error of its DELETE is ignored, and
\* is no step.
Logout(w, s) ==
  /\ Serving /\ job[w].pc = "free"
  /\ session' = [session EXCEPT ![s] = None]
  /\ ended' = IF session[s] # None THEN ended \cup {s} ELSE ended
  /\ UNCHANGED <<now, process, token, issued, attempt, job>>

----------------------------------------------------------------------------
(* Requests that need a principal: RequireAuth, RequireSessionOrPassword.    *)

\* A request with a cookie and a bearer token, either of which may be missing.
Request(w, s, t) ==
  /\ phase = "up" /\ job[w].pc = "free"
  /\ job' = [job EXCEPT ![w] = [Free EXCEPT !.pc = IF s = None THEN "bearer" ELSE "select",
                                            !.cookie = s, !.bearer = t,
                                            !.late = {s, t} \cap ended]]
  /\ UNCHANGED <<now, process, tables, attempt>>

\* A request of token management with the password (HTTP Basic), and any
\* request to a process without authentication.
PasswordRequest(w) ==
  /\ Serving /\ job[w].pc = "free"
  /\ job' = [job EXCEPT ![w] = [Free EXCEPT !.pc = "admitted", !.by = "password"]]
  /\ UNCHANGED <<now, process, tables, attempt>>

\* ValidateSession, its SELECT, which finds no row also when it fails.
SelectSession(w) ==
  LET r == session[job[w].cookie]
  IN /\ job[w].pc = "select"
     /\ \/ /\ r # None
           /\ job' = [job EXCEPT ![w].pc = "check", ![w].created = r.created, ![w].seen = r.seen]
        \/ job' = [job EXCEPT ![w].pc = "bearer"]
     /\ UNCHANGED <<now, process, tables, attempt>>

Lapsed(j) == now - j.seen > Idle \/ now - j.created > Lifetime

\* ValidateSession, the two timeouts.
CheckSession(w) ==
  /\ job[w].pc = "check"
  /\ job' = [job EXCEPT ![w].pc = IF Lapsed(job[w]) THEN "expire" ELSE "touch", ![w].at = now]
  /\ UNCHANGED <<now, process, tables, attempt>>

\* The DELETE of a lapsed session, which may fail; the bearer token is tried next.
ExpireSession(w) ==
  LET s == job[w].cookie
  IN /\ job[w].pc = "expire"
     /\ \/ /\ session' = [session EXCEPT ![s] = None]
           /\ ended' = IF session[s] # None THEN ended \cup {s} ELSE ended
        \/ UNCHANGED <<session, ended>>
     /\ job' = [job EXCEPT ![w].pc = "bearer"]
     /\ UNCHANGED <<now, process, token, issued, attempt>>

\* The UPDATE that slides the idle window touches a row that is still there.
Touched(s, j) == IF session[s] = None THEN None ELSE [session[s] EXCEPT !.seen = j.at]

\* The request is admitted also when the UPDATE fails.
TouchSession(w) ==
  LET s == job[w].cookie
  IN /\ job[w].pc = "touch"
     /\ session' = [session EXCEPT ![s] = Touched(s, job[w])] \/ UNCHANGED session
     /\ job' = [job EXCEPT ![w].pc = "admitted", ![w].by = "session"]
     /\ UNCHANGED <<now, process, token, issued, ended, attempt>>

\* ValidateAPIToken: its SELECT, which may fail, then the expiry; the UPDATE of
\* last_used_at by id changes nothing that is read back here.
SelectToken(w) ==
  LET t == job[w].bearer
      good == t # None /\ token[t] # None /\ (token[t].exp > 0 => now <= token[t].exp)
  IN /\ job[w].pc = "bearer"
     /\ \/ good /\ job' = [job EXCEPT ![w] = [@ EXCEPT !.pc = "admitted", !.by = "token"]]
        \/ job' = [job EXCEPT ![w] = Free]
     /\ UNCHANGED <<now, process, tables, attempt>>

\* What an admitted request is for is modelled elsewhere.
Handle(w) ==
  /\ job[w].pc = "admitted"
  /\ job' = [job EXCEPT ![w] = Free]
  /\ UNCHANGED <<now, process, tables, attempt>>

----------------------------------------------------------------------------
(* API tokens, managed with a session or the password.                      *)

\* CreateAPIToken: the names are counted ...
CountNames(w, name, days) ==
  /\ job[w].pc = "admitted" /\ job[w].by # "token"
  /\ job' = [job EXCEPT ![w] =
       IF \E t \in Tokens : token[t] # None /\ token[t].name = name THEN Free
       ELSE [@ EXCEPT !.pc = "insert", !.name = name, !.exp = IF days > 0 THEN now + days ELSE 0]]
  /\ UNCHANGED <<now, process, tables, attempt>>

\* ... and the row is inserted, or the insert fails.
InsertToken(w) ==
  /\ job[w].pc = "insert"
  /\ job' = [job EXCEPT ![w] = Free]
  /\ \/ \E t \in Tokens \ issued :
          /\ token' = [token EXCEPT ![t] = [name |-> job[w].name, exp |-> job[w].exp]]
          /\ issued' = issued \cup {t}
     \/ UNCHANGED <<token, issued>>
  /\ UNCHANGED <<now, process, session, ended, attempt>>

DeleteAPIToken(w, t) ==
  /\ job[w].pc = "admitted" /\ job[w].by # "token"
  /\ token' = [token EXCEPT ![t] = None]
  /\ ended' = IF token[t] # None THEN ended \cup {t} ELSE ended
  /\ job' = [job EXCEPT ![w] = Free]
  /\ UNCHANGED <<now, process, session, issued, attempt>>

Step(w) ==
  \/ \E c \in Clients : Login(w, c)
  \/ LoginUnparsed(w) \/ LoginSucceeds(w) \/ CreateSession(w)
  \/ \E p \in Passwords : LoginFails(w, p)
  \/ \E s \in Sessions : Logout(w, s)
  \/ \E s \in Sessions \cup {None}, t \in Tokens \cup {None} : Request(w, s, t)
  \/ PasswordRequest(w)
  \/ SelectSession(w) \/ CheckSession(w) \/ ExpireSession(w) \/ TouchSession(w)
  \/ SelectToken(w) \/ Handle(w)
  \/ \E name \in Names, days \in Expiries : CountNames(w, name, days)
  \/ InsertToken(w)
  \/ \E t \in Tokens : DeleteAPIToken(w, t)

Next ==
  \/ \E p \in Passwords \cup {None}, disabled \in BOOLEAN : Boot(p, disabled)
  \/ ResolveAdminPassword \/ ClearSessions \/ Crash \/ Tick
  \/ \E w \in Workers : Step(w)

Spec == Init /\ [][Next]_vars
----------------------------------------------------------------------------
(* Properties.                                                              *)

States == {"free", "password", "create", "select", "check", "expire", "touch", "bearer",
           "admitted", "insert"}
SessionRow == [made : Passwords, created : Nat, seen : Nat]
TokenRow == [name : Names, exp : Nat]
Job == [pc : States, cookie : Sessions \cup {None}, bearer : Tokens \cup {None},
        created : Nat, seen : Nat, at : Nat, by : {"none", "session", "token", "password"},
        client : Clients \cup {None}, made : Passwords \cup {None},
        name : Names \cup {None}, exp : Nat, late : SUBSET (Sessions \cup Tokens)]

\* The tables, the memory of the process and its requests have their types.
TypeOK ==
  /\ now \in Nat /\ phase \in {"down", "start", "clear", "up", "open"}
  /\ env \in Passwords \cup {None} /\ stored \in Passwords \cup {None}
  /\ admin \in Passwords \cup {None}
  /\ session \in [Sessions -> SessionRow \cup {None}]
  /\ token \in [Tokens -> TokenRow \cup {None}]
  /\ attempt \in [Clients -> [fails : Nat, resetAt : Nat]]
  /\ job \in [Workers -> Job]
  /\ issued \subseteq Sessions \cup Tokens /\ ended \subseteq issued

\* While the process serves, every session was granted for the password it
\* holds, however it was interrupted while it took a new password in.
SessionsOfThisPassword ==
  phase = "up" => \A s \in Sessions : session[s] # None => session[s].made = admin

\* A request that is let in by a cookie or a token began before the end of
\* that credential: a session that was logged out, lapsed or cleared, and a
\* token that was deleted, are never let in again, whatever was under way.
EndedStaysOut ==
  \A w \in Workers : job[w].pc = "admitted" =>
    /\ job[w].by = "session" => job[w].cookie \notin job[w].late
    /\ job[w].by = "token" => job[w].bearer \notin job[w].late

\* The wrong passwords of one client in one window exceed the limit by at most
\* the requests that passed LoginAllowed together.
AttemptsBounded ==
  \A c \in Clients : Fails(c) < LoginMaxAttempts + Cardinality(Workers)

\* A row was seen after it was made and not after now, also when two requests
\* slide its window in the wrong order.
SeenInOrder ==
  \A s \in Sessions : session[s] # None =>
    session[s].created <= session[s].seen /\ session[s].seen <= now

\* Token names must be unique.  (Not so: the count and the insert are two steps.)
TokenNamesUnique ==
  \A t, u \in Tokens : token[t] # None /\ token[u] # None /\ token[t].name = token[u].name => t = u
=============================================================================
