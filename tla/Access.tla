------------------------------- MODULE Access -------------------------------
(***************************************************************************)
(* Logging in and staying logged in (internal/authsvc, httpapi/auth.go) in *)
(* a running server that opens its file as Startup says: sessions live in  *)
(* the file, the login limiter in memory, each browser keeps a cookie.     *)
(*                                                                         *)
(* A request handler reads the clock first and uses that time to its end;  *)
(* its statements on the database and the checking of a password are steps *)
(* of their own, between those of other requests.                          *)
(***************************************************************************)
EXTENDS Startup

CONSTANTS Browser, Addr,
          AddrOf,       \* the address each browser's requests come from
          Slots,        \* bound on a browser's requests under way
          Token,        \* session tokens, each issued once
          TTL,          \* sessionTTL
          Tolerated,    \* failuresBeforeLockout
          InitialLockout, MaxLockout,
          MaxHandling,  \* bound on the time a handler works with the time it read
          MaxTime,      \* bound on the clock
          MaxFailures,  \* bound on the failures counted
          NoRequest, NoCookie, NoSession

ASSUME AccessAssumption ==
  /\ AddrOf \in [Browser -> Addr]
  /\ {TTL, Tolerated, InitialLockout, MaxLockout, MaxHandling, MaxTime, MaxFailures} \subseteq Nat
  /\ MaxHandling < InitialLockout /\ InitialLockout <= MaxLockout /\ Tolerated > 0
  /\ NoSession \notin Nat

VARIABLES sessions, \* each token's expires_at, NoSession if there is no row
          cookie,   \* each browser's cookie: its token and until when it is kept
          limiter,  \* the failures and lockedUntil of each address
          request,  \* the requests each browser awaits
          now,
          revoked,  \* history: the tokens logged out
          used      \* history: the latest time each browser's session was accepted at

avars == <<sessions, cookie, limiter, request, now, revoked, used>>

NoFailures == [failures |-> 0, lockedUntil |-> 0]

AInit == /\ sessions = [t \in Token |-> NoSession]
         /\ cookie = [b \in Browser |-> NoCookie]
         /\ limiter = [a \in Addr |-> NoFailures]
         /\ request = [b \in Browser |-> [s \in Slots |-> NoRequest]]
         /\ now = 1
         /\ revoked = {}
         /\ used = [b \in Browser |-> 0]

Serving == proc["server"].step \in {"open", "drain"}

\* A browser sends a request; the server takes it while it is listening.
Send(b, r) == \E s \in Slots :
  /\ At("server", "open") /\ request[b][s] = NoRequest
  /\ request' = [request EXCEPT ![b][s] = r]
  /\ UNCHANGED <<sessions, cookie, limiter, now, revoked, used>>

Answered(b, s) == request' = [request EXCEPT ![b][s] = NoRequest]
Is(b, s, kind, step) ==
  Serving /\ request[b][s] # NoRequest /\ request[b][s].kind = kind /\ request[b][s].step = step

------------------------------------------------------------------------------
(* POST /api/auth/login *)

SendLogin(b, pw) ==
  Send(b, [kind |-> "login", step |-> "sent", pw |-> pw, at |-> 0, hash |-> 0])

Locked(b) == now < limiter[AddrOf[b]].lockedUntil

\* 429: locked out, or over the rate of requests (which is not counted here).
RefuseLogin(b, s) == /\ Is(b, s, "login", "sent")
                     /\ Answered(b, s)
                     /\ UNCHANGED <<sessions, cookie, limiter, now, revoked, used>>

\* Allowed; the password's hash is read, and there is one.
AllowLogin(b, s) ==
  /\ Is(b, s, "login", "sent") /\ ~Locked(b) /\ file.password # 0
  /\ request' = [request EXCEPT ![b][s] = [@ EXCEPT !.step = "verify", !.at = now,
                                                    !.hash = file.password]]
  /\ UNCHANGED <<sessions, cookie, limiter, now, revoked, used>>

\* Mutant of Lockout: the shift is counted from the first failure past the threshold.
LockoutOnce(failures) == IF failures = Tolerated THEN InitialLockout ELSE 0

\* Doubled for each failure past the threshold, up to the cap.
Lockout(failures) ==
  LET d == InitialLockout * 2 ^ (failures - Tolerated)
  IN IF d >= MaxLockout THEN MaxLockout ELSE d

\* RecordFailure, with the time read before the check.
AfterFailure(k, at) ==
  [failures |-> k.failures + 1,
   lockedUntil |-> IF k.failures + 1 < Tolerated THEN k.lockedUntil
                   ELSE at + Lockout(k.failures + 1)]

WrongPassword(b, s) ==
  /\ Is(b, s, "login", "verify") /\ request[b][s].pw # request[b][s].hash
  /\ limiter[AddrOf[b]].failures < MaxFailures
  /\ limiter' = [limiter EXCEPT ![AddrOf[b]] = AfterFailure(@, request[b][s].at)]
  /\ Answered(b, s)
  /\ UNCHANGED <<sessions, cookie, now, revoked, used>>

\* RecordSuccess forgets the address; the session is created and the cookie set.
RightPassword(b, s) ==
  /\ Is(b, s, "login", "verify") /\ request[b][s].pw = request[b][s].hash
  /\ \E t \in Token :
       /\ sessions[t] = NoSession /\ t \notin revoked
       /\ sessions' = [sessions EXCEPT ![t] = request[b][s].at + TTL]
       /\ cookie' = [cookie EXCEPT ![b] = [token |-> t, until |-> request[b][s].at + TTL]]
  /\ limiter' = [limiter EXCEPT ![AddrOf[b]] = NoFailures]
  /\ used' = [used EXCEPT ![b] = request[b][s].at]
  /\ Answered(b, s)
  /\ UNCHANGED <<now, revoked>>

------------------------------------------------------------------------------
(* requireAuth *)

\* The browser sends the cookie as long as it keeps it.
Kept(b) == cookie[b] # NoCookie /\ now <= cookie[b].until

SendRequest(b) ==
  /\ Kept(b)
  /\ Send(b, [kind |-> "api", step |-> "sent", token |-> cookie[b].token, at |-> 0])

Valid(t, at) == sessions[t] # NoSession /\ at <= sessions[t]

\* ValidateSession's SELECT: 401, or on to the UPDATE.
FindSession(b, s) ==
  /\ Is(b, s, "api", "sent")
  /\ IF Valid(request[b][s].token, now)
     THEN request' = [request EXCEPT ![b][s] = [@ EXCEPT !.step = "found", !.at = now]]
     ELSE Answered(b, s)
  /\ UNCHANGED <<sessions, cookie, limiter, now, revoked, used>>

\* Mutants of Slid: validating leaves the expiry; the row is written whether or not it is still there.
SlidNot(t, expiry) == sessions[t]
SlidBack(t, expiry) == expiry

\* The UPDATE slides the expiry of a row that is still there.
Slid(t, expiry) == IF sessions[t] = NoSession THEN NoSession ELSE expiry

SlideSession(b, s) ==
  LET r == request[b][s] IN
  /\ Is(b, s, "api", "found")
  /\ sessions' = [sessions EXCEPT ![r.token] = Slid(r.token, r.at + TTL)]
  /\ used' = [used EXCEPT ![b] = IF cookie[b] # NoCookie /\ cookie[b].token = r.token
                                    /\ @ < r.at THEN r.at ELSE @]
  /\ Answered(b, s)
  /\ UNCHANGED <<cookie, limiter, now, revoked>>

------------------------------------------------------------------------------
(* POST /api/auth/logout *)

SendLogout(b) == /\ Kept(b)
                 /\ Send(b, [kind |-> "logout", step |-> "sent", token |-> cookie[b].token])

Logout(b, s) ==
  /\ Is(b, s, "logout", "sent")
  /\ sessions' = [sessions EXCEPT ![request[b][s].token] = NoSession]
  /\ revoked' = revoked \cup {request[b][s].token}
  /\ cookie' = [cookie EXCEPT ![b] = NoCookie]
  /\ Answered(b, s)
  /\ UNCHANGED <<limiter, now, used>>

ATick == /\ now < MaxTime
         /\ \A b \in Browser, s \in Slots :
              request[b][s] # NoRequest /\ request[b][s].step # "sent"
              => now < request[b][s].at + MaxHandling
         /\ now' = now + 1
         /\ UNCHANGED <<sessions, cookie, limiter, request, revoked, used>>

\* The process is gone: what it held in memory, and the requests it was handling.
ProcessGone == /\ limiter' = [a \in Addr |-> NoFailures]
               /\ request' = [b \in Browser |-> [s \in Slots |-> NoRequest]]
               /\ UNCHANGED <<sessions, cookie, now, revoked, used>>

------------------------------------------------------------------------------
(* The process and its requests together. *)

AuthStep == \E b \in Browser :
  \/ \E pw \in 1 .. 2 : SendLogin(b, pw)
  \/ SendRequest(b) \/ SendLogout(b)
  \/ \E s \in Slots : \/ RefuseLogin(b, s) \/ AllowLogin(b, s)
                      \/ WrongPassword(b, s) \/ RightPassword(b, s)
                      \/ FindSession(b, s) \/ SlideSession(b, s) \/ Logout(b, s)

vars == <<pvars, avars>>

\* Shutdown waits for the requests under way, up to shutdownTimeout.
ShutDown == Exit /\ ProcessGone

Next ==
  \/ (\E p \in Process : Start(p) \/ Opening(p)) /\ UNCHANGED avars
  \/ (SetPassword \/ GiveUp \/ ServerWrites \/ Terminate \/ Crash("tool")) /\ UNCHANGED avars
  \/ (Crash("server") /\ ProcessGone) \/ ShutDown
  \/ (AuthStep \/ ATick) /\ UNCHANGED pvars

Init == PInit /\ AInit
Spec == Init /\ [][Next]_vars

------------------------------------------------------------------------------
(* Properties. *)

\* session.go DeleteSession: a token that was logged out has no session again,
\* whatever requests with it were under way.
LoggedOutForGood == \A t \in revoked : sessions[t] = NoSession

\* session.go ValidateSession: a session a browser used is good for TTL from then
\* until it logs out - less what requests under way together read the clock apart.
SessionSlides == \A b \in Browser :
  cookie[b] # NoCookie /\ cookie[b].token \notin revoked
  => /\ sessions[cookie[b].token] # NoSession
     /\ sessions[cookie[b].token] >= used[b] + TTL - MaxHandling

\* ratelimit.go RecordFailure: whatever other attempts came and went during its
\* check, a failure at the threshold or past it leaves the address locked out.
FailuresLock == [][\A a \in Addr :
  limiter'[a].failures > limiter[a].failures /\ limiter'[a].failures >= Tolerated
  => now < limiter'[a].lockedUntil]_vars
==============================================================================
