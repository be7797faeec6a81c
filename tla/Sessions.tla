------------------------------ MODULE Sessions ------------------------------
(***************************************************************************)
(* Dashboard sessions and the login limiter (auth.go).  Login handlers of   *)
(* one address run concurrently; each passes Allow, checks the password and *)
(* then records a failure or opens a session, in critical sections of their *)
(* own.  A token is told by the handler that was given it.                  *)
(***************************************************************************)
EXTENDS Naturals, Sequences, FiniteSets

CONSTANTS
  Logins,           \* login requests from one address
  MaxAttempts,      \* rateLimitMaxAttempts
  Window,           \* rateLimitWindow
  SessionDuration,  \* sessionDuration
  MaxAuthTime       \* bound on the clock

ASSUME SessionAssumptions ==
  /\ MaxAttempts \in Nat \ {0} /\ Window \in Nat /\ SessionDuration \in Nat
  /\ MaxAuthTime \in Nat \ {0} /\ IsFiniteSet(Logins)

VARIABLES
  login,      \* per request: its step and when it arrived
  failures,   \* the limiter's times of failed logins
  sessions,   \* expiry per token, 0 for a token that is not in the map
  loggedOut,  \* history: tokens that Logout was called with
  refusedAt,  \* history: what Allow saw when it last refused: time and failures
  peak,       \* history: most requests at once between Allow and the end of their check
  authClock

authVars == <<login, failures, sessions, loggedOut, refusedAt, peak, authClock>>

LoginSteps == {"new", "verify", "reject", "reset", "done"}

AuthTypeOK ==
  /\ login \in [Logins -> [pc : LoginSteps, at : 0..MaxAuthTime]]
  /\ \A i \in DOMAIN failures : failures[i] \in 0..MaxAuthTime
  /\ sessions \in [Logins -> 0..(MaxAuthTime + SessionDuration)]
  /\ \A t \in Logins : sessions[t] # 0 => login[t].pc \in {"reset", "done"}
  /\ loggedOut \subseteq Logins
  /\ authClock \in 1..MaxAuthTime

AuthInit ==
  /\ login = [l \in Logins |-> [pc |-> "new", at |-> 0]]
  /\ failures = <<>> /\ sessions = [t \in Logins |-> 0]
  /\ loggedOut = {} /\ refusedAt = <<>> /\ peak = 0
  /\ authClock = 1

Goes(l, pc) == login' = [login EXCEPT ![l] = [pc |-> pc, at |-> authClock]]

Checking(l) == login[l].pc \in {"verify", "reject"}

\* The highest number of requests that were ever past Allow at once.
CountPeak ==
  LET now == Cardinality({l \in Logins : Checking(l)'}) IN
  peak' = IF now > peak THEN now ELSE peak

Outside(t) == t + Window < authClock   \* Before(now - window)

\* evict drops the leading entries that are outside the window.
Evicted ==
  LET kept == {i \in 1..Len(failures) : ~Outside(failures[i])}
      from == IF kept = {} THEN Len(failures) + 1
              ELSE CHOOSE i \in kept : \A k \in kept : i <= k
  IN  SubSeq(failures, from, Len(failures))

MutAllow(l) ==                         \* off by one
  /\ login[l].pc = "new"
  /\ failures' = Evicted
  /\ IF Len(failures') <= MaxAttempts
     THEN Goes(l, "verify") /\ UNCHANGED refusedAt
     ELSE Goes(l, "done") /\ refusedAt' = <<authClock, failures'>>
  /\ CountPeak
  /\ UNCHANGED <<sessions, loggedOut, authClock>>

\* Allow: at the limit the request ends with "too many failed attempts".
Allow(l) ==
  /\ login[l].pc = "new"
  /\ failures' = Evicted
  /\ IF Len(failures') < MaxAttempts
     THEN Goes(l, "verify") /\ UNCHANGED refusedAt
     ELSE Goes(l, "done") /\ refusedAt' = <<authClock, failures'>>
  /\ CountPeak
  /\ UNCHANGED <<sessions, loggedOut, authClock>>

\* A body that is not a login is answered "invalid request body", and not counted.
BadRequest(l) ==
  /\ login[l].pc = "verify"
  /\ Goes(l, "done")
  /\ UNCHANGED <<failures, sessions, loggedOut, refusedAt, peak, authClock>>

\* Login: a wrong name or password, or a session under a fresh token.
Login(l, good) ==
  /\ login[l].pc = "verify"
  /\ login' = [login EXCEPT ![l].pc = IF good THEN "reset" ELSE "reject"]
  /\ sessions' = IF good THEN [sessions EXCEPT ![l] = authClock + SessionDuration] ELSE sessions
  /\ UNCHANGED <<failures, loggedOut, refusedAt, peak, authClock>>

RecordFailure(l) ==
  /\ login[l].pc = "reject"
  /\ failures' = Append(failures, authClock)
  /\ Goes(l, "done")
  /\ UNCHANGED <<sessions, loggedOut, refusedAt, peak, authClock>>

Reset(l) ==
  /\ login[l].pc = "reset"
  /\ failures' = <<>>
  /\ Goes(l, "done")
  /\ UNCHANGED <<sessions, loggedOut, refusedAt, peak, authClock>>

Logout(t) ==
  /\ login[t].pc = "done" /\ sessions[t] # 0
  /\ sessions' = [sessions EXCEPT ![t] = 0]
  /\ loggedOut' = loggedOut \cup {t}
  /\ UNCHANGED <<login, failures, refusedAt, peak, authClock>>

\* Valid, which Middleware asks for every request of the dashboard.
Valid(t) == sessions[t] # 0 /\ authClock < sessions[t]

\* The two cleanup loops, one map under its lock each; they share no state.
Cleanup ==
  /\ failures' = Evicted
  /\ sessions' = [t \in Logins |-> IF authClock > sessions[t] THEN 0 ELSE sessions[t]]
  /\ UNCHANGED <<login, loggedOut, refusedAt, peak, authClock>>

AuthTick ==
  /\ authClock < MaxAuthTime /\ authClock' = authClock + 1
  /\ UNCHANGED <<login, failures, sessions, loggedOut, refusedAt, peak>>

AuthNext ==
  \/ \E l \in Logins :
       \/ Allow(l) \/ BadRequest(l) \/ RecordFailure(l) \/ Reset(l) \/ Logout(l)
       \/ \E good \in BOOLEAN : Login(l, good)
  \/ Cleanup \/ AuthTick

AuthSpec == AuthInit /\ [][AuthNext]_authVars

-----------------------------------------------------------------------------
(* Properties.                                                              *)

Recent == {i \in 1..Len(failures) : ~Outside(failures[i])}

\* The limiter counts what it should.  Requests that pass Allow together can
\* exceed the limit, but only by their number: the failures in the window and
\* the requests that may still fail stay below the limit and the most requests
\* ever under way.  And a refused request met a full window: evicting a prefix
\* leaves no older failure behind, because the times are in order
\* (auth.go:154-189, 205-233).
LimiterSound ==
  /\ Cardinality(Recent) + Cardinality({l \in Logins : Checking(l)}) < MaxAttempts + peak
  /\ refusedAt # <<>> =>
       \A i \in DOMAIN refusedAt[2] : refusedAt[2][i] + Window >= refusedAt[1]
=============================================================================
