----------------------------- MODULE RateLimiter -----------------------------
(***************************************************************************)
(* The per-user token bucket of the chat (chat/ratelimit.go), shared by    *)
(* all tabs and channels of a user.  Tokens are counted in units so that   *)
(* the float arithmetic of the code becomes exact: a token is Unit units   *)
(* and each clock tick refills Rate of them.  limiterMap.mu is held while  *)
(* the clock is read, so a bucket sees times in order.                     *)
(***************************************************************************)
EXTENDS Integers, Sequences

CONSTANTS
  Users,    \* user ids
  Burst,    \* tokens a bucket holds
  Rate,     \* units refilled per tick
  Unit,     \* units per token
  MaxTime   \* bound: ticks of the clock

ASSUME RateAssumption ==
  {Burst, Rate, Unit} \subseteq Nat \ {0} /\ MaxTime \in Nat

VARIABLES
  now,      \* time.Now()
  known,    \* users with an entry in byUser
  tokens,   \* [Users -> units left]
  refilled, \* [Users -> lastRefill]
  grants    \* history variable: [Users -> times of the allowed messages]

vars == <<now, known, tokens, refilled, grants>>

Max == Burst * Unit

Init ==
  /\ now = 0 /\ known = {}
  /\ tokens = [u \in Users |-> Max]
  /\ refilled = [u \in Users |-> 0]
  /\ grants = [u \in Users |-> <<>>]

Tick ==
  /\ now < MaxTime
  /\ now' = now + 1
  /\ UNCHANGED <<known, tokens, refilled, grants>>

\* Units in the bucket once limiter.allow has refilled it; a user's first
\* message creates a full bucket.
Refill(u) ==
  LET more == tokens[u] + (now - refilled[u]) * Rate
  IN  IF u \notin known \/ more > Max THEN Max ELSE more

\* Mutant: the last token is never taken away.
AllowFree(u) ==
  /\ Refill(u) >= Unit
  /\ tokens' = [tokens EXCEPT ![u] = IF Refill(u) < 2 * Unit THEN Refill(u)
                                     ELSE Refill(u) - Unit]
  /\ grants' = [grants EXCEPT ![u] = Append(@, now)]
  /\ known' = known \cup {u}
  /\ refilled' = [refilled EXCEPT ![u] = now]
  /\ UNCHANGED now

allow(u) ==
  /\ Refill(u) >= Unit
  /\ tokens' = [tokens EXCEPT ![u] = Refill(u) - Unit]
  /\ grants' = [grants EXCEPT ![u] = Append(@, now)]
  /\ known' = known \cup {u}
  /\ refilled' = [refilled EXCEPT ![u] = now]
  /\ UNCHANGED now

\* Mutant: lastRefill moves but the fraction of a token is dropped.
DenyDropsFraction(u) ==
  /\ Refill(u) < Unit
  /\ known' = known \cup {u}
  /\ refilled' = [refilled EXCEPT ![u] = now]
  /\ UNCHANGED <<now, tokens, grants>>

\* Refused, but refilled all the same.
deny(u) ==
  /\ Refill(u) < Unit
  /\ tokens' = [tokens EXCEPT ![u] = Refill(u)]
  /\ known' = known \cup {u}
  /\ refilled' = [refilled EXCEPT ![u] = now]
  /\ UNCHANGED <<now, grants>>

Next == Tick \/ \E u \in Users : allow(u) \/ deny(u)

Spec == Init /\ [][Next]_vars

\* The types of the variables; a bucket is never over-full or negative.
TypeOK ==
  /\ now \in 0..MaxTime
  /\ known \subseteq Users
  /\ tokens \in [Users -> 0..Max]
  /\ refilled \in [Users -> 0..MaxTime]

\* A bucket is never overfull, and in every window of time a user gets at most
\* the burst plus what the window refills, however tries and pauses are spread
\* and whichever tabs send.
WindowBound ==
  /\ TypeOK
  /\ \A u \in Users : \A i, j \in 1..Len(grants[u]) : i <= j =>
       (j - i + 1) * Unit <= Max + (grants[u][j] - grants[u][i]) * Rate

\* Refused tries cost nothing: a token's worth of time after the last allowed
\* message the next one is allowed, whatever was refused in between.
QuotaReturns ==
  \A u \in Users :
    LET g == grants[u] IN
      g # <<>> /\ (now - g[Len(g)]) * Rate >= Unit => Refill(u) >= Unit

=============================================================================
