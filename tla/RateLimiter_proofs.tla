------------------------- MODULE RateLimiter_proofs -------------------------
(***************************************************************************)
(* Proofs about RateLimiter, for every set of users, burst, rate and run   *)
(* of the clock.  WindowBound speaks about grants only; what carries it    *)
(* through refills and refusals is an account of the bucket: what was      *)
(* granted since a grant, plus what is left, never exceeds a full bucket   *)
(* plus what has been refilled since.                                      *)
(***************************************************************************)
EXTENDS RateLimiter, SequenceTheorems, TLAPS

\* Since grant i: the tokens granted and the rest of the bucket are covered.
Covered(u, i) ==
  (Len(grants[u]) - i + 1) * Unit + tokens[u]
    <= Max + (refilled[u] - grants[u][i]) * Rate

\* WindowBound for the grants i to j of one user.
Window(u, i, j) ==
  (j - i + 1) * Unit <= Max + (grants[u][j] - grants[u][i]) * Rate

\* A refill that was refused is still in the bucket.
Saved(u) ==
  grants[u] # <<>> =>
    tokens[u] >= (refilled[u] - grants[u][Len(grants[u])]) * Rate

BucketInv(u) ==
  /\ refilled[u] <= now
  /\ grants[u] \in Seq(Nat)
  /\ u \notin known => grants[u] = <<>>
  /\ \A i \in 1..Len(grants[u]) : grants[u][i] <= refilled[u] /\ Covered(u, i)
  /\ \A i, j \in 1..Len(grants[u]) : i <= j => Window(u, i, j)
  /\ Saved(u)

RateInv ==
  /\ TypeOK /\ grants \in [Users -> Seq(Nat)]
  /\ \A u \in Users : BucketInv(u)

-----------------------------------------------------------------------------
(* Arithmetic. *)

LEMMA Distribute ==
  ASSUME NEW a \in Int, NEW b \in Int, NEW c \in Int
  PROVE  (a + b) * c = a * c + b * c
OBVIOUS

\* A full bucket holds at least one token.
LEMMA MaxType == Max \in Nat /\ Unit <= Max
<1>1. Burst \in Nat /\ Unit \in Nat /\ Burst >= 1 /\ Burst - 1 \in Nat
  BY RateAssumption
<1>2. Burst * Unit = (Burst - 1) * Unit + Unit
  BY <1>1, Distribute
<1>3. (Burst - 1) * Unit \in Nat
  BY <1>1
<1> QED
  BY <1>1, <1>2, <1>3 DEF Max

\* A time span that is split at r refills the same amount.
LEMMA SplitSpan ==
  ASSUME NEW n \in Int, NEW r \in Int, NEW g \in Int
  PROVE  (r - g) * Rate + (n - r) * Rate = (n - g) * Rate
<1>1. Rate \in Int /\ r - g \in Int /\ n - r \in Int
  BY RateAssumption
<1>2. ((r - g) + (n - r)) * Rate = (r - g) * Rate + (n - r) * Rate
  BY <1>1, Distribute
<1>3. (r - g) + (n - r) = n - g
  OBVIOUS
<1> QED
  BY <1>2, <1>3

\* One more token.
LEMMA OneMore ==
  ASSUME NEW k \in Int
  PROVE  (k + 1) * Unit = k * Unit + Unit
BY Distribute, RateAssumption

\* If k tokens and a rest of t units are covered at time r, and c units are in
\* the bucket at time n, then k tokens and c units are covered at time n.
LEMMA Balance ==
  ASSUME NEW k \in Int, NEW t \in Int, NEW r \in Int, NEW n \in Int,
         NEW g \in Int, NEW c \in Int,
         k * Unit + t <= Max + (r - g) * Rate,
         c <= t + (n - r) * Rate
  PROVE  k * Unit + c <= Max + (n - g) * Rate
<1>1. Rate \in Int /\ Unit \in Int /\ Max \in Int
  BY RateAssumption, MaxType
<1>2. (r - g) * Rate + (n - r) * Rate = (n - g) * Rate
  BY SplitSpan
<1>3. /\ k * Unit \in Int /\ (r - g) * Rate \in Int
      /\ (n - r) * Rate \in Int /\ (n - g) * Rate \in Int
  BY <1>1
<1> QED
  BY <1>1, <1>2, <1>3

\* If the rest t covers the span up to r, then with the refill it covers the
\* span up to n.
LEMMA SavedSpan ==
  ASSUME NEW t \in Int, NEW r \in Int, NEW n \in Int, NEW g \in Int,
         t >= (r - g) * Rate
  PROVE  t + (n - r) * Rate >= (n - g) * Rate
<1>1. Rate \in Int
  BY RateAssumption
<1>2. (r - g) * Rate + (n - r) * Rate = (n - g) * Rate
  BY SplitSpan
<1>3. (r - g) * Rate \in Int /\ (n - r) * Rate \in Int /\ (n - g) * Rate \in Int
  BY <1>1
<1> QED
  BY <1>2, <1>3

-----------------------------------------------------------------------------
(* A refilled bucket. *)

\* Refill(u) is what the invariant allows to be there, and is exact unless
\* the bucket is full.
LEMMA RefillProperties ==
  ASSUME RateInv, NEW u \in Users
  PROVE  /\ Refill(u) \in 0..Max
         /\ u \in known => Refill(u) <= tokens[u] + (now - refilled[u]) * Rate
         /\ u \in known /\ Refill(u) < Max =>
              Refill(u) = tokens[u] + (now - refilled[u]) * Rate
<1>1. /\ now \in Nat /\ refilled[u] \in Nat /\ refilled[u] <= now
      /\ tokens[u] \in 0..Max
  BY DEF RateInv, TypeOK, BucketInv
<1>2. Rate \in Nat /\ Max \in Nat
  BY RateAssumption, MaxType
<1>3. now - refilled[u] \in Nat
  BY <1>1
<1>4. (now - refilled[u]) * Rate \in Nat
  BY <1>2, <1>3
<1> DEFINE more == tokens[u] + (now - refilled[u]) * Rate
<1>5. more \in Nat
  BY <1>1, <1>2, <1>4
<1>6. Refill(u) = IF u \notin known \/ more > Max THEN Max ELSE more
  BY DEF Refill
<1> HIDE DEF more
<1>7. /\ Refill(u) \in 0..Max
      /\ u \in known => Refill(u) <= more
      /\ u \in known /\ Refill(u) < Max => Refill(u) = more
  BY <1>2, <1>5, <1>6
<1> QED
  BY <1>7 DEF more

\* After a refill the account of every earlier grant is balanced.
LEMMA CoveredRefilled ==
  ASSUME RateInv, NEW u \in Users, NEW i \in 1..Len(grants[u])
  PROVE  (Len(grants[u]) - i + 1) * Unit + Refill(u)
           <= Max + (now - grants[u][i]) * Rate
<1>1. now \in Int /\ refilled[u] \in Int /\ tokens[u] \in Int
  BY MaxType DEF RateInv, TypeOK
<1>2. grants[u] \in Seq(Nat)
  BY DEF RateInv, BucketInv
<1>3. Len(grants[u]) \in Nat /\ grants[u][i] \in Int
  BY <1>2, LenProperties, ElementOfSeq
<1>4. u \in known
  <2>1. u \notin known => grants[u] = <<>>
    BY DEF RateInv, BucketInv
  <2> QED
    BY <2>1
<1>5. (Len(grants[u]) - i + 1) * Unit + tokens[u]
        <= Max + (refilled[u] - grants[u][i]) * Rate
  BY DEF RateInv, BucketInv, Covered
<1>6. Refill(u) <= tokens[u] + (now - refilled[u]) * Rate /\ Refill(u) \in Int
  BY <1>4, RefillProperties, MaxType
<1>7. Len(grants[u]) - i + 1 \in Int
  BY <1>3
<1> QED
  BY <1>1, <1>3, <1>5, <1>6, <1>7, Balance

\* What the clock has refilled since the last grant is in the bucket, or the
\* bucket is full.
LEMMA SavedRefilled ==
  ASSUME RateInv, NEW u \in Users, grants[u] # <<>>
  PROVE  /\ now - grants[u][Len(grants[u])] \in Int
         /\ \/ Refill(u) = Max
            \/ Refill(u) >= (now - grants[u][Len(grants[u])]) * Rate
<1>1. grants[u] \in Seq(Nat)
  BY DEF RateInv
<1>2. Len(grants[u]) \in 1..Len(grants[u])
  BY <1>1, EmptySeq
<1>3. PICK g \in Int : g = grants[u][Len(grants[u])]
  BY <1>1, <1>2, ElementOfSeq
<1>4. now \in Int /\ refilled[u] \in Int /\ tokens[u] \in Int
  BY MaxType DEF RateInv, TypeOK
<1>5. u \in known
  BY DEF RateInv, BucketInv
<1>6. tokens[u] >= (refilled[u] - g) * Rate
  BY <1>3 DEF RateInv, BucketInv, Saved
<1>7. tokens[u] + (now - refilled[u]) * Rate >= (now - g) * Rate
  BY <1>4, <1>6, SavedSpan
<1>8. Refill(u) = Max \/ Refill(u) >= (now - g) * Rate
  <2>1. CASE Refill(u) < Max
    BY <1>5, <1>7, <2>1, RefillProperties
  <2>2. CASE ~(Refill(u) < Max)
    BY <2>2, RefillProperties, MaxType
  <2> QED
    BY <2>1, <2>2
<1> QED
  BY <1>3, <1>4, <1>8

-----------------------------------------------------------------------------
(* The invariant. *)

LEMMA RateInit == Init => RateInv
<1> SUFFICES ASSUME Init
             PROVE  RateInv
  OBVIOUS
<1>1. TypeOK /\ grants \in [Users -> Seq(Nat)]
  BY RateAssumption, MaxType DEF Init, TypeOK
<1>2. ASSUME NEW u \in Users
      PROVE  BucketInv(u)
  BY <1>2 DEF Init, BucketInv, Saved
<1> QED
  BY <1>1, <1>2 DEF RateInv

\* What happens to the bucket of one user does not touch another one.
LEMMA OtherBucket ==
  ASSUME RateInv, NEW w \in Users, now' = now,
         tokens'[w] = tokens[w], refilled'[w] = refilled[w],
         grants'[w] = grants[w], known \subseteq known'
  PROVE  BucketInv(w)'
<1>1. BucketInv(w)
  BY DEF RateInv
<1> QED
  BY <1>1 DEF BucketInv, Covered, Window, Saved

\* A grant keeps the account of its bucket.
LEMMA AllowBucket ==
  ASSUME RateInv, NEW u \in Users, allow(u)
  PROVE  BucketInv(u)'
<1> DEFINE g == grants[u]
           n == Len(g)
<1>1. /\ now' = now /\ now \in Nat
      /\ refilled'[u] = now /\ tokens'[u] = Refill(u) - Unit
      /\ grants'[u] = Append(g, now) /\ u \in known'
  BY DEF allow, RateInv, TypeOK
<1>2. g \in Seq(Nat) /\ n \in Nat
  BY LenProperties DEF RateInv, BucketInv
<1>3. /\ Append(g, now) \in Seq(Nat) /\ Len(Append(g, now)) = n + 1
      /\ \A i \in 1..n : Append(g, now)[i] = g[i] /\ g[i] \in Nat
      /\ Append(g, now)[n+1] = now
  BY <1>1, <1>2, ElementOfSeq
<1>4. /\ Refill(u) \in Nat /\ Refill(u) <= Max /\ Unit <= Refill(u)
      /\ Max \in Nat /\ Unit \in Nat /\ Rate \in Nat
  BY RefillProperties, MaxType, RateAssumption DEF allow
<1>5. ASSUME NEW i \in 1..n
      PROVE  /\ (n - i + 1) * Unit + Refill(u) <= Max + (now - g[i]) * Rate
             /\ (n + 1 - i + 1) * Unit = (n - i + 1) * Unit + Unit
             /\ (n - i + 1) * Unit \in Int /\ (now - g[i]) * Rate \in Int
             /\ g[i] <= now
  <2>1. n - i + 1 \in Int /\ (n - i + 1) + 1 = n + 1 - i + 1
    BY <1>2
  <2>2. (n + 1 - i + 1) * Unit = (n - i + 1) * Unit + Unit
    BY <2>1, OneMore
  <2>3. g[i] <= refilled[u] /\ refilled[u] <= now /\ refilled[u] \in Int
    BY DEF RateInv, BucketInv, TypeOK
  <2>4. (n - i + 1) * Unit + Refill(u) <= Max + (now - g[i]) * Rate
    BY CoveredRefilled
  <2>5. (n - i + 1) * Unit \in Int
    BY <2>1, <1>4
  <2>6. now - g[i] \in Int
    BY <1>1, <1>3
  <2>7. (now - g[i]) * Rate \in Int
    BY <2>6, <1>4
  <2>8. g[i] <= now
    BY <2>3, <1>1, <1>3
  <2> QED
    BY <2>2, <2>4, <2>5, <2>7, <2>8, Zenon
<1> DEFINE h == Append(g, now)
<1>6. ASSUME NEW i \in 1..n+1
      PROVE  /\ h[i] <= now
             /\ (n + 1 - i + 1) * Unit + (Refill(u) - Unit)
                  <= Max + (now - h[i]) * Rate
  <2>1. CASE i = n + 1
    <3>1. n + 1 - i + 1 = 1 /\ now - h[i] = 0 /\ h[i] <= now
      BY <2>1, <1>1, <1>2, <1>3
    <3>2. 1 * Unit = Unit /\ 0 * Rate = 0
      BY <1>4
    <3>3. Unit + (Refill(u) - Unit) <= Max + 0
      BY <1>4
    <3> QED
      BY <3>1, <3>2, <3>3, Zenon
  <2>2. CASE i \in 1..n
    <3> HIDE DEF n, h
    <3>1. /\ (n - i + 1) * Unit + Refill(u) <= Max + (now - g[i]) * Rate
          /\ (n + 1 - i + 1) * Unit = (n - i + 1) * Unit + Unit
          /\ (n - i + 1) * Unit \in Int /\ (now - g[i]) * Rate \in Int
          /\ g[i] <= now
      BY <2>2, <1>5
    <3>2. h[i] = g[i]
      BY <2>2, <1>3 DEF h
    <3>3. (n + 1 - i + 1) * Unit + (Refill(u) - Unit)
            <= Max + (now - g[i]) * Rate
      BY <3>1, <1>4
    <3> QED
      BY <3>1, <3>2, <3>3, Zenon
  <2> QED
    BY <2>1, <2>2, <1>2
<1>7. ASSUME NEW i \in 1..n+1, NEW j \in 1..n+1, i <= j
      PROVE  (j - i + 1) * Unit <= Max + (h[j] - h[i]) * Rate
  <2>1. CASE j = n + 1
    <3>1. (n + 1 - i + 1) * Unit + (Refill(u) - Unit)
            <= Max + (now - h[i]) * Rate
      BY <1>6
    <3>2. j - i + 1 = n + 1 - i + 1 /\ h[j] = now
      BY <2>1, <1>3
    <3>3. (n + 1 - i + 1) * Unit \in Int
      <4>1. n + 1 - i + 1 \in Int
        BY <1>2
      <4> QED
        BY <4>1, <1>4
    <3>4. (now - h[i]) * Rate \in Int
      <4>1. now - h[i] \in Int
        BY <1>1, <1>2, <1>3
      <4> QED
        BY <4>1, <1>4
    <3>5. (n + 1 - i + 1) * Unit <= Max + (now - h[i]) * Rate
      <4>1. PICK x \in Int : x = (n + 1 - i + 1) * Unit
        BY <3>3
      <4>2. PICK y \in Int : y = (now - h[i]) * Rate
        BY <3>4
      <4>3. x + (Refill(u) - Unit) <= Max + y
        BY <3>1, <4>1, <4>2, Zenon
      <4>4. x <= Max + y
        BY ONLY <4>3, <1>4, x \in Int, y \in Int
      <4> QED
        BY <4>1, <4>2, <4>4, Zenon
    <3> QED
      BY <3>2, <3>5
  <2>2. CASE j \in 1..n
    <3>1. i \in 1..n
      BY <2>2, <1>2, <1>7
    <3>2. (j - i + 1) * Unit <= Max + (g[j] - g[i]) * Rate
      BY <2>2, <3>1, <1>7 DEF RateInv, BucketInv, Window
    <3> QED
      BY <2>2, <3>1, <3>2, <1>3
  <2> QED
    BY <2>1, <2>2, <1>2
<1>8. (now - h[n+1]) * Rate = 0
  BY <1>1, <1>3, <1>4
<1> QED
  <2> HIDE DEF h, n
  <2>1. grants'[u] = h /\ Len(h) = n + 1 /\ h \in Seq(Nat)
    BY <1>1, <1>3 DEF h
  <2>2. (refilled[u] <= now)'
    BY <1>1
  <2>3. (u \notin known => grants[u] = <<>>)'
    BY <1>1
  <2>4. ASSUME NEW i \in 1..Len(h)
        PROVE  grants'[u][i] <= refilled'[u] /\ Covered(u, i)'
    <3>1. i \in 1..n+1
      BY <2>1
    <3> QED
      <4>1. /\ h[i] <= now
            /\ (n + 1 - i + 1) * Unit + (Refill(u) - Unit)
                 <= Max + (now - h[i]) * Rate
        BY <1>6, <3>1
      <4>2. /\ grants'[u] = h /\ Len(h) = n + 1
            /\ refilled'[u] = now /\ tokens'[u] = Refill(u) - Unit
        BY <1>1, <2>1
      <4>3. Len(grants'[u]) = n + 1
        BY <4>2
      <4>4. tokens'[u] = Refill(u) - Unit /\ (refilled[u] - grants[u][i])' = now - h[i]
        BY <4>2
      <4>5. Covered(u, i)'
        <5>1. n \in Int /\ Unit \in Int /\ Refill(u) \in Int /\ i \in Int
          BY <1>2, <1>4
        <5>2. Len(grants'[u]) - i + 1 = n + 1 - i + 1
          BY <4>3, <5>1
        <5> QED
          BY <4>1, <4>4, <5>1, <5>2 DEF Covered
      <4> QED
        BY <4>1, <4>2, <4>5
  <2>5. ASSUME NEW i \in 1..Len(h), NEW j \in 1..Len(h), i <= j
        PROVE  Window(u, i, j)'
    <3>1. i \in 1..n+1 /\ j \in 1..n+1
      BY <2>1
    <3> QED
      BY <1>7, <2>1, <2>5, <3>1 DEF Window
  <2>6. Saved(u)'
    BY <1>1, <1>4, <1>8, <2>1 DEF Saved
  <2> QED
    BY <2>1, <2>2, <2>3, <2>4, <2>5, <2>6 DEF BucketInv

\* A refusal keeps the account, and loses nothing of the refill.
LEMMA DenyBucket ==
  ASSUME RateInv, NEW u \in Users, deny(u)
  PROVE  BucketInv(u)'
<1> DEFINE g == grants[u]
           n == Len(g)
<1>1. /\ now' = now /\ now \in Nat /\ refilled[u] \in Nat /\ tokens[u] \in Nat
      /\ refilled'[u] = now /\ tokens'[u] = Refill(u)
      /\ grants'[u] = g /\ u \in known'
  BY MaxType DEF deny, RateInv, TypeOK
<1>2. g \in Seq(Nat) /\ n \in Nat /\ \A i \in 1..n : g[i] \in Nat
  BY LenProperties, ElementOfSeq DEF RateInv, BucketInv
<1>3. refilled[u] <= now /\ \A i \in 1..n : g[i] <= refilled[u]
  BY DEF RateInv, BucketInv
<1>4. ASSUME NEW i \in 1..n
      PROVE  grants'[u][i] <= refilled'[u] /\ Covered(u, i)'
  <2>1. (n - i + 1) * Unit + Refill(u) <= Max + (now - g[i]) * Rate
    BY CoveredRefilled
  <2>2. g[i] <= now
    BY <1>1, <1>2, <1>3
  <2> QED
    BY <1>1, <2>1, <2>2 DEF Covered
<1>5. ASSUME NEW i \in 1..n, NEW j \in 1..n, i <= j
      PROVE  Window(u, i, j)'
  BY <1>1, <1>5 DEF RateInv, BucketInv, Window
<1>6. Saved(u)'
  <2> SUFFICES ASSUME g # <<>>
               PROVE  Refill(u) >= (now - g[n]) * Rate
    BY <1>1 DEF Saved
  <2>1. Refill(u) # Max
    BY RefillProperties, MaxType, RateAssumption DEF deny
  <2> QED
    BY <2>1, SavedRefilled
<1> QED
  <2>1. (refilled[u] <= now)' /\ (u \notin known => grants[u] = <<>>)'
    BY <1>1
  <2> QED
    BY <1>1, <1>2, <1>4, <1>5, <1>6, <2>1 DEF BucketInv

LEMMA RateStep == RateInv /\ [Next]_vars => RateInv'
<1> SUFFICES ASSUME RateInv, [Next]_vars
             PROVE  RateInv'
  OBVIOUS
<1>1. CASE Tick
  <2>1. TypeOK' /\ grants' \in [Users -> Seq(Nat)]
    BY <1>1, RateAssumption DEF Tick, RateInv, TypeOK
  <2>2. ASSUME NEW u \in Users
        PROVE  BucketInv(u)'
    <3>1. BucketInv(u) /\ now \in Nat /\ refilled[u] \in Nat
      BY DEF RateInv, TypeOK
    <3>2. (refilled[u] <= now)'
      BY <1>1, <3>1 DEF Tick, BucketInv
    <3> QED
      BY <1>1, <3>1, <3>2 DEF Tick, BucketInv, Covered, Window, Saved
  <2> QED
    BY <2>1, <2>2 DEF RateInv
<1>2. ASSUME NEW u \in Users, allow(u)
      PROVE  RateInv'
  <2>1. Refill(u) - Unit \in 0..Max /\ now \in Nat
    BY <1>2, RefillProperties, RateAssumption, MaxType
       DEF allow, RateInv, TypeOK
  <2>2. TypeOK'
    BY <1>2, <2>1 DEF allow, RateInv, TypeOK
  <2>3. grants' \in [Users -> Seq(Nat)]
    BY <1>2, <2>1 DEF allow, RateInv
  <2>4. ASSUME NEW w \in Users
        PROVE  BucketInv(w)'
    <3>1. CASE w = u
      BY <1>2, <3>1, AllowBucket
    <3>2. CASE w # u
      BY <1>2, <3>2, OtherBucket DEF allow, RateInv, TypeOK
    <3> QED
      BY <3>1, <3>2
  <2> QED
    BY <2>2, <2>3, <2>4 DEF RateInv
<1>3. ASSUME NEW u \in Users, deny(u)
      PROVE  RateInv'
  <2>1. Refill(u) \in 0..Max
    BY RefillProperties
  <2>2. TypeOK' /\ grants' \in [Users -> Seq(Nat)]
    BY <1>3, <2>1 DEF deny, RateInv, TypeOK
  <2>3. ASSUME NEW w \in Users
        PROVE  BucketInv(w)'
    <3>1. CASE w = u
      BY <1>3, <3>1, DenyBucket
    <3>2. CASE w # u
      BY <1>3, <3>2, OtherBucket DEF deny, RateInv, TypeOK
    <3> QED
      BY <3>1, <3>2
  <2> QED
    BY <2>2, <2>3 DEF RateInv
<1>4. CASE UNCHANGED vars
  BY <1>4 DEF vars, RateInv, TypeOK, BucketInv, Covered, Window, Saved
<1> QED
  BY <1>1, <1>2, <1>3, <1>4 DEF Next

\* In every reachable state the account of every bucket is balanced.
THEOREM RateInvariance == Spec => []RateInv
BY RateInit, RateStep, PTL DEF Spec

\* No schedule of tries, pauses, tabs and refusals gets a user more than the
\* burst plus the refill in any window of time, and no bucket is ever overfull.
THEOREM WindowBounded == Spec => []WindowBound
<1>1. RateInv => WindowBound
  BY DEF RateInv, BucketInv, Window, WindowBound
<1> QED
  BY <1>1, RateInvariance, PTL

\* Once a token's worth of time has passed since the last allowed message, the
\* next one is allowed: refused tries never push the quota further away.
THEOREM QuotaAlwaysReturns == Spec => []QuotaReturns
<1>1. ASSUME RateInv
      PROVE  QuotaReturns
  <2> SUFFICES ASSUME NEW u \in Users, grants[u] # <<>>,
                      (now - grants[u][Len(grants[u])]) * Rate >= Unit
               PROVE  Refill(u) >= Unit
    BY DEF QuotaReturns
  <2>1. now - grants[u][Len(grants[u])] \in Int /\ Rate \in Int
    BY <1>1, SavedRefilled, RateAssumption
  <2>2. (now - grants[u][Len(grants[u])]) * Rate \in Int
    BY <2>1
  <2>3. Refill(u) \in Int /\ Unit \in Int /\ Max \in Int /\ Unit <= Max
    BY <1>1, RefillProperties, MaxType, RateAssumption
  <2>4. \/ Refill(u) = Max
        \/ Refill(u) >= (now - grants[u][Len(grants[u])]) * Rate
    BY <1>1, SavedRefilled
  <2> QED
    BY <2>2, <2>3, <2>4
<1> QED
  BY <1>1, RateInvariance, PTL

=============================================================================
