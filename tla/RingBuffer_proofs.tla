-------------------------- MODULE RingBuffer_proofs --------------------------
(***************************************************************************)
(* Proofs about RingBuffer, for every capacity and every length of write.  *)
(* The invariant says at which index of the array each byte of the tail    *)
(* lies; the proof follows it through the three ways Write stores bytes.   *)
(***************************************************************************)
EXTENDS RingBuffer, SequenceTheorems, TLAPS

\* Where the i-th byte of the tail lies when the next write goes to h.
Index(h, f, i) ==
  IF f THEN (IF i <= Size - h THEN h + i - 1 ELSE i - 1 - (Size - h))
  ELSE i - 1

\* How many of m bytes the buffer has to forget.
Excess(m) == IF m <= Size THEN 0 ELSE m - Size

RingInv ==
  /\ TypeOK
  /\ last \in Seq(Bytes)
  /\ Len(last) = IF full THEN Size ELSE head
  /\ \A i \in 1..Len(last) : last[i] = buf[Index(head, full, i)]

-----------------------------------------------------------------------------
(* The operators. *)

\* copy changes exactly the indices that q covers.
Copied(f, D, b, at, q) ==
  /\ f = [x \in D |-> f[x]]
  /\ \A x \in D : f[x] = IF at <= x /\ x < at + Len(q) THEN q[x-at+1] ELSE b[x]

LEMMA CopyValue ==
  ASSUME NEW D \in SUBSET Int, NEW b, DOMAIN b = D,
         NEW at \in Int, NEW q, Len(q) \in Int
  PROVE  Copied(Copy(b, at, q), D, b, at, q)
<1>1. \A x \in D : x \in at..at+Len(q)-1 <=> at <= x /\ x < at + Len(q)
  OBVIOUS
<1> QED
  BY <1>1 DEF Copy, Copied

\* A stretch of a sequence.
LEMMA PieceValue ==
  ASSUME NEW S, NEW s \in Seq(S), NEW m \in Int, NEW n \in Int,
         1 <= m, m <= n + 1, n <= Len(s)
  PROVE  /\ SubSeq(s, m, n) \in Seq(S) /\ Len(SubSeq(s, m, n)) = n - m + 1
         /\ \A i \in 1..n-m+1 : /\ SubSeq(s, m, n)[i] = s[m+i-1]
                                /\ SubSeq(s, m, n)[i] \in S
<1>1. Len(s) \in Nat /\ \A i \in 1..Len(s) : s[i] \in S
  BY LenProperties, ElementOfSeq
<1>2. \A i \in m..n : s[i] \in S
  BY <1>1
<1>3. /\ SubSeq(s, m, n) \in Seq(S)
      /\ Len(SubSeq(s, m, n)) = IF m <= n THEN n-m+1 ELSE 0
      /\ \A i \in 1..n-m+1 : SubSeq(s, m, n)[i] = s[m+i-1]
  BY <1>2, SubSeqProperties
<1>4. \A i \in 1..n-m+1 : m+i-1 \in m..n
  OBVIOUS
<1> QED
  BY <1>2, <1>3, <1>4

\* LastN keeps the last Size elements.
LEMMA LastNValue ==
  ASSUME NEW s \in Seq(Bytes), NEW N \in Nat, N = Len(s),
         NEW d \in Nat, d = Excess(N)
  PROVE  /\ LastN(s) \in Seq(Bytes) /\ Len(LastN(s)) = N - d
         /\ \A i \in 1..N-d : LastN(s)[i] = s[i+d]
<1>1. Size \in Nat \ {0}
  BY SizeAssumption
<1>2. CASE N <= Size
  <2>1. d = 0 /\ LastN(s) = s
    BY <1>1, <1>2 DEF LastN, Excess
  <2> QED
    BY <2>1
<1>3. CASE N > Size
  <2>1. d = N - Size /\ LastN(s) = SubSeq(s, d + 1, N)
    <3>1. d = N - Size /\ N - Size + 1 = d + 1
      BY <1>1, <1>3 DEF Excess
    <3>2. LastN(s) = SubSeq(s, N - Size + 1, N)
      BY <1>1, <1>3 DEF LastN
    <3> QED
      BY <3>1, <3>2
  <2>2. d + 1 \in Int /\ 1 <= d + 1 /\ d + 1 <= N + 1 /\ N \in Int /\ N <= Len(s)
    BY <1>1, <1>3, <2>1
  <2>3. /\ LastN(s) \in Seq(Bytes) /\ Len(LastN(s)) = N - (d + 1) + 1
        /\ \A i \in 1..N-(d+1)+1 : LastN(s)[i] = s[(d+1)+i-1]
    BY <2>1, <2>2, PieceValue
  <2>4. ASSUME NEW i \in 1..N-d
        PROVE  LastN(s)[i] = s[i+d]
    <3>1. i \in 1..N-(d+1)+1 /\ (d+1)+i-1 = i+d
      OBVIOUS
    <3>2. LastN(s)[i] = s[(d+1)+i-1]
      BY <2>3, <3>1
    <3> QED
      BY <3>1, <3>2
  <2> QED
    BY <2>3, <2>4
<1> QED
  BY <1>1, <1>2, <1>3

\* A short write goes to the indices from head on, around the end.
LEMMA PutValue ==
  ASSUME TypeOK, NEW p \in Seq(Bytes), Len(p) < Size
  PROVE  /\ Put(p) \in [0..Size-1 -> Bytes \cup {Zero}]
         /\ \A x \in 0..Size-1 : Put(p)[x] =
              IF head <= x /\ x < head + Len(p) THEN p[x-head+1]
              ELSE IF x < head + Len(p) - Size THEN p[x+Size-head+1]
              ELSE buf[x]
<1> DEFINE D == 0..Size-1
           k == Size - head
           n == Len(p)
<1>1. /\ n \in Nat /\ Size \in Nat \ {0} /\ head \in 0..Size-1 /\ k \in 1..Size
      /\ D \in SUBSET Int /\ DOMAIN buf = D
  BY LenProperties, SizeAssumption DEF TypeOK
<1>2. CASE head + n <= Size
  <2>1. Put(p) = Copy(buf, head, p)
    BY <1>2 DEF Put
  <2>2. /\ Put(p) = [x \in D |-> Put(p)[x]]
        /\ \A x \in D : Put(p)[x] = IF head <= x /\ x < head + n
                                    THEN p[x-head+1] ELSE buf[x]
    <3>1. D \in SUBSET Int /\ DOMAIN buf = D /\ head \in Int /\ Len(p) \in Int
      BY <1>1
    <3> HIDE DEF D
    <3>2. Copied(Put(p), D, buf, head, p)
      BY <2>1, <3>1, CopyValue
    <3> QED
      BY <3>2 DEF Copied
  <2>3. \A x \in D : ~(x < head + n - Size)
    BY <1>1, <1>2
  <2>4. \A x \in D : Put(p)[x] \in Bytes \cup {Zero}
    <3> TAKE x \in D
    <3>1. CASE head <= x /\ x < head + n
      <4>1. x-head+1 \in 1..n
        BY <1>1, <3>1
      <4> QED
        BY <2>2, <3>1, <4>1, ElementOfSeq
    <3>2. CASE ~(head <= x /\ x < head + n)
      BY <2>2, <3>2 DEF TypeOK
    <3> QED
      BY <3>1, <3>2
  <2> QED
    BY <2>2, <2>3, <2>4
<1>3. CASE head + n > Size
  <2> DEFINE q == SubSeq(p, 1, k)
             r == SubSeq(p, k+1, n)
             b == Copy(buf, head, q)
             c == Copy(b, 0, r)
  <2>1. \A i \in 1..n : p[i] \in Bytes
    BY ElementOfSeq
  <2>2. Len(q) = k /\ \A i \in 1..k : q[i] = p[i]
    <3>1. \A i \in 1..k : p[i] \in Bytes
      BY <1>1, <1>3, <2>1
    <3>2. /\ Len(q) = IF 1 <= k THEN k - 1 + 1 ELSE 0
          /\ \A i \in 1..k-1+1 : q[i] = p[1+i-1]
      BY <1>1, <3>1, SubSeqProperties
    <3> QED
      BY <1>1, <3>2
  <2>3. Len(r) = n - k /\ \A i \in 1..n-k : r[i] = p[k+i]
    <3>1. \A i \in k+1..n : p[i] \in Bytes
      BY <1>1, <1>3, <2>1
    <3>2. /\ Len(r) = IF k+1 <= n THEN n - (k+1) + 1 ELSE 0
          /\ \A i \in 1..n-(k+1)+1 : r[i] = p[k+1+i-1]
      BY <1>1, <3>1, SubSeqProperties
    <3>3. k + 1 <= n /\ n - (k+1) + 1 = n - k
      BY <1>1, <1>3
    <3>4. \A i \in 1..n-k : k+1+i-1 = k+i
      BY <1>1
    <3> QED
      BY ONLY <3>2, <3>3, <3>4
  <2>4. Put(p) = c
    BY <1>1, <1>3 DEF Put
  <2> HIDE DEF D, q, r, b, c
  <2>5. /\ b = [x \in D |-> b[x]]
        /\ \A x \in D : b[x] = IF head <= x /\ x < head + Len(q)
                               THEN q[x-head+1] ELSE buf[x]
    <3>1. /\ D \in SUBSET Int /\ DOMAIN buf = D
          /\ head \in Int /\ Len(q) \in Int
      BY <1>1, <2>2
    <3> QED
      <4>1. Copied(b, D, buf, head, q)
        BY <3>1, CopyValue DEF b
      <4> QED
        BY <4>1 DEF Copied
  <2>6. /\ c = [x \in D |-> c[x]]
        /\ \A x \in D : c[x] = IF 0 <= x /\ x < 0 + Len(r)
                               THEN r[x-0+1] ELSE b[x]
    <3>1. DOMAIN b = D
      BY <2>5
    <3> QED
      <4>1. D \in SUBSET Int /\ Len(r) \in Int
        BY <1>1, <2>3 DEF D
      <4>2. Copied(c, D, b, 0, r)
        BY <3>1, <4>1, CopyValue DEF c
      <4> QED
        BY <4>2 DEF Copied
  <2>7. ASSUME NEW x \in D
        PROVE  /\ c[x] = IF head <= x /\ x < head + n THEN p[x-head+1]
                         ELSE IF x < head + n - Size THEN p[x+Size-head+1]
                         ELSE buf[x]
               /\ c[x] \in Bytes \cup {Zero}
    <3>0. x \in Int /\ 0 <= x /\ x < Size
      BY <1>1 DEF D
    <3>1. CASE x < n - k
      <4>1. c[x] = r[x+1]
        <5>1. 0 <= x /\ x < 0 + Len(r) /\ x - 0 + 1 = x + 1
          BY <1>1, <2>3, <3>0, <3>1
        <5> QED
          BY <2>6, <5>1
      <4>2. r[x+1] = p[k+(x+1)] /\ k+(x+1) \in 1..n
        BY <1>1, <2>3, <3>0, <3>1
      <4>3. k+(x+1) = x+Size-head+1
        BY <1>1, <3>0
      <4>4. ~(head <= x) /\ x < head + n - Size
        BY <1>1, <3>0, <3>1
      <4> QED
        BY <2>1, <4>1, <4>2, <4>3, <4>4
    <3>2. CASE n - k <= x /\ x < head
      <4>1. c[x] = b[x]
        BY <1>1, <2>3, <2>6, <3>0, <3>2
      <4>2. b[x] = buf[x]
        BY <1>1, <2>5, <3>0, <3>2
      <4>3. ~(head <= x) /\ ~(x < head + n - Size)
        BY <1>1, <3>0, <3>2
      <4>4. buf[x] \in Bytes \cup {Zero}
        BY DEF TypeOK, D
      <4> QED
        BY <4>1, <4>2, <4>3, <4>4
    <3>3. CASE head <= x
      <4>1. c[x] = b[x]
        BY <1>1, <2>3, <2>6, <3>0, <3>3
      <4>2. b[x] = q[x-head+1]
        BY <1>1, <2>2, <2>5, <3>0, <3>3
      <4>3. x-head+1 \in 1..k /\ x-head+1 \in 1..n /\ x < head + n
        BY <1>1, <1>3, <3>0, <3>3
      <4> QED
        BY <2>1, <2>2, <3>3, <4>1, <4>2, <4>3
    <3> QED
      BY <1>1, <3>0, <3>1, <3>2, <3>3
  <2> QED
    BY <2>4, <2>6, <2>7 DEF D
<1> QED
  BY <1>1, <1>2, <1>3

\* The tail t after a write of p, byte by byte, when d of N bytes are
\* forgotten: first what is left of the old tail s, then p.
Follows(t, s, p, N, d) ==
  /\ t \in Seq(Bytes) /\ Len(t) = N - d
  /\ \A i \in 1..N-d : i + d <= Len(s) => t[i] = s[i+d]
  /\ \A i \in 1..N-d : ~(i + d <= Len(s)) => t[i] = p[i+d-Len(s)]

LEMMA TailValue ==
  ASSUME NEW s \in Seq(Bytes), NEW p \in Seq(Bytes), NEW t, t = LastN(s \o p),
         NEW N \in Nat, N = Len(s) + Len(p), NEW d \in Nat, d = Excess(N)
  PROVE  Follows(t, s, p, N, d)
<1>1. PICK c : c = s \o p
  OBVIOUS
<1>2. /\ c \in Seq(Bytes) /\ Len(c) = N
      /\ \A i \in 1..N : c[i] = IF i <= Len(s) THEN s[i] ELSE p[i-Len(s)]
  BY <1>1, ConcatProperties
<1>3. /\ LastN(c) \in Seq(Bytes) /\ Len(LastN(c)) = N - d
      /\ \A i \in 1..N-d : LastN(c)[i] = c[i+d]
  BY <1>2, LastNValue
<1>4. t = LastN(c)
  BY <1>1
<1>5. ASSUME NEW i \in 1..N-d
      PROVE  /\ i + d <= Len(s) => t[i] = s[i+d]
             /\ ~(i + d <= Len(s)) => t[i] = p[i+d-Len(s)]
  <2>1. i + d \in 1..N
    OBVIOUS
  <2>2. /\ i + d <= Len(s) => c[i+d] = s[i+d]
        /\ ~(i + d <= Len(s)) => c[i+d] = p[i+d-Len(s)]
    <3>1. PICK j \in 1..N : j = i + d
      BY <2>1
    <3>2. c[j] = IF j <= Len(s) THEN s[j] ELSE p[j-Len(s)]
      BY <1>2
    <3>3. c[i+d] = IF i + d <= Len(s) THEN s[i+d] ELSE p[i+d-Len(s)]
      BY ONLY <3>1, <3>2
    <3> QED
      BY <3>3, Zenon
  <2>3. t[i] = c[i+d]
    BY <1>3, <1>4
  <2> QED
    BY <2>2, <2>3, Zenon
<1> QED
  BY <1>3, <1>4, <1>5, Zenon DEF Follows

-----------------------------------------------------------------------------
(* The invariant. *)

LEMMA RingInit == Init => RingInv
<1> SUFFICES ASSUME Init
             PROVE  RingInv
  OBVIOUS
<1>1. TypeOK
  <2>1. full \in BOOLEAN
    BY DEF Init
  <2>2. head \in 0..Size-1
    BY SizeAssumption DEF Init
  <2> QED
    BY <2>1, <2>2 DEF Init, TypeOK
<1>2. last \in Seq(Bytes) /\ Len(last) = 0
  BY DEF Init
<1> QED
  BY <1>1, <1>2 DEF Init, RingInv

\* The tail after Write(p): d bytes of the N are forgotten.
LEMMA TailStep ==
  ASSUME RingInv, NEW p \in Seq(Bytes), Write(p),
         NEW N \in Nat, N = Len(last) + Len(p), NEW d \in Nat, d = Excess(N)
  PROVE  /\ last' \in Seq(Bytes) /\ Len(last') = N - d
         /\ \A i \in 1..N-d : i + d <= Len(last) => last'[i] = last[i+d]
         /\ \A i \in 1..N-d : ~(i + d <= Len(last)) =>
              last'[i] = p[i+d-Len(last)]
<1>1. last \in Seq(Bytes)
  BY DEF RingInv
<1>2. PICK t : t = last'
  OBVIOUS
<1>3. t = LastN(last \o p)
  BY <1>2 DEF Write
<1>4. Follows(t, last, p, N, d)
  BY <1>1, <1>3, TailValue
<1> QED
  BY <1>2, <1>4 DEF Follows

\* A write of at least Size bytes replaces the whole array.
LEMMA LongWrite ==
  ASSUME RingInv, NEW p \in Seq(Bytes), Len(p) >= Size, Write(p)
  PROVE  RingInv'
<1> DEFINE n == Len(p)
           L == Len(last)
           q == SubSeq(p, n-Size+1, n)
<1>1. /\ n \in Nat /\ L \in Nat /\ Size \in Nat \ {0} /\ n >= Size
      /\ last \in Seq(Bytes) /\ buf \in [0..Size-1 -> Bytes \cup {Zero}]
  BY LenProperties, SizeAssumption DEF RingInv, TypeOK
<1>2. /\ buf' = Copy(buf, 0, q) /\ head' = 0 /\ full' = TRUE
      /\ last' = LastN(last \o p)
  BY DEF Write
<1>3. Len(q) = Size /\ \A i \in 1..Size : q[i] = p[n-Size+i] /\ q[i] \in Bytes
  <2> DEFINE m == n - Size + 1
  <2>1. m \in Int /\ m = n - Size + 1 /\ q = SubSeq(p, m, n)
    BY <1>1
  <2> HIDE DEF m
  <2>2. 1 <= m /\ m <= n + 1 /\ n \in Int /\ n - m + 1 = Size /\ n <= Len(p)
    BY <1>1, <2>1
  <2>3. /\ Len(SubSeq(p, m, n)) = n - m + 1
        /\ \A i \in 1..n-m+1 : /\ SubSeq(p, m, n)[i] = p[m+i-1]
                               /\ SubSeq(p, m, n)[i] \in Bytes
    BY <2>1, <2>2, PieceValue
  <2>4. q = SubSeq(p, m, n)
    BY <2>1
  <2> HIDE DEF q
  <2>5. ASSUME NEW i \in 1..Size
        PROVE  q[i] = p[n-Size+i] /\ q[i] \in Bytes
    <3>1. i \in 1..n-m+1 /\ m+i-1 = n-Size+i
      BY <1>1, <2>1, <2>2
    <3>2. q[i] = p[m+i-1] /\ q[i] \in Bytes
      BY <2>3, <2>4, <3>1
    <3> QED
      BY <3>1, <3>2
  <2> QED
    BY <2>2, <2>3, <2>4, <2>5
<1> HIDE DEF q
<1>4. /\ buf' = [x \in 0..Size-1 |-> buf'[x]]
      /\ \A x \in 0..Size-1 : buf'[x] = q[x+1]
  <2>1. \A x \in 0..Size-1 : x \in 0..0+Len(q)-1 /\ x - 0 + 1 = x + 1
    BY <1>1, <1>3
  <2>2. buf' = [x \in 0..Size-1 |-> q[x+1]]
    BY <1>1, <1>2, <2>1 DEF Copy
  <2> QED
    BY <2>2
<1>5. \A x \in 0..Size-1 : x + 1 \in 1..Size
  BY <1>1
<1>6. TypeOK'
  <2>1. \A x \in 0..Size-1 : buf'[x] \in Bytes
    BY <1>3, <1>4, <1>5
  <2>2. buf' \in [0..Size-1 -> Bytes \cup {Zero}]
    BY <1>4, <2>1
  <2> QED
    BY <1>1, <1>2, <2>2 DEF TypeOK
<1>7. /\ last' \in Seq(Bytes) /\ Len(last') = Size
      /\ \A i \in 1..Size : last'[i] = p[n-Size+i]
  <2>1. PICK N \in Nat : N = Len(last) + Len(p)
    BY <1>1
  <2>2. PICK d \in Nat : d = Excess(N) /\ d = N - Size /\ N - d = Size
    BY <1>1, <2>1 DEF Excess
  <2>3. /\ last' \in Seq(Bytes) /\ Len(last') = N - d
        /\ \A i \in 1..N-d : ~(i + d <= Len(last)) =>
             last'[i] = p[i+d-Len(last)]
    BY <2>1, <2>2, TailStep
  <2>4. ASSUME NEW i \in 1..Size
        PROVE  last'[i] = p[n-Size+i]
    <3>1. L \in Int /\ n \in Int /\ Size \in Int /\ Size <= n
      BY <1>1
    <3> HIDE DEF L, n
    <3>2. N = L + n /\ d = N - Size
      BY <2>1, <2>2 DEF L, n
    <3>3. ~(i + d <= L) /\ i + d - L = n - Size + i
      BY <3>1, <3>2
    <3>4. last'[i] = p[i+d-L]
      BY <2>2, <2>3, <3>3 DEF L
    <3> QED
      BY <3>3, <3>4
  <2> QED
    BY <2>2, <2>3, <2>4
<1>8. ASSUME NEW i \in 1..Size
      PROVE  last'[i] = buf'[Index(0, TRUE, i)]
  <2>1. Index(0, TRUE, i) = i - 1
    BY <1>1 DEF Index
  <2>2. i - 1 \in 0..Size-1 /\ (i - 1) + 1 = i
    BY <1>1
  <2> QED
    BY <1>3, <1>4, <1>7, <2>1, <2>2
<1> QED
  BY <1>2, <1>6, <1>7, <1>8 DEF RingInv

\* A shorter one goes around the array.
LEMMA ShortWrite ==
  ASSUME RingInv, NEW p \in Seq(Bytes), Len(p) < Size, Write(p)
  PROVE  RingInv'
<1>1. PICK n \in Nat : n = Len(p) /\ n < Size
  BY LenProperties
<1>2. PICK L \in Nat : L = Len(last)
  BY LenProperties DEF RingInv
<1>3. PICK h \in Nat : h = head
  BY DEF RingInv, TypeOK
<1>4. Size \in Nat \ {0} /\ h < Size /\ L = IF full THEN Size ELSE h
  BY <1>2, <1>3, SizeAssumption DEF RingInv, TypeOK
<1>5. /\ head' = IF h + n >= Size THEN h + n - Size ELSE h + n
      /\ full \/ h + n >= Size => full' = TRUE
      /\ ~full /\ ~(h + n >= Size) => full' = FALSE
      /\ buf' = Put(p)
  <2>1. ~(Len(p) >= Size)
    BY <1>1, <1>4
  <2>2. Advance(p)
    BY <2>1 DEF Write
  <2>3. head + Len(p) = h + n
    BY <1>1, <1>3
  <2>4. head' = IF h + n >= Size THEN h + n - Size ELSE h + n
    BY <2>2, <1>1, <1>3, <1>4 DEF Advance
  <2>5. /\ full \/ h + n >= Size => full' = TRUE
        /\ ~full /\ ~(h + n >= Size) => full' = FALSE
    BY <2>2, <2>3 DEF Advance
  <2>6. buf' = Put(p)
    BY <2>2 DEF Advance
  <2> QED
    BY <2>4, <2>5, <2>6, Zenon
<1>6. /\ Put(p) \in [0..Size-1 -> Bytes \cup {Zero}]
      /\ \A x \in 0..Size-1 :
           /\ h <= x /\ x < h + n => Put(p)[x] = p[x-h+1]
           /\ x < h + n - Size => Put(p)[x] = p[x+Size-h+1]
           /\ ~(h <= x /\ x < h + n) /\ ~(x < h + n - Size) => Put(p)[x] = buf[x]
  <2>1. /\ Put(p) \in [0..Size-1 -> Bytes \cup {Zero}]
        /\ \A x \in 0..Size-1 : Put(p)[x] =
             IF h <= x /\ x < h + n THEN p[x-h+1]
             ELSE IF x < h + n - Size THEN p[x+Size-h+1]
             ELSE buf[x]
    BY <1>1, <1>3, PutValue DEF RingInv
  <2>2. \A x \in 0..Size-1 : x < h + n - Size => ~(h <= x)
    BY <1>1, <1>4
  <2> QED
    BY <2>1, <2>2
<1>7. TypeOK'
  <2>1. head' \in 0..Size-1
    BY <1>1, <1>4, <1>5
  <2>2. full' \in BOOLEAN
    BY <1>5, Zenon
  <2> QED
    BY <1>5, <1>6, <2>1, <2>2 DEF TypeOK
<1>8. PICK N \in Nat : N = L + n
  OBVIOUS
<1>9. PICK d \in Nat : d = Excess(N)
  <2>1. Excess(N) \in Nat
    BY <1>4 DEF Excess
  <2> QED
    BY <2>1
<1>10. /\ last' \in Seq(Bytes) /\ Len(last') = N - d
       /\ \A i \in 1..N-d : i + d <= L => last'[i] = last[i+d]
       /\ \A i \in 1..N-d : ~(i + d <= L) => last'[i] = p[i+d-L]
  <2>1. N = Len(last) + Len(p)
    BY <1>1, <1>2, <1>8
  <2>2. /\ last' \in Seq(Bytes) /\ Len(last') = N - d
        /\ \A i \in 1..N-d : i + d <= Len(last) => last'[i] = last[i+d]
        /\ \A i \in 1..N-d : ~(i + d <= Len(last)) =>
             last'[i] = p[i+d-Len(last)]
    BY <1>9, <2>1, TailStep
  <2> QED
    BY <1>2, <2>2
<1>11. \A j \in 1..L : last[j] = buf[Index(h, full, j)]
  BY <1>2, <1>3 DEF RingInv
<1>12. d = IF N <= Size THEN 0 ELSE N - Size
  BY <1>9 DEF Excess
<1> SUFFICES /\ Len(last') = IF full' THEN Size ELSE head'
             /\ \A i \in 1..Len(last') :
                  last'[i] = buf'[Index(head', full', i)]
  BY <1>7, <1>10 DEF RingInv
<1>13. CASE ~full /\ h + n < Size
  <2>1. L = h /\ N = h + n /\ d = 0 /\ head' = h + n /\ full' = FALSE
    <3>1. ~(h + n >= Size)
      BY <1>4, <1>13
    <3>2. L = h /\ full' = FALSE /\ head' = h + n
      BY <1>4, <1>5, <1>13, <3>1, Zenon
    <3> QED
      BY <1>4, <1>8, <1>12, <3>1, <3>2
  <2>2. ASSUME NEW i \in 1..h+n
        PROVE  last'[i] = Put(p)[i-1]
    <3>1. i - 1 \in 0..Size-1 /\ i \in 1..N-d /\ i + d = i
      BY <1>4, <1>13, <2>1
    <3>2. CASE i <= h
      <4>1. last'[i] = last[i] /\ last[i] = buf[i-1]
        BY <1>10, <1>11, <1>13, <2>1, <3>1, <3>2 DEF Index
      <4>2. ~(h <= i - 1) /\ ~(i - 1 < h + n - Size)
        BY <1>4, <1>13, <3>1, <3>2
      <4> QED
        BY <1>6, <3>1, <4>1, <4>2
    <3>3. CASE ~(i <= h)
      <4>1. h <= i - 1 /\ i - 1 < h + n /\ (i - 1) - h + 1 = i - h
        BY <3>3
      <4>2. last'[i] = p[i-h]
        BY <1>10, <2>1, <3>1, <3>3
      <4>3. Put(p)[i-1] = p[(i-1)-h+1]
        BY <1>6, <3>1, <4>1
      <4> QED
        BY <4>1, <4>2, <4>3
    <3> QED
      BY <3>2, <3>3
  <2>3. Len(last') = h + n
    BY <1>10, <2>1
  <2> QED
    BY <1>5, <2>1, <2>2, <2>3 DEF Index
<1>14. CASE ~full /\ h + n >= Size
  <2>1. /\ L = h /\ N = h + n /\ d = h + n - Size /\ head' = d /\ full' = TRUE
        /\ N - d = Size /\ d < h
    <3>1. L = h /\ full' = TRUE /\ head' = h + n - Size
      BY <1>4, <1>5, <1>14, Zenon
    <3>2. d = h + n - Size
      BY <1>4, <1>8, <1>12, <1>14, <3>1
    <3> QED
      BY <1>1, <1>4, <1>8, <3>1, <3>2
  <2>2. ASSUME NEW i \in 1..Size
        PROVE  last'[i] = Put(p)[Index(d, TRUE, i)]
    <3>1. i \in 1..N-d
      BY <2>1
    <3>2. CASE i + d <= h
      <4>1. Index(d, TRUE, i) = i + d - 1 /\ i + d - 1 \in 0..Size-1
        BY <1>4, <2>1, <3>2 DEF Index
      <4>2. last'[i] = last[i+d] /\ last[i+d] = buf[i+d-1]
        <5>1. i + d \in 1..L /\ Index(h, full, i+d) = i + d - 1
          <6>1. i + d \in 1..L
            BY <2>1, <3>2
          <6>2. Index(h, full, i+d) = i + d - 1
            BY <1>14 DEF Index
          <6> QED
            BY <6>1, <6>2
        <5> QED
          BY <1>10, <1>11, <2>1, <3>1, <3>2, <5>1
      <4>3. ~(h <= i + d - 1) /\ ~(i + d - 1 < h + n - Size)
        BY <1>4, <2>1, <3>2
      <4> QED
        BY <1>6, <4>1, <4>2, <4>3
    <3>3. CASE ~(i + d <= h)
      <4>1. last'[i] = p[i+d-h]
        BY <1>10, <2>1, <3>1, <3>3
      <4>2. CASE i <= Size - d
        <5>1. /\ Index(d, TRUE, i) = d + i - 1 /\ d + i - 1 \in 0..Size-1
              /\ h <= d + i - 1 /\ d + i - 1 < h + n
              /\ (d + i - 1) - h + 1 = i + d - h
          BY <1>4, <2>1, <3>3, <4>2 DEF Index
        <5>2. Put(p)[d+i-1] = p[(d+i-1)-h+1]
          BY <1>6, <5>1
        <5> QED
          BY <4>1, <5>1, <5>2
      <4>3. CASE ~(i <= Size - d)
        <5> DEFINE x == i - 1 - (Size - d)
        <5>1. /\ Index(d, TRUE, i) = x /\ x \in 0..Size-1
              /\ x < h + n - Size /\ x + Size - h + 1 = i + d - h
          BY <1>1, <1>4, <2>1, <3>3, <4>3 DEF Index
        <5> HIDE DEF x
        <5>2. Put(p)[x] = p[x+Size-h+1]
          BY <1>6, <5>1
        <5> QED
          BY <4>1, <5>1, <5>2
      <4> QED
        BY <4>2, <4>3
    <3> QED
      BY <3>2, <3>3
  <2>3. Len(last') = Size
    BY <1>10, <2>1
  <2> QED
    BY <1>5, <2>1, <2>2, <2>3
<1>15. CASE full
  <2>1. L = Size /\ N = Size + n /\ d = n /\ full' = TRUE /\ N - d = Size
    <3>1. L = Size /\ full' = TRUE
      BY <1>4, <1>5, <1>15, Zenon
    <3> QED
      BY <1>1, <1>4, <1>8, <1>12, <3>1
  <2>2. ASSUME NEW i \in 1..Size
        PROVE  last'[i] = Put(p)[Index(head', TRUE, i)]
    <3>1. i \in 1..N-d
      BY <2>1
    <3> DEFINE x == Index(head', TRUE, i)
    <3>2. CASE i + n <= Size
      <4>1. last'[i] = last[i+n] /\ last[i+n] = buf[Index(h, TRUE, i+n)]
        <5>1. i + n \in 1..L /\ Index(h, full, i+n) = Index(h, TRUE, i+n)
          BY <1>4, <1>15, <2>1, <3>2 DEF Index
        <5>2. last'[i] = last[i+n]
          BY <1>10, <2>1, <3>1, <3>2
        <5> QED
          BY <1>11, <5>1, <5>2
      <4>2. /\ x \in 0..Size-1 /\ x = Index(h, TRUE, i+n)
            /\ ~(h <= x /\ x < h + n) /\ ~(x < h + n - Size)
        BY <1>1, <1>4, <1>5, <3>2 DEF Index
      <4> HIDE DEF x
      <4>3. Put(p)[x] = buf[x]
        BY <1>6, <4>2
      <4> QED
        BY <4>1, <4>2, <4>3 DEF x
    <3>3. CASE ~(i + n <= Size)
      <4>1. last'[i] = p[i+n-Size]
        BY <1>10, <2>1, <3>1, <3>3
      <4>2. /\ x \in 0..Size-1
            /\ \/ h <= x /\ x < h + n /\ x - h + 1 = i + n - Size
               \/ x < h + n - Size /\ x + Size - h + 1 = i + n - Size
        BY <1>1, <1>4, <1>5, <3>3 DEF Index
      <4> HIDE DEF x
      <4>3. \/ Put(p)[x] = p[x-h+1] /\ x - h + 1 = i + n - Size
            \/ Put(p)[x] = p[x+Size-h+1] /\ x + Size - h + 1 = i + n - Size
        BY <1>6, <4>2
      <4> QED
        BY <4>1, <4>3 DEF x
    <3> QED
      BY <3>2, <3>3
  <2>3. Len(last') = Size
    BY <1>10, <2>1
  <2> QED
    BY <1>5, <2>1, <2>2, <2>3
<1> QED
  BY <1>4, <1>13, <1>14, <1>15

LEMMA RingStep == RingInv /\ [Next]_vars => RingInv'
<1> SUFFICES ASSUME RingInv, [Next]_vars
             PROVE  RingInv'
  OBVIOUS
<1>1. ASSUME NEW n \in 0..MaxWrite, NEW p \in [1..n -> Bytes], Write(p)
      PROVE  RingInv'
  <2>1. p \in Seq(Bytes)
    BY SizeAssumption
  <2>2. Len(p) \in Nat /\ Size \in Nat
    BY <2>1, LenProperties, SizeAssumption
  <2>3. CASE Len(p) >= Size
    BY <1>1, <2>1, <2>3, LongWrite
  <2>4. CASE Len(p) < Size
    BY <1>1, <2>1, <2>4, ShortWrite
  <2> QED
    BY <2>2, <2>3, <2>4
<1>2. CASE UNCHANGED vars
  BY <1>2 DEF vars, RingInv, TypeOK
<1> QED
  BY <1>1, <1>2 DEF Next

\* In every reachable state each byte of the tail is at its index.
THEOREM RingInvariance == Spec => []RingInv
BY RingInit, RingStep, PTL DEF Spec

\* Snapshot is the tail of everything written, in order, for every capacity and
\* every sequence of writes, of whatever lengths.
THEOREM SnapshotCorrect == Spec => []SnapshotIsTail
<1>1. ASSUME RingInv
      PROVE  SnapshotIsTail
  <2>1. TypeOK /\ last \in Seq(Bytes)
    BY <1>1 DEF RingInv
  <2>2. last = [i \in 1..Len(last) |-> last[i]]
    BY <2>1, LenProperties
  <2>3. CASE full
    <3>1. Len(last) = Size
      BY <1>1, <2>3 DEF RingInv
    <3>2. \A i \in 1..Size : last[i] = buf[(IF i <= Size - head
                                            THEN head + i - 1
                                            ELSE i - 1 - (Size - head))]
      BY <1>1, <2>3, <3>1 DEF RingInv, Index
    <3> QED
      BY <2>1, <2>2, <2>3, <3>1, <3>2 DEF Snapshot, SnapshotIsTail
  <2>4. CASE ~full
    <3>1. Len(last) = head
      BY <1>1, <2>4 DEF RingInv
    <3>2. \A i \in 1..head : last[i] = buf[i-1]
      BY <1>1, <2>4, <3>1 DEF RingInv, Index
    <3> QED
      BY <2>1, <2>2, <2>4, <3>1, <3>2 DEF Snapshot, SnapshotIsTail
  <2> QED
    BY <2>3, <2>4
<1> QED
  BY <1>1, RingInvariance, PTL

=============================================================================
