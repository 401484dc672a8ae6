---------------------------- MODULE RedactProofs -----------------------------
(***************************************************************************)
(* Theorems about redaction, for any letters, values, messages, URLs and   *)
(* headers: no registered value of the minimal length is left in an error, *)
(* and the masks never form one.                                           *)
(***************************************************************************)
EXTENDS Redact, SequenceTheorems, FiniteSetTheorems, WellFoundedInduction, TLAPS
-----------------------------------------------------------------------------
(* Numbers, sequences and their parts.                                     *)

(* Every nonempty set of naturals has a least element.                     *)
LEMMA LeastNatural ==
  ASSUME NEW T, T \subseteq Nat, T # {}
  PROVE  \E m \in T : \A k \in T : m <= k
  <1> DEFINE R == {ss \in Nat \X Nat : ss[1] < ss[2]}
  <1>1. IsWellFoundedOn(R, Nat)
    BY NatLessThanWellFounded DEF OpToRel
  <1> HIDE DEF R
  <1>2. PICK x \in T : \A y \in T : <<y, x>> \notin R
    BY <1>1, WFMin
  <1>3. \A y \in T : ~(y < x)
    BY <1>2 DEF R
  <1> QED
    BY <1>2, <1>3

(* A function on 1..n into S is a sequence over S of length n.             *)
LEMMA FunctionSeq ==
  ASSUME NEW S, NEW n \in Nat, NEW f \in [1..n -> S]
  PROVE  f \in Seq(S) /\ Len(f) = n
  <1>1. f \in Seq(S)
    BY SeqDef, Zenon
  <1>2. DOMAIN f = 1..n /\ DOMAIN f = 1..Len(f) /\ Len(f) \in Nat
    BY <1>1, LenProperties
  <1> QED
    BY <1>1, <1>2

(* Max and Min of a set of positions.                                      *)
LEMMA MinIs ==
  ASSUME NEW T, T \subseteq Nat, T # {}
  PROVE  Min(T) \in T /\ \A k \in T : Min(T) <= k
  BY LeastNatural DEF Min

LEMMA MaxIs ==
  ASSUME NEW n \in Nat, NEW T, T \subseteq 0..n, T # {}
  PROVE  Max(T) \in T /\ \A k \in T : Max(T) >= k
  <1> DEFINE B == {b \in Nat : \A i \in T : i <= b}
  <1>1. B \subseteq Nat /\ n \in B
    OBVIOUS
  <1>2. PICK b \in B : \A c \in B : b <= c
    <2> HIDE DEF B
    <2> QED
      BY <1>1, LeastNatural
  <1>3. b \in Nat /\ \A i \in T : i <= b
    BY <1>2
  <1>4. b \in T
    <2> SUFFICES ASSUME b \notin T PROVE FALSE
      OBVIOUS
    <2>1. b # 0 /\ \A i \in T : i <= b - 1
      <3>1. \E i \in T : i \in 0..n /\ i <= b /\ i # b
        BY <1>3
      <3> QED
        BY <1>3, <3>1
    <2>2. b - 1 \in B /\ ~(b <= b - 1)
      BY <1>3, <2>1
    <2> HIDE DEF B
    <2> QED
      BY <1>2, <2>2
  <1>5. \E x \in T : \A y \in T : x >= y
    BY <1>3, <1>4
  <1> QED
    BY <1>5 DEF Max

(* Where a text occurs, letter by letter.                                  *)
LEMMA OccursPointwise ==
  ASSUME NEW A, NEW s \in Seq(A), NEW t \in Seq(A), NEW i \in Nat \ {0}
  PROVE  OccursAt(s, t, i) <=> /\ i + Len(s) - 1 <= Len(t)
                               /\ \A k \in 1..Len(s) : t[i + k - 1] = s[k]
  <1>1. Len(s) \in Nat /\ Len(t) \in Nat
    BY LenProperties
  <1> DEFINE n == i + Len(s) - 1
             part == SubSeq(t, i, n)
  <1>2. ASSUME n <= Len(t)
        PROVE  part = s <=> \A k \in 1..Len(s) : t[i + k - 1] = s[k]
    <2>1. n \in Int /\ \A j \in i..n : t[j] \in A
      BY <1>1, <1>2, ElementOfSeq
    <2>2. /\ part \in Seq(A)
          /\ Len(part) = IF i <= n THEN n - i + 1 ELSE 0
          /\ \A k \in 1..(n - i + 1) : part[k] = t[i + k - 1]
      <3> HIDE DEF n
      <3> QED
        BY <2>1, SubSeqProperties
    <2>3. Len(part) = Len(s) /\ \A k \in 1..Len(s) : part[k] = t[i + k - 1]
      <3> HIDE DEF part
      <3> QED
        BY <1>1, <2>2
    <2> HIDE DEF part, n
    <2> QED
      BY <2>2, <2>3, SeqEqual
  <1> QED
    BY <1>1, <1>2 DEF OccursAt

-----------------------------------------------------------------------------
(* Replace.                                                                *)

(* The recursion of Replace, from a position on.                           *)
FromStep(f, text, secret, i) ==
    IF i > Len(text) THEN <<>>
    ELSE IF OccursAt(secret, text, i) THEN <<Mask>> \o f[i + Len(secret)]
    ELSE <<text[i]>> \o f[i + 1]

(* A letter in front of a text.                                            *)
LEMMA InFront ==
  ASSUME NEW A, NEW a \in A, NEW t \in Seq(A)
  PROVE  /\ <<a>> \o t \in Seq(A)
         /\ Len(<<a>> \o t) = Len(t) + 1
         /\ (<<a>> \o t)[1] = a
         /\ \A k \in 2..Len(t) + 1 : (<<a>> \o t)[k] = t[k - 1]
  <1>1. <<a>> \in Seq(A) /\ Len(<<a>>) = 1 /\ <<a>>[1] = a
    OBVIOUS
  <1>2. Len(t) \in Nat
    BY LenProperties
  <1> QED
    BY <1>1, <1>2, ConcatProperties

LEMMA FromStepType ==
  ASSUME NEW A, Mask \in A, NEW text \in Seq(A), NEW secret \in Seq(A), secret # <<>>,
         NEW p \in 1..Len(text), NEW f,
         \A i \in (p + 1)..(Len(text) + Len(secret)) : f[i] \in Seq(A)
  PROVE  FromStep(f, text, secret, p) \in Seq(A)
  <1>1. Len(text) \in Nat /\ Len(secret) \in Nat \ {0} /\ text[p] \in A
    BY LenProperties, EmptySeq, ElementOfSeq
  <1>2. f[p + 1] \in Seq(A) /\ f[p + Len(secret)] \in Seq(A)
    BY <1>1
  <1>3. <<Mask>> \o f[p + Len(secret)] \in Seq(A) /\ <<text[p]>> \o f[p + 1] \in Seq(A)
    BY <1>1, <1>2, InFront
  <1> QED
    BY <1>1, <1>3 DEF FromStep

(* There is such a function: by induction from the end of the text.        *)
LEMMA FromExists ==
  ASSUME NEW A, Mask \in A, NEW text \in Seq(A), NEW secret \in Seq(A), secret # <<>>
  PROVE  \E f \in [1..(Len(text) + Len(secret)) -> Seq(A)] :
            \A i \in 1..(Len(text) + Len(secret)) : f[i] = FromStep(f, text, secret, i)
  <1> DEFINE N == Len(text) + Len(secret)
             Works(p) == \E f \in [1..N -> Seq(A)] :
                           \A i \in p..N : f[i] = FromStep(f, text, secret, i)
             T == {n \in 0..Len(text) : ~Works(Len(text) + 1 - n)}
  <1>1. Len(text) \in Nat /\ Len(secret) \in Nat \ {0} /\ N \in Nat
    BY LenProperties, EmptySeq
  <1>2. T = {}
    <2> SUFFICES ASSUME T # {} PROVE FALSE
      OBVIOUS
    <2>1. PICK m \in T : \A k \in T : m <= k
      <3> T \subseteq Nat
        BY <1>1
      <3> HIDE DEF T
      <3> QED
        BY LeastNatural
    <2> DEFINE p == Len(text) + 1 - m
    <2>2. m \in 0..Len(text) /\ ~Works(p)
      BY <2>1
    <2>3. m # 0
      <3> SUFFICES ASSUME m = 0 PROVE FALSE
        OBVIOUS
      <3> DEFINE f == [i \in 1..N |-> <<>>]
      <3>1. f \in [1..N -> Seq(A)]
        BY EmptySeq
      <3>2. \A i \in p..N : f[i] = FromStep(f, text, secret, i)
        BY <1>1 DEF FromStep
      <3> QED
        BY <2>2, <3>1, <3>2
    <2>4. p \in 1..Len(text) /\ p + 1 = Len(text) + 1 - (m - 1) /\ m - 1 \in 0..Len(text)
          /\ ~(m <= m - 1)
      BY <1>1, <2>2, <2>3
    <2>5. Works(p + 1)
      <3>1. m - 1 \notin T
        <4> HIDE DEF T
        <4> QED
          BY <2>1, <2>4
      <3> QED
        BY <2>4, <3>1
    <2>6. PICK f : /\ f \in [1..N -> Seq(A)]
                   /\ \A i \in (p + 1)..N : f[i] = FromStep(f, text, secret, i)
      BY <2>5
    <2> DEFINE value == FromStep(f, text, secret, p)
               g == [f EXCEPT ![p] = value]
    <2>7. value \in Seq(A)
      <3>1. \A i \in (p + 1)..N : f[i] \in Seq(A)
        BY <2>4, <2>6
      <3> HIDE DEF p
      <3> QED
        BY <2>4, <3>1, FromStepType
    <2> HIDE DEF value, p
    <2>8. /\ g \in [1..N -> Seq(A)] /\ g[p] = value
          /\ \A i \in (p + 1)..N : g[i] = f[i]
      BY <1>1, <2>4, <2>6, <2>7
    <2> HIDE DEF g
    <2>9. ASSUME NEW i \in p..N
          PROVE  FromStep(g, text, secret, i) = FromStep(f, text, secret, i)
      <3>1. CASE i > Len(text)
        BY <3>1 DEF FromStep
      <3>2. CASE ~(i > Len(text))
        <4>1. i + 1 \in (p + 1)..N /\ i + Len(secret) \in (p + 1)..N
          BY <1>1, <2>4, <3>2
        <4>2. g[i + 1] = f[i + 1] /\ g[i + Len(secret)] = f[i + Len(secret)]
          BY <2>8, <4>1
        <4> QED
          BY <4>2 DEF FromStep
      <3> QED
        BY <3>1, <3>2
    <2>10. \A i \in p..N : g[i] = FromStep(g, text, secret, i)
      <3> SUFFICES ASSUME NEW i \in p..N PROVE g[i] = FromStep(f, text, secret, i)
        BY <2>9
      <3>1. i = p \/ i \in (p + 1)..N
        BY <1>1, <2>4
      <3> QED
        BY <2>6, <2>8, <3>1 DEF value
    <2> QED
      BY <2>2, <2>8, <2>10 DEF p
  <1>3. Works(1)
    <2>1. Len(text) \in 0..Len(text) /\ Len(text) + 1 - Len(text) = 1
      BY <1>1
    <2>2. Works(Len(text) + 1 - Len(text))
      BY <1>2, <2>1
    <2> HIDE DEF N
    <2> QED
      BY <2>1, <2>2
  <1> QED
    BY <1>3

(* What Replace starts with the position 1 of.                             *)
IsFrom(f, A, text, secret) ==
    /\ f \in [1..(Len(text) + Len(secret)) -> Seq(A)]
    /\ \A i \in 1..(Len(text) + Len(secret)) : f[i] = FromStep(f, text, secret, i)

LEMMA ReplaceIs ==
  ASSUME NEW A, Mask \in A, NEW text \in Seq(A), NEW secret \in Seq(A), secret # <<>>
  PROVE  \E f : IsFrom(f, A, text, secret) /\ Replace(text, secret) = f[1]
  <1> DEFINE N == Len(text) + Len(secret)
             h == CHOOSE f : f = [i \in 1..N |->
                    IF i > Len(text) THEN <<>>
                    ELSE IF OccursAt(secret, text, i) THEN <<Mask>> \o f[i + Len(secret)]
                    ELSE <<text[i]>> \o f[i + 1]]
  <1>1. Len(text) \in Nat /\ Len(secret) \in Nat \ {0}
    BY LenProperties, EmptySeq
  <1>2. PICK g : /\ g \in [1..N -> Seq(A)]
                 /\ \A i \in 1..N : g[i] = FromStep(g, text, secret, i)
    BY FromExists
  <1>3. g = [i \in 1..N |-> FromStep(g, text, secret, i)]
    <2> HIDE DEF N
    <2> QED
      BY <1>2
  <1>4. h = [i \in 1..N |->
               IF i > Len(text) THEN <<>>
               ELSE IF OccursAt(secret, text, i) THEN <<Mask>> \o h[i + Len(secret)]
               ELSE <<text[i]>> \o h[i + 1]]
    BY <1>3, Zenon DEF FromStep
  <1>5. Replace(text, secret) = h[1]
    BY Zenon DEF Replace
  <1> HIDE DEF h
  <1>6. \A i \in 1..N : h[i] = FromStep(h, text, secret, i)
    BY <1>4 DEF FromStep
  <1>7. DOMAIN h = 1..N /\ h = [i \in 1..N |-> h[i]]
    BY <1>4
  <1> DEFINE T == {n \in 0..N : n # N /\ h[N - n] \notin Seq(A)}
  <1>8. T = {}
    <2> SUFFICES ASSUME T # {} PROVE FALSE
      OBVIOUS
    <2>1. PICK m \in T : \A k \in T : m <= k
      <3> T \subseteq Nat
        BY <1>1
      <3> HIDE DEF T
      <3> QED
        BY LeastNatural
    <2> DEFINE p == N - m
    <2>2. p \in 1..N /\ h[p] \notin Seq(A) /\ m = N - p
      <3>1. m \in 0..N /\ m # N /\ h[N - m] \notin Seq(A)
        <4> HIDE DEF N
        <4> QED
          BY <2>1
      <3>2. p \in 1..N /\ m = N - p
        BY <1>1, <3>1
      <3> HIDE DEF N
      <3> QED
        BY <3>1, <3>2
    <2>3. ASSUME NEW i \in (p + 1)..N PROVE h[i] \in Seq(A)
      <3> DEFINE n == N - i
      <3>1. n \in 0..N /\ n # N /\ N - n = i /\ ~(m <= n)
        BY <1>1, <2>2
      <3>2. n \notin T
        <4> HIDE DEF T, n
        <4> QED
          BY <2>1, <3>1
      <3> HIDE DEF n, N
      <3> QED
        BY <3>1, <3>2
    <2>4. FromStep(h, text, secret, p) \in Seq(A)
      <3>1. CASE p > Len(text)
        BY <3>1, EmptySeq DEF FromStep
      <3>2. CASE p \in 1..Len(text)
        <4> HIDE DEF p
        <4> QED
          BY <2>3, <3>2, FromStepType
      <3> HIDE DEF p
      <3> QED
        BY <1>1, <2>2, <3>1, <3>2
    <2> HIDE DEF p
    <2> QED
      BY <1>6, <2>2, <2>4
  <1>9. ASSUME NEW i \in 1..N PROVE h[i] \in Seq(A)
    <2> DEFINE n == N - i
    <2>1. n \in 0..N /\ n # N /\ N - n = i
      BY <1>1
    <2>2. n \notin T
      BY <1>8
    <2> HIDE DEF n, N
    <2> QED
      BY <2>1, <2>2
  <1>10. h \in [1..N -> Seq(A)]
    <2> HIDE DEF N
    <2> QED
      BY <1>7, <1>9
  <1> QED
    BY <1>5, <1>6, <1>10 DEF IsFrom

(* A step of the recursion, letter by letter.                              *)
LEMMA FromSteps ==
  ASSUME NEW A, Mask \in A, NEW text \in Seq(A), NEW secret \in Seq(A), secret # <<>>,
         NEW f, IsFrom(f, A, text, secret), NEW i \in 1..(Len(text) + Len(secret)), f[i] # <<>>
  PROVE  \E next :
            /\ next \in (i + 1)..(Len(text) + Len(secret)) /\ i <= Len(text)
            /\ f[next] \in Seq(A) /\ Len(f[i]) = Len(f[next]) + 1
            /\ \A k \in 2..Len(f[i]) : f[i][k] = f[next][k - 1]
            /\ \/ f[i][1] = Mask /\ next = i + Len(secret) /\ OccursAt(secret, text, i)
               \/ f[i][1] = text[i] /\ next = i + 1 /\ ~OccursAt(secret, text, i)
  <1>1. Len(text) \in Nat /\ Len(secret) \in Nat \ {0}
    BY LenProperties, EmptySeq
  <1>2. f[i] = FromStep(f, text, secret, i)
    BY DEF IsFrom
  <1>3. i \in 1..Len(text) /\ text[i] \in A
    <2>1. ~(i > Len(text))
      BY <1>2 DEF FromStep
    <2> QED
      BY <1>1, <2>1, ElementOfSeq
  <1>4. CASE OccursAt(secret, text, i)
    <2> DEFINE next == i + Len(secret)
    <2>1. next \in (i + 1)..(Len(text) + Len(secret))
      BY <1>1, <1>3
    <2>2. f[next] \in Seq(A)
      BY <1>1, <2>1 DEF IsFrom
    <2>3. f[i] = <<Mask>> \o f[next]
      BY <1>2, <1>3, <1>1, <1>4 DEF FromStep
    <2> HIDE DEF next
    <2>4. /\ Len(f[i]) = Len(f[next]) + 1 /\ f[i][1] = Mask
          /\ \A k \in 2..Len(f[next]) + 1 : f[i][k] = f[next][k - 1]
      BY <2>2, <2>3, InFront
    <2>5. next = i + Len(secret)
      BY DEF next
    <2> QED
      BY <1>3, <1>4, <2>1, <2>2, <2>4, <2>5
  <1>5. CASE ~OccursAt(secret, text, i)
    <2> DEFINE next == i + 1
    <2>1. next \in (i + 1)..(Len(text) + Len(secret))
      BY <1>1, <1>3
    <2>2. f[next] \in Seq(A)
      BY <1>1, <2>1 DEF IsFrom
    <2>3. f[i] = <<text[i]>> \o f[next]
      BY <1>2, <1>3, <1>1, <1>5 DEF FromStep
    <2> HIDE DEF next
    <2>4. /\ Len(f[i]) = Len(f[next]) + 1 /\ f[i][1] = text[i]
          /\ \A k \in 2..Len(f[next]) + 1 : f[i][k] = f[next][k - 1]
      BY <1>3, <2>2, <2>3, InFront
    <2>5. next = i + 1
      BY DEF next
    <2> QED
      BY <1>3, <1>5, <2>1, <2>2, <2>4, <2>5
  <1> QED
    BY <1>4, <1>5

(* What starts with letters of the text is copied from it.                 *)
Copied(f, text, secret, i, n) ==
    /\ \A k \in 1..n : i + k - 1 <= Len(text) /\ f[i][k] = text[i + k - 1]
    /\ n # 0 => ~OccursAt(secret, text, i)

LEMMA NoMaskIsCopied ==
  ASSUME NEW A, Mask \in A, NEW text \in Seq(A), NEW secret \in Seq(A), secret # <<>>,
         NEW f, IsFrom(f, A, text, secret)
  PROVE  \A n \in Nat, i \in 1..(Len(text) + Len(secret)) :
            n <= Len(f[i]) /\ (\A k \in 1..n : f[i][k] # Mask) => Copied(f, text, secret, i, n)
  <1> DEFINE N == Len(text) + Len(secret)
             Plain(n, i) == n <= Len(f[i]) /\ \A k \in 1..n : f[i][k] # Mask
             T == {n \in Nat : \E i \in 1..N : Plain(n, i) /\ ~Copied(f, text, secret, i, n)}
  <1>1. Len(text) \in Nat /\ Len(secret) \in Nat
    BY LenProperties
  <1>2. T = {}
    <2> SUFFICES ASSUME T # {} PROVE FALSE
      OBVIOUS
    <2>1. PICK m \in T : \A k \in T : m <= k
      <3> T \subseteq Nat
        BY <1>1
      <3> HIDE DEF T
      <3> QED
        BY LeastNatural
    <2>2. m \in Nat /\ \E i \in 1..N : Plain(m, i) /\ ~Copied(f, text, secret, i, m)
      <3> HIDE DEF N, Plain
      <3> QED
        BY <2>1
    <2>3. PICK i : i \in 1..N /\ Plain(m, i) /\ ~Copied(f, text, secret, i, m)
      <3> HIDE DEF N, Plain
      <3> QED
        BY <2>2
    <2>4. m # 0
      BY <2>3 DEF Copied
    <2>5. f[i] \in Seq(A)
      BY <2>3 DEF IsFrom
    <2>6. Len(f[i]) \in Nat /\ f[i] # <<>> /\ f[i][1] # Mask
      BY <2>2, <2>3, <2>4, <2>5, LenProperties, EmptySeq
    <2>7. PICK next : /\ next \in (i + 1)..N /\ i <= Len(text)
                      /\ f[next] \in Seq(A) /\ Len(f[i]) = Len(f[next]) + 1
                      /\ \A k \in 2..Len(f[i]) : f[i][k] = f[next][k - 1]
                      /\ \/ f[i][1] = Mask
                         \/ f[i][1] = text[i] /\ next = i + 1 /\ ~OccursAt(secret, text, i)
      BY <2>3, <2>6, FromSteps
    <2> DEFINE n == m - 1
    <2>8. /\ n \in Nat /\ ~(m <= n) /\ next \in 1..N
          /\ f[i][1] = text[i] /\ next = i + 1 /\ ~OccursAt(secret, text, i)
      <3>1. f[i][1] = text[i] /\ next = i + 1 /\ ~OccursAt(secret, text, i)
        BY <2>6, <2>7
      <3>2. n \in Nat /\ ~(m <= n)
        BY <2>2, <2>4
      <3>3. next \in 1..N
        BY <2>3, <2>7, <1>1
      <3> QED
        BY <3>1, <3>2, <3>3
    <2>9. Plain(n, next)
      <3>1. n <= Len(f[next]) /\ Len(f[next]) \in Nat
        BY <2>2, <2>3, <2>7, LenProperties
      <3>2. ASSUME NEW k \in 1..n PROVE f[next][k] # Mask
        <4>1. k + 1 \in 2..Len(f[i]) /\ k + 1 \in 1..m /\ (k + 1) - 1 = k
          BY <2>3, <2>2, <2>6
        <4> QED
          BY <2>3, <2>7, <4>1
      <3> QED
        BY <3>1, <3>2
    <2>10. Copied(f, text, secret, next, n)
      <3> SUFFICES ASSUME ~Copied(f, text, secret, next, n) PROVE FALSE
        OBVIOUS
      <3>1. n \in T
        <4> HIDE DEF n, N, Plain
        <4> QED
          BY <2>8, <2>9
      <3> HIDE DEF T, n
      <3> QED
        BY <2>1, <2>8, <3>1
    <2>11. ASSUME NEW k \in 1..m
           PROVE  i + k - 1 <= Len(text) /\ f[i][k] = text[i + k - 1]
      <3>1. CASE k = 1
        BY <2>3, <2>7, <2>8, <3>1
      <3>2. CASE k # 1
        <4> DEFINE j == k - 1
        <4>1. j \in 1..n /\ k \in 2..Len(f[i]) /\ next + j - 1 = i + k - 1
          BY <2>2, <2>3, <2>6, <2>7, <2>8, <3>2
        <4>2. next + j - 1 <= Len(text) /\ f[next][j] = text[next + j - 1]
          <5> HIDE DEF j, n
          <5> QED
            BY <2>10, <4>1 DEF Copied
        <4>3. f[i][k] = f[next][j]
          BY <2>7, <4>1
        <4> HIDE DEF j
        <4> QED
          BY <4>1, <4>2, <4>3
      <3> QED
        BY <3>1, <3>2
    <2> QED
      BY <2>3, <2>8, <2>11 DEF Copied
  <1> SUFFICES ASSUME NEW n \in Nat, NEW i \in 1..N, Plain(n, i)
               PROVE  Copied(f, text, secret, i, n)
    OBVIOUS
  <1> HIDE DEF Plain, N
  <1> QED
    BY <1>2

(* Every suffix of the result starts somewhere in the text.                *)
LEMMA SuffixStarts ==
  ASSUME NEW A, Mask \in A, NEW text \in Seq(A), NEW secret \in Seq(A), secret # <<>>,
         NEW f, IsFrom(f, A, text, secret)
  PROVE  \A j \in Nat, i \in 1..(Len(text) + Len(secret)) :
            j < Len(f[i]) =>
              \E start :
                 /\ start \in 1..(Len(text) + Len(secret))
                 /\ Len(f[i]) = Len(f[start]) + j
                 /\ \A k \in 1..Len(f[start]) : f[start][k] = f[i][j + k]
  <1> DEFINE N == Len(text) + Len(secret)
             Starts(j, i) == \E start :
                               /\ start \in 1..N
                               /\ Len(f[i]) = Len(f[start]) + j
                               /\ \A k \in 1..Len(f[start]) : f[start][k] = f[i][j + k]
             T == {j \in Nat : \E i \in 1..N : j < Len(f[i]) /\ ~Starts(j, i)}
  <1>1. Len(text) \in Nat /\ Len(secret) \in Nat
    BY LenProperties
  <1>2. ASSUME NEW i \in 1..N PROVE f[i] \in Seq(A) /\ Len(f[i]) \in Nat
    BY LenProperties DEF IsFrom
  <1>3. T = {}
    <2> SUFFICES ASSUME T # {} PROVE FALSE
      OBVIOUS
    <2>1. PICK m \in T : \A k \in T : m <= k
      <3> T \subseteq Nat
        BY <1>1
      <3> HIDE DEF T
      <3> QED
        BY LeastNatural
    <2>2. m \in Nat /\ \E i \in 1..N : m < Len(f[i]) /\ ~Starts(m, i)
      <3> HIDE DEF N, Starts
      <3> QED
        BY <2>1
    <2>3. PICK i : i \in 1..N /\ m < Len(f[i]) /\ ~Starts(m, i)
      <3> HIDE DEF N, Starts
      <3> QED
        BY <2>2
    <2>4. m # 0
      <3> SUFFICES ASSUME m = 0 PROVE FALSE
        OBVIOUS
      <3>1. Len(f[i]) = Len(f[i]) + m /\ \A k \in 1..Len(f[i]) : m + k = k
        BY <1>2, <2>3
      <3> HIDE DEF N
      <3> QED
        BY <2>3, <3>1
    <2>5. f[i] # <<>> /\ f[i] \in Seq(A) /\ Len(f[i]) \in Nat
      BY <1>2, <2>2, <2>3, EmptySeq
    <2>6. PICK next : /\ next \in (i + 1)..N
                      /\ f[next] \in Seq(A) /\ Len(f[i]) = Len(f[next]) + 1
                      /\ \A k \in 2..Len(f[i]) : f[i][k] = f[next][k - 1]
      BY <2>3, <2>5, FromSteps
    <2> DEFINE n == m - 1
    <2>7. n \in Nat /\ ~(m <= n) /\ next \in 1..N /\ n < Len(f[next]) /\ Len(f[next]) \in Nat
      <3>1. n \in Nat /\ ~(m <= n)
        BY <2>2, <2>4
      <3>2. next \in 1..N
        <4>1. N \in Nat
          BY <1>1
        <4> HIDE DEF N
        <4> QED
          BY <2>3, <2>6, <4>1
      <3>3. Len(f[next]) \in Nat
        BY <1>2, <3>2
      <3>4. n < Len(f[next])
        <4>1. m < Len(f[next]) + 1
          BY <2>3, <2>6
        <4> QED
          BY <2>2, <3>3, <4>1
      <3> QED
        BY <3>1, <3>2, <3>3, <3>4
    <2>8. Starts(n, next)
      <3> SUFFICES ASSUME ~Starts(n, next) PROVE FALSE
        OBVIOUS
      <3>1. n \in T
        <4> HIDE DEF n, N, Starts
        <4> QED
          BY <2>7
      <3> HIDE DEF T, n
      <3> QED
        BY <2>1, <2>7, <3>1
    <2>9. PICK start : /\ start \in 1..N
                       /\ Len(f[next]) = Len(f[start]) + n
                       /\ \A k \in 1..Len(f[start]) : f[start][k] = f[next][n + k]
      BY <2>8
    <2>10. Len(f[start]) \in Nat /\ Len(f[i]) = Len(f[start]) + m
      BY <1>2, <2>2, <2>6, <2>7, <2>9
    <2>11. ASSUME NEW k \in 1..Len(f[start]) PROVE f[start][k] = f[i][m + k]
      <3>1. m + k \in 2..Len(f[i]) /\ (m + k) - 1 = n + k
        BY <2>2, <2>4, <2>10
      <3>2. f[i][m + k] = f[next][(m + k) - 1]
        <4> DEFINE j == m + k
        <4> HIDE DEF j
        <4> QED
          BY <2>6, <3>1 DEF j
      <3> HIDE DEF n
      <3> QED
        BY <2>9, <3>1, <3>2
    <2> QED
      BY <2>3, <2>9, <2>10, <2>11
  <1> SUFFICES ASSUME NEW j \in Nat, NEW i \in 1..N, j < Len(f[i]) PROVE Starts(j, i)
    OBVIOUS
  <1> HIDE DEF Starts, N
  <1> QED
    BY <1>3

(* A word without the mask that occurs after a replacement occurred before *)
(* it, at a place where what is replaced did not.                          *)
LEMMA ReplaceFormsNothing ==
  ASSUME NEW A, Mask \in A, NEW text \in Seq(A), NEW secret \in Seq(A), secret # <<>>,
         NEW s \in Seq(A), s # <<>>, \A k \in 1..Len(s) : s[k] # Mask,
         NEW place \in Nat \ {0}, OccursAt(s, Replace(text, secret), place)
  PROVE  /\ Replace(text, secret) \in Seq(A)
         /\ \E i \in Nat \ {0} : OccursAt(s, text, i) /\ ~OccursAt(secret, text, i)
  <1> DEFINE N == Len(text) + Len(secret)
  <1>1. Len(text) \in Nat /\ Len(secret) \in Nat \ {0} /\ Len(s) \in Nat \ {0} /\ 1 \in 1..N
    BY LenProperties, EmptySeq
  <1>2. PICK f : IsFrom(f, A, text, secret) /\ Replace(text, secret) = f[1]
    BY ReplaceIs
  <1>3. f[1] \in Seq(A) /\ Len(f[1]) \in Nat
    BY <1>1, <1>2, LenProperties DEF IsFrom
  <1>4. place + Len(s) - 1 <= Len(f[1]) /\ \A k \in 1..Len(s) : f[1][place + k - 1] = s[k]
    BY <1>2, <1>3, OccursPointwise
  <1> DEFINE j == place - 1
  <1>5. j \in Nat /\ j < Len(f[1])
    BY <1>1, <1>3, <1>4
  <1>6. PICK i : /\ i \in 1..N
                 /\ Len(f[1]) = Len(f[i]) + j
                 /\ \A k \in 1..Len(f[i]) : f[i][k] = f[1][j + k]
    <2> HIDE DEF j
    <2> QED
      BY <1>1, <1>2, <1>5, SuffixStarts
  <1>7. f[i] \in Seq(A) /\ Len(f[i]) \in Nat
    BY <1>2, <1>6, LenProperties DEF IsFrom
  <1>8. Len(s) <= Len(f[i])
    BY <1>1, <1>3, <1>4, <1>6, <1>7
  <1>9. ASSUME NEW k \in 1..Len(s) PROVE f[i][k] = s[k]
    <2>1. k \in 1..Len(f[i]) /\ j + k = place + k - 1
      BY <1>1, <1>7, <1>8
    <2>2. f[i][k] = f[1][j + k]
      BY <1>6, <2>1
    <2> QED
      BY <1>4, <2>1, <2>2
  <1>10. Copied(f, text, secret, i, Len(s))
    BY <1>1, <1>2, <1>6, <1>8, <1>9, NoMaskIsCopied
  <1>11. /\ i \in Nat \ {0}
         /\ \A k \in 1..Len(s) : i + k - 1 <= Len(text) /\ s[k] = text[i + k - 1]
         /\ ~OccursAt(secret, text, i)
    BY <1>1, <1>6, <1>9, <1>10 DEF Copied
  <1>12. OccursAt(s, text, i)
    <2>1. Len(s) \in 1..Len(s)
      BY <1>1
    <2>2. i + Len(s) - 1 <= Len(text) /\ \A k \in 1..Len(s) : text[i + k - 1] = s[k]
      BY <1>11, <2>1
    <2> QED
      BY <1>11, <2>2, OccursPointwise
  <1> QED
    BY <1>2, <1>3, <1>11, <1>12

LEMMA ReplaceType ==
  ASSUME NEW A, Mask \in A, NEW text \in Seq(A), NEW secret \in Seq(A), secret # <<>>
  PROVE  Replace(text, secret) \in Seq(A)
  <1>1. Len(text) \in Nat /\ Len(secret) \in Nat \ {0}
    BY LenProperties, EmptySeq
  <1>2. PICK f : IsFrom(f, A, text, secret) /\ Replace(text, secret) = f[1]
    BY ReplaceIs
  <1> QED
    BY <1>1, <1>2 DEF IsFrom

-----------------------------------------------------------------------------
(* Functions that are defined by recursion on the numbers up to n.         *)

(* What holds of 0, and of k when it holds of k-1, holds up to n.          *)
LEMMA UpTo ==
  ASSUME NEW n \in Nat, NEW P, 0 \in P, \A k \in 1..n : k - 1 \in P => k \in P
  PROVE  0..n \subseteq P
  <1> DEFINE T == (0..n) \ P
  <1> SUFFICES ASSUME T # {} PROVE FALSE
    OBVIOUS
  <1>1. PICK m \in T : \A k \in T : m <= k
    <2> T \subseteq Nat
      OBVIOUS
    <2> HIDE DEF T
    <2> QED
      BY LeastNatural
  <1>2. m \in 1..n /\ m \notin P /\ m - 1 \in 0..n /\ ~(m <= m - 1)
    BY <1>1
  <1>3. m - 1 \notin T
    <2> HIDE DEF T
    <2> QED
      BY <1>1, <1>2
  <1> QED
    BY <1>2, <1>3

(* From the first value, one step after the other.                         *)
Steps(S, n) == [1..n -> [S -> S]]

IsRecursion(f, S, n, first, step) ==
    /\ f \in [0..n -> S] /\ f[0] = first
    /\ \A k \in 1..n : f[k] = step[k][f[k - 1]]

LEMMA RecursionExists ==
  ASSUME NEW S, NEW n \in Nat, NEW first \in S, NEW step \in Steps(S, n)
  PROVE  \E f : IsRecursion(f, S, n, first, step)
  <1> DEFINE Works(m, f) == /\ f \in [0..n -> S] /\ f[0] = first
                            /\ \A k \in 1..m : f[k] = step[k][f[k - 1]]
             P == {m \in 0..n : \E f : Works(m, f)}
  <1>1. 0 \in P
    <2> DEFINE f == [k \in 0..n |-> first]
    <2>1. Works(0, f)
      OBVIOUS
    <2> HIDE DEF Works, f
    <2> QED
      BY <2>1
  <1>2. ASSUME NEW m \in 1..n, m - 1 \in P PROVE m \in P
    <2>1. PICK f : Works(m - 1, f)
      BY <1>2
    <2> DEFINE g == [f EXCEPT ![m] = step[m][f[m - 1]]]
    <2>2. step[m][f[m - 1]] \in S
      BY <2>1 DEF Steps
    <2>3. /\ g \in [0..n -> S] /\ g[0] = first /\ g[m] = step[m][f[m - 1]]
          /\ \A k \in 0..m - 1 : g[k] = f[k]
      BY <2>1, <2>2
    <2> HIDE DEF g
    <2>4. ASSUME NEW k \in 1..m PROVE g[k] = step[k][g[k - 1]]
      <3>1. g[k - 1] = f[k - 1]
        BY <2>3
      <3>2. g[k] = step[k][f[k - 1]]
        BY <2>1, <2>3
      <3> QED
        BY <3>1, <3>2
    <2>5. Works(m, g)
      BY <2>3, <2>4
    <2> HIDE DEF Works
    <2> QED
      BY <2>5
  <1>3. n \in P
    <2>1. 0..n \subseteq P
      <3> HIDE DEF P
      <3> QED
        BY <1>1, <1>2, UpTo
    <2> HIDE DEF P
    <2> QED
      BY <2>1
  <1> HIDE DEF Works
  <1>4. PICK f : Works(n, f)
    BY <1>3
  <1> QED
    BY <1>4 DEF Works, IsRecursion

-----------------------------------------------------------------------------
(* RedactSecrets, once the secrets are in order.                           *)
IsMasking(f, A, text, ordered) ==
    /\ f \in [0..Len(ordered) -> Seq(A)] /\ f[0] = text
    /\ \A k \in 1..Len(ordered) : f[k] = Replace(f[k - 1], ordered[k])

LEMMA RedactSecretsIs ==
  ASSUME NEW A, Mask \in A, NEW text \in Seq(A), NEW values,
         NEW ordered, ordered = LongestFirst(Unique(values)),
         ordered \in Seq(Seq(A) \ {<<>>})
  PROVE  \E f : IsMasking(f, A, text, ordered) /\ RedactSecrets(text, values) = f[Len(ordered)]
  <1> DEFINE n == Len(ordered)
             h == CHOOSE f : f = [k \in 0..n |->
                               IF k = 0 THEN text ELSE Replace(f[k - 1], ordered[k])]
             step == [k \in 1..n |-> [t \in Seq(A) |-> Replace(t, ordered[k])]]
  <1>1. n \in Nat
    BY LenProperties
  <1>2. ASSUME NEW k \in 1..n PROVE ordered[k] \in Seq(A) /\ ordered[k] # <<>>
    BY ElementOfSeq
  <1>3. ASSUME NEW k \in 1..n, NEW t \in Seq(A) PROVE Replace(t, ordered[k]) \in Seq(A)
    BY <1>2, ReplaceType
  <1>4. step \in [1..n -> [Seq(A) -> Seq(A)]]
    BY <1>3
  <1>5. PICK g : /\ g \in [0..n -> Seq(A)] /\ g[0] = text
                 /\ \A k \in 1..n : g[k] = step[k][g[k - 1]]
    <2>1. step \in Steps(Seq(A), n)
      BY <1>4 DEF Steps
    <2> HIDE DEF step, n
    <2>2. \E g : IsRecursion(g, Seq(A), n, text, step)
      BY <1>1, <2>1, RecursionExists
    <2> QED
      BY <2>2 DEF IsRecursion
  <1>6. g = [k \in 0..n |-> IF k = 0 THEN text ELSE Replace(g[k - 1], ordered[k])]
    <2>1. ASSUME NEW k \in 1..n PROVE g[k] = Replace(g[k - 1], ordered[k])
      <3>1. k - 1 \in 0..n
        BY <1>1
      <3>2. g[k - 1] \in Seq(A) /\ g[k] = step[k][g[k - 1]]
        BY <1>5, <3>1
      <3> HIDE DEF n
      <3> QED
        BY <3>2
    <2> HIDE DEF n, step
    <2> QED
      BY <1>1, <1>5, <2>1
  <1>7. h = [k \in 0..n |-> IF k = 0 THEN text ELSE Replace(h[k - 1], ordered[k])]
    BY <1>6, Zenon
  <1>8. RedactSecrets(text, values) = h[n]
    BY Zenon DEF RedactSecrets
  <1> HIDE DEF h, n, step
  <1>9. h[0] = text /\ \A k \in 1..n : h[k] = Replace(h[k - 1], ordered[k])
    BY <1>1, <1>7
  <1> DEFINE P == {k \in 0..n : h[k] \in Seq(A)}
  <1>10. 0..n \subseteq P
    <2>1. 0 \in P
      BY <1>1, <1>9
    <2>2. ASSUME NEW k \in 1..n, k - 1 \in P PROVE k \in P
      BY <1>3, <1>9, <2>2
    <2> HIDE DEF P
    <2> QED
      BY <1>1, <2>1, <2>2, UpTo
  <1>11. h \in [0..n -> Seq(A)]
    BY <1>7, <1>10
  <1> QED
    BY <1>8, <1>9, <1>11 DEF IsMasking, n

(* A word is free of the mask, and so are the secrets.                     *)
Plain(s) == s # <<>> /\ \A k \in 1..Len(s) : s[k] # Mask

(* Each step leaves none of the secrets so far, wherever one may have been *)
(* before.                                                                 *)
LEMMA NothingLeft ==
  ASSUME NEW A, Mask \in A, NEW text \in Seq(A), NEW ordered \in Seq(Seq(A) \ {<<>>}),
         \A k \in 1..Len(ordered) : Plain(ordered[k]),
         NEW f, IsMasking(f, A, text, ordered)
  PROVE  \A k \in 0..Len(ordered), j \in 1..Len(ordered), i \in Nat \ {0} :
            j <= k => ~OccursAt(ordered[j], f[k], i)
  <1> DEFINE n == Len(ordered)
  <1>1. n \in Nat
    BY LenProperties
  <1>2. ASSUME NEW k \in 1..n PROVE ordered[k] \in Seq(A) /\ ordered[k] # <<>>
    BY ElementOfSeq
  <1>4. /\ \A k \in 0..n : f[k] \in Seq(A)
        /\ \A k \in 1..n : f[k] = Replace(f[k - 1], ordered[k])
    BY DEF IsMasking
  <1> HIDE DEF n
  <1> DEFINE P == {k \in 0..n : \A j \in 1..k, i \in Nat \ {0} : ~OccursAt(ordered[j], f[k], i)}
  <1>5. 0..n \subseteq P
    <2>1. 0 \in P
      BY <1>1
    <2>2. ASSUME NEW k \in 1..n, k - 1 \in P PROVE k \in P
      <3>1. ASSUME NEW j \in 1..k, NEW i \in Nat \ {0}, OccursAt(ordered[j], f[k], i)
            PROVE  FALSE
        <4>1. /\ k - 1 \in 0..n /\ j \in 1..n /\ f[k - 1] \in Seq(A)
              /\ f[k] = Replace(f[k - 1], ordered[k])
          BY <1>1, <1>4
        <4>2. OccursAt(ordered[j], Replace(f[k - 1], ordered[k]), i)
          BY <3>1, <4>1
        <4>3. \A l \in 1..Len(ordered[j]) : ordered[j][l] # Mask
          BY <4>1 DEF Plain, n
        <4>4. /\ ordered[k] \in Seq(A) /\ ordered[k] # <<>>
              /\ ordered[j] \in Seq(A) /\ ordered[j] # <<>>
          BY <1>2, <4>1
        <4>5. PICK l \in Nat \ {0} : /\ OccursAt(ordered[j], f[k - 1], l)
                                     /\ ~OccursAt(ordered[k], f[k - 1], l)
          BY <4>1, <4>2, <4>3, <4>4, ReplaceFormsNothing
        <4>6. j \in 1..k - 1
          BY <4>5
        <4> QED
          BY <2>2, <4>5, <4>6
      <3> QED
        BY <1>1, <3>1
    <2> HIDE DEF P
    <2> QED
      BY <1>1, <2>1, <2>2, UpTo
  <1>6. ASSUME NEW k \in 0..n, NEW j \in 1..n, NEW i \in Nat \ {0}, j <= k
        PROVE  ~OccursAt(ordered[j], f[k], i)
    <2>1. k \in P /\ j \in 1..k
      BY <1>1, <1>5, <1>6
    <2> QED
      BY <2>1
  <1> QED
    BY <1>6 DEF n

-----------------------------------------------------------------------------
(* The secrets that are looked for: those that are long enough, once each, *)
(* in some order.                                                          *)
LongOver(A) == {w \in Seq(A) : Len(w) >= MinSecretLength}

SeenStep(seen, value) ==
    IF Len(value) < MinSecretLength \/ Contains(seen, value) THEN seen ELSE Append(seen, value)

IsSeen(f, A, values) ==
    /\ f \in [0..Len(values) -> Seq(LongOver(A))] /\ f[0] = <<>>
    /\ \A i \in 1..Len(values) : f[i] = SeenStep(f[i - 1], values[i])

LEMMA SeenStepType ==
  ASSUME NEW A, NEW seen \in Seq(LongOver(A)), NEW value \in Seq(A)
  PROVE  /\ SeenStep(seen, value) \in Seq(LongOver(A))
         /\ \A w \in Seq(A) : Contains(seen, w) => Contains(SeenStep(seen, value), w)
         /\ Len(value) >= MinSecretLength => Contains(SeenStep(seen, value), value)
  <1>1. Len(seen) \in Nat /\ Len(value) \in Nat /\ MinSecretLength \in Nat
    BY LenProperties, RedactAssumption
  <1>2. CASE Len(value) < MinSecretLength \/ Contains(seen, value)
    <2>1. SeenStep(seen, value) = seen
      BY <1>2 DEF SeenStep
    <2>2. Len(value) >= MinSecretLength => Contains(seen, value)
      BY <1>1, <1>2
    <2> QED
      BY <2>1, <2>2
  <1>3. CASE ~(Len(value) < MinSecretLength \/ Contains(seen, value))
    <2> DEFINE more == Append(seen, value)
    <2>1. SeenStep(seen, value) = more
      BY <1>3 DEF SeenStep
    <2>2. value \in LongOver(A)
      BY <1>1, <1>3 DEF LongOver
    <2>3. /\ more \in Seq(LongOver(A)) /\ Len(more) = Len(seen) + 1
          /\ \A i \in 1..Len(seen) : more[i] = seen[i]
          /\ more[Len(seen) + 1] = value
      BY <2>2, AppendProperties
    <2> HIDE DEF more
    <2>4. Contains(more, value)
      <3>1. Len(seen) + 1 \in 1..Len(more)
        BY <1>1, <2>3
      <3> QED
        BY <2>3, <3>1 DEF Contains
    <2>5. ASSUME NEW w \in Seq(A), Contains(seen, w) PROVE Contains(more, w)
      <3>1. PICK i : i \in 1..Len(seen) /\ seen[i] = w
        BY <2>5 DEF Contains
      <3>2. i \in 1..Len(more) /\ more[i] = w
        BY <1>1, <2>3, <3>1
      <3> QED
        BY <3>2 DEF Contains
    <2> QED
      BY <2>1, <2>3, <2>4, <2>5
  <1> QED
    BY <1>2, <1>3

LEMMA UniqueIs ==
  ASSUME NEW A, NEW values \in Seq(Seq(A))
  PROVE  \E f : IsSeen(f, A, values) /\ Unique(values) = f[Len(values)]
  <1> DEFINE n == Len(values)
             S == Seq(LongOver(A))
             h == CHOOSE f : f = [i \in 0..n |->
                    IF i = 0 THEN <<>>
                    ELSE IF Len(values[i]) < MinSecretLength \/ Contains(f[i - 1], values[i])
                         THEN f[i - 1] ELSE Append(f[i - 1], values[i])]
             step == [k \in 1..n |-> [seen \in S |-> SeenStep(seen, values[k])]]
  <1>1. n \in Nat /\ <<>> \in S
    BY LenProperties, EmptySeq
  <1>2. ASSUME NEW k \in 1..n, NEW seen \in S PROVE SeenStep(seen, values[k]) \in S
    <2>1. values[k] \in Seq(A)
      BY ElementOfSeq
    <2> QED
      BY <2>1, SeenStepType
  <1> HIDE DEF S
  <1>3. step \in Steps(S, n)
    BY <1>2 DEF Steps
  <1>4. PICK g : IsRecursion(g, S, n, <<>>, step)
    <2> HIDE DEF step, n
    <2> QED
      BY <1>1, <1>3, RecursionExists
  <1>5. g = [i \in 0..n |-> IF i = 0 THEN <<>> ELSE SeenStep(g[i - 1], values[i])]
    <2>1. ASSUME NEW k \in 1..n PROVE g[k] = SeenStep(g[k - 1], values[k])
      <3>1. k - 1 \in 0..n
        BY <1>1
      <3>2. g[k - 1] \in S /\ g[k] = step[k][g[k - 1]]
        BY <1>4, <3>1 DEF IsRecursion
      <3> HIDE DEF n
      <3> QED
        BY <3>2
    <2>2. g \in [0..n -> S] /\ g[0] = <<>>
      BY <1>4 DEF IsRecursion
    <2> HIDE DEF n, step
    <2> QED
      BY <1>1, <2>1, <2>2
  <1>6. h = [i \in 0..n |->
               IF i = 0 THEN <<>>
               ELSE IF Len(values[i]) < MinSecretLength \/ Contains(h[i - 1], values[i])
                    THEN h[i - 1] ELSE Append(h[i - 1], values[i])]
    BY <1>5, Zenon DEF SeenStep
  <1>7. Unique(values) = h[n]
    BY Zenon DEF Unique
  <1> HIDE DEF h, n, step
  <1>8. h[0] = <<>> /\ \A k \in 1..n : h[k] = SeenStep(h[k - 1], values[k])
    <2>1. h = [i \in 0..n |-> IF i = 0 THEN <<>> ELSE SeenStep(h[i - 1], values[i])]
      BY <1>6, Zenon DEF SeenStep
    <2> QED
      BY <1>1, <2>1
  <1> DEFINE P == {k \in 0..n : h[k] \in S}
  <1>9. 0..n \subseteq P
    <2>1. 0 \in P
      BY <1>1, <1>8
    <2>2. ASSUME NEW k \in 1..n, k - 1 \in P PROVE k \in P
      BY <1>2, <1>8, <2>2
    <2> HIDE DEF P
    <2> QED
      BY <1>1, <2>1, <2>2, UpTo
  <1>10. h \in [0..n -> S]
    BY <1>6, <1>9
  <1> QED
    BY <1>7, <1>8, <1>10 DEF IsSeen, n, S

(* _unique keeps what is long enough, and nothing else.                    *)
LEMMA UniqueKeeps ==
  ASSUME NEW A, NEW values \in Seq(Seq(A))
  PROVE  /\ Unique(values) \in Seq(LongOver(A))
         /\ \A i \in 1..Len(values) :
               Len(values[i]) >= MinSecretLength => Contains(Unique(values), values[i])
  <1> DEFINE n == Len(values)
  <1>1. n \in Nat
    BY LenProperties
  <1>2. PICK f : IsSeen(f, A, values) /\ Unique(values) = f[n]
    BY UniqueIs
  <1>3. /\ \A k \in 0..n : f[k] \in Seq(LongOver(A))
        /\ \A k \in 1..n : f[k] = SeenStep(f[k - 1], values[k])
    BY <1>2 DEF IsSeen
  <1>4. \A k \in 1..n : values[k] \in Seq(A)
    BY ElementOfSeq
  <1> HIDE DEF n
  <1> DEFINE P == {k \in 0..n : \A i \in 1..k :
                     Len(values[i]) >= MinSecretLength => Contains(f[k], values[i])}
  <1>5. 0..n \subseteq P
    <2>1. 0 \in P
      BY <1>1
    <2>2. ASSUME NEW k \in 1..n, k - 1 \in P PROVE k \in P
      <3>1. /\ f[k - 1] \in Seq(LongOver(A)) /\ values[k] \in Seq(A)
            /\ f[k] = SeenStep(f[k - 1], values[k])
        BY <1>1, <1>3, <1>4
      <3>2. \A w \in Seq(A) : Contains(f[k - 1], w) => Contains(SeenStep(f[k - 1], values[k]), w)
        <4> DEFINE seen == f[k - 1]
                   value == values[k]
        <4>1. seen \in Seq(LongOver(A)) /\ value \in Seq(A)
          BY <3>1
        <4> HIDE DEF seen, value
        <4>2. \A w \in Seq(A) : Contains(seen, w) => Contains(SeenStep(seen, value), w)
          BY <4>1, SeenStepType
        <4> QED
          BY <4>2 DEF seen, value
      <3>3. ASSUME NEW i \in 1..k, Len(values[i]) >= MinSecretLength
            PROVE  Contains(f[k], values[i])
        <4>1. CASE i = k
          BY <3>1, <3>3, <4>1, SeenStepType
        <4>2. CASE i # k
          <5>1. i \in 1..k - 1 /\ i \in 1..n
            BY <1>1, <4>2
          <5>2. Contains(f[k - 1], values[i]) /\ values[i] \in Seq(A)
            BY <1>4, <2>2, <3>3, <5>1
          <5> QED
            BY <3>1, <3>2, <5>2
        <4> QED
          BY <4>1, <4>2
      <3> QED
        BY <1>1, <3>3
    <2> HIDE DEF P
    <2> QED
      BY <1>1, <2>1, <2>2, UpTo
  <1>6. n \in P
    BY <1>1, <1>5
  <1> QED
    BY <1>1, <1>2, <1>3, <1>6 DEF n

(* The values that stand before the i-th one when they are sorted.         *)
Before(values, i) == {j \in DOMAIN values : \/ Len(values[j]) > Len(values[i])
                                            \/ Len(values[j]) = Len(values[i]) /\ j < i}

(* No two values have the same number of values before them.               *)
LEMMA BeforeIsFinite ==
  ASSUME NEW A, NEW values \in Seq(Seq(A)), NEW i \in 1..Len(values)
  PROVE  /\ IsFiniteSet(Before(values, i)) /\ i \notin Before(values, i)
         /\ Before(values, i) \subseteq 1..Len(values)
         /\ Cardinality(Before(values, i)) \in 0..Len(values) - 1
  <1> DEFINE n == Len(values)
             others == (1..n) \ {i}
  <1>1. n \in Nat /\ DOMAIN values = 1..n /\ Len(values[i]) \in Nat
    BY LenProperties, ElementOfSeq
  <1>2. Before(values, i) \in SUBSET others /\ i \notin Before(values, i)
    BY <1>1 DEF Before
  <1>3. IsFiniteSet(1..n) /\ Cardinality(1..n) = n
    <2> HIDE DEF n
    <2> QED
      BY <1>1, FS_Interval
  <1>4. IsFiniteSet(others) /\ Cardinality(others) = n - 1
    <2>1. i \in 1..n
      OBVIOUS
    <2> HIDE DEF n
    <2> QED
      BY <1>3, <2>1, FS_RemoveElement
  <1>5. IsFiniteSet(Before(values, i)) /\ Cardinality(Before(values, i)) <= n - 1
    <2> HIDE DEF others, n
    <2> QED
      BY <1>2, <1>4, FS_Subset
  <1>6. Cardinality(Before(values, i)) \in Nat
    BY <1>5, FS_CardinalityType
  <1> QED
    BY <1>1, <1>2, <1>5, <1>6

LEMMA BeforeIsInjective ==
  ASSUME NEW A, NEW values \in Seq(Seq(A)), NEW i \in 1..Len(values), NEW j \in 1..Len(values),
         Cardinality(Before(values, i)) = Cardinality(Before(values, j))
  PROVE  i = j
  <1>1. \A k \in 1..Len(values) : Len(values[k]) \in Nat
    BY ElementOfSeq, LenProperties
  <1>2. DOMAIN values = 1..Len(values) /\ Len(values) \in Nat
    BY LenProperties
  <1>3. ASSUME NEW k \in 1..Len(values), NEW l \in 1..Len(values), k \in Before(values, l),
               Cardinality(Before(values, k)) = Cardinality(Before(values, l))
        PROVE  FALSE
    <2>1. Before(values, k) \subseteq Before(values, l)
      BY <1>1, <1>2, <1>3 DEF Before
    <2>2. IsFiniteSet(Before(values, l)) /\ k \notin Before(values, k)
      BY BeforeIsFinite
    <2>3. Before(values, l) = Before(values, k)
      BY <1>3, <2>1, <2>2, FS_Subset
    <2> QED
      BY <1>3, <2>2, <2>3
  <1>4. i = j \/ i \in Before(values, j) \/ j \in Before(values, i)
    BY <1>1, <1>2 DEF Before
  <1> QED
    BY <1>3, <1>4

(* Sorting loses no value and adds none.                                   *)
LEMMA LongestFirstPermutes ==
  ASSUME NEW A, NEW values \in Seq(LongOver(A))
  PROVE  /\ LongestFirst(values) \in Seq(LongOver(A))
         /\ \A i \in 1..Len(values) : Contains(LongestFirst(values), values[i])
         /\ Len(LongestFirst(values)) = Len(values)
         /\ \A k \in 1..Len(values) :
               \E i \in 1..Len(values) : /\ Cardinality(Before(values, i)) = k - 1
                                         /\ LongestFirst(values)[k] = values[i]
  <1> DEFINE n == Len(values)
             ordered == LongestFirst(values)
             at(k) == CHOOSE i \in DOMAIN values : Cardinality(Before(values, i)) = k - 1
             place == [i \in 1..n |-> Cardinality(Before(values, i)) + 1]
  <1>1. n \in Nat /\ DOMAIN values = 1..n
    BY LenProperties
  <1>2. values \in Seq(Seq(A))
    BY SeqMonotonic DEF LongOver
  <1>3. ordered = [k \in DOMAIN values |-> values[at(k)]]
    BY Zenon DEF LongestFirst, Before
  <1> HIDE DEF ordered
  <1>4. \A i \in 1..n : Cardinality(Before(values, i)) \in 0..n - 1
    BY <1>2, BeforeIsFinite
  <1>5. \A i, j \in 1..n :
           Cardinality(Before(values, i)) = Cardinality(Before(values, j)) => i = j
    BY <1>2, BeforeIsInjective
  <1> HIDE DEF n
  <1>6. place \in [1..n -> 1..n]
    BY <1>1, <1>4
  <1>7. place \in Injection(1..n, 1..n)
    <2>1. \A i, j \in 1..n : place[i] = place[j] => i = j
      BY <1>4, <1>5
    <2>2. DOMAIN place = 1..n
      OBVIOUS
    <2> HIDE DEF place
    <2> QED
      BY <1>6, <2>1, <2>2 DEF Injection, IsInjective
  <1>8. place \in Surjection(1..n, 1..n)
    <2>1. IsFiniteSet(1..n)
      BY <1>1, FS_Interval
    <2> HIDE DEF place
    <2> QED
      BY <1>7, <2>1, FS_Injection
  <1>9. ASSUME NEW k \in 1..n
        PROVE  \E i \in DOMAIN values : Cardinality(Before(values, i)) = k - 1
    <2>1. PICK i \in 1..n : place[i] = k
      <3> HIDE DEF place
      <3> QED
        BY <1>8 DEF Surjection
    <2>2. Cardinality(Before(values, i)) + 1 = k
      BY <2>1
    <2>3. Cardinality(Before(values, i)) = k - 1
      BY <1>4, <2>2
    <2>4. i \in DOMAIN values
      BY <1>1
    <2> QED
      BY <2>3, <2>4
  <1>10. ASSUME NEW k \in 1..n
         PROVE  at(k) \in 1..n /\ Cardinality(Before(values, at(k))) = k - 1
    <2>1. at(k) \in DOMAIN values /\ Cardinality(Before(values, at(k))) = k - 1
      BY <1>9, Zenon
    <2> QED
      BY <1>1, <2>1, Zenon
  <1>11. ASSUME NEW k \in 1..n PROVE ordered[k] \in LongOver(A) /\ ordered[k] = values[at(k)]
    <2>1. ordered[k] = values[at(k)]
      BY <1>1, <1>3, Zenon
    <2>2. values[at(k)] \in LongOver(A)
      <3> HIDE DEF at
      <3> QED
        BY <1>10, ElementOfSeq DEF n
    <2> QED
      BY <2>1, <2>2
  <1>12. ordered \in Seq(LongOver(A)) /\ Len(ordered) = n
    <2>1. ordered \in [1..n -> LongOver(A)]
      <3>1. DOMAIN ordered = 1..n /\ ordered = [k \in 1..n |-> ordered[k]]
        <4> HIDE DEF at
        <4> QED
          BY <1>1, <1>3
      <3> QED
        BY <3>1, <1>11, Zenon
    <2> QED
      BY <1>1, <2>1, FunctionSeq
  <1>13. ASSUME NEW i \in 1..n PROVE Contains(ordered, values[i])
    <2> DEFINE k == Cardinality(Before(values, i)) + 1
    <2>1. k \in 1..n /\ k - 1 = Cardinality(Before(values, i))
      BY <1>1, <1>4
    <2>2. at(k) \in 1..n /\ Cardinality(Before(values, at(k))) = k - 1 /\ ordered[k] = values[at(k)]
      <3> HIDE DEF at, k
      <3> QED
        BY <1>10, <1>11, <2>1
    <2>3. at(k) = i
      <3> HIDE DEF at, k
      <3> QED
        BY <1>5, <2>1, <2>2
    <2>4. ordered[k] = values[i]
      <3> HIDE DEF at, k
      <3> QED
        BY <2>2, <2>3
    <2> HIDE DEF k
    <2> QED
      BY <1>12, <2>1, <2>4 DEF Contains
  <1>14. ASSUME NEW k \in 1..n
         PROVE  \E i \in 1..n : Cardinality(Before(values, i)) = k - 1 /\ ordered[k] = values[i]
    BY <1>10, <1>11, Zenon
  <1> HIDE DEF at
  <1> QED
    BY <1>12, <1>13, <1>14 DEF ordered, n

(* _unique adds nothing of its own.                                        *)
LEMMA UniqueFrom ==
  ASSUME NEW A, NEW values \in Seq(Seq(A))
  PROVE  \A k \in 1..Len(Unique(values)) :
            \E i \in 1..Len(values) : Unique(values)[k] = values[i]
  <1> DEFINE n == Len(values)
             V == {values[i] : i \in 1..n}
  <1>1. n \in Nat
    BY LenProperties
  <1>2. PICK f : IsSeen(f, A, values) /\ Unique(values) = f[n]
    BY UniqueIs
  <1>3. f[0] = <<>> /\ \A k \in 1..n : f[k] = SeenStep(f[k - 1], values[k])
    BY <1>2 DEF IsSeen
  <1>4. \A k \in 1..n : values[k] \in V
    OBVIOUS
  <1> HIDE DEF n, V
  <1> DEFINE P == {k \in 0..n : f[k] \in Seq(V)}
  <1>5. 0..n \subseteq P
    <2>1. 0 \in P
      <3>1. 0 \in 0..n /\ f[0] \in Seq(V)
        BY <1>1, <1>3, EmptySeq
      <3> QED
        BY <3>1
    <2>2. ASSUME NEW k \in 1..n, k - 1 \in P PROVE k \in P
      <3>1. f[k - 1] \in Seq(V) /\ values[k] \in V
        BY <1>4, <2>2
      <3>2. Append(f[k - 1], values[k]) \in Seq(V)
        BY <3>1, AppendProperties
      <3>3. f[k] = f[k - 1] \/ f[k] = Append(f[k - 1], values[k])
        BY <1>3 DEF SeenStep
      <3>4. f[k] \in Seq(V) /\ k \in 0..n
        <4>1. k \in 0..n
          BY <1>1
        <4> QED
          BY <3>1, <3>2, <3>3, <4>1
      <3> QED
        BY <3>4
    <2> HIDE DEF P
    <2> QED
      BY <1>1, <2>1, <2>2, UpTo
  <1>6. Unique(values) \in Seq(V)
    BY <1>1, <1>2, <1>5
  <1>7. \A k \in 1..Len(Unique(values)) : Unique(values)[k] \in V
    BY <1>6, ElementOfSeq
  <1> QED
    BY <1>7 DEF V, n

(* The longer ones come first.                                             *)
Descending(ordered) ==
    \A j, k \in 1..Len(ordered) : j <= k => Len(ordered[j]) >= Len(ordered[k])

LEMMA LongestFirstDescends ==
  ASSUME NEW A, NEW values \in Seq(LongOver(A))
  PROVE  Descending(LongestFirst(values))
  <1> DEFINE n == Len(values)
             ordered == LongestFirst(values)
  <1>1. values \in Seq(Seq(A)) /\ n \in Nat
    BY LenProperties, SeqMonotonic DEF LongOver
  <1>2. /\ Len(ordered) = n
        /\ \A k \in 1..n : \E i \in 1..n : /\ Cardinality(Before(values, i)) = k - 1
                                           /\ ordered[k] = values[i]
    BY LongestFirstPermutes
  <1> HIDE DEF ordered
  <1> SUFFICES ASSUME NEW j \in 1..n, NEW k \in 1..n, j <= k,
                      ~(Len(ordered[j]) >= Len(ordered[k]))
               PROVE  FALSE
    BY <1>2 DEF Descending, ordered
  <1>3. PICK i \in 1..n : Cardinality(Before(values, i)) = j - 1 /\ ordered[j] = values[i]
    BY <1>2
  <1>4. PICK l \in 1..n : Cardinality(Before(values, l)) = k - 1 /\ ordered[k] = values[l]
    BY <1>2
  <1>5. Len(values[i]) \in Nat /\ Len(values[l]) \in Nat /\ \A m \in 1..n : Len(values[m]) \in Nat
    BY <1>1, ElementOfSeq, LenProperties
  <1>6. Len(values[i]) < Len(values[l])
    BY <1>3, <1>4, <1>5
  <1>7. Before(values, l) \in SUBSET Before(values, i) /\ l \in Before(values, i)
    <2>1. DOMAIN values = 1..n
      BY LenProperties
    <2> HIDE DEF n
    <2> QED
      BY <1>5, <1>6, <2>1 DEF Before
  <1>8. IsFiniteSet(Before(values, i)) /\ l \notin Before(values, l)
    BY <1>1, BeforeIsFinite
  <1>9. Cardinality(Before(values, l)) <= Cardinality(Before(values, i))
    BY <1>7, <1>8, FS_Subset
  <1>10. Cardinality(Before(values, l)) # Cardinality(Before(values, i))
    BY <1>7, <1>8, FS_Subset
  <1> QED
    BY <1>1, <1>3, <1>4, <1>9, <1>10

(* What is looked for: the values that are long enough, the longer first.  *)
IsLookedFor(ordered, A, values) ==
    /\ ordered = LongestFirst(Unique(values)) /\ ordered \in Seq(Seq(A) \ {<<>>})
    /\ Descending(ordered) /\ \A k \in 1..Len(ordered) : Plain(ordered[k])
    /\ \A w : (\E k \in 1..Len(ordered) : w = ordered[k])
                <=> \E s \in 1..Len(values) : Len(values[s]) >= MinSecretLength /\ w = values[s]

LEMMA LookedFor ==
  ASSUME NEW A, Mask \in A, NEW B, B \subseteq A, Mask \notin B, NEW values \in Seq(Seq(B))
  PROVE  IsLookedFor(LongestFirst(Unique(values)), A, values)
  <1> DEFINE kept == Unique(values)
             ordered == LongestFirst(kept)
  <1>1. /\ kept \in Seq(LongOver(B))
        /\ \A s \in 1..Len(values) :
              Len(values[s]) >= MinSecretLength => Contains(kept, values[s])
        /\ \A k \in 1..Len(kept) : \E i \in 1..Len(values) : kept[k] = values[i]
    BY UniqueKeeps, UniqueFrom
  <1>2. ordered = LongestFirst(Unique(values))
    OBVIOUS
  <1> HIDE DEF kept
  <1>3. /\ ordered \in Seq(LongOver(B))
        /\ \A k \in 1..Len(kept) : Contains(ordered, kept[k])
        /\ Len(ordered) = Len(kept)
        /\ \A k \in 1..Len(kept) : \E i \in 1..Len(kept) : ordered[k] = kept[i]
        /\ Descending(ordered)
    BY <1>1, LongestFirstPermutes, LongestFirstDescends
  <1> HIDE DEF ordered
  <1>4. ASSUME NEW w \in LongOver(B) PROVE w \in Seq(A) \ {<<>>} /\ Plain(w)
    <2>1. w \in Seq(B) /\ Len(w) \in Nat /\ Len(w) # 0
      BY LenProperties, RedactAssumption DEF LongOver
    <2>2. w \in Seq(A) /\ w # <<>>
      BY <2>1, SeqMonotonic, EmptySeq
    <2>3. \A k \in 1..Len(w) : w[k] # Mask
      BY <2>1, ElementOfSeq
    <2> QED
      BY <2>2, <2>3 DEF Plain
  <1>5. ordered \in Seq(Seq(A) \ {<<>>})
    BY <1>3, <1>4, SeqMonotonic
  <1>6. \A k \in 1..Len(ordered) : Plain(ordered[k])
    BY <1>3, <1>4, ElementOfSeq
  <1>7. ASSUME NEW s \in 1..Len(values), Len(values[s]) >= MinSecretLength
        PROVE  \E k \in 1..Len(ordered) : values[s] = ordered[k]
    <2>1. PICK k : k \in 1..Len(kept) /\ kept[k] = values[s]
      BY <1>1, <1>7 DEF Contains
    <2> QED
      BY <1>3, <2>1 DEF Contains
  <1>8. ASSUME NEW k \in 1..Len(ordered)
        PROVE  \E s \in 1..Len(values) : Len(values[s]) >= MinSecretLength /\ ordered[k] = values[s]
    <2>1. PICK i \in 1..Len(kept) : ordered[k] = kept[i]
      BY <1>3
    <2>2. PICK s \in 1..Len(values) : kept[i] = values[s]
      BY <1>1
    <2>3. Len(ordered[k]) >= MinSecretLength
      BY <1>3, ElementOfSeq DEF LongOver
    <2> QED
      BY <2>1, <2>2, <2>3
  <1>9. \A w : (\E k \in 1..Len(ordered) : w = ordered[k])
                  <=> \E s \in 1..Len(values) : Len(values[s]) >= MinSecretLength /\ w = values[s]
    BY <1>7, <1>8
  <1> QED
    BY <1>2, <1>3, <1>5, <1>6, <1>9 DEF IsLookedFor

(* No value of the minimal length is left of a message.                    *)
LEMMA RedactSecretsHides ==
  ASSUME NEW A, Mask \in A, NEW B, B \subseteq A, Mask \notin B,
         NEW text \in Seq(A), NEW values \in Seq(Seq(B))
  PROVE  /\ RedactSecrets(text, values) \in Seq(A)
         /\ \A s \in 1..Len(values), i \in Nat \ {0} :
               Len(values[s]) >= MinSecretLength =>
                  ~OccursAt(values[s], RedactSecrets(text, values), i)
  <1> DEFINE ordered == LongestFirst(Unique(values))
  <1>1. ordered = LongestFirst(Unique(values)) /\ IsLookedFor(ordered, A, values)
    BY LookedFor
  <1> HIDE DEF ordered
  <1>2. /\ ordered \in Seq(Seq(A) \ {<<>>})
        /\ \A k \in 1..Len(ordered) : Plain(ordered[k])
    BY <1>1 DEF IsLookedFor
  <1>3. /\ RedactSecrets(text, values) \in Seq(A)
        /\ \A k \in 1..Len(ordered), i \in Nat \ {0} :
              ~OccursAt(ordered[k], RedactSecrets(text, values), i)
    <2>1. PICK f : /\ IsMasking(f, A, text, ordered)
                   /\ RedactSecrets(text, values) = f[Len(ordered)]
      BY <1>1, <1>2, RedactSecretsIs
    <2>2. Len(ordered) \in Nat /\ Len(ordered) \in 0..Len(ordered)
      BY <1>2, LenProperties
    <2>3. f[Len(ordered)] \in Seq(A)
      BY <2>1, <2>2 DEF IsMasking
    <2>4. \A m \in 0..Len(ordered), k \in 1..Len(ordered), i \in Nat \ {0} :
             k <= m => ~OccursAt(ordered[k], f[m], i)
      BY <1>2, <2>1, NothingLeft
    <2>5. \A k \in 1..Len(ordered), i \in Nat \ {0} : ~OccursAt(ordered[k], f[Len(ordered)], i)
      <3>1. \A k \in 1..Len(ordered) : k <= Len(ordered)
        BY <2>2
      <3> QED
        BY <2>2, <2>4, <3>1
    <2> QED
      BY <2>1, <2>3, <2>5
  <1>4. ASSUME NEW s \in 1..Len(values), Len(values[s]) >= MinSecretLength
        PROVE  \E k \in 1..Len(ordered) : values[s] = ordered[k]
    BY <1>1, <1>4 DEF IsLookedFor
  <1> QED
    BY <1>3, <1>4

-----------------------------------------------------------------------------
(* Where the letters and the masks of a text that was redacted come from.  *)

(* A sequence of numbers that reaches x steps over it somewhere.           *)
LEMMA Crossing ==
  ASSUME NEW n \in Nat, NEW c \in [0..n -> Nat], NEW x \in Nat, c[0] < x, x <= c[n]
  PROVE  \E j \in 1..n : c[j - 1] < x /\ x <= c[j]
  <1> DEFINE T == {j \in 0..n : x <= c[j]}
  <1>1. PICK m \in T : \A k \in T : m <= k
    <2>1. T \subseteq Nat /\ n \in T
      OBVIOUS
    <2> HIDE DEF T
    <2> QED
      BY <2>1, LeastNatural
  <1>2. m \in 1..n /\ x <= c[m] /\ m - 1 \in 0..n /\ ~(m <= m - 1)
    BY <1>1
  <1>3. m - 1 \notin T
    <2> HIDE DEF T
    <2> QED
      BY <1>1, <1>2
  <1> QED
    BY <1>2, <1>3

(* Each letter of a replacement is the next one of the text, each mask     *)
(* stands for the next occurrence of the secret; g tells how far in the    *)
(* text each of them reaches.                                              *)
Piece(g, j, part, text, secret) ==
    \/ g[j] = g[j - 1] + 1 /\ part[j] = text[g[j]]
    \/ g[j] = g[j - 1] + Len(secret) /\ part[j] = Mask /\ OccursAt(secret, text, g[j - 1] + 1)

Cuts(g, part, text, secret, i) ==
    /\ g \in [0..Len(part) -> 0..Len(text)] /\ g[0] = i - 1 /\ g[Len(part)] = Len(text)
    /\ \A j \in 1..Len(part) : Piece(g, j, part, text, secret)

LEMMA CutsStep ==
  ASSUME NEW A, Mask \in A, NEW text \in Seq(A), NEW secret \in Seq(A), secret # <<>>,
         NEW f, IsFrom(f, A, text, secret), NEW i \in 1..Len(text), f[i] # <<>>,
         \A next \in (i + 1)..(Len(text) + 1) : \E g : Cuts(g, f[next], text, secret, next)
  PROVE  \E g : Cuts(g, f[i], text, secret, i)
  <1>1. Len(text) \in Nat /\ Len(secret) \in Nat \ {0} /\ i \in 1..(Len(text) + Len(secret))
    BY LenProperties, EmptySeq
  <1>2. f[i] \in Seq(A) /\ Len(f[i]) \in Nat
    BY <1>1, LenProperties DEF IsFrom
  <1>3. PICK next : /\ next \in (i + 1)..(Len(text) + Len(secret)) /\ i <= Len(text)
                    /\ f[next] \in Seq(A) /\ Len(f[i]) = Len(f[next]) + 1
                    /\ \A k \in 2..Len(f[i]) : f[i][k] = f[next][k - 1]
                    /\ \/ f[i][1] = Mask /\ next = i + Len(secret) /\ OccursAt(secret, text, i)
                       \/ f[i][1] = text[i] /\ next = i + 1 /\ ~OccursAt(secret, text, i)
    BY <1>1, FromSteps
  <1>4. next \in (i + 1)..(Len(text) + 1)
    <2>1. CASE next = i + Len(secret) /\ OccursAt(secret, text, i)
      BY <1>1, <2>1 DEF OccursAt
    <2>2. CASE next = i + 1
      BY <1>1, <2>2
    <2> QED
      BY <1>3, <2>1, <2>2
  <1>5. PICK h : Cuts(h, f[next], text, secret, next)
    BY <1>4
  <1> DEFINE n == Len(f[next])
             g == [j \in 0..n + 1 |-> IF j = 0 THEN i - 1 ELSE h[j - 1]]
  <1>6. n \in Nat /\ Len(f[i]) = n + 1
    BY <1>3, LenProperties
  <1>7. h \in [0..n -> 0..Len(text)] /\ h[0] = next - 1 /\ h[n] = Len(text)
    BY <1>5 DEF Cuts
  <1>8. /\ g \in [0..n + 1 -> 0..Len(text)] /\ g[0] = i - 1
        /\ \A j \in 1..n + 1 : g[j] = h[j - 1]
    BY <1>1, <1>6, <1>7
  <1>9. g[n + 1] = Len(text)
    BY <1>6, <1>7, <1>8
  <1>10. ASSUME NEW j \in 1..n + 1 PROVE Piece(g, j, f[i], text, secret)
    <2>1. CASE j = 1
      <3>1. g[j] = next - 1 /\ g[j - 1] = i - 1 /\ (i - 1) + 1 = i
        BY <1>6, <1>7, <1>8, <2>1
      <3>2. CASE f[i][1] = Mask /\ next = i + Len(secret) /\ OccursAt(secret, text, i)
        <4>1. next - 1 = (i - 1) + Len(secret)
          BY <1>1, <3>2
        <4> HIDE DEF g
        <4> QED
          BY <2>1, <3>1, <3>2, <4>1 DEF Piece
      <3>3. CASE f[i][1] = text[i] /\ next = i + 1
        <4>1. next - 1 = (i - 1) + 1 /\ next - 1 = i
          BY <3>3
        <4> HIDE DEF g
        <4> QED
          BY <2>1, <3>1, <3>3, <4>1 DEF Piece
      <3> QED
        BY <1>3, <3>2, <3>3
    <2>2. CASE j # 1
      <3> DEFINE k == j - 1
      <3>1. k \in 1..n /\ j \in 2..Len(f[i]) /\ j \in 1..n + 1 /\ j - 1 \in 1..n + 1
        BY <1>6, <2>2
      <3>2. g[j] = h[k] /\ g[j - 1] = h[k - 1] /\ f[i][j] = f[next][k]
        BY <1>3, <1>8, <3>1
      <3>3. Piece(h, k, f[next], text, secret)
        <4> HIDE DEF k
        <4> QED
          BY <1>5, <3>1 DEF Cuts
      <3> HIDE DEF g, k
      <3> QED
        BY <3>2, <3>3 DEF Piece
    <2> QED
      BY <2>1, <2>2
  <1> HIDE DEF g, n
  <1> QED
    BY <1>6, <1>8, <1>9, <1>10 DEF Cuts

LEMMA ReplaceCuts ==
  ASSUME NEW A, Mask \in A, NEW text \in Seq(A), NEW secret \in Seq(A), secret # <<>>
  PROVE  \E g : Cuts(g, Replace(text, secret), text, secret, 1)
  <1>1. Len(text) \in Nat /\ Len(secret) \in Nat \ {0}
    BY LenProperties, EmptySeq
  <1>2. PICK f : IsFrom(f, A, text, secret) /\ Replace(text, secret) = f[1]
    BY ReplaceIs
  <1> DEFINE Works(i) == \E g : Cuts(g, f[i], text, secret, i)
             T == {m \in 0..Len(text) : ~Works(Len(text) + 1 - m)}
  <1>3. T = {}
    <2> SUFFICES ASSUME T # {} PROVE FALSE
      OBVIOUS
    <2>1. PICK m \in T : \A k \in T : m <= k
      <3> T \subseteq Nat
        BY <1>1
      <3> HIDE DEF T
      <3> QED
        BY LeastNatural
    <2> DEFINE i == Len(text) + 1 - m
    <2>2. m \in 0..Len(text) /\ ~Works(i) /\ i \in 1..(Len(text) + Len(secret))
      BY <1>1, <2>1
    <2>3. f[i] = FromStep(f, text, secret, i)
      BY <1>2, <2>2 DEF IsFrom
    <2>4. m # 0
      <3> SUFFICES ASSUME m = 0 PROVE FALSE
        OBVIOUS
      <3> DEFINE g == [j \in 0..0 |-> Len(text)]
      <3>1. i = Len(text) + 1 /\ i - 1 = Len(text) /\ i > Len(text)
        BY <1>1
      <3>2. f[i] = <<>> /\ Len(f[i]) = 0
        <4>1. f[i] = <<>>
          BY <2>3, <3>1 DEF FromStep
        <4> QED
          BY <4>1
      <3>3. g \in [0..0 -> 0..Len(text)] /\ g[0] = i - 1 /\ g[0] = Len(text)
        BY <1>1, <3>1
      <3> HIDE DEF g, i
      <3>4. Cuts(g, f[i], text, secret, i)
        BY <3>2, <3>3 DEF Cuts
      <3> QED
        BY <2>2, <3>4
    <2>5. i \in 1..Len(text)
      BY <1>1, <2>2, <2>4
    <2>6. f[i] # <<>>
      <3> DEFINE more == IF OccursAt(secret, text, i) THEN f[i + Len(secret)] ELSE f[i + 1]
      <3>1. FromStep(f, text, secret, i) \in Seq(A) /\ Len(FromStep(f, text, secret, i)) # 0
        <4>1. ~(i > Len(text)) /\ text[i] \in A
          BY <1>1, <2>5, ElementOfSeq
        <4>2. i + Len(secret) \in 1..(Len(text) + Len(secret)) /\ i + 1 \in 1..(Len(text) + Len(secret))
          BY <1>1, <2>5
        <4>3. f[i + Len(secret)] \in Seq(A) /\ f[i + 1] \in Seq(A)
          BY <1>2, <4>2 DEF IsFrom
        <4> HIDE DEF i
        <4>4. /\ <<Mask>> \o f[i + Len(secret)] \in Seq(A)
              /\ Len(<<Mask>> \o f[i + Len(secret)]) = Len(f[i + Len(secret)]) + 1
              /\ Len(f[i + Len(secret)]) \in Nat
          BY <4>3, InFront, LenProperties
        <4>5. /\ <<text[i]>> \o f[i + 1] \in Seq(A)
              /\ Len(<<text[i]>> \o f[i + 1]) = Len(f[i + 1]) + 1
              /\ Len(f[i + 1]) \in Nat
          BY <4>1, <4>3, InFront, LenProperties
        <4> QED
          BY <4>1, <4>4, <4>5 DEF FromStep
      <3> HIDE DEF i
      <3> QED
        BY <2>3, <3>1, EmptySeq
    <2>7. ASSUME NEW next \in (i + 1)..(Len(text) + 1) PROVE Works(next)
      <3> DEFINE k == Len(text) + 1 - next
      <3>1. k \in 0..Len(text) /\ ~(m <= k) /\ Len(text) + 1 - k = next
        BY <1>1, <2>2
      <3>2. k \notin T
        <4> HIDE DEF T, k
        <4> QED
          BY <2>1, <3>1
      <3>3. Works(Len(text) + 1 - k)
        <4> HIDE DEF k, Works
        <4> QED
          BY <3>1, <3>2
      <3> HIDE DEF k
      <3> QED
        BY <3>1, <3>3
    <2> HIDE DEF i
    <2>8. Works(i)
      BY <1>2, <2>5, <2>6, <2>7, CutsStep
    <2> QED
      BY <2>2, <2>8
  <1>4. Works(1)
    <2>1. Len(text) \in 0..Len(text) /\ Len(text) + 1 - Len(text) = 1
      BY <1>1
    <2> HIDE DEF Works
    <2>2. Works(Len(text) + 1 - Len(text))
      BY <1>3, <2>1
    <2> QED
      BY <2>1, <2>2
  <1> QED
    BY <1>2, <1>4

(* Steps upwards add up.                                                   *)
LEMMA Increasing ==
  ASSUME NEW n \in Nat, NEW c \in [0..n -> Nat], \A j \in 1..n : c[j - 1] < c[j]
  PROVE  \A a, b \in 0..n : a < b => c[a] < c[b]
  <1> DEFINE P == {b \in 0..n : \A a \in 0..n : a < b => c[a] < c[b]}
  <1>1. 0 \in P
    OBVIOUS
  <1>2. ASSUME NEW b \in 1..n, b - 1 \in P PROVE b \in P
    <2>1. ASSUME NEW a \in 0..n, a < b PROVE c[a] < c[b]
      <3>1. c[b - 1] < c[b] /\ c[a] \in Nat /\ c[b - 1] \in Nat /\ c[b] \in Nat
        OBVIOUS
      <3>2. a = b - 1 \/ c[a] < c[b - 1]
        BY <1>2, <2>1
      <3> QED
        BY <3>1, <3>2
    <2> QED
      BY <2>1
  <1>3. 0..n \subseteq P
    <2> HIDE DEF P
    <2> QED
      BY <1>1, <1>2, UpTo
  <1> QED
    BY <1>3

(* One of the first k secrets occurs in the message from lo to hi.         *)
IsPlace(lo, hi, message, ordered, k) ==
    \E j \in 1..k : OccursAt(ordered[j], message, lo) /\ hi = lo + Len(ordered[j]) - 1

(* Each letter of a text is the next one of the message, each mask stands  *)
(* for an occurrence in it; e tells how far in the message each reaches.   *)
Reads(e, text, message, ordered, k) ==
    /\ e \in [0..Len(text) -> Nat] /\ e[0] = 0 /\ e[Len(text)] = Len(message)
    /\ \A j \in 1..Len(text) : e[j - 1] < e[j]
    /\ \A j \in 1..Len(text) :
          \/ text[j] # Mask /\ e[j] = e[j - 1] + 1 /\ text[j] = message[e[j]]
          \/ text[j] = Mask /\ IsPlace(e[j - 1] + 1, e[j], message, ordered, k)

(* A mask covers these positions of the message.                           *)
Covers(e, text, lo, hi) ==
    \E j \in 1..Len(text) : text[j] = Mask /\ e[j - 1] < lo /\ hi <= e[j]

LEMMA ReadsItself ==
  ASSUME NEW A, NEW message \in Seq(A), Mask \notin A, NEW ordered
  PROVE  \E e : Reads(e, message, message, ordered, 0)
  <1> DEFINE e == [j \in 0..Len(message) |-> j]
  <1>1. Len(message) \in Nat /\ \A j \in 1..Len(message) : message[j] \in A
    BY LenProperties, ElementOfSeq
  <1>2. /\ e \in [0..Len(message) -> Nat] /\ e[0] = 0 /\ e[Len(message)] = Len(message)
        /\ \A j \in 1..Len(message) : e[j] = e[j - 1] + 1 /\ e[j] = j /\ message[j] # Mask
    BY <1>1
  <1> HIDE DEF e
  <1>3. Reads(e, message, message, ordered, 0)
    BY <1>2 DEF Reads
  <1> QED
    BY <1>3

(* A stretch of letters of a text is a stretch of the message.             *)
InARow(e, text, message) ==
    \A a, n \in Nat :
        a + n <= Len(text) /\ (\A t \in 1..n : text[a + t] # Mask)
          => /\ \A t \in 0..n : e[a + t] = e[a] + t
             /\ \A t \in 1..n : text[a + t] = message[e[a] + t]

LEMMA LettersAreInARow ==
  ASSUME NEW text, NEW message, NEW ordered, NEW k, NEW e, Reads(e, text, message, ordered, k),
         Len(text) \in Nat
  PROVE  InARow(e, text, message)
  <1> SUFFICES ASSUME NEW a \in Nat, NEW n \in Nat, a + n <= Len(text),
                      \A t \in 1..n : text[a + t] # Mask
               PROVE  /\ \A t \in 0..n : e[a + t] = e[a] + t
                      /\ \A t \in 1..n : text[a + t] = message[e[a] + t]
    BY DEF InARow
  <1>1. ASSUME NEW t \in 1..n
        PROVE  /\ e[a + t] = e[a + (t - 1)] + 1 /\ text[a + t] = message[e[a + t]]
    <2> DEFINE j == a + t
    <2>1. j \in 1..Len(text) /\ text[j] # Mask /\ j - 1 = a + (t - 1)
      OBVIOUS
    <2> HIDE DEF j
    <2>2. e[j] = e[j - 1] + 1 /\ text[j] = message[e[j]]
      BY <2>1 DEF Reads
    <2> QED
      BY <2>1, <2>2 DEF j
  <1>2. e[a] \in Nat
    <2>1. a \in 0..Len(text)
      OBVIOUS
    <2> QED
      BY <2>1 DEF Reads
  <1> DEFINE P == {t \in 0..n : e[a + t] = e[a] + t}
  <1>3. 0..n \subseteq P
    <2>1. 0 \in P
      BY <1>2
    <2>2. ASSUME NEW t \in 1..n, t - 1 \in P PROVE t \in P
      <3>1. e[a + (t - 1)] = e[a] + (t - 1)
        BY <2>2
      <3> QED
        BY <1>1, <1>2, <3>1
    <2> HIDE DEF P
    <2> QED
      BY <2>1, <2>2, UpTo
  <1>4. \A t \in 0..n : e[a + t] = e[a] + t
    BY <1>3
  <1>5. ASSUME NEW t \in 1..n PROVE text[a + t] = message[e[a] + t]
    <2>1. t \in 0..n
      OBVIOUS
    <2>2. e[a + t] = e[a] + t
      BY <1>4, <2>1
    <2>3. text[a + t] = message[e[a + t]]
      BY <1>1
    <2> QED
      BY <2>2, <2>3
  <1> QED
    BY <1>4, <1>5

(* A replacement reads the same message, with the secret's places added.   *)
LEMMA ReplaceReads ==
  ASSUME NEW A, Mask \in A, NEW text \in Seq(A), NEW message \in Seq(A),
         NEW n \in Nat, NEW ordered, NEW k \in 1..n,
         ordered[k] \in Seq(A), Plain(ordered[k]),
         NEW e, Reads(e, text, message, ordered, k - 1)
  PROVE  \E d : /\ Reads(d, Replace(text, ordered[k]), message, ordered, k)
                /\ \A lo \in Nat, hi \in Nat :
                      lo <= hi /\ Covers(e, text, lo, hi)
                        => Covers(d, Replace(text, ordered[k]), lo, hi)
  <1> DEFINE secret == ordered[k]
             part == Replace(text, secret)
  <1>1. secret # <<>> /\ \A l \in 1..Len(secret) : secret[l] # Mask
    BY DEF Plain
  <1>2. secret \in Seq(A) /\ secret = ordered[k]
    OBVIOUS
  <1>3. part \in Seq(A)
    BY <1>1, ReplaceType
  <1>4. PICK g : Cuts(g, part, text, secret, 1)
    BY <1>1, ReplaceCuts
  <1> HIDE DEF secret, part
  <1>5. Len(part) \in Nat /\ Len(text) \in Nat /\ Len(secret) \in Nat /\ Len(message) \in Nat
    BY <1>2, <1>3, LenProperties
  <1>6. /\ g \in [0..Len(part) -> 0..Len(text)] /\ g[0] = 0 /\ g[Len(part)] = Len(text)
        /\ \A j \in 1..Len(part) : Piece(g, j, part, text, secret)
    BY <1>4 DEF Cuts
  <1>7. e \in [0..Len(text) -> Nat] /\ e[0] = 0 /\ e[Len(text)] = Len(message)
    BY DEF Reads
  <1> DEFINE d == [j \in 0..Len(part) |-> e[g[j]]]
  <1>8. /\ d \in [0..Len(part) -> Nat] /\ d[0] = 0 /\ d[Len(part)] = Len(message)
        /\ \A j \in 0..Len(part) : d[j] = e[g[j]]
    BY <1>5, <1>6, <1>7
  <1> HIDE DEF d
  <1>9. ASSUME NEW j \in 1..Len(part)
        PROVE  \/ part[j] # Mask /\ d[j] = d[j - 1] + 1 /\ part[j] = message[d[j]]
               \/ part[j] = Mask /\ IsPlace(d[j - 1] + 1, d[j], message, ordered, k)
    <2>1. /\ j \in 0..Len(part) /\ j - 1 \in 0..Len(part)
          /\ g[j] \in 0..Len(text) /\ g[j - 1] \in 0..Len(text)
      <3>1. j \in 0..Len(part) /\ j - 1 \in 0..Len(part)
        BY <1>5
      <3> QED
        BY <1>6, <3>1
    <2>2. d[j] = e[g[j]] /\ d[j - 1] = e[g[j - 1]] /\ d[j] \in Nat /\ d[j - 1] \in Nat
      BY <1>8, <2>1
    <2>3. CASE g[j] = g[j - 1] + 1 /\ part[j] = text[g[j]]
      <3> DEFINE l == g[j]
      <3>1. l \in 1..Len(text) /\ l - 1 = g[j - 1]
        BY <2>1, <2>3
      <3> HIDE DEF l
      <3>2. \/ text[l] # Mask /\ e[l] = e[l - 1] + 1 /\ text[l] = message[e[l]]
            \/ text[l] = Mask /\ IsPlace(e[l - 1] + 1, e[l], message, ordered, k - 1)
        BY <3>1 DEF Reads
      <3>3. IsPlace(e[l - 1] + 1, e[l], message, ordered, k - 1)
              => IsPlace(e[l - 1] + 1, e[l], message, ordered, k)
        BY DEF IsPlace
      <3> QED
        BY <2>2, <2>3, <3>1, <3>2, <3>3 DEF l
    <2>4. CASE /\ g[j] = g[j - 1] + Len(secret) /\ part[j] = Mask
               /\ OccursAt(secret, text, g[j - 1] + 1)
      <3> DEFINE a == g[j - 1]
      <3>1. a \in Nat /\ a + 1 \in Nat \ {0} /\ a + Len(secret) = g[j] /\ a + Len(secret) <= Len(text)
        BY <1>5, <2>1, <2>4
      <3>0. OccursAt(secret, text, a + 1)
        BY <2>4
      <3> HIDE DEF a
      <3>2. \A t \in 1..Len(secret) : text[(a + 1) + t - 1] = secret[t]
        BY <1>2, <3>0, <3>1, OccursPointwise
      <3>3. \A t \in 1..Len(secret) : text[a + t] = secret[t]
        <4>1. \A t \in 1..Len(secret) : (a + 1) + t - 1 = a + t
          BY <3>1, <1>5
        <4> QED
          BY <3>2, <4>1
      <3>4. /\ \A t \in 0..Len(secret) : e[a + t] = e[a] + t
            /\ \A t \in 1..Len(secret) : text[a + t] = message[e[a] + t]
        <4>1. \A t \in 1..Len(secret) : text[a + t] # Mask
          BY <1>1, <3>3
        <4>2. InARow(e, text, message)
          BY <1>5, LettersAreInARow
        <4> QED
          BY <1>5, <3>1, <4>1, <4>2 DEF InARow
      <3>5. d[j - 1] = e[a] /\ d[j] = d[j - 1] + Len(secret)
        <4>1. Len(secret) \in 0..Len(secret)
          BY <1>5
        <4>2. e[a + Len(secret)] = e[a] + Len(secret)
          BY <3>4, <4>1
        <4> QED
          BY <2>2, <3>1, <4>2 DEF a
      <3>6. d[j] <= Len(message)
        <4>1. g[j] = Len(text) \/ g[j] < Len(text)
          BY <1>5, <2>1
        <4>2. g[j] < Len(text) => e[g[j]] < e[Len(text)]
          <5>1. \A l \in 1..Len(text) : e[l - 1] < e[l]
            BY DEF Reads
          <5>2. Len(text) \in 0..Len(text)
            BY <1>5
          <5> QED
            BY <1>5, <1>7, <2>1, <5>1, <5>2, Increasing
        <4> QED
          BY <1>5, <1>7, <2>2, <4>1, <4>2
      <3> DEFINE lo == d[j - 1] + 1
      <3>7. lo \in Nat \ {0} /\ d[j] = lo + Len(secret) - 1
        BY <1>5, <2>2, <3>5
      <3>8. \A t \in 1..Len(secret) : message[lo + t - 1] = secret[t]
        <4>1. \A t \in 1..Len(secret) : lo + t - 1 = e[a] + t
          BY <2>2, <3>5, <1>5
        <4> HIDE DEF lo
        <4> QED
          BY <3>3, <3>4, <4>1
      <3> HIDE DEF lo
      <3>9. OccursAt(secret, message, lo)
        BY <1>2, <3>6, <3>7, <3>8, OccursPointwise
      <3>10. IsPlace(lo, d[j], message, ordered, k)
        <4>1. k \in 1..k
          OBVIOUS
        <4> QED
          BY <1>2, <3>7, <3>9, <4>1 DEF IsPlace
      <3> QED
        BY <2>4, <3>10 DEF lo
    <2> QED
      BY <1>6, <2>3, <2>4 DEF Piece
  <1>10. ASSUME NEW j \in 1..Len(part) PROVE d[j - 1] < d[j]
    <2>1. /\ j \in 0..Len(part) /\ j - 1 \in 0..Len(part)
      BY <1>5
    <2>2. g[j] \in 0..Len(text) /\ g[j - 1] \in 0..Len(text) /\ g[j - 1] < g[j]
      <3>1. Len(secret) > 0
        BY <1>1, <1>2, <1>5, EmptySeq
      <3>2. g[j] \in 0..Len(text) /\ g[j - 1] \in 0..Len(text)
        BY <1>6, <2>1
      <3>3. g[j] = g[j - 1] + 1 \/ g[j] = g[j - 1] + Len(secret)
        BY <1>6 DEF Piece
      <3> QED
        BY <1>5, <3>1, <3>2, <3>3
    <2>3. \A l \in 1..Len(text) : e[l - 1] < e[l]
      BY DEF Reads
    <2>4. e[g[j - 1]] < e[g[j]]
      BY <1>5, <1>7, <2>2, <2>3, Increasing
    <2> QED
      BY <1>8, <2>1, <2>4
  <1>11. Reads(d, part, message, ordered, k)
    BY <1>8, <1>9, <1>10 DEF Reads
  <1>12. ASSUME NEW lo \in Nat, NEW hi \in Nat, lo <= hi, Covers(e, text, lo, hi)
         PROVE  Covers(d, part, lo, hi)
    <2>1. PICK l \in 1..Len(text) : text[l] = Mask /\ e[l - 1] < lo /\ hi <= e[l]
      BY <1>12 DEF Covers
    <2>2. PICK j \in 1..Len(part) : g[j - 1] < l /\ l <= g[j]
      <3>1. g \in [0..Len(part) -> Nat] /\ g[0] < l /\ l <= g[Len(part)] /\ l \in Nat
        BY <1>5, <1>6
      <3> QED
        BY <1>5, <3>1, Crossing
    <2>3. /\ j \in 0..Len(part) /\ j - 1 \in 0..Len(part)
          /\ g[j] \in 0..Len(text) /\ g[j - 1] \in 0..Len(text)
      <3>1. j \in 0..Len(part) /\ j - 1 \in 0..Len(part)
        BY <1>5
      <3> QED
        BY <1>6, <3>1
    <2>4. CASE g[j] = g[j - 1] + 1 /\ part[j] = text[g[j]]
      <3>1. l = g[j] /\ l - 1 = g[j - 1]
        BY <1>5, <2>2, <2>3, <2>4
      <3>2. part[j] = Mask /\ d[j - 1] = e[l - 1] /\ d[j] = e[l]
        BY <1>8, <2>1, <2>3, <2>4, <3>1
      <3> QED
        BY <2>1, <3>2 DEF Covers
    <2>5. CASE /\ g[j] = g[j - 1] + Len(secret) /\ OccursAt(secret, text, g[j - 1] + 1)
      <3> DEFINE i == g[j - 1] + 1
                 t == l - g[j - 1]
      <3>1. i \in Nat \ {0} /\ t \in 1..Len(secret) /\ i + t - 1 = l
        <4>1. /\ g[j] = g[j - 1] + Len(secret) /\ g[j - 1] < l /\ l <= g[j]
              /\ g[j] \in Nat /\ g[j - 1] \in Nat /\ l \in Nat
          BY <1>5, <2>2, <2>3, <2>5
        <4> DEFINE x == g[j - 1]
        <4>2. x \in Nat /\ x < l /\ l <= x + Len(secret) /\ l \in Nat /\ Len(secret) \in Nat
          BY <1>5, <4>1
        <4>3. i = x + 1 /\ t = l - x
          OBVIOUS
        <4> HIDE DEF x, i, t
        <4> QED
          BY <4>2, <4>3
      <3>2. OccursAt(secret, text, i)
        BY <2>5
      <3> HIDE DEF i, t
      <3>3. text[i + t - 1] = secret[t]
        BY <1>2, <3>1, <3>2, OccursPointwise
      <3> QED
        BY <1>1, <2>1, <3>1, <3>3
    <2> QED
      BY <1>6, <2>4, <2>5 DEF Piece
  <1> QED
    BY <1>11, <1>12 DEF part, secret

(* Any two occurrences are nested or apart.                                *)
AreTidy(message, ordered, k) ==
    \A lo, hi, low, high \in Nat \ {0} :
        IsPlace(lo, hi, message, ordered, k) /\ IsPlace(low, high, message, ordered, k)
          => \/ low <= lo /\ hi <= high
             \/ lo <= low /\ high <= hi
             \/ hi < low \/ high < lo

(* The masks stand for values that are no shorter, so that one which       *)
(* touches an occurrence covers it; if none did, the value would be left.  *)
LEMMA OccurrenceIsCovered ==
  ASSUME NEW A, NEW text \in Seq(A), NEW message \in Seq(A),
         NEW n \in Nat, NEW ordered, NEW k \in 1..n,
         \A j \in 1..k : Len(ordered[j]) \in Nat /\ Len(ordered[j]) >= Len(ordered[k]),
         ordered[k] \in Seq(A), ordered[k] # <<>>,
         NEW e, Reads(e, text, message, ordered, k), AreTidy(message, ordered, k),
         \A i \in Nat \ {0} : ~OccursAt(ordered[k], text, i),
         NEW i \in Nat \ {0}, OccursAt(ordered[k], message, i)
  PROVE  Covers(e, text, i, i + Len(ordered[k]) - 1)
  <1> DEFINE secret == ordered[k]
             size == Len(secret)
             last == i + size - 1
  <1>1. /\ size \in Nat \ {0} /\ secret \in Seq(A) /\ last \in Nat \ {0} /\ secret = ordered[k]
        /\ Len(text) \in Nat /\ Len(message) \in Nat
    BY LenProperties, EmptySeq
  <1>2. OccursAt(secret, message, i) /\ \A m \in Nat \ {0} : ~OccursAt(secret, text, m)
    OBVIOUS
  <1>3. \A j \in 1..k : Len(ordered[j]) \in Nat /\ Len(ordered[j]) >= size
    OBVIOUS
  <1>4. last = i + size - 1
    OBVIOUS
  <1> SUFFICES ASSUME ~Covers(e, text, i, last) PROVE FALSE
    OBVIOUS
  <1>5. size = Len(secret)
    OBVIOUS
  <1> HIDE DEF last, size, secret
  <1>6. last <= Len(message) /\ \A t \in 1..size : message[i + t - 1] = secret[t]
    BY <1>1, <1>2, <1>4, <1>5, OccursPointwise
  <1>7. /\ e \in [0..Len(text) -> Nat] /\ e[0] = 0 /\ e[Len(text)] = Len(message)
        /\ \A j \in 1..Len(text) : e[j - 1] < e[j]
    BY DEF Reads
  <1>8. ASSUME NEW j \in 1..Len(text), NEW x \in i..last, e[j - 1] < x, x <= e[j]
        PROVE  e[j] = x /\ e[j - 1] = x - 1 /\ text[j] = message[x]
    <2>1. e[j] \in Nat /\ e[j - 1] \in Nat /\ x \in Nat
      <3>1. j \in 0..Len(text) /\ j - 1 \in 0..Len(text) /\ x \in Nat
        BY <1>1
      <3> QED
        BY <1>7, <3>1
    <2>2. CASE e[j] = e[j - 1] + 1 /\ text[j] = message[e[j]]
      BY <1>8, <2>1, <2>2
    <2>3. CASE text[j] = Mask /\ IsPlace(e[j - 1] + 1, e[j], message, ordered, k)
      <3> DEFINE lo == e[j - 1] + 1
                 hi == e[j]
      <3>1. lo \in Nat \ {0} /\ hi \in Nat \ {0} /\ lo <= x /\ x <= hi
        BY <1>8, <2>1
      <3>2. IsPlace(lo, hi, message, ordered, k)
        BY <2>3
      <3>3. ~(e[j - 1] < i /\ last <= e[j])
        BY <2>3 DEF Covers
      <3>4. ~(lo <= i /\ last <= hi)
        BY <2>1, <3>3
      <3> HIDE DEF lo, hi
      <3>5. hi >= lo + size - 1
        <4>1. PICK m \in 1..k : hi = lo + Len(ordered[m]) - 1
          BY <3>2 DEF IsPlace
        <4> QED
          BY <1>1, <1>3, <3>1, <4>1
      <3>6. IsPlace(i, last, message, ordered, k)
        <4>1. k \in 1..k
          OBVIOUS
        <4> QED
          BY <1>1, <1>2, <1>4, <1>5, <4>1 DEF IsPlace
      <3>7. \/ i <= lo /\ hi <= last
            \/ lo <= i /\ last <= hi
            \/ hi < i \/ last < lo
        BY <1>1, <3>1, <3>2, <3>6 DEF AreTidy
      <3> QED
        BY <1>1, <1>4, <3>1, <3>4, <3>5, <3>7
    <2> QED
      BY <2>2, <2>3 DEF Reads
  <1>9. PICK first \in 1..Len(text) : e[first - 1] < i /\ i <= e[first]
    <2>1. i \in Nat /\ e[0] < i /\ i <= e[Len(text)]
      BY <1>1, <1>4, <1>6, <1>7
    <2> QED
      BY <1>1, <1>7, <2>1, Crossing
  <1> DEFINE a == first - 1
             P == {t \in 0..size : a + t <= Len(text) /\ e[a + t] = i - 1 + t}
  <1>10. a \in Nat /\ a + 1 = first
    BY <1>1
  <1>11. i \in i..last /\ a + size \in Nat
    BY <1>1, <1>4, <1>10
  <1>12. 0 \in P
    <2>1. e[first - 1] = i - 1
      BY <1>8, <1>9, <1>11
    <2> QED
      BY <1>1, <1>10, <2>1
  <1>13. ASSUME NEW t \in 1..size, t - 1 \in P
         PROVE  t \in P /\ text[a + t] = message[i + t - 1]
    <2> DEFINE j == a + t
               x == i + t - 1
    <2>1. a + (t - 1) <= Len(text) /\ e[a + (t - 1)] = i - 1 + (t - 1)
      BY <1>13
    <2>2. x \in i..last /\ x <= Len(message) /\ x \in Nat /\ j - 1 = a + (t - 1) /\ j \in Nat \ {0}
      BY <1>1, <1>4, <1>6, <1>10
    <2>3. e[j - 1] = x - 1 /\ j - 1 <= Len(text)
      BY <2>1, <2>2
    <2>0. x \in Nat /\ x <= Len(message) /\ j \in Nat \ {0}
      BY <2>2
    <2> HIDE DEF j, x, a
    <2>4. j \in 1..Len(text)
      <3>1. j - 1 # Len(text)
        <4> SUFFICES ASSUME j - 1 = Len(text) PROVE FALSE
          OBVIOUS
        <4>1. x - 1 = Len(message)
          BY <1>7, <2>3
        <4> QED
          BY <1>1, <2>0, <4>1
      <3>2. j - 1 <= Len(text) /\ Len(text) \in Nat /\ j \in Nat \ {0}
        BY <1>1, <2>0, <2>3
      <3> QED
        BY <3>1, <3>2
    <2>5. e[j] \in Nat /\ e[j - 1] < e[j]
      BY <1>7, <2>4
    <2>6. e[j - 1] < x /\ x <= e[j]
      BY <2>2, <2>3, <2>5
    <2>7. e[j] = x /\ text[j] = message[x]
      BY <1>8, <2>2, <2>4, <2>6
    <2>8. x = i - 1 + t
      BY <1>1 DEF x
    <2> QED
      BY <2>4, <2>7, <2>8 DEF j, x
  <1>14. 0..size \subseteq P
    <2>1. size \in Nat
      BY <1>1
    <2> HIDE DEF P
    <2> QED
      BY <1>12, <1>13, <2>1, UpTo
  <1>15. ASSUME NEW t \in 1..size
         PROVE  a + t <= Len(text) /\ text[first + t - 1] = secret[t]
    <2>1. t \in P /\ t - 1 \in P
      <3>1. t \in 0..size /\ t - 1 \in 0..size
        BY <1>1
      <3> HIDE DEF P
      <3> QED
        BY <1>14, <3>1
    <2>2. text[a + t] = message[i + t - 1]
      BY <1>13, <2>1
    <2>3. a + t = first + t - 1
      BY <1>1
    <2> QED
      BY <1>6, <2>1, <2>2, <2>3
  <1>16. OccursAt(secret, text, first)
    <2>1. size \in 1..size /\ first \in Nat \ {0} /\ a + size = first + size - 1
      BY <1>1
    <2>2. first + Len(secret) - 1 <= Len(text)
      BY <1>5, <1>15, <2>1
    <2>3. \A t \in 1..Len(secret) : text[first + t - 1] = secret[t]
      BY <1>5, <1>15
    <2> QED
      BY <1>1, <2>1, <2>2, <2>3, OccursPointwise
  <1> QED
    BY <1>1, <1>2, <1>16

(* A text in which the first k secrets are masked.                         *)
Masked(e, text, message, ordered, k) ==
    /\ Reads(e, text, message, ordered, k)
    /\ \A j \in 1..k, i \in Nat \ {0} :
          OccursAt(ordered[j], message, i) => Covers(e, text, i, i + Len(ordered[j]) - 1)

LEMMA EverythingIsMasked ==
  ASSUME NEW A, Mask \in A, NEW B, B \subseteq A, Mask \notin B,
         NEW message \in Seq(B), NEW ordered \in Seq(Seq(A) \ {<<>>}),
         \A k \in 1..Len(ordered) : Plain(ordered[k]),
         Descending(ordered), AreTidy(message, ordered, Len(ordered)),
         NEW f, IsMasking(f, A, message, ordered)
  PROVE  \E e : Masked(e, f[Len(ordered)], message, ordered, Len(ordered))
  <1> DEFINE n == Len(ordered)
             P == {k \in 0..n : \E e : Masked(e, f[k], message, ordered, k)}
  <1>1. n \in Nat /\ message \in Seq(A)
    BY LenProperties, SeqMonotonic
  <1>2. ASSUME NEW k \in 1..n
        PROVE  ordered[k] \in Seq(A) /\ ordered[k] # <<>> /\ Len(ordered[k]) \in Nat /\ Plain(ordered[k])
    <2>1. ordered[k] \in Seq(A) /\ ordered[k] # <<>>
      BY ElementOfSeq
    <2> QED
      BY <2>1, LenProperties
  <1>3. /\ \A k \in 0..n : f[k] \in Seq(A)
        /\ \A k \in 1..n : f[k] = Replace(f[k - 1], ordered[k])
        /\ f[0] = message
    BY DEF IsMasking
  <1>4. \A k \in 0..n, j \in 1..n, i \in Nat \ {0} : j <= k => ~OccursAt(ordered[j], f[k], i)
    BY <1>1, NothingLeft
  <1>5. 0 \in P
    <2>1. PICK e : Reads(e, message, message, ordered, 0)
      BY ReadsItself
    <2>2. Masked(e, f[0], message, ordered, 0)
      BY <1>3, <2>1 DEF Masked
    <2> QED
      BY <1>1, <2>2
  <1>6. ASSUME NEW k \in 1..n, k - 1 \in P PROVE k \in P
    <2>1. PICK e : Masked(e, f[k - 1], message, ordered, k - 1)
      BY <1>6
    <2> DEFINE before == f[k - 1]
               text == f[k]
    <2>2. /\ k - 1 \in 0..n /\ before \in Seq(A) /\ text \in Seq(A)
          /\ text = Replace(before, ordered[k])
      <3>1. k - 1 \in 0..n /\ k \in 0..n
        BY <1>1
      <3> HIDE DEF n
      <3> QED
        BY <1>3, <3>1
    <2>3. Reads(e, before, message, ordered, k - 1)
      BY <2>1 DEF Masked
    <2>4. \A j \in 1..k - 1, i \in Nat \ {0} :
            OccursAt(ordered[j], message, i) => Covers(e, before, i, i + Len(ordered[j]) - 1)
      BY <2>1 DEF Masked
    <2>5. \A i \in Nat \ {0} : ~OccursAt(ordered[k], text, i)
      <3>1. k \in 0..n /\ k <= k
        BY <1>1
      <3> HIDE DEF n
      <3> QED
        BY <1>4, <3>1
    <2>6. AreTidy(message, ordered, k)
      <3>1. \A lo, hi \in Nat \ {0} : IsPlace(lo, hi, message, ordered, k)
               => IsPlace(lo, hi, message, ordered, Len(ordered))
        BY <1>1 DEF IsPlace
      <3> QED
        BY <3>1 DEF AreTidy
    <2>7. \A j \in 1..k : Len(ordered[j]) \in Nat /\ Len(ordered[j]) >= Len(ordered[k])
      <3>1. \A j \in 1..k : j \in 1..n /\ j <= k
        BY <1>1
      <3> QED
        BY <1>2, <3>1 DEF Descending
    <2> HIDE DEF n, before, text
    <2>8. PICK d : /\ Reads(d, text, message, ordered, k)
                   /\ \A lo \in Nat, hi \in Nat :
                         lo <= hi /\ Covers(e, before, lo, hi) => Covers(d, text, lo, hi)
      BY <1>1, <1>2, <2>2, <2>3, ReplaceReads
    <2>9. ASSUME NEW j \in 1..k, NEW i \in Nat \ {0}, OccursAt(ordered[j], message, i)
          PROVE  Covers(d, text, i, i + Len(ordered[j]) - 1)
      <3>1. CASE j = k
        <4>1. Covers(d, text, i, i + Len(ordered[k]) - 1)
          BY <1>1, <1>2, <2>2, <2>5, <2>6, <2>7, <2>8, <2>9, <3>1, OccurrenceIsCovered
        <4> QED
          BY <3>1, <4>1
      <3>2. CASE j # k
        <4>1. j \in 1..k - 1 /\ j \in 1..n
          BY <1>1, <3>2
        <4>2. Covers(e, before, i, i + Len(ordered[j]) - 1)
          BY <2>4, <2>9, <4>1
        <4> DEFINE last == i + Len(ordered[j]) - 1
        <4>3. last \in Nat /\ i <= last /\ i \in Nat
          <5>1. Len(ordered[j]) \in Nat \ {0}
            BY <1>2, <4>1, EmptySeq
          <5> QED
            BY <5>1
        <4> HIDE DEF last
        <4> QED
          BY <2>8, <4>2, <4>3 DEF last
      <3> QED
        BY <3>1, <3>2
    <2>10. Masked(d, text, message, ordered, k)
      BY <2>8, <2>9 DEF Masked
    <2> QED
      BY <1>1, <2>10 DEF text
  <1>7. n \in P
    <2>1. 0..n \subseteq P
      <3> HIDE DEF P, n
      <3> QED
        BY <1>1, <1>5, <1>6, UpTo
    <2> QED
      BY <1>1, <2>1
  <1> QED
    BY <1>7

-----------------------------------------------------------------------------
(* Letters picked from a text by their positions.                          *)

(* How many of the positions come before this one.                         *)
Rank(positions, i) == Cardinality({j \in positions : j < i})

ArePositions(S) == \E n \in Nat : S \subseteq 1..n

LEMMA PartIsFinite ==
  ASSUME NEW S, ArePositions(S)
  PROVE  IsFiniteSet(S) /\ Cardinality(S) \in Nat /\ \A x \in S : x \in Nat
  <1>0. PICK n \in Nat : S \subseteq 1..n
    BY DEF ArePositions
  <1> DEFINE all == 1..n
  <1>1. IsFiniteSet(all)
    <2>1. 1 \in Int /\ n \in Int
      OBVIOUS
    <2> QED
      BY <2>1, FS_Interval
  <1>2. S \in SUBSET all
    BY <1>0
  <1>3. IsFiniteSet(S)
    <2> HIDE DEF all
    <2> QED
      BY <1>1, <1>2, FS_Subset
  <1> QED
    BY <1>0, <1>3, FS_CardinalityType

LEMMA RankType ==
  ASSUME NEW S, ArePositions(S), NEW i \in S
  PROVE  /\ IsFiniteSet(S) /\ Cardinality(S) \in Nat
         /\ IsFiniteSet({j \in S : j < i})
         /\ Rank(S, i) \in 0..Cardinality(S) - 1
  <1> DEFINE below == {j \in S : j < i}
             others == S \ {i}
  <1>1. IsFiniteSet(S)
    BY PartIsFinite
  <1>2. IsFiniteSet(others) /\ Cardinality(others) = Cardinality(S) - 1
    BY <1>1, FS_RemoveElement
  <1>3. below \in SUBSET others
    BY PartIsFinite
  <1>4. IsFiniteSet(below) /\ Cardinality(below) <= Cardinality(S) - 1
    <2> HIDE DEF below, others
    <2>1. IsFiniteSet(below) /\ Cardinality(below) <= Cardinality(others)
      BY <1>2, <1>3, FS_Subset
    <2> QED
      BY <1>2, <2>1
  <1>5. Cardinality(below) \in Nat /\ Cardinality(S) \in Nat
    <2> HIDE DEF below
    <2> QED
      BY <1>1, <1>4, FS_CardinalityType
  <1> QED
    BY <1>1, <1>4, <1>5 DEF Rank

LEMMA RankIsInjective ==
  ASSUME NEW S, ArePositions(S), NEW i \in S, NEW j \in S,
         Rank(S, i) = Rank(S, j)
  PROVE  i = j
  <1>1. ASSUME NEW k \in S, NEW l \in S, k < l, Rank(S, k) = Rank(S, l) PROVE FALSE
    <2> DEFINE lower == {m \in S : m < k}
               upper == {m \in S : m < l}
    <2>1. lower \in SUBSET upper /\ k \in upper /\ k \notin lower
      <3>1. \A x \in S : x \in Nat
        BY PartIsFinite
      <3> QED
        BY <1>1, <3>1
    <2>2. IsFiniteSet(upper)
      BY RankType
    <2>3. Cardinality(lower) = Cardinality(upper)
      BY <1>1 DEF Rank
    <2> HIDE DEF lower, upper
    <2>4. upper = lower
      BY <2>1, <2>2, <2>3, FS_Subset
    <2> QED
      BY <2>1, <2>4
  <1>2. i \in Nat /\ j \in Nat /\ (i = j \/ i < j \/ j < i)
    BY PartIsFinite
  <1> QED
    BY <1>1, <1>2

LEMMA RankIsSurjective ==
  ASSUME NEW S, ArePositions(S), NEW k \in 1..Cardinality(S)
  PROVE  \E i \in S : Rank(S, i) = k - 1
  <1> DEFINE size == Cardinality(S)
             place == [i \in S |-> Rank(S, i) + 1]
  <1>1. IsFiniteSet(S) /\ size \in Nat
    BY PartIsFinite
  <1>2. \A i \in S : Rank(S, i) \in 0..size - 1
    BY RankType
  <1>3. \A i, j \in S : Rank(S, i) = Rank(S, j) => i = j
    BY RankIsInjective
  <1> HIDE DEF size
  <1>4. place \in [S -> 1..size]
    BY <1>1, <1>2
  <1>5. place \in Injection(S, 1..size)
    <2>1. \A i, j \in S : place[i] = place[j] => i = j
      BY <1>2, <1>3
    <2>2. DOMAIN place = S
      OBVIOUS
    <2> HIDE DEF place
    <2> QED
      BY <1>4, <2>1, <2>2 DEF Injection, IsInjective
  <1>6. place \in Surjection(S, 1..size)
    <2>1. IsFiniteSet(1..size) /\ Cardinality(1..size) = size
      BY <1>1, FS_Interval
    <2> HIDE DEF place
    <2> QED
      BY <1>5, <2>1, FS_Injection DEF size
  <1>7. PICK i \in S : place[i] = k
    <2> HIDE DEF place
    <2> QED
      BY <1>6 DEF Surjection, size
  <1>8. Rank(S, i) + 1 = k
    BY <1>7
  <1> QED
    BY <1>2, <1>8

(* A mapping that keeps the order keeps the ranks.                         *)
OrderedOnto(e, S, T) ==
    /\ e \in [S -> T]
    /\ \A a, b \in S : a < b => e[a] < e[b]
    /\ \A x \in T : \E a \in S : e[a] = x

LEMMA OrderedIsBijective ==
  ASSUME NEW S, NEW T, ArePositions(S), ArePositions(T),
         NEW e, OrderedOnto(e, S, T)
  PROVE  Cardinality(S) = Cardinality(T)
  <1>1. IsFiniteSet(S)
    BY PartIsFinite
  <1>2. \A a, b \in S : e[a] = e[b] => a = b
    <2> SUFFICES ASSUME NEW a \in S, NEW b \in S, e[a] = e[b], a # b PROVE FALSE
      OBVIOUS
    <2>1. a < b \/ b < a
      <3>1. a \in Nat /\ b \in Nat
        BY PartIsFinite
      <3> QED
        BY <3>1
    <2>2. e[a] < e[b] \/ e[b] < e[a]
      BY <2>1 DEF OrderedOnto
    <2>3. e[a] \in Nat /\ e[b] \in Nat
      <3>1. e[a] \in T /\ e[b] \in T
        BY DEF OrderedOnto
      <3> QED
        BY <3>1, PartIsFinite
    <2> QED
      BY <2>2, <2>3
  <1>3. e \in [S -> T] /\ \A x \in T : \E a \in S : e[a] = x
    BY DEF OrderedOnto
  <1>4. e \in Surjection(S, T) /\ e \in Injection(S, T)
    BY <1>2, <1>3 DEF Surjection, Injection, IsInjective
  <1> QED
    BY <1>1, <1>4, FS_Surjection

KeepsRanks(e, S, T) == \A i \in S : Rank(S, i) = Rank(T, e[i])

LEMMA OrderedKeepsRanks ==
  ASSUME NEW S, NEW T, ArePositions(S), ArePositions(T),
         NEW e, OrderedOnto(e, S, T)
  PROVE  KeepsRanks(e, S, T)
  <1> SUFFICES ASSUME NEW i \in S PROVE Rank(S, i) = Rank(T, e[i])
    BY DEF KeepsRanks
  <1> DEFINE lower == {j \in S : j < i}
             image == {x \in T : x < e[i]}
             d == [j \in lower |-> e[j]]
  <1>1. /\ e \in [S -> T] /\ \A a, b \in S : a < b => e[a] < e[b]
        /\ \A x \in T : \E a \in S : e[a] = x
    BY DEF OrderedOnto
  <1>2. d \in [lower -> image] /\ \A a, b \in lower : a < b => d[a] < d[b]
    BY <1>1
  <1>3. ASSUME NEW x \in image PROVE \E a \in lower : d[a] = x
    <2>1. PICK a \in S : e[a] = x
      BY <1>1
    <2>2. e[a] < e[i] /\ e[a] \in Nat /\ e[i] \in Nat /\ a \in Nat /\ i \in Nat
      <3>1. x \in T /\ x < e[i] /\ e[i] \in T
        BY <1>1
      <3>2. (\A y \in S : y \in Nat) /\ (\A y \in T : y \in Nat)
        BY PartIsFinite
      <3> QED
        BY <2>1, <3>1, <3>2
    <2>3. a < i
      <3> SUFFICES ASSUME ~(a < i) PROVE FALSE
        OBVIOUS
      <3>1. a = i \/ i < a
        BY <2>2
      <3>2. i < a => e[i] < e[a]
        BY <1>1
      <3> QED
        BY <2>2, <3>1, <3>2
    <2> QED
      BY <2>1, <2>3
  <1>4. ArePositions(lower) /\ ArePositions(image)
    BY DEF ArePositions
  <1>5. Rank(S, i) = Cardinality(lower) /\ Rank(T, e[i]) = Cardinality(image)
    BY DEF Rank
  <1> HIDE DEF lower, image, d
  <1>6. OrderedOnto(d, lower, image)
    BY <1>2, <1>3 DEF OrderedOnto
  <1> QED
    BY <1>4, <1>5, <1>6, OrderedIsBijective, Zenon

LEMMA PickedTheSame ==
  ASSUME NEW S, NEW T, ArePositions(S), ArePositions(T),
         NEW e, OrderedOnto(e, S, T), NEW text, NEW message,
         \A a \in S : text[a] = message[e[a]]
  PROVE  Picked(text, S) = Picked(message, T)
  <1> DEFINE from(k) == CHOOSE i \in S : Rank(S, i) = k - 1
             to(k) == CHOOSE x \in T : Rank(T, x) = k - 1
  <1>1. Cardinality(S) = Cardinality(T)
    BY OrderedIsBijective, Zenon
  <1>2. ASSUME NEW k \in 1..Cardinality(S) PROVE text[from(k)] = message[to(k)]
    <2>1. \E i \in S : Rank(S, i) = k - 1
      BY RankIsSurjective
    <2>2. from(k) \in S /\ Rank(S, from(k)) = k - 1
      BY <2>1, Zenon
    <2>3. \E x \in T : Rank(T, x) = k - 1
      BY <1>1, RankIsSurjective
    <2>4. to(k) \in T /\ Rank(T, to(k)) = k - 1
      BY <2>3, Zenon
    <2> HIDE DEF from, to
    <2>5. Rank(S, from(k)) = Rank(T, e[from(k)]) /\ e[from(k)] \in T
      <3>1. \A i \in S : Rank(S, i) = Rank(T, e[i])
        <4>1. KeepsRanks(e, S, T)
          BY OrderedKeepsRanks, Zenon
        <4> QED
          BY <4>1 DEF KeepsRanks
      <3> QED
        BY <2>2, <3>1 DEF OrderedOnto
    <2>6. e[from(k)] = to(k)
      BY <2>2, <2>4, <2>5, RankIsInjective
    <2> QED
      BY <2>2, <2>6
  <1>3. Picked(text, S) = [k \in 1..Cardinality(S) |-> text[from(k)]]
    BY Zenon DEF Picked, Rank
  <1>4. Picked(message, T) = [k \in 1..Cardinality(T) |-> message[to(k)]]
    BY Zenon DEF Picked, Rank
  <1> HIDE DEF from, to
  <1> QED
    BY <1>1, <1>2, <1>3, <1>4

-----------------------------------------------------------------------------
(* ExactlySecretsMasked, of any message and what is made of it.            *)
NestedOrApart(places) == \A P, Q \in places : P \subseteq Q \/ Q \subseteq P \/ P \cap Q = {}

Outside(text, places) == {i \in DOMAIN text : \A P \in places : i \notin P}

Unmasked(text) == {i \in DOMAIN text : text[i] # Mask}

ExactlyMasked(message, text, values) ==
    NestedOrApart(Occurrences(message, values))
      => Picked(text, Unmasked(text)) = Picked(message, Outside(message, Occurrences(message, values)))

(* Places as pairs of numbers and as sets of positions.                    *)
LEMMA OccurrencesArePlaces ==
  ASSUME NEW A, Mask \in A, NEW message \in Seq(A), NEW values, NEW ordered,
         DOMAIN values = 1..Len(values),
         IsLookedFor(ordered, A, values), NEW P
  PROVE  P \in Occurrences(message, values)
           <=> \E lo, hi \in Nat \ {0} :
                  /\ IsPlace(lo, hi, message, ordered, Len(ordered)) /\ P = lo..hi /\ lo <= hi
                  /\ hi <= Len(message)
  <1> DEFINE long == {s \in DOMAIN values : Len(values[s]) >= MinSecretLength}
             found(s) == {i \in DOMAIN message : OccursAt(values[s], message, i)}
  <1>1. Len(message) \in Nat /\ DOMAIN message = 1..Len(message)
    BY LenProperties
  <1>2. ASSUME NEW k \in 1..Len(ordered)
        PROVE  ordered[k] \in Seq(A) /\ Len(ordered[k]) \in Nat \ {0}
    <2>1. ordered[k] \in Seq(A) /\ ordered[k] # <<>>
      BY ElementOfSeq DEF IsLookedFor
    <2> QED
      BY <2>1, LenProperties, EmptySeq
  <1>3. \A w : (\E k \in 1..Len(ordered) : w = ordered[k]) <=> \E s \in long : w = values[s]
    <2>1. \A w : (\E k \in 1..Len(ordered) : w = ordered[k])
                   <=> \E s \in 1..Len(values) : Len(values[s]) >= MinSecretLength /\ w = values[s]
      BY Zenon DEF IsLookedFor
    <2>2. \A w : (\E s \in 1..Len(values) : Len(values[s]) >= MinSecretLength /\ w = values[s])
                   <=> \E s \in long : w = values[s]
      OBVIOUS
    <2> HIDE DEF long
    <2> QED
      BY <2>1, <2>2, Zenon
  <1>4. P \in Occurrences(message, values)
          <=> \E s \in long : \E i \in found(s) : P = i..(i + Len(values[s]) - 1)
    BY DEF Occurrences
  <1>5. ASSUME NEW s \in long, NEW i \in found(s), P = i..(i + Len(values[s]) - 1)
        PROVE  \E lo, hi \in Nat \ {0} :
                  /\ IsPlace(lo, hi, message, ordered, Len(ordered)) /\ P = lo..hi /\ lo <= hi
                  /\ hi <= Len(message)
    <2>1. PICK k \in 1..Len(ordered) : values[s] = ordered[k]
      BY <1>3
    <2>2. i \in Nat \ {0} /\ OccursAt(ordered[k], message, i)
      BY <1>1, <2>1
    <2> DEFINE hi == i + Len(ordered[k]) - 1
    <2>3. hi \in Nat \ {0} /\ i <= hi /\ P = i..hi
      BY <1>2, <1>5, <2>1, <2>2
    <2>4. hi <= Len(message)
      BY <2>2 DEF OccursAt
    <2>5. IsPlace(i, hi, message, ordered, Len(ordered))
      BY <2>2 DEF IsPlace
    <2> HIDE DEF hi
    <2> QED
      BY <2>2, <2>3, <2>4, <2>5
  <1>6. ASSUME NEW lo \in Nat \ {0}, NEW hi \in Nat \ {0}, P = lo..hi, lo <= hi,
               hi <= Len(message), IsPlace(lo, hi, message, ordered, Len(ordered))
        PROVE  \E s \in long : \E i \in found(s) : P = i..(i + Len(values[s]) - 1)
    <2>1. PICK k \in 1..Len(ordered) : OccursAt(ordered[k], message, lo) /\ hi = lo + Len(ordered[k]) - 1
      BY <1>6 DEF IsPlace
    <2>2. PICK s \in long : ordered[k] = values[s]
      BY <1>3
    <2>3. lo \in found(s)
      BY <1>1, <1>6, <2>1, <2>2
    <2> QED
      BY <1>6, <2>1, <2>2, <2>3
  <1> HIDE DEF long, found
  <1> QED
    BY <1>4, <1>5, <1>6

LEMMA NestedOrApartAreTidy ==
  ASSUME NEW A, Mask \in A, NEW message \in Seq(A), NEW values, NEW ordered,
         DOMAIN values = 1..Len(values),
         IsLookedFor(ordered, A, values), NestedOrApart(Occurrences(message, values))
  PROVE  AreTidy(message, ordered, Len(ordered))
  <1> SUFFICES ASSUME NEW lo \in Nat \ {0}, NEW hi \in Nat \ {0},
                      NEW low \in Nat \ {0}, NEW high \in Nat \ {0},
                      IsPlace(lo, hi, message, ordered, Len(ordered)),
                      IsPlace(low, high, message, ordered, Len(ordered))
               PROVE  \/ low <= lo /\ hi <= high
                      \/ lo <= low /\ high <= hi
                      \/ hi < low \/ high < lo
    BY DEF AreTidy
  <1>1. ASSUME NEW l \in Nat \ {0}, NEW h \in Nat \ {0},
               IsPlace(l, h, message, ordered, Len(ordered))
        PROVE  l <= h /\ l..h \in Occurrences(message, values)
    <2>1. PICK k \in 1..Len(ordered) : OccursAt(ordered[k], message, l) /\ h = l + Len(ordered[k]) - 1
      BY <1>1 DEF IsPlace
    <2>2. ordered[k] \in Seq(A) /\ ordered[k] # <<>>
      BY ElementOfSeq DEF IsLookedFor
    <2>3. Len(ordered[k]) \in Nat \ {0} /\ h <= Len(message)
      <3>1. Len(ordered[k]) \in Nat \ {0}
        BY <2>2, LenProperties, EmptySeq
      <3> QED
        BY <2>1, <3>1 DEF OccursAt
    <2>4. l <= h
      BY <2>1, <2>3
    <2> QED
      BY <1>1, <2>3, <2>4, OccurrencesArePlaces
  <1> DEFINE P == lo..hi
             Q == low..high
  <1>2. lo <= hi /\ low <= high /\ P \in Occurrences(message, values) /\ Q \in Occurrences(message, values)
    BY <1>1
  <1>3. P \subseteq Q \/ Q \subseteq P \/ P \cap Q = {}
    <2> HIDE DEF P, Q
    <2> QED
      BY <1>2 DEF NestedOrApart
  <1>4. CASE P \subseteq Q
    <2>1. lo \in Q /\ hi \in Q
      BY <1>2, <1>4
    <2> QED
      BY <2>1
  <1>5. CASE Q \subseteq P
    <2>1. low \in P /\ high \in P
      BY <1>2, <1>5
    <2> QED
      BY <2>1
  <1>6. CASE P \cap Q = {}
    <2>1. lo \notin Q /\ low \notin P
      BY <1>2, <1>6
    <2> QED
      BY <1>2, <2>1
  <1> QED
    BY <1>3, <1>4, <1>5, <1>6

(* d tells which letter of the message each letter of the text is.         *)
TellsLetters(d, text, message, places) ==
    /\ OrderedOnto(d, Unmasked(text), Outside(message, places))
    /\ \A j \in Unmasked(text) : text[j] = message[d[j]]

(* The letters of a masked text are those outside the places.              *)
LEMMA LettersAreOutside ==
  ASSUME NEW A, Mask \in A, NEW text \in Seq(A), NEW message \in Seq(A), NEW values, NEW ordered,
         DOMAIN values = 1..Len(values), IsLookedFor(ordered, A, values),
         NEW e, Masked(e, text, message, ordered, Len(ordered)),
         NEW d, d = [j \in Unmasked(text) |-> e[j]]
  PROVE  TellsLetters(d, text, message, Occurrences(message, values))
  <1> DEFINE places == Occurrences(message, values)
             n == Len(text)
             m == Len(message)
  <1>1. n \in Nat /\ DOMAIN text = 1..n /\ m \in Nat /\ DOMAIN message = 1..m
    BY LenProperties
  <1>2. /\ e \in [0..n -> Nat] /\ e[0] = 0 /\ e[n] = m
        /\ \A j \in 1..n : e[j - 1] < e[j]
        /\ \A j \in 1..n :
              \/ text[j] # Mask /\ e[j] = e[j - 1] + 1 /\ text[j] = message[e[j]]
              \/ text[j] = Mask /\ IsPlace(e[j - 1] + 1, e[j], message, ordered, Len(ordered))
    BY DEF Masked, Reads
  <1> HIDE DEF n, m
  <1>3. \A a, b \in 0..n : a < b => e[a] < e[b]
    BY <1>1, <1>2, Increasing
  <1>4. \A j \in 1..n : j \in 0..n /\ j - 1 \in 0..n /\ e[j] \in Nat /\ e[j - 1] \in Nat
    <2>1. \A j \in 1..n : j \in 0..n /\ j - 1 \in 0..n
      BY <1>1
    <2> QED
      BY <1>2, <2>1
  <1>5. \A j \in 1..n : e[j] \in 1..m
    <2> SUFFICES ASSUME NEW j \in 1..n PROVE e[j] \in 1..m
      OBVIOUS
    <2>1. j = n \/ j < n
      BY <1>1
    <2>2. n \in 0..n
      BY <1>1
    <2>3. e[j] <= m
      BY <1>1, <1>2, <1>3, <1>4, <2>1, <2>2
    <2>4. e[j - 1] < e[j]
      BY <1>2
    <2> QED
      BY <1>1, <1>4, <2>3, <2>4
  <1>6. \A j \in Unmasked(text) :
           j \in 1..n /\ text[j] # Mask /\ e[j] = e[j - 1] + 1 /\ text[j] = message[e[j]]
    BY <1>1, <1>2 DEF Unmasked
  <1>7. ASSUME NEW j \in Unmasked(text), NEW P \in places PROVE e[j] \notin P
    <2>1. PICK lo \in Nat \ {0}, hi \in Nat \ {0} :
             /\ IsPlace(lo, hi, message, ordered, Len(ordered)) /\ P = lo..hi /\ lo <= hi
             /\ hi <= Len(message)
      BY <1>7, OccurrencesArePlaces
    <2>2. PICK s \in 1..Len(ordered) : OccursAt(ordered[s], message, lo) /\ hi = lo + Len(ordered[s]) - 1
      BY <2>1 DEF IsPlace
    <2>3. Covers(e, text, lo, hi)
      BY <2>2 DEF Masked
    <2>4. PICK l \in 1..n : text[l] = Mask /\ e[l - 1] < lo /\ hi <= e[l]
      BY <2>3 DEF Covers, n
    <2>5. j \in 1..n /\ j # l
      BY <1>6, <2>4
    <2>6. CASE j < l
      <3>1. j = l - 1 \/ j < l - 1
        BY <2>5, <2>6, <1>1
      <3>2. e[j] <= e[l - 1]
        BY <1>3, <1>4, <2>5, <3>1
      <3> QED
        BY <1>4, <2>1, <2>4, <2>5, <3>2
    <2>7. CASE l < j
      <3>1. e[l] < e[j]
        BY <1>3, <1>4, <2>5, <2>7
      <3> QED
        BY <1>4, <2>1, <2>4, <2>5, <3>1
    <2> QED
      BY <1>1, <2>5, <2>6, <2>7
  <1>8. ASSUME NEW x \in Outside(message, places) PROVE \E j \in Unmasked(text) : e[j] = x
    <2>1. x \in 1..m /\ \A P \in places : x \notin P
      BY <1>1 DEF Outside
    <2>2. PICK j \in 1..n : e[j - 1] < x /\ x <= e[j]
      <3>1. x \in Nat /\ e[0] < x /\ x <= e[n]
        BY <1>1, <1>2, <2>1
      <3> QED
        BY <1>1, <1>2, <3>1, Crossing
    <2>3. text[j] # Mask
      <3> SUFFICES ASSUME text[j] = Mask PROVE FALSE
        OBVIOUS
      <3> DEFINE lo == e[j - 1] + 1
                 hi == e[j]
      <3>1. IsPlace(lo, hi, message, ordered, Len(ordered))
        BY <1>2
      <3>2. /\ lo \in Nat \ {0} /\ hi \in Nat \ {0} /\ lo <= hi /\ hi <= Len(message)
            /\ x \in lo..hi
        BY <1>1, <1>4, <1>5, <2>1, <2>2 DEF m
      <3> HIDE DEF lo, hi
      <3>3. lo..hi \in places
        BY <3>1, <3>2, OccurrencesArePlaces
      <3> QED
        BY <2>1, <3>2, <3>3
    <2>4. j \in Unmasked(text) /\ e[j] = e[j - 1] + 1
      BY <1>1, <1>2, <2>3 DEF Unmasked
    <2>5. e[j] = x
      BY <1>1, <1>4, <2>1, <2>2, <2>4
    <2> QED
      BY <2>4, <2>5
  <1>9. \A j \in Unmasked(text) : d[j] = e[j]
    OBVIOUS
  <1>10. d \in [Unmasked(text) -> Outside(message, places)]
    <2>1. \A j \in Unmasked(text) : e[j] \in Outside(message, places)
      BY <1>1, <1>5, <1>6, <1>7 DEF Outside
    <2> QED
      BY <2>1
  <1>11. \A a, b \in Unmasked(text) : a < b => d[a] < d[b]
    BY <1>3, <1>4, <1>6, <1>9
  <1> HIDE DEF places
  <1>12. OrderedOnto(d, Unmasked(text), Outside(message, places))
    BY <1>8, <1>9, <1>10, <1>11 DEF OrderedOnto
  <1> QED
    BY <1>6, <1>9, <1>12 DEF places, TellsLetters

(* What redact_secrets masks of a message.                                 *)
LEMMA SecretsAreMasked ==
  ASSUME NEW A, Mask \in A, NEW B, B \subseteq A, Mask \notin B,
         NEW message \in Seq(B), NEW values \in Seq(Seq(B))
  PROVE  ExactlyMasked(message, RedactSecrets(message, values), values)
  <1> DEFINE ordered == LongestFirst(Unique(values))
             text == RedactSecrets(message, values)
             places == Occurrences(message, values)
  <1>1. IsLookedFor(ordered, A, values)
    BY LookedFor
  <1>2. message \in Seq(A) /\ DOMAIN values = 1..Len(values) /\ Len(message) \in Nat
        /\ DOMAIN message = 1..Len(message)
    BY SeqMonotonic, LenProperties
  <1>3. ordered = LongestFirst(Unique(values))
    OBVIOUS
  <1>4. text = RedactSecrets(message, values)
    OBVIOUS
  <1> HIDE DEF ordered, text
  <1>5. /\ ordered \in Seq(Seq(A) \ {<<>>}) /\ Descending(ordered)
        /\ \A k \in 1..Len(ordered) : Plain(ordered[k])
    BY <1>1, Zenon DEF IsLookedFor
  <1>6. PICK f : IsMasking(f, A, message, ordered) /\ text = f[Len(ordered)]
    BY <1>2, <1>3, <1>4, <1>5, RedactSecretsIs
  <1>7. text \in Seq(A) /\ Len(text) \in Nat /\ DOMAIN text = 1..Len(text)
    <2>1. Len(ordered) \in Nat /\ Len(ordered) \in 0..Len(ordered)
      BY <1>5, LenProperties
    <2>2. text \in Seq(A)
      BY <1>6, <2>1 DEF IsMasking
    <2> QED
      BY <2>2, LenProperties
  <1>8. SUFFICES ASSUME NestedOrApart(places)
                 PROVE  Picked(text, Unmasked(text)) = Picked(message, Outside(message, places))
    BY <1>4 DEF ExactlyMasked
  <1>9. AreTidy(message, ordered, Len(ordered))
    BY <1>1, <1>2, <1>8, NestedOrApartAreTidy
  <1>10. PICK e : Masked(e, text, message, ordered, Len(ordered))
    BY <1>5, <1>6, <1>9, EverythingIsMasked
  <1> DEFINE d == [j \in Unmasked(text) |-> e[j]]
  <1>11. d = [j \in Unmasked(text) |-> e[j]]
    OBVIOUS
  <1> HIDE DEF d
  <1>12. TellsLetters(d, text, message, places)
    BY <1>1, <1>2, <1>7, <1>10, <1>11, LettersAreOutside
  <1>13. ArePositions(Unmasked(text)) /\ ArePositions(Outside(message, places))
    BY <1>2, <1>7 DEF ArePositions, Unmasked, Outside
  <1> HIDE DEF places
  <1> QED
    BY <1>12, <1>13, PickedTheSame DEF TellsLetters

-----------------------------------------------------------------------------
(* What is found in URLs and headers are words over the same letters.      *)
LEMMA StretchType ==
  ASSUME NEW A, NEW text \in Seq(A), NEW i \in 1..Len(text) + 1, NEW tokens
  PROVE  Stretch(text, i, tokens) \in (i - 1)..Len(text)
  <1> DEFINE ends(j) == j = Len(text) \/ text[j + 1] \in tokens
             T == {j \in (i - 1)..Len(text) : ends(j)}
  <1>1. Len(text) \in Nat
    BY LenProperties
  <1>2. PICK m \in T : \A k \in T : m <= k
    <2>1. T \subseteq Nat /\ Len(text) \in T
      BY <1>1
    <2> HIDE DEF T
    <2> QED
      BY <2>1, LeastNatural
  <1>3. m \in (i - 1)..Len(text) /\ ends(m)
    BY <1>2
  <1>4. Positions(text, i, m, tokens) = {}
    <2> SUFFICES ASSUME NEW k \in i..m, text[k] \in tokens PROVE FALSE
      BY DEF Positions
    <2> DEFINE j == k - 1
    <2>1. j \in (i - 1)..Len(text) /\ j + 1 = k /\ ~(m <= j)
      BY <1>1, <1>3
    <2>2. j \in T
      <3> HIDE DEF j
      <3> QED
        BY <2>1
    <2> HIDE DEF T, j
    <2> QED
      BY <1>2, <2>1, <2>2
  <1>5. \E j \in (i - 1)..Len(text) : /\ Positions(text, i, j, tokens) = {}
                                      /\ j = Len(text) \/ text[j + 1] \in tokens
    BY <1>3, <1>4
  <1> QED
    BY <1>5, Zenon DEF Stretch

LEMMA PositionsBetween ==
  \A text, i, j, tokens : Positions(text, i, j, tokens) \subseteq i..j
  BY DEF Positions

LEMMA LastPosition ==
  ASSUME NEW n \in Nat, NEW T, T \subseteq 1..n, T # {}
  PROVE  Max(T) \in 1..n /\ Max(T) \in T /\ \A k \in T : Max(T) >= k
  <1>1. T \subseteq 0..n
    OBVIOUS
  <1>2. Max(T) \in T /\ \A k \in T : Max(T) >= k
    BY <1>1, MaxIs
  <1> QED
    BY <1>2

LEMMA PasswordPlaces ==
  ASSUME NEW A, NEW url \in Seq(A), url # <<>>
  PROVE  \A place \in Password(url) : place[1] \in 1..Len(url) /\ place[2] \in 1..Len(url)
  <1> DEFINE n == Len(url)
  <1>1. n \in Nat /\ n # 0
    BY LenProperties, EmptySeq
  <1>2. ASSUME NEW place \in ParsedPassword(url)
        PROVE  place[1] \in 1..n /\ place[2] \in 1..n
    <2> DEFINE ats == Positions(url, 2, Netloc(url), {"@"})
               colons == Positions(url, 2, Max(ats), {":"})
    <2>1. ats # {} /\ colons # {} /\ place = <<Min(colons), Max(ats)>>
      BY <1>2 DEF ParsedPassword
    <2>2. 2 \in 1..Len(url) + 1
      BY <1>1
    <2>3. Netloc(url) \in 1..n
      <3>1. Stretch(url, 2, {"/", "?key=", "://"}) \in 1..n
        BY <2>2, StretchType
      <3> QED
        BY <1>1, <3>1 DEF Netloc
    <2>4. ats \subseteq 1..n
      BY <2>3 DEF Positions
    <2> HIDE DEF ats, n
    <2>5. Max(ats) \in 1..n
      BY <1>1, <2>1, <2>4, LastPosition
    <2>6. colons \subseteq 1..n
      BY <1>1, <2>5 DEF Positions
    <2> HIDE DEF colons
    <2>7. Min(colons) \in 1..n
      <3>1. colons \subseteq Nat
        BY <1>1, <2>6
      <3>2. Min(colons) \in colons
        BY <2>1, <3>1, MinIs
      <3> QED
        BY <2>6, <3>2
    <2> QED
      BY <2>1, <2>5, <2>7
  <1>3. ASSUME NEW i \in Matching(url)
        PROVE  Match(url, i, Max(Ats(url, i)))[1] \in 1..n /\ Match(url, i, Max(Ats(url, i)))[2] \in 1..n
    <2> DEFINE last == Max(Ats(url, i))
    <2>1. i \in 1..n /\ \E at \in Ats(url, i) : Colons(url, i, at) # {}
      BY <1>3 DEF Matching, Positions
    <2>2. PICK at \in Ats(url, i) : Colons(url, i, at) # {}
      BY <2>1
    <2>3. Ats(url, i) \subseteq 1..n
      <3> DEFINE next == i + 1
                 end == Stretch(url, next, {"/", "?key=", "://", " "})
      <3>1. next \in 1..Len(url) + 1 /\ next - 1 = i
        BY <1>1, <2>1
      <3>2. Ats(url, i) \subseteq next..end
        BY PositionsBetween, Zenon DEF Ats
      <3> HIDE DEF next
      <3>3. end \in (next - 1)..n
        BY <3>1, StretchType
      <3> HIDE DEF end
      <3> QED
        BY <1>1, <2>1, <3>1, <3>2, <3>3
    <2> HIDE DEF n
    <2>4. last \in 1..n /\ at <= last /\ at \in 1..n
      BY <1>1, <2>2, <2>3, LastPosition
    <2> HIDE DEF last
    <2>5. Colons(url, i, last) # {} /\ Colons(url, i, last) \subseteq 1..n
      <3>1. Colons(url, i, at) \subseteq Colons(url, i, last)
        BY <1>1, <2>1, <2>4 DEF Colons, Positions
      <3>2. Colons(url, i, last) \subseteq 1..n
        BY <1>1, <2>1, <2>4 DEF Colons, Positions
      <3> QED
        BY <2>2, <3>1, <3>2
    <2>6. Max(Colons(url, i, last)) \in 1..n
      BY <1>1, <2>5, LastPosition
    <2>7. Match(url, i, last) = <<Max(Colons(url, i, last)), last>>
      BY DEF Match
    <2> QED
      BY <2>4, <2>6, <2>7 DEF last
  <1>4. ASSUME NEW place \in UrlPasswords(url)
        PROVE  place[1] \in 1..n /\ place[2] \in 1..n
    <2>1. PICK i \in Matching(url) : place = Match(url, i, Max(Ats(url, i)))
      BY <1>4, Zenon DEF UrlPasswords
    <2> HIDE DEF n
    <2> QED
      BY <1>3, <2>1
  <1> QED
    BY <1>2, <1>4 DEF Password

LEMMA BetweenType ==
  ASSUME NEW A, NEW url \in Seq(A), url # <<>>, NEW place \in Password(url)
  PROVE  Between(url, place) \in Seq(A)
  <1>1. Len(url) \in Nat /\ place[1] \in 1..Len(url) /\ place[2] \in 1..Len(url)
    BY LenProperties, PasswordPlaces
  <1> DEFINE l == place[1] + 1
             r == place[2] - 1
  <1>2. l \in Int /\ r \in Int /\ \A j \in l..r : url[j] \in A
    BY <1>1, ElementOfSeq
  <1> HIDE DEF l, r
  <1>3. SubSeq(url, l, r) \in Seq(A)
    BY <1>2, SubSeqProperties
  <1> QED
    BY <1>3 DEF Between, l, r

LEMMA UnquoteType ==
  ASSUME NEW A, "@" \in A, NEW text \in Seq(A)
  PROVE  Unquote(text) \in Seq(A)
  <1>1. Len(text) \in Nat /\ DOMAIN text = 1..Len(text)
    BY LenProperties
  <1>2. \A i \in 1..Len(text) : text[i] \in A
    BY ElementOfSeq
  <1>3. Unquote(text) \in [1..Len(text) -> A]
    BY <1>1, <1>2 DEF Unquote
  <1> QED
    BY <1>1, <1>3, FunctionSeq

LEMMA BasicType ==
  ASSUME NEW A, "base64" \in A
  PROVE  Basic \in Seq(A)
  <1>1. Basic \in [1..MinSecretLength -> A] /\ MinSecretLength \in Nat
    BY RedactAssumption DEF Basic
  <1> QED
    BY <1>1, FunctionSeq

LEMMA AfterSpaceType ==
  ASSUME NEW A, NEW v \in Seq(A)
  PROVE  AfterSpace(v) \in Seq(A)
  <1> DEFINE T == {0} \cup Positions(v, 1, Len(v), {" "})
             m == Max(T) + 1
             n == Len(v)
  <1>1. n \in Nat
    BY LenProperties
  <1>2. T \subseteq 0..n /\ T # {}
    <2> DEFINE spaces == Positions(v, 1, Len(v), {" "})
    <2>1. spaces \subseteq 1..n
      BY PositionsBetween
    <2> HIDE DEF spaces, n
    <2>2. {0} \cup spaces \subseteq 0..n /\ {0} \cup spaces # {}
      BY <1>1, <2>1
    <2> QED
      BY <2>2 DEF spaces
  <1>3. m \in Nat /\ m >= 1
    <2> HIDE DEF T
    <2>1. Max(T) \in 0..n
      BY <1>1, <1>2, MaxIs
    <2> QED
      BY <1>1, <2>1
  <1>4. \A j \in m..n : v[j] \in A
    <2> HIDE DEF m
    <2> QED
      BY <1>1, <1>3, ElementOfSeq
  <1> HIDE DEF m, n
  <1>5. SubSeq(v, m, n) \in Seq(A)
    BY <1>1, <1>3, <1>4, SubSeqProperties
  <1> QED
    BY <1>5 DEF AfterSpace, m, n

LEMMA UniqueType ==
  ASSUME NEW A, NEW values \in Seq(Seq(A))
  PROVE  Unique(values) \in Seq(Seq(A))
  <1>1. LongOver(A) \subseteq Seq(A)
    BY DEF LongOver
  <1> QED
    BY <1>1, UniqueKeeps, SeqMonotonic

LEMMA SecretsFromUrlType ==
  ASSUME NEW A, {"@", "base64"} \subseteq A, NEW url \in Seq(A), url # <<>>
  PROVE  SecretsFromUrl(url) \in Seq(Seq(A))
  <1>1. CASE \A place \in Password(url) : Between(url, place) = <<>>
    <2>1. SecretsFromUrl(url) = <<>>
      BY <1>1 DEF SecretsFromUrl
    <2> QED
      BY <2>1, EmptySeq
  <1>2. CASE ~ \A place \in Password(url) : Between(url, place) = <<>>
    <2> DEFINE place == CHOOSE place \in Password(url) :
                           \A other \in Password(url) : place[1] <= other[1]
               written == Between(url, place)
    <2>1. place \in Password(url)
      <3> DEFINE starts == {p[1] : p \in Password(url)}
      <3>1. starts \subseteq Nat /\ starts # {}
        <4>1. Len(url) \in Nat
          BY LenProperties
        <4> QED
          BY <1>2, <4>1, PasswordPlaces
      <3>2. PICK m \in starts : \A k \in starts : m <= k
        <4> HIDE DEF starts
        <4> QED
          BY <3>1, LeastNatural
      <3>3. PICK p \in Password(url) : p[1] = m
        BY <3>2
      <3>4. \A other \in Password(url) : p[1] <= other[1]
        BY <3>2, <3>3
      <3> QED
        BY <3>3, <3>4
    <2> HIDE DEF place
    <2>2. written \in Seq(A)
      BY <2>1, BetweenType
    <2> HIDE DEF written
    <2>3. Unquote(written) \in Seq(A) /\ Basic \in Seq(A)
      BY <2>2, UnquoteType, BasicType
    <2>4. <<written, Unquote(written), Basic>> \in Seq(Seq(A))
      BY <2>2, <2>3
    <2>5. SecretsFromUrl(url) = Unique(<<written, Unquote(written), Basic>>)
      BY <1>2, Zenon DEF SecretsFromUrl, written, place
    <2> QED
      BY <2>4, <2>5, UniqueType
  <1> QED
    BY <1>1, <1>2

LEMMA SecretsFromHeadersType ==
  ASSUME NEW A, NEW values \in Seq(Seq(A))
  PROVE  SecretsFromHeaders(values) \in Seq(Seq(A))
  <1> DEFINE n == 2 * Len(values)
             both == [k \in 1..n |->
                        IF k % 2 = 1 THEN values[(k + 1) \div 2] ELSE AfterSpace(values[k \div 2])]
  <1>1. Len(values) \in Nat /\ n \in Nat
    BY LenProperties
  <1>2. ASSUME NEW k \in 1..n PROVE both[k] \in Seq(A)
    <2>1. CASE k % 2 = 1
      <3> DEFINE i == (k + 1) \div 2
      <3>1. i \in 1..Len(values)
        BY <1>1, <2>1
      <3>2. both[k] = values[i]
        BY <2>1
      <3> HIDE DEF i, both
      <3> QED
        BY <3>1, <3>2, ElementOfSeq
    <2>2. CASE k % 2 # 1
      <3> DEFINE i == k \div 2
      <3>1. i \in 1..Len(values)
        BY <1>1, <2>2
      <3>2. both[k] = AfterSpace(values[i])
        BY <2>2
      <3> HIDE DEF i, both
      <3>3. values[i] \in Seq(A)
        BY <3>1, ElementOfSeq
      <3> QED
        BY <3>2, <3>3, AfterSpaceType
    <2> QED
      BY <2>1, <2>2
  <1>3. both \in Seq(Seq(A))
    <2>1. both \in [1..n -> Seq(A)]
      <3>1. both = [k \in 1..n |-> both[k]]
        OBVIOUS
      <3> HIDE DEF both, n
      <3> QED
        BY <1>2, <3>1
    <2> HIDE DEF both, n
    <2> QED
      BY <1>1, <2>1, FunctionSeq
  <1>4. SecretsFromHeaders(values) = Unique(both)
    BY DEF SecretsFromHeaders
  <1> HIDE DEF both
  <1> QED
    BY <1>3, <1>4, UniqueType

-----------------------------------------------------------------------------
(* The specification.                                                      *)

(* A probe is given what is written with Token, it knows words over Token, *)
(* and none of them is left in its last error, nor is anything else gone.  *)
RedactInv ==
    /\ given.url \in Urls \cup {<<>>} /\ given.headers \in Headers \cup {<<>>}
    /\ secrets \in Seq(Seq(Token))
    /\ error.text \in Seq(Token \cup {Mask})
    /\ NoSecretInError /\ ExactlySecretsMasked

LEMMA CharsAreTokens == Seq(Chars) \subseteq Seq(Token)
  <1>1. Chars \subseteq Token
    BY DEF Token
  <1> QED
    BY <1>1, SeqMonotonic

(* Whatever is said in an error is written with Token.                     *)
LEMMA MessageType ==
  ASSUME RedactInv, NEW message \in IF given.url = <<>> THEN Messages ELSE Echoes
  PROVE  message \in Seq(Token)
  <1>1. CASE given.url = <<>>
    BY <1>1, CharsAreTokens, RedactAssumption
  <1>2. CASE given.url # <<>>
    <2> DEFINE url == given.url
               headers == given.headers
    <2>1. url \in Seq(Token) /\ url # <<>>
      BY <1>2, RedactAssumption DEF RedactInv
    <2>2. headers \in Seq(Seq(Token))
      BY RedactAssumption, EmptySeq DEF RedactInv
    <2>3. \A i \in DOMAIN headers : headers[i] \in Seq(Token)
      <3> HIDE DEF headers
      <3> QED
        BY <2>2, LenProperties, ElementOfSeq
    <2>4. "@" \in Token /\ "base64" \in Token /\ " " \in Token
      BY DEF Token
    <2>5. Unquote(url) \in Seq(Token) /\ Basic \in Seq(Token)
      BY <2>1, <2>4, UnquoteType, BasicType
    <2>6. <<" ">> \o url \o <<" ">> \in Seq(Token)
      <3>1. <<" ">> \in Seq(Token)
        <4> DEFINE space == " "
        <4>1. space \in Token
          BY <2>4
        <4> HIDE DEF space
        <4>2. <<space>> \in Seq(Token)
          BY <4>1
        <4> QED
          BY <4>2 DEF space
      <3>2. <<" ">> \o url \in Seq(Token)
        BY <2>1, <3>1, ConcatProperties
      <3> QED
        BY <3>1, <3>2, ConcatProperties
    <2>7. ASSUME NEW place \in Password(url)
          PROVE  Between(url, place) \in Seq(Token) /\ Unquote(Between(url, place)) \in Seq(Token)
      <3>1. Between(url, place) \in Seq(Token)
        BY <2>1, BetweenType
      <3> QED
        BY <2>4, <3>1, UnquoteType
    <2>8. message \in Echoes
      BY <1>2
    <2> QED
      BY <1>2, <2>1, <2>3, <2>5, <2>6, <2>7, <2>8 DEF Echoes
  <1> QED
    BY <1>1, <1>2

(* Without an error nothing is left in it, and nothing is missing.         *)
LEMMA NothingHides ==
  /\ NoError.text \in Seq(Token \cup {Mask}) /\ DOMAIN NoError.text = {}
  /\ \A values : ExactlyMasked(NoError.message, NoError.text, values)
  <1> DEFINE none == <<>>
  <1>1. NoError.text = none /\ NoError.message = none /\ DOMAIN none = {}
    BY DEF NoError
  <1>2. none \in Seq(Token \cup {Mask})
    BY EmptySeq
  <1> HIDE DEF none
  <1>3. Unmasked(none) = {} /\ \A places : Outside(none, places) = {}
    BY <1>1 DEF Unmasked, Outside
  <1> QED
    BY <1>1, <1>2, <1>3 DEF ExactlyMasked

LEMMA ExactlyIs == ExactlySecretsMasked <=> ExactlyMasked(error.message, error.text, secrets)
  BY DEF ExactlySecretsMasked, ExactlyMasked, NestedOrApart, Unmasked, Outside

LEMMA InitRedact == RedactInit => RedactInv
  <1> SUFFICES ASSUME RedactInit PROVE RedactInv
    OBVIOUS
  <1>1. error = NoError
    BY DEF RedactInit
  <1>2. error.text \in Seq(Token \cup {Mask}) /\ NoSecretInError /\ ExactlySecretsMasked
    BY <1>1, NothingHides, ExactlyIs DEF NoSecretInError
  <1> QED
    BY <1>2, EmptySeq DEF RedactInit, RedactInv

LEMMA NoErrorHides ==
  ASSUME error' = NoError
  PROVE  error'.text \in Seq(Token \cup {Mask}) /\ NoSecretInError' /\ ExactlySecretsMasked'
  BY NothingHides DEF NoSecretInError, ExactlySecretsMasked, ExactlyMasked, NestedOrApart,
                      Unmasked, Outside

LEMMA NextRedact == RedactInv /\ [RedactNext]_redactVars => RedactInv'
  <1> SUFFICES ASSUME RedactInv, [RedactNext]_redactVars PROVE RedactInv'
    OBVIOUS
  <1>1. ASSUME NEW value \in Values, RegisterSecret(value) PROVE RedactInv'
    <2>1. value \in Seq(Token)
      BY CharsAreTokens, RedactAssumption
    <2>2. secrets' \in Seq(Seq(Token))
      BY <1>1, <2>1, AppendProperties DEF RedactInv, RegisterSecret
    <2>3. error'.text \in Seq(Token \cup {Mask}) /\ NoSecretInError' /\ ExactlySecretsMasked'
      BY <1>1, NoErrorHides DEF RegisterSecret
    <2> QED
      BY <1>1, <2>2, <2>3 DEF RedactInv, RegisterSecret
  <1>2. ASSUME NEW url \in Urls, NEW headers \in Headers, MakeReadyProbe(url, headers)
        PROVE  RedactInv'
    <2>1. url \in Seq(Token) /\ url # <<>> /\ headers \in Seq(Seq(Token))
      BY RedactAssumption
    <2>2. {"@", "base64"} \subseteq Token
      BY DEF Token
    <2>3. SecretsFromUrl(url) \in Seq(Seq(Token)) /\ SecretsFromHeaders(headers) \in Seq(Seq(Token))
      BY <2>1, <2>2, SecretsFromUrlType, SecretsFromHeadersType
    <2>4. secrets' \in Seq(Seq(Token))
      BY <1>2, <2>3, ConcatProperties DEF MakeReadyProbe
    <2>5. error'.text \in Seq(Token \cup {Mask}) /\ NoSecretInError' /\ ExactlySecretsMasked'
      BY <1>2, NoErrorHides DEF MakeReadyProbe
    <2> QED
      BY <1>2, <2>4, <2>5 DEF RedactInv, MakeReadyProbe
  <1>3. ASSUME NEW message \in IF given.url = <<>> THEN Messages ELSE Echoes, FormatError(message)
        PROVE  RedactInv'
    <2> DEFINE A == Token \cup {Mask}
    <2>1. message \in Seq(A)
      BY MessageType, SeqMonotonic
    <2>2. Mask \in A /\ Token \subseteq A /\ Mask \notin Token
      BY RedactAssumption
    <2>3. secrets \in Seq(Seq(Token)) /\ secrets' = secrets
      BY <1>3 DEF RedactInv, FormatError
    <2>4. error'.text = RedactSecrets(message, secrets)
      BY <1>3 DEF FormatError
    <2>5. /\ error'.text \in Seq(A)
          /\ \A s \in 1..Len(secrets), i \in Nat \ {0} :
                Len(secrets[s]) >= MinSecretLength => ~OccursAt(secrets[s], error'.text, i)
      <3> HIDE DEF A
      <3> QED
        BY <2>1, <2>2, <2>3, <2>4, RedactSecretsHides
    <2>6. NoSecretInError'
      <3>1. DOMAIN secrets = 1..Len(secrets)
        BY <2>3, LenProperties
      <3>2. DOMAIN (error'.text) \subseteq Nat \ {0}
        <4> HIDE DEF A
        <4>1. DOMAIN (error'.text) = 1..Len(error'.text) /\ Len(error'.text) \in Nat
          BY <2>5, LenProperties
        <4> QED
          BY <4>1
      <3> QED
        BY <2>3, <2>5, <3>1, <3>2 DEF NoSecretInError, Long, OccursAt
    <2>7. ExactlySecretsMasked'
      <3>1. error'.message = message /\ message \in Seq(Token)
        BY <1>3, MessageType DEF FormatError
      <3>2. ExactlyMasked(message, RedactSecrets(message, secrets), secrets)
        <4> HIDE DEF A
        <4> QED
          BY <2>2, <2>3, <3>1, SecretsAreMasked
      <3>3. ExactlyMasked(error'.message, error'.text, secrets')
        BY <2>3, <2>4, <3>1, <3>2, Zenon
      <3> QED
        BY <3>3 DEF ExactlySecretsMasked, ExactlyMasked, NestedOrApart, Unmasked, Outside
    <2> QED
      BY <1>3, <2>3, <2>5, <2>6, <2>7 DEF RedactInv, FormatError
  <1>4. ASSUME UNCHANGED redactVars PROVE RedactInv'
    <2>1. error' = error /\ secrets' = secrets /\ given' = given
      BY <1>4 DEF redactVars
    <2>2. NoSecretInError'
      BY <2>1 DEF RedactInv, NoSecretInError, Long, OccursAt
    <2>3. ExactlySecretsMasked'
      <3>1. ExactlyMasked(error'.message, error'.text, secrets')
        BY <2>1, ExactlyIs, Zenon DEF RedactInv
      <3> QED
        BY <3>1 DEF ExactlySecretsMasked, ExactlyMasked, NestedOrApart, Unmasked, Outside
    <2> QED
      BY <2>1, <2>2, <2>3 DEF RedactInv
  <1> QED
    BY <1>1, <1>2, <1>3, <1>4 DEF RedactNext

(* Whatever values were registered and whatever the message says, none of  *)
(* the values that are long enough is left in the error, and the masks     *)
(* that replace them never complete one.                                   *)
THEOREM RegisteredNeverShown == RedactSpec => []NoSecretInError
  <1>1. RedactSpec => []RedactInv
    BY InitRedact, NextRedact, PTL DEF RedactSpec
  <1>2. RedactInv => NoSecretInError
    BY DEF RedactInv
  <1> QED
    BY <1>1, <1>2, PTL

(* The rest of the message survives, letter by letter and in its order,    *)
(* wherever the values that are long enough occur in it nested or apart:   *)
(* a secret inside another one leaves no fragment of the longer one.       *)
THEOREM NothingElseIsMasked == RedactSpec => []ExactlySecretsMasked
  <1>1. RedactSpec => []RedactInv
    BY InitRedact, NextRedact, PTL DEF RedactSpec
  <1>2. RedactInv => ExactlySecretsMasked
    BY DEF RedactInv
  <1> QED
    BY <1>1, <1>2, PTL
=============================================================================
