------------------------ MODULE PolicyWatchdogProofs ------------------------
(***************************************************************************)
(* Two components that stand alone and share no variable.                  *)
(*                                                                         *)
(* The retry policy: WaitsInBounds and RetriesEndInTime, for any           *)
(* parameters.  What a recursive function computes is proved here by       *)
(* induction over sets of numbers, which rests on the well-foundedness of  *)
(* < in the library, and powers of two are taken from the cardinality of   *)
(* SUBSET.                                                                 *)
(*                                                                         *)
(* The watchdog: RecordMatchesReports, for any set of targets, any cron    *)
(* schedule and any number of failed calls.  The invariant relates two     *)
(* records that change in different steps; what bridges them is what a run *)
(* in between carries.                                                     *)
(***************************************************************************)
EXTENDS RetryPolicy, Watchdog, FiniteSetTheorems, FunctionTheorems,
        WellFoundedInduction, TLAPS

(* Numbers                                                                 *)

\* The least-number principle and induction, for sets.
LEMMA LeastNumber ==
  ASSUME NEW T \in SUBSET Nat, T # {}
  PROVE  \E m \in T : \A n \in T : m <= n
<1>1. PICK m \in T : \A n \in T : <<n, m>> \notin OpToRel(<, Nat)
  BY NatLessThanWellFounded, WFMin
<1>2. \A n \in T : ~(n < m)
  <2> TAKE n \in T
  <2>1. <<n, m>> \in Nat \X Nat
    BY <1>1
  <2> QED
    BY <1>1, <2>1 DEF OpToRel
<1> QED
  BY <1>2

LEMMA SetInduction ==
  ASSUME NEW S, 0 \in S, \A n \in Nat : n \in S => n + 1 \in S
  PROVE  Nat \subseteq S
<1> SUFFICES ASSUME Nat \ S # {} PROVE FALSE
  OBVIOUS
<1>1. PICK m \in Nat \ S : \A n \in Nat \ S : m <= n
  BY LeastNumber
<1>2. m - 1 \in Nat /\ m - 1 \in S
  BY <1>1
<1> QED
  BY <1>1, <1>2

\* Powers of two, by way of the number of subsets of an interval.
LEMMA PowerZero == 2^0 = 1
<1>1. Cardinality(SUBSET {}) = 2^Cardinality({})
  BY FS_SUBSET, FS_EmptySet, Zenon
<1>2. SUBSET {} = {{}}
  OBVIOUS
<1>3. Cardinality({{}}) = 1
  BY FS_Singleton
<1>4. Cardinality({}) = 0
  BY FS_EmptySet
<1> QED
  BY <1>1, <1>2, <1>3, <1>4, Zenon

LEMMA PowerStep ==
  ASSUME NEW n \in Nat
  PROVE  2^n \in Nat /\ 2^(n + 1) = 2 * 2^n
<1> DEFINE S == 1..n
           x == n + 1
           A == SUBSET S
           B == (SUBSET (S \cup {x})) \ A
<1>1. IsFiniteSet(S) /\ Cardinality(S) = n /\ x \notin S
  BY FS_Interval
<1>2. IsFiniteSet(S \cup {x}) /\ Cardinality(S \cup {x}) = n + 1
  BY <1>1, FS_AddElement
<1>3. IsFiniteSet(A) /\ Cardinality(A) = 2^n
  BY <1>1, FS_SUBSET, Zenon
<1>4. IsFiniteSet(SUBSET (S \cup {x})) /\ Cardinality(SUBSET (S \cup {x})) = 2^(n + 1)
  BY <1>2, FS_SUBSET, Zenon
<1>5. Cardinality(A) \in Nat
  BY <1>3, FS_CardinalityType
<1>6. ExistsBijection(A, B)
  <2> DEFINE f == [T \in A |-> T \cup {x}]
  <2>1. f \in [A -> B]
    BY <1>1
  <2>2. \A T, U \in A : f[T] = f[U] => T = U
    <3> SUFFICES ASSUME NEW T \in A, NEW U \in A, T \cup {x} = U \cup {x} PROVE T = U
      OBVIOUS
    <3>1. x \notin T /\ x \notin U
      BY <1>1
    <3> QED
      BY <3>1
  <2>3. \A V \in B : \E T \in A : f[T] = V
    <3> TAKE V \in B
    <3>1. x \in V /\ V \ {x} \in A
      BY <1>1
    <3>2. f[V \ {x}] = V
      BY <3>1
    <3> QED
      BY <3>1, <3>2
  <2>4. f \in Bijection(A, B)
    BY <2>1, <2>2, <2>3, Fun_IsBij
  <2> QED
    BY <2>4 DEF ExistsBijection
<1>7. IsFiniteSet(B) /\ Cardinality(B) = Cardinality(A)
  BY <1>3, <1>6, FS_Bijection
<1>8. A \cap B = {} /\ SUBSET (S \cup {x}) = A \cup B
  OBVIOUS
<1>9. Cardinality(A \cup B) = Cardinality(A) + Cardinality(B) - Cardinality({})
  BY <1>3, <1>7, <1>8, FS_Union
<1>10. PICK a, b : a = Cardinality(A) /\ b = Cardinality(A \cup B)
  OBVIOUS
<1>11. b = 2 * a
  <2>1. b = a + a - 0
    BY <1>7, <1>9, <1>10, FS_EmptySet, Zenon
  <2> QED
    BY <1>5, <1>10, <2>1
<1> QED
  BY <1>3, <1>4, <1>5, <1>8, <1>10, <1>11, Zenon

LEMMA Powers ==
  ASSUME NEW n \in Nat
  PROVE  2^n \in Nat \ {0}
<1> DEFINE S == {k \in Nat : 2^k \in Nat \ {0}}
<1>1. 0 \in S
  BY PowerZero
<1>2. \A k \in Nat : k \in S => k + 1 \in S
  <2> SUFFICES ASSUME NEW k \in Nat, k \in S PROVE k + 1 \in S
    OBVIOUS
  <2>1. PICK a : a = 2^k
    OBVIOUS
  <2>2. a \in Nat \ {0} /\ 2^(k + 1) = 2 * a
    BY <2>1, PowerStep
  <2>3. 2 * a \in Nat \ {0}
    BY <2>2
  <2> QED
    BY <2>2, <2>3
<1> QED
  BY <1>1, <1>2, SetInduction
-----------------------------------------------------------------------------
\* Half of the range of a duration; what is below it does not wrap.
LEMMA WidthFacts ==
  \E h \in Nat \ {0} : h = 2^(Width - 1) /\ 2^Width = 2 * h
<1>1. Width - 1 \in Nat /\ (Width - 1) + 1 = Width
  BY WidthAssumption
<1>2. PICK m \in Nat : m = Width - 1 /\ m + 1 = Width
  BY <1>1
<1>3. 2^m \in Nat \ {0} /\ 2^(m + 1) = 2 * 2^m
  BY <1>2, Powers, PowerStep
<1> QED
  BY <1>2, <1>3, Zenon

LEMMA WrapType ==
  ASSUME NEW n \in Int
  PROVE  Wrap(n) \in Int
<1>1. PICK h \in Nat \ {0} : h = 2^(Width - 1) /\ 2^Width = 2 * h
  BY WidthFacts
<1>2. ((n + h) % (2 * h)) - h \in Int
  BY <1>1
<1> QED
  BY <1>1, <1>2 DEF Wrap

LEMMA NoWrap ==
  ASSUME NEW n \in Nat, n < 2^(Width - 1)
  PROVE  Wrap(n) = n
<1>1. PICK h \in Nat \ {0} : h = 2^(Width - 1) /\ 2^Width = 2 * h
  BY WidthFacts
<1>2. n < h
  BY <1>1, Zenon
<1>3. (n + h) % (2 * h) = n + h
  BY <1>1, <1>2
<1>4. ((n + h) % (2 * h)) - h = n
  BY <1>1, <1>3
<1> QED
  BY <1>1, <1>4 DEF Wrap

\* A function is defined by its first value and a step from each value to the next.
LEMMA Recursion ==
  ASSUME NEW S, NEW a \in S, NEW h \in [S -> S]
  PROVE  \E f \in [Nat -> S] : f[0] = a /\ \A n \in Nat : f[n + 1] = h[f[n]]
<1> DEFINE Upto(g, n) == /\ g \in [0..n -> S] /\ g[0] = a
                         /\ \A i \in Nat : i < n => g[i + 1] = h[g[i]]
<1>1. \A n \in Nat : \E g : Upto(g, n)
  <2> DEFINE T == {n \in Nat : \E g : Upto(g, n)}
  <2>1. 0 \in T
    <3>1. Upto([i \in 0..0 |-> a], 0)
      OBVIOUS
    <3> QED
      BY <3>1
  <2>2. \A n \in Nat : n \in T => n + 1 \in T
    <3> SUFFICES ASSUME NEW n \in Nat, NEW g, Upto(g, n) PROVE \E k : Upto(k, n + 1)
      OBVIOUS
    <3> DEFINE k == [i \in 0..(n + 1) |-> IF i <= n THEN g[i] ELSE h[g[n]]]
    <3>1. g[n] \in S
      OBVIOUS
    <3>2. k \in [0..(n + 1) -> S] /\ k[0] = a
      BY <3>1
    <3>3. \A i \in Nat : i < n + 1 => k[i + 1] = h[k[i]]
      <4> TAKE i \in Nat
      <4> HAVE i < n + 1
      <4>1. CASE i < n
        BY <4>1
      <4>2. CASE i = n
        BY <4>2
      <4> QED
        BY <4>1, <4>2
    <3> QED
      BY <3>2, <3>3
  <2> HIDE DEF T
  <2>3. Nat \subseteq T
    BY <2>1, <2>2, SetInduction
  <2> QED
    BY <2>3 DEF T
<1>2. ASSUME NEW n \in Nat, NEW m \in Nat, n <= m, NEW g, NEW k, Upto(g, n), Upto(k, m)
      PROVE  g[n] = k[n]
  <2> DEFINE T == {i \in Nat : i <= n => g[i] = k[i]}
  <2>1. 0 \in T
    BY <1>2
  <2>2. \A i \in Nat : i \in T => i + 1 \in T
    <3> SUFFICES ASSUME NEW i \in Nat, i + 1 <= n, g[i] = k[i] PROVE g[i + 1] = k[i + 1]
      OBVIOUS
    <3>1. g[i + 1] = h[g[i]]
      BY <1>2
    <3>2. k[i + 1] = h[k[i]]
      BY <1>2
    <3> QED
      BY <3>1, <3>2
  <2> HIDE DEF T
  <2>3. n \in T
    BY <2>1, <2>2, SetInduction
  <2> QED
    BY <2>3 DEF T
<1> DEFINE G(n) == CHOOSE g : Upto(g, n)
           f == [n \in Nat |-> G(n)[n]]
<1>3. \A n \in Nat : Upto(G(n), n)
  BY <1>1
<1> HIDE DEF G
<1>4. f \in [Nat -> S]
  BY <1>3
<1>5. f[0] = a
  BY <1>3
<1>6. \A n \in Nat : f[n + 1] = h[f[n]]
  <2> TAKE n \in Nat
  <2>1. Upto(G(n), n) /\ Upto(G(n + 1), n + 1)
    BY <1>3
  <2>2. G(n)[n] = G(n + 1)[n]
    <3>1. n + 1 \in Nat /\ n <= n + 1
      OBVIOUS
    <3> HIDE DEF Upto
    <3> QED
      BY <1>2, <2>1, <3>1
  <2>3. G(n + 1)[n + 1] = h[G(n + 1)[n]]
    BY <2>1
  <2>4. f[n + 1] = G(n + 1)[n + 1] /\ f[n] = G(n)[n]
    OBVIOUS
  <2> QED
    BY <2>2, <2>3, <2>4
<1> QED
  BY <1>4, <1>5, <1>6

\* The recursive function ceiling exists: it satisfies its own definition.
LEMMA CeilingDef ==
  /\ ceiling[1] = BaseBackoff
  /\ \A n \in Nat \ {0} :
        ceiling[n + 1] = IF ceiling[n] < MaxBackoff THEN Wrap(2 * ceiling[n]) ELSE ceiling[n]
<1> DEFINE h == [v \in Int |-> IF v < MaxBackoff THEN Wrap(2 * v) ELSE v]
           E(c) == [i \in Nat |-> IF i <= 1 THEN BaseBackoff
                                  ELSE IF c[i - 1] < MaxBackoff THEN Wrap(2 * c[i - 1])
                                  ELSE c[i - 1]]
<1>1. h \in [Int -> Int]
  BY WrapType, PolicyAssumption
<1>2. PICK f \in [Nat -> Int] : f[0] = BaseBackoff /\ \A n \in Nat : f[n + 1] = h[f[n]]
  <2>1. BaseBackoff \in Int
    BY PolicyAssumption
  <2>2. PICK S, a, g : S = Int /\ a = BaseBackoff /\ g = h
    OBVIOUS
  <2>3. a \in S /\ g \in [S -> S]
    BY <1>1, <2>1, <2>2
  <2>4. \E f \in [Nat -> S] : f[0] = a /\ \A n \in Nat : f[n + 1] = g[f[n]]
    BY <2>3, Recursion
  <2> HIDE DEF h
  <2> QED
    BY <2>2, <2>4, Zenon
<1> DEFINE c == [i \in Nat |-> IF i = 0 THEN BaseBackoff ELSE f[i - 1]]
<1>3. c = E(c)
  <2>1. ASSUME NEW i \in Nat PROVE c[i] = E(c)[i]
    <3>1. CASE i <= 1
      BY <1>2, <3>1
    <3>2. CASE i > 1
      <4>1. i - 1 \in Nat /\ i - 2 \in Nat /\ (i - 2) + 1 = i - 1 /\ i # 0 /\ i - 1 # 0
        BY <3>2
      <4>2. f[i - 1] = h[f[i - 2]]
        BY <1>2, <4>1
      <4>3. c[i - 1] = f[i - 2] /\ c[i] = f[i - 1] /\ f[i - 2] \in Int
        BY <1>2, <4>1
      <4> QED
        BY <3>2, <4>1, <4>2, <4>3
    <3> QED
      BY <3>1, <3>2
  <2>2. c = [i \in Nat |-> c[i]] /\ E(c) = [i \in Nat |-> E(c)[i]]
    OBVIOUS
  <2> HIDE DEF c, E
  <2> QED
    BY <2>1, <2>2
<1>4. ceiling = E(ceiling)
  <2> HIDE DEF c
  <2> QED
    BY <1>3 DEF ceiling
<1> HIDE DEF h, c
<1>5. ceiling[1] = BaseBackoff
  BY <1>4
<1>6. ASSUME NEW n \in Nat \ {0}
      PROVE  ceiling[n + 1] = IF ceiling[n] < MaxBackoff THEN Wrap(2 * ceiling[n]) ELSE ceiling[n]
  <2>1. n + 1 \in Nat /\ ~(n + 1 <= 1) /\ (n + 1) - 1 = n
    BY <1>6
  <2> QED
    BY <1>4, <2>1
<1> QED
  BY <1>5, <1>6

\* The loop that stops at the cap computes what doubling and a minimum would,
\* and nothing wraps on the way.
LEMMA CeilingSaturates ==
  ASSUME NEW n \in Nat \ {0}
  PROVE  Ceiling(n) = Saturated(BaseBackoff, n - 1, MaxBackoff)
<1> DEFINE Good(c, b) == c = b \/ (c >= MaxBackoff /\ b >= c)
           T == {k \in Nat : ceiling[k + 1] \in Nat /\ Good(ceiling[k + 1], BaseBackoff * 2^k)}
<1>1. 0 \in T
  <2>1. 2^0 = 1 /\ BaseBackoff * 1 = BaseBackoff /\ BaseBackoff \in Nat
    BY PowerZero, PolicyAssumption
  <2> QED
    BY <2>1, CeilingDef
<1>2. ASSUME NEW k \in Nat, k \in T PROVE k + 1 \in T
  <2>1. PICK p \in Nat : p = 2^k /\ 2^(k + 1) = 2 * p
    BY PowerStep
  <2>2. PICK c \in Nat : c = ceiling[k + 1] /\ Good(c, BaseBackoff * p)
    BY <1>2, <2>1
  <2>3. ceiling[(k + 1) + 1] = IF c < MaxBackoff THEN Wrap(2 * c) ELSE c
    BY <2>2, CeilingDef
  <2>4. PICK b \in Nat : b = BaseBackoff * p /\ BaseBackoff * (2 * p) = 2 * b
    BY <2>1, PolicyAssumption
  <2>5. CASE c < MaxBackoff
    <3>1. c = b
      BY <2>2, <2>4, <2>5, PolicyAssumption
    <3>2. PICK m : m = 2^(Width - 1) /\ m \in Nat
      BY WidthFacts
    <3>3. 2 * c \in Nat /\ 2 * c < m
      BY <2>5, <3>2, PolicyAssumption, WidthAssumption
    <3>4. Wrap(2 * c) = 2 * c
      BY <3>2, <3>3, NoWrap, Zenon
    <3>5. ceiling[(k + 1) + 1] = 2 * b
      BY <2>3, <2>5, <3>1, <3>4
    <3> QED
      BY <2>1, <2>4, <3>3, <3>1, <3>5
  <2>6. CASE c >= MaxBackoff
    <3>1. ceiling[(k + 1) + 1] = c
      BY <2>3, <2>6, PolicyAssumption
    <3>2. 2 * b >= c
      BY <2>2, <2>4
    <3> QED
      BY <2>1, <2>4, <2>6, <3>1, <3>2
  <2> QED
    BY <2>2, <2>5, <2>6, PolicyAssumption
<1>3. n - 1 \in T
  <2>1. Nat \subseteq T
    <3> HIDE DEF T
    <3> QED
      BY <1>1, <1>2, SetInduction
  <2> QED
    BY <2>1
<1>4. PICK c \in Nat : c = ceiling[n] /\ Good(c, BaseBackoff * 2^(n - 1))
  BY <1>3
<1>5. PICK b : b = BaseBackoff * 2^(n - 1)
  OBVIOUS
<1>6. b \in Int
  <2>1. PICK p \in Nat : p = 2^(n - 1)
    BY Powers
  <2> QED
    BY <1>5, <2>1, PolicyAssumption
<1>7. Least(c, MaxBackoff) = Least(b, MaxBackoff)
  BY <1>4, <1>5, <1>6, PolicyAssumption DEF Least
<1> QED
  BY <1>4, <1>5, <1>7, Zenon DEF Ceiling, Saturated
-----------------------------------------------------------------------------
\* Half of the ceiling and a share of the other half.
LEMMA BackoffBounds ==
  ASSUME NEW n \in Nat \ {0}, NEW retryAfter \in Int, NEW random \in Int
  PROVE  LET full == Saturated(BaseBackoff, n - 1, MaxBackoff)
             asked == Least(retryAfter, MaxRetryAfter)
             wait == Backoff(n, retryAfter, random)
         IN /\ full \in Nat /\ full <= MaxBackoff /\ wait \in Nat
            /\ full \div 2 <= wait /\ asked <= wait /\ wait <= Greatest(full, asked)
<1>1. PICK full \in Nat : /\ full = Saturated(BaseBackoff, n - 1, MaxBackoff)
                          /\ full <= MaxBackoff /\ Ceiling(n) = full
  <2>1. PICK p \in Nat \ {0} : p = 2^(n - 1)
    BY Powers
  <2>2. BaseBackoff * p \in Nat
    BY <2>1, PolicyAssumption
  <2>3. PICK b \in Nat : b = BaseBackoff * 2^(n - 1)
    BY <2>1, <2>2
  <2>4. Saturated(BaseBackoff, n - 1, MaxBackoff) = Least(b, MaxBackoff)
    BY <2>3, Zenon DEF Saturated
  <2>5. Least(b, MaxBackoff) \in Nat /\ Least(b, MaxBackoff) <= MaxBackoff
    BY <2>3, PolicyAssumption DEF Least
  <2> QED
    BY <2>4, <2>5, CeilingSaturates
<1>2. PICK half \in Nat : half = full \div 2 /\ 2 * half <= full
  BY <1>1
<1>3. PICK share \in Nat : share = jitterFraction(random) /\ share <= Unit
  BY PolicyAssumption DEF jitterFraction, Least
<1>4. PICK jitter : jitter = (share * half) \div Unit
  OBVIOUS
<1>5. jitter \in 0..half
  <2>1. PICK prod, most \in Nat : prod = share * half /\ most = Unit * half /\ prod <= most
    <3>1. Unit \in Nat
      BY PolicyAssumption
    <3>2. share * half <= Unit * half
      BY <1>2, <1>3, <3>1
    <3> QED
      BY <1>2, <1>3, <3>1, <3>2
  <2> QED
    BY <1>2, <1>3, <1>4, <2>1, PolicyAssumption
<1>6. Backoff(n, retryAfter, random) =
        IF retryAfter > 0 THEN Greatest(half + jitter, Least(retryAfter, MaxRetryAfter))
        ELSE half + jitter
  BY <1>1, <1>2, <1>3, <1>4 DEF Backoff
<1> QED
  BY <1>1, <1>2, <1>5, <1>6, PolicyAssumption DEF Greatest, Least

\* The range from which the worker's model takes its backoffs: never below half of
\* BaseBackoff, which outlasts the retries of a record, and never above the larger
\* of the two caps; for every attempt, Retry-After and jitter source (Backoff).
THEOREM BackoffRange ==
  ASSUME BaseBackoff <= MaxBackoff,
         NEW n \in Nat \ {0}, NEW retryAfter \in Int, NEW random \in Int
  PROVE  Backoff(n, retryAfter, random)
           \in (BaseBackoff \div 2)..Greatest(MaxBackoff, MaxRetryAfter)
<1>1. PICK full \in Nat, wait \in Nat, asked \in Int :
         /\ full = Saturated(BaseBackoff, n - 1, MaxBackoff)
         /\ wait = Backoff(n, retryAfter, random)
         /\ asked = Least(retryAfter, MaxRetryAfter)
         /\ full <= MaxBackoff /\ full \div 2 <= wait /\ wait <= Greatest(full, asked)
  <2>1. Least(retryAfter, MaxRetryAfter) \in Int
    BY PolicyAssumption DEF Least
  <2> QED
    BY <2>1, BackoffBounds
<1>2. full >= BaseBackoff
  <2>1. PICK p \in Nat \ {0} : p = 2^(n - 1)
    BY Powers
  <2>2. PICK b \in Nat : b = BaseBackoff * p /\ b >= BaseBackoff
    <3>1. BaseBackoff \in Nat
      BY PolicyAssumption
    <3>2. BaseBackoff * p >= BaseBackoff * 1
      BY <2>1, <3>1
    <3> QED
      BY <2>1, <3>1, <3>2
  <2>3. full = Least(b, MaxBackoff)
    BY <1>1, <2>1, <2>2, Zenon DEF Saturated
  <2> QED
    BY <2>2, <2>3, PolicyAssumption DEF Least
<1>3. wait <= Greatest(MaxBackoff, MaxRetryAfter)
  BY <1>1, PolicyAssumption DEF Greatest, Least
<1> QED
  BY <1>1, <1>2, <1>3, PolicyAssumption DEF Greatest

\* Comparing with the shifted-down ceiling tells whether the doubled interval is
\* above it, so what is shifted up fits a duration.
LEMMA PauseSaturates ==
  ASSUME NEW p \in PollInterval, NEW n \in Nat \ {0}
  PROVE  claimBackoff(p, n) = Saturated(p, Least(n - 1, MaxClaimBackoffShift),
                                        Greatest(MaxClaimBackoff, p))
<1>1. PICK shift \in Nat : /\ shift = Least(n - 1, MaxClaimBackoffShift)
                           /\ shift = Least(Greatest(n - 1, 0), MaxClaimBackoffShift)
  BY PolicyAssumption DEF Least, Greatest
<1>2. PICK most \in Nat : most = Greatest(MaxClaimBackoff, p)
  BY PolicyAssumption DEF Greatest
<1>3. PICK m \in Nat \ {0} : m = 2^shift
  BY Powers
<1>4. p \in Nat \ {0}
  BY PolicyAssumption
<1>5. PICK prod \in Nat : prod = p * m
  BY <1>3, <1>4
<1>6. PICK q \in Nat : q = most \div m /\ m * q <= most /\ most < m * (q + 1)
  BY <1>2, <1>3
<1>7. p > q => prod > most
  <2>1. SUFFICES ASSUME p >= q + 1 PROVE prod > most
    BY <1>4, <1>6
  <2>2. p * m >= (q + 1) * m
    BY <1>3, <1>4, <1>6, <2>1
  <2> QED
    BY <1>2, <1>3, <1>4, <1>5, <1>6, <2>2
<1>8. p <= q => prod <= most
  <2>1. SUFFICES ASSUME p <= q PROVE prod <= most
    OBVIOUS
  <2>2. p * m <= q * m
    BY <1>3, <1>4, <1>6, <2>1
  <2> QED
    BY <1>2, <1>3, <1>4, <1>5, <1>6, <2>2
<1>9. claimBackoff(p, n) = IF p > q THEN most ELSE Wrap(prod)
  BY <1>1, <1>2, <1>3, <1>5, <1>6 DEF claimBackoff
<1>10. Saturated(p, Least(n - 1, MaxClaimBackoffShift), Greatest(MaxClaimBackoff, p)) = Least(prod, most)
  BY <1>1, <1>2, <1>3, <1>5, Zenon DEF Saturated
<1>11. PICK h \in Nat : h = 2^(Width - 1) /\ most < h
  BY <1>2, WidthFacts, WidthAssumption, PolicyAssumption DEF Greatest
<1>12. p <= q => Wrap(prod) = prod
  <2>1. SUFFICES ASSUME p <= q PROVE Wrap(prod) = prod
    OBVIOUS
  <2>2. prod < h
    BY <1>2, <1>5, <1>8, <1>11, <2>1
  <2> QED
    BY <1>5, <1>11, <2>2, NoWrap, Zenon
<1>13. Least(prod, most) = IF p > q THEN most ELSE prod
  <2>1. p \in Int /\ q \in Int /\ prod \in Int /\ most \in Int
    BY <1>4
  <2> QED
    BY <1>7, <1>8, <2>1 DEF Least
<1>14. ~(p > q) => Wrap(prod) = prod
  BY <1>4, <1>6, <1>12
<1> QED
  BY <1>9, <1>10, <1>13, <1>14, Zenon
-----------------------------------------------------------------------------
(* Invariants                                                              *)

PolicyTypeOK ==
    /\ state \in {"pending", "delivered", "dead"}
    /\ deadReason \in {"none", "gone", "blocked_address", "terminal_status", "budget_exhausted"}
    /\ budgetAttempts \in Nat /\ age \in Nat /\ backoff \in Nat
    /\ last.retryAfter \in Int
    /\ poll \in PollInterval /\ failures \in Nat

\* A delivery that is still pending has not been given up.
PolicyInv ==
    /\ PolicyTypeOK /\ WaitsInBounds /\ RetriesEndInTime
    /\ state = "pending" => deadReason = "none"

LEMMA PolicyInitInv == PolicyInit => PolicyInv
<1> SUFFICES ASSUME PolicyInit PROVE PolicyInv
  OBVIOUS
<1>1. PolicyTypeOK /\ (state = "pending" => deadReason = "none")
  BY DEF PolicyInit, PolicyTypeOK, NoOutcome, NoRetryAfter
<1>2. WaitsInBounds
  BY DEF PolicyInit, WaitsInBounds
<1>3. RetriesEndInTime
  <2>1. PICK late \in Delay : late \in Nat
    BY PolicyAssumption
  <2>2. 0 < MaxBudgetAge + Greatest(MaxBackoff, MaxRetryAfter) + late
    BY <2>1, PolicyAssumption DEF Greatest
  <2>3. budgetAttempts < MaxBudgetAttempts /\ age = 0 /\ deadReason = "none"
    BY PolicyAssumption DEF PolicyInit
  <2> QED
    BY <2>2, <2>3 DEF RetriesEndInTime
<1> QED
  BY <1>1, <1>2, <1>3 DEF PolicyInv

\* Another attempt: the wait has its bounds, and the budget was not spent.
LEMMA RetryStep ==
  ASSUME PolicyInv, state = "pending", NEW o \in Outcome, NEW random \in Random, NEW delay \in Delay,
         last' = o, ~Exhausted, UNCHANGED <<state, deadReason, loop>>,
         backoff' = Backoff(budgetAttempts + 1, o.retryAfter, random),
         budgetAttempts' = budgetAttempts + 1, age' = age + backoff' + delay
  PROVE  PolicyInv'
<1>1. PICK n \in Nat \ {0} : n = budgetAttempts + 1 /\ n - 1 = budgetAttempts
  BY DEF PolicyInv, PolicyTypeOK
<1>2. PICK full \in Nat, asked \in Int :
         /\ full = Saturated(BaseBackoff, n - 1, MaxBackoff)
         /\ asked = Least(o.retryAfter, MaxRetryAfter)
         /\ full <= MaxBackoff /\ backoff' \in Nat
         /\ full \div 2 <= backoff' /\ asked <= backoff' /\ backoff' <= Greatest(full, asked)
  <2>1. o.retryAfter \in Int /\ random \in Int /\ Least(o.retryAfter, MaxRetryAfter) \in Int
    BY PolicyAssumption DEF Least
  <2> QED
    BY <1>1, <2>1, BackoffBounds
<1>3. asked <= MaxRetryAfter
  BY <1>2, PolicyAssumption DEF Least
<1>4. PolicyTypeOK'
  BY <1>2, PolicyAssumption DEF PolicyInv, PolicyTypeOK, loop
<1>5. WaitsInBounds'
  BY <1>1, <1>2 DEF PolicyInv, WaitsInBounds, loop
<1>6. RetriesEndInTime'
  <2>1. budgetAttempts' < MaxBudgetAttempts
    BY PolicyAssumption DEF Exhausted, PolicyInv, PolicyTypeOK
  <2>2. backoff' <= Greatest(MaxBackoff, MaxRetryAfter)
    BY <1>2, <1>3, PolicyAssumption DEF Greatest
  <2>3. age' < MaxBudgetAge + Greatest(MaxBackoff, MaxRetryAfter) + delay
    BY <1>2, <2>2, PolicyAssumption DEF Exhausted, PolicyInv, PolicyTypeOK, Greatest
  <2> QED
    BY <2>1, <2>3 DEF RetriesEndInTime, PolicyInv
<1> QED
  BY <1>4, <1>5, <1>6 DEF PolicyInv

\* The end of a delivery leaves its budget as it was.
LEMMA FinalStep ==
  ASSUME PolicyInv, state = "pending", NEW o \in Outcome, last' = o, state' \in {"delivered", "dead"},
         deadReason' \in {"none", "gone", "blocked_address", "terminal_status", "budget_exhausted"},
         deadReason' = "budget_exhausted" => Exhausted,
         UNCHANGED <<budgetAttempts, age, backoff, loop>>
  PROVE  PolicyInv'
<1>1. PolicyTypeOK'
  BY PolicyAssumption DEF PolicyInv, PolicyTypeOK, loop
<1>2. WaitsInBounds'
  BY DEF PolicyInv, WaitsInBounds, loop
<1>3. RetriesEndInTime'
  <2>1. Exhausted => budgetAttempts = MaxBudgetAttempts - 1 \/ age >= MaxBudgetAge
    BY PolicyAssumption DEF Exhausted, PolicyInv, PolicyTypeOK, RetriesEndInTime
  <2> QED
    BY <2>1 DEF PolicyInv, RetriesEndInTime
<1> QED
  BY <1>1, <1>2, <1>3 DEF PolicyInv

LEMMA PolicyStepInv == PolicyInv /\ [PolicyNext]_policyVars => PolicyInv'
<1> SUFFICES ASSUME PolicyInv, [PolicyNext]_policyVars PROVE PolicyInv'
  OBVIOUS
<1>1. CASE Attempt
  <2>1. PICK o \in Outcome, random \in Random, delay \in Delay : last' = o /\ Decide(o, random, delay)
    BY <1>1 DEF Attempt
  <2>2. state = "pending" /\ UNCHANGED loop /\ deadReason = "none"
    BY <1>1 DEF Attempt, PolicyInv
  <2>3. Classify(o) \in {"success", "gone", "blocked", "terminal", "retryable"}
    BY PolicyAssumption DEF Classify
  <2>4. CASE Classify(o) = "retryable" /\ ~Exhausted
    BY <2>1, <2>2, <2>4, RetryStep DEF Decide
  <2>5. CASE Classify(o) # "retryable" \/ Exhausted
    BY <2>1, <2>2, <2>3, <2>5, FinalStep DEF Decide, deadResult
  <2> QED
    BY <2>4, <2>5
<1>2. CASE ClaimFails
  <2>1. PICK n \in Nat \ {0} : n = failures' /\ pause' = claimBackoff(poll, n)
    BY <1>2 DEF ClaimFails, PolicyInv, PolicyTypeOK
  <2>2. pause' = Saturated(poll, Least(n - 1, MaxClaimBackoffShift), Greatest(MaxClaimBackoff, poll))
    BY <2>1, PauseSaturates DEF PolicyInv, PolicyTypeOK
  <2>3. PolicyTypeOK' /\ RetriesEndInTime' /\ (state' = "pending" => deadReason' = "none")
    BY <1>2, <2>1 DEF ClaimFails, PolicyInv, PolicyTypeOK, RetriesEndInTime, delivery
  <2>4. WaitsInBounds'
    BY <1>2, <2>1, <2>2 DEF ClaimFails, PolicyInv, WaitsInBounds, delivery
  <2> QED
    BY <2>3, <2>4 DEF PolicyInv
<1>3. CASE ClaimAnswers
  BY <1>3 DEF ClaimAnswers, PolicyInv, PolicyTypeOK, WaitsInBounds, RetriesEndInTime, delivery
<1>4. CASE UNCHANGED policyVars
  BY <1>4 DEF policyVars, delivery, loop, PolicyInv, PolicyTypeOK, WaitsInBounds, RetriesEndInTime
<1> QED
  BY <1>1, <1>2, <1>3, <1>4 DEF PolicyNext

\* Backoff and claimBackoff wait as long as doubling without overflow and a cap would
\* say, for any base, caps, poll interval, jitter and number of failures, and for
\* durations of any width that holds the configured ones.
THEOREM WaitsCorrect == PolicySpec => []WaitsInBounds
<1>1. PolicyInv => WaitsInBounds
  BY DEF PolicyInv
<1> QED
  BY <1>1, PolicyInitInv, PolicyStepInv, PTL DEF PolicySpec

\* A failing delivery has its last attempt within its budget of attempts and of age,
\* one wait and one delay at most above it, for any budget and any delays (Decide).
THEOREM RetriesCorrect == PolicySpec => []RetriesEndInTime
<1>1. PolicyInv => RetriesEndInTime
  BY DEF PolicyInv
<1> QED
  BY <1>1, PolicyInitInv, PolicyStepInv, PTL DEF PolicySpec
-----------------------------------------------------------------------------
(* The watchdog                                                            *)

Document == [status : [Target -> {"new", "up", "down"}], summary : BOOLEAN]
Reports == [Target -> {"nothing", "up", "down"}]

TypeOK ==
    /\ kv \in Document /\ next \in Document
    /\ invalid \in BOOLEAN /\ summarised \in BOOLEAN
    /\ stateRead \in {"loaded", "invalid", "read_failed"}
    /\ pc \in {"idle", "probe", "post", "write"}
    /\ message \in Reports /\ told \in Reports

\* What a run is about to post and to store agree with each other, and where the
\* message is silent, with the document it started from.
CarriedInv ==
    pc \in {"post", "write"} =>
        /\ \A t \in Target : next.status[t] \in {"up", "down"}
        /\ \A t \in Target : message[t] \in {"nothing", next.status[t]}
        /\ \A t \in Target :
              message[t] = "nothing" => (next.status[t] = "down" <=> Previous.status[t] = "down")
        /\ Previous.summary => next.summary

\* A run that goes on to store its state has posted its message.
PostedInv ==
    pc = "write" =>
        /\ \A t \in Target : message[t] # "nothing" => told[t] = message[t]
        /\ Summary => summarised

Inv == TypeOK /\ CarriedInv /\ PostedInv /\ RecordMatchesReports

USE DEF RecordMatchesReports

LEMMA InitInv == Init => Inv
<1> SUFFICES ASSUME Init PROVE Inv
  OBVIOUS
<1>1. TypeOK
  BY DEF Init, TypeOK, Document, Reports, Blank, Silence
<1>2. RecordMatchesReports
  BY DEF Init, Blank, Silence
<1> QED
  BY <1>1, <1>2 DEF Init, Inv, CarriedInv, PostedInv

\* The end of a run leaves nothing to carry.
LEMMA ReturnInv ==
  ASSUME TypeOK, Return, RecordMatchesReports',
         kv' \in Document, told' \in Reports, invalid' \in BOOLEAN, summarised' \in BOOLEAN
  PROVE  Inv'
<1>1. TypeOK'
  BY DEF TypeOK, Return, Document, Reports, Blank, Silence
<1> QED
  BY <1>1 DEF Return, Inv, CarriedInv, PostedInv

LEMMA StartInv ==
  ASSUME Inv, NEW read \in {"loaded", "invalid", "read_failed"}, Start(read)
  PROVE  Inv'
<1>1. /\ kv' = [kv EXCEPT !.summary = kv.summary /\ run' # 0]
      /\ summarised' = (summarised /\ run' # 0)
      /\ blind' = IF run' = 0 THEN blind \ {"summary"} ELSE blind
      /\ pc' = "probe" /\ told' = told
      /\ stateRead' = read /\ UNCHANGED <<next, message, invalid>>
  BY DEF Start, readState
<1>2. kv' \in Document /\ kv'.status = kv.status /\ kv'.summary = (kv.summary /\ run' # 0)
  BY <1>1 DEF Inv, TypeOK, Document
<1>3. TypeOK'
  BY <1>1, <1>2 DEF Inv, TypeOK
<1>4. \A t \in Target \ blind' : t \in Target \ blind
  BY <1>1, WatchdogAssumption
<1>5. RecordMatchesReports'
  BY <1>1, <1>2, <1>4 DEF Inv, TypeOK, Document
<1> QED
  BY <1>1, <1>3, <1>5 DEF Inv, CarriedInv, PostedInv

LEMMA ConcludeInv ==
  ASSUME Inv, Conclude
  PROVE  Inv'
<1>1. UNCHANGED <<kv, invalid, told, summarised, blind, run>>
  BY DEF Conclude, document, channel, env
<1>2. RecordMatchesReports'
  BY <1>1 DEF Inv
<1>3. CASE buildMessage = Silence /\ stateRead = "read_failed"
  BY <1>1, <1>2, <1>3, ReturnInv DEF Conclude, Inv, TypeOK
<1>4. CASE ~(buildMessage = Silence /\ stateRead = "read_failed")
  <2>1. /\ next' = [status |-> [t \in Target |-> Status(t)],
                    summary |-> Previous.summary \/ summaryDue]
        /\ message' = buildMessage
        /\ pc' = IF buildMessage = Silence THEN "write" ELSE "post"
        /\ stateRead' = stateRead
    BY <1>4 DEF Conclude
  <2>2. Previous \in Document /\ Previous' = Previous
    BY <1>1, <2>1 DEF Previous, Inv, TypeOK, Document, Blank
  <2>3. \A t \in Target : Status(t) \in {"up", "down"}
    BY DEF Status
  <2>4. summaryDue \in BOOLEAN
    BY DEF summaryDue
  <2>5. buildMessage \in Reports
    BY <2>3 DEF buildMessage, reconcile, Reports
  <2>6. /\ next' \in Document
        /\ \A t \in Target : next'.status[t] = Status(t)
        /\ next'.summary = (Previous.summary \/ summaryDue)
    BY <2>1, <2>2, <2>3, <2>4 DEF Document
  <2>7. \A t \in Target :
          /\ buildMessage[t] \in {"nothing", Status(t)}
          /\ buildMessage[t] = "nothing" =>
                 ~summaryDue /\ (Status(t) = "down" <=> Previous.status[t] = "down")
    BY <2>3 DEF buildMessage, reconcile
  <2>8. TypeOK'
    BY <1>1, <2>1, <2>5, <2>6 DEF Inv, TypeOK
  <2>9. CarriedInv'
    BY <2>1, <2>2, <2>3, <2>6, <2>7 DEF CarriedInv
  <2>10. PostedInv'
    <3>1. SUFFICES ASSUME pc' = "write"
                   PROVE  /\ \A t \in Target : message'[t] = "nothing"
                          /\ ~Summary'
      BY DEF PostedInv
    <3>2. buildMessage = Silence
      BY <2>1, <3>1
    <3>3. \A t \in Target : message'[t] = "nothing"
      BY <2>1, <3>2 DEF Silence
    <3>4. ~summaryDue
      BY <2>1, <2>7, <3>3, WatchdogAssumption
    <3> QED
      BY <2>2, <2>6, <3>3, <3>4 DEF Summary
  <2> QED
    BY <1>2, <2>8, <2>9, <2>10 DEF Inv
<1> QED
  BY <1>3, <1>4

LEMMA PostInv ==
  ASSUME Inv, NEW accepted \in BOOLEAN, NEW answered \in BOOLEAN,
         postToDiscord(accepted, answered)
  PROVE  Inv'
<1>1. /\ pc = "post" /\ UNCHANGED <<kv, invalid>>
      /\ answered => accepted
      /\ IF answered THEN pc' = "write" /\ UNCHANGED <<stateRead, next, message>> ELSE Return
      /\ IF accepted THEN Accept ELSE UNCHANGED <<told, summarised, blind>>
  BY DEF postToDiscord, document, working, channel
<1>2. /\ told' \in Reports /\ summarised' \in BOOLEAN
      /\ accepted => \A t \in Target : message[t] # "nothing" => told'[t] = message[t]
      /\ accepted /\ Summary => summarised'
  BY <1>1 DEF Accept, Inv, TypeOK, Reports
<1>3. RecordMatchesReports'
  <2>1. CASE ~accepted
    BY <1>1, <2>1 DEF Inv
  <2>2. CASE accepted
    <3>1. blind' = blind \cup Said /\ Accept
      BY <1>1, <2>2 DEF Accept
    <3>2. ASSUME NEW t \in Target, t \notin blind'
          PROVE  kv'.status[t] = "down" <=> told'[t] = "down"
      <4>1. t \notin blind /\ message[t] = "nothing"
        BY <3>1, <3>2 DEF Said
      <4>2. told'[t] = told[t]
        BY <3>1, <4>1 DEF Accept
      <4> QED
        BY <1>1, <4>1, <4>2 DEF Inv
    <3>3. ASSUME "summary" \notin blind'
          PROVE  kv'.summary = summarised'
      <4>1. "summary" \notin blind /\ ~Summary
        BY <3>1, <3>3 DEF Said
      <4> QED
        BY <1>1, <3>1, <4>1 DEF Accept, Inv, TypeOK
    <3> QED
      BY <3>2, <3>3
  <2> QED
    BY <2>1, <2>2
<1>4. CASE ~answered
  BY <1>1, <1>2, <1>3, <1>4, ReturnInv DEF Inv, TypeOK
<1>5. CASE answered
  <2>1. pc' = "write" /\ UNCHANGED <<stateRead, next, message, kv, invalid>> /\ accepted
    BY <1>1, <1>5
  <2>2. TypeOK'
    BY <1>2, <2>1 DEF Inv, TypeOK
  <2>3. CarriedInv'
    BY <1>1, <2>1 DEF Inv, CarriedInv, Previous
  <2>4. PostedInv'
    BY <1>2, <2>1 DEF PostedInv, Summary, Previous
  <2> QED
    BY <1>3, <2>2, <2>3, <2>4 DEF Inv
<1> QED
  BY <1>4, <1>5

LEMMA StoredInv ==
  ASSUME Inv, pc = "write", Stored
  PROVE  RecordMatchesReports'
<1>1. /\ kv' = next /\ told' = told /\ summarised' = summarised
      /\ blind' = IF stateRead = "loaded" THEN blind \ Said
                  ELSE (blind \ Said) \cup {t \in Target : next.status[t] = "up"} \cup {"summary"}
  BY DEF Stored
<1>2. ASSUME NEW t \in Target, t \notin blind'
      PROVE  kv'.status[t] = "down" <=> told'[t] = "down"
  <2>1. CASE message[t] # "nothing"
    BY <1>1, <2>1 DEF Inv, CarriedInv, PostedInv
  <2>2. CASE message[t] = "nothing"
    <3>1. next.status[t] = "down" <=> Previous.status[t] = "down"
      BY <2>2 DEF Inv, CarriedInv
    <3>2. CASE stateRead = "loaded"
      <4>1. t \notin blind
        BY <1>1, <1>2, <2>2, <3>2, WatchdogAssumption DEF Said
      <4> QED
        BY <1>1, <3>1, <3>2, <4>1 DEF Inv, Previous
    <3>3. CASE stateRead # "loaded"
      <4>1. next.status[t] # "down"
        BY <3>1, <3>3 DEF Previous, Blank
      <4>2. next.status[t] = "up"
        BY <4>1 DEF Inv, CarriedInv
      <4> QED
        BY <1>1, <1>2, <3>3, <4>2
    <3> QED
      BY <3>2, <3>3
  <2> QED
    BY <2>1, <2>2
<1>3. ASSUME "summary" \notin blind'
      PROVE  kv'.summary = summarised'
  <2>1. stateRead = "loaded" /\ Previous = kv
    BY <1>1, <1>3 DEF Previous
  <2>2. CASE Summary
    BY <1>1, <2>2 DEF Inv, TypeOK, PostedInv, Summary
  <2>3. CASE ~Summary
    <3>1. next.summary = kv.summary
      BY <2>1, <2>3 DEF Summary, Inv, TypeOK, Document, CarriedInv
    <3>2. "summary" \notin blind
      BY <1>1, <1>3, <2>1, <2>3, WatchdogAssumption DEF Said
    <3> QED
      BY <1>1, <3>1, <3>2 DEF Inv
  <2> QED
    BY <2>2, <2>3
<1> QED
  BY <1>2, <1>3

LEMMA WriteInv ==
  ASSUME Inv, NEW stored \in BOOLEAN, NEW answered \in BOOLEAN,
         writeState(stored, answered)
  PROVE  Inv'
<1>1. CASE stored /\ ~Unchanged
  <2>1. pc = "write" /\ Stored /\ Return
    BY <1>1 DEF writeState
  <2>2. RecordMatchesReports'
    BY <2>1, StoredInv
  <2> QED
    BY <2>1, <2>2, ReturnInv DEF Stored, Inv, TypeOK
<1>2. CASE ~(stored /\ ~Unchanged)
  <2>1. UNCHANGED <<kv, invalid, told, summarised, blind>> /\ Return
    BY <1>2 DEF writeState, document, channel
  <2> QED
    BY <2>1, ReturnInv DEF Inv, TypeOK
<1> QED
  BY <1>1, <1>2

\* The stored state says of every target, and of the daily summary, what the
\* channel was told, for any targets, schedule and faults (runWatchdog: post first,
\* then write).
THEOREM RecordCorrect == Spec => []RecordMatchesReports
<1>1. Inv /\ [Next]_vars => Inv'
  <2> SUFFICES ASSUME Inv, [Next]_vars PROVE Inv'
    OBVIOUS
  <2>1. CASE runWatchdog
    <3>1. ASSUME NEW read \in {"loaded", "invalid", "read_failed"}, Start(read)
          PROVE  Inv'
      BY <3>1, StartInv
    <3>2. ASSUME NEW t \in Target, NEW ok \in BOOLEAN, probeWithRetry(t, ok)
          PROVE  Inv'
      <4>1. UNCHANGED <<kv, invalid, pc, stateRead, next, message, told, summarised, blind>>
        BY <3>2 DEF probeWithRetry, document, channel
      <4> QED
        BY <4>1 DEF Inv, TypeOK, CarriedInv, PostedInv, Previous, Summary
    <3>3. ASSUME NEW accepted \in BOOLEAN, NEW answered \in BOOLEAN,
                 postToDiscord(accepted, answered)
          PROVE  Inv'
      BY <3>3, PostInv
    <3>4. ASSUME NEW stored \in BOOLEAN, NEW answered \in BOOLEAN,
                 writeState(stored, answered)
          PROVE  Inv'
      BY <3>4, WriteInv
    <3> QED
      BY <2>1, <3>1, <3>2, <3>3, <3>4, ConcludeInv DEF runWatchdog
  <2>2. CASE CutOff
    <3>1. UNCHANGED <<kv, invalid, told, summarised, blind>> /\ Return
      BY <2>2 DEF CutOff, document, channel
    <3> QED
      BY <3>1, ReturnInv DEF Inv, TypeOK
  <2>3. ASSUME NEW t \in Target, Turn(t)
        PROVE  Inv'
    <3>1. UNCHANGED <<kv, invalid, pc, stateRead, next, message, told, summarised, blind>>
      BY <2>3 DEF Turn, document, working, channel
    <3> QED
      BY <3>1 DEF Inv, TypeOK, CarriedInv, PostedInv, Previous, Summary
  <2>4. CASE UNCHANGED vars
    <3>1. UNCHANGED <<kv, invalid, pc, stateRead, next, message, told, summarised, blind>>
      BY <2>4 DEF vars, document, working, channel
    <3> QED
      BY <3>1 DEF Inv, TypeOK, CarriedInv, PostedInv, Previous, Summary
  <2> QED
    BY <2>1, <2>2, <2>3, <2>4 DEF Next
<1> QED
  BY <1>1, InitInv, PTL DEF Spec, Inv
=============================================================================
