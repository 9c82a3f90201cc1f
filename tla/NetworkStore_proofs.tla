------------------------- MODULE NetworkStore_proofs -------------------------
(***************************************************************************)
(* Theorems about the browser's network store for every size of its        *)
(* window, any number of calls, failures and changes of the binding, and   *)
(* any order of the answers: its types, what it shows after an action of   *)
(* the user, its locked controls, and that merging loses no message.       *)
(***************************************************************************)
EXTENDS NetworkStore, FiniteSetTheorems, SequenceTheorems, WellFoundedInduction, TLAPS

SentAts == 1 .. MaxSentAt

-----------------------------------------------------------------------------
(* The newest messages: slice(-clientMessageWindow).                          *)
Later(messages, t) == { n \in messages : n > t }

LEMMA LaterFinite ==
    ASSUME NEW M \in SUBSET SentAts, NEW t
    PROVE  /\ IsFiniteSet(M) /\ Cardinality(M) \in Nat
           /\ IsFiniteSet(Later(M, t)) /\ Cardinality(Later(M, t)) \in Nat
<1>1. MaxSentAt \in Nat
  BY StoreAssumption
<1>2. IsFiniteSet(SentAts)
  BY <1>1, FS_Interval DEF SentAts
<1>3. IsFiniteSet(M)
  BY <1>2, FS_Subset
<1>4. Later(M, t) \subseteq M
  BY DEF Later
<1>5. QED BY <1>3, <1>4, FS_Subset, FS_CardinalityType

LEMMA MaxOfTwo ==
    ASSUME NEW a \in Nat, NEW b \in Nat
    PROVE  Max({a, b}) \in Nat /\ Max({a, b}) >= a /\ Max({a, b}) >= b /\ Max({a, b}) \in {a, b}
<1>1. \E x \in {a, b} : \A y \in {a, b} : x >= y
  <2>1. CASE a >= b
    BY <2>1
  <2>2. CASE ~(a >= b)
    BY <2>2
  <2>3. QED BY <2>1, <2>2
<1>2. Max({a, b}) = CHOOSE x \in {a, b} : \A y \in {a, b} : x >= y
  BY DEF Max
<1>3. Max({a, b}) \in {a, b} /\ \A y \in {a, b} : Max({a, b}) >= y
  BY <1>1, <1>2
<1>4. QED BY <1>3

LEMMA NewestIsLater ==
    ASSUME NEW M \in SUBSET SentAts
    PROVE  /\ Newest(M) \subseteq M
           /\ \A m \in M : m \in Newest(M) <=> Cardinality(Later(M, m)) < MessageWindow
  BY DEF Newest, Later

(* There are no more of them than the window holds: no two have as many later. *)
LEMMA NewestAtMost ==
    ASSUME NEW M \in SUBSET SentAts
    PROVE  Cardinality(Newest(M)) <= MessageWindow
<1> DEFINE f == [m \in Newest(M) |-> Cardinality(Later(M, m))]
<1>0. MessageWindow \in Nat \ {0} /\ MaxSentAt \in Nat /\ M \subseteq Nat
  BY StoreAssumption DEF SentAts
<1>1. ASSUME NEW a \in M, NEW b \in M, a < b
      PROVE  Cardinality(Later(M, b)) < Cardinality(Later(M, a))
  <2>1. /\ Later(M, b) \subseteq Later(M, a)
        /\ b \in Later(M, a) /\ b \notin Later(M, b)
    <3>1. a \in Nat /\ b \in Nat /\ \A n \in M : n \in Nat
      BY <1>0
    <3>2. \A n \in M : n > b => n > a
      BY <1>1, <3>1
    <3>3. b > a /\ ~(b > b)
      BY <1>1, <3>1
    <3>4. QED BY <3>2, <3>3 DEF Later
  <2>2. /\ IsFiniteSet(Later(M, a)) /\ Cardinality(Later(M, a)) \in Nat
        /\ Cardinality(Later(M, b)) \in Nat
    BY LaterFinite
  <2>3. /\ Cardinality(Later(M, b)) <= Cardinality(Later(M, a))
        /\ Cardinality(Later(M, a)) = Cardinality(Later(M, b)) => Later(M, a) = Later(M, b)
    BY <2>1, <2>2, FS_Subset
  <2>4. QED BY <2>1, <2>2, <2>3
<1>2. f \in Injection(Newest(M), 0 .. (MessageWindow - 1))
  <2>1. \A m \in Newest(M) : Cardinality(Later(M, m)) \in 0 .. (MessageWindow - 1)
    <3>1. ASSUME NEW m \in Newest(M)
          PROVE  Cardinality(Later(M, m)) \in 0 .. (MessageWindow - 1)
      <4>1. Cardinality(Later(M, m)) \in Nat /\ Cardinality(Later(M, m)) < MessageWindow
        BY LaterFinite, NewestIsLater
      <4>2. QED BY <1>0, <4>1
    <3>2. QED BY <3>1
  <2>2. ASSUME NEW a \in Newest(M), NEW b \in Newest(M), f[a] = f[b] PROVE a = b
    <3>1. a \in M /\ b \in M /\ a \in Nat /\ b \in Nat
      BY <1>0, NewestIsLater
    <3>2. /\ Cardinality(Later(M, a)) = Cardinality(Later(M, b))
          /\ Cardinality(Later(M, a)) \in Nat
      BY <2>2, LaterFinite
    <3> HIDE DEF f
    <3>3. ~(a < b) /\ ~(b < a)
      BY <1>1, <3>1, <3>2
    <3>4. QED BY <3>1, <3>3
  <2>3. QED BY <2>1, <2>2 DEF Injection, IsInjective
<1>3. /\ IsFiniteSet(0 .. (MessageWindow - 1))
      /\ Cardinality(0 .. (MessageWindow - 1)) = MessageWindow
  BY <1>0, FS_Interval
<1> HIDE DEF f
<1>4. QED BY <1>2, <1>3, FS_Injection

(* And no fewer, if there are that many: the greatest message left out would   *)
(* have all of them later, and they would not fill the window.               *)
LEMMA NewestAtLeast ==
    ASSUME NEW M \in SUBSET SentAts, Cardinality(M) >= MessageWindow
    PROVE  Cardinality(Newest(M)) >= MessageWindow
<1> SUFFICES ASSUME ~(Cardinality(Newest(M)) >= MessageWindow) PROVE FALSE
  OBVIOUS
<1> DEFINE K == Newest(M)
           L == M \ K
           R == {ss \in Nat \X Nat : ss[1] < ss[2]}
           D == { MaxSentAt - x : x \in L }
<1>0. MessageWindow \in Nat \ {0} /\ MaxSentAt \in Nat /\ M \subseteq SentAts
  BY StoreAssumption
<1>1. K \subseteq M /\ K \in SUBSET SentAts
  BY NewestIsLater
<1>2. /\ IsFiniteSet(M) /\ Cardinality(M) \in Nat
      /\ IsFiniteSet(K) /\ Cardinality(K) \in Nat
  BY <1>1, LaterFinite
<1>3. L # {}
  BY <1>0, <1>1, <1>2
<1>4. PICK x \in L : \A y \in L : y <= x
  <2>1. D \subseteq Nat /\ D # {}
    <3>1. \A x \in L : x \in 1 .. MaxSentAt
      BY <1>0 DEF SentAts
    <3>2. \A x \in L : MaxSentAt - x \in Nat
      BY <1>0, <3>1
    <3>3. QED BY <1>3, <3>2
  <2>2. IsWellFoundedOn(R, Nat)
    BY NatLessThanWellFounded DEF OpToRel
  <2>3. PICK d \in D : \A c \in D : ~(<<c, d>> \in R)
    BY <2>1, <2>2, WFMin
  <2>4. PICK x \in L : d = MaxSentAt - x
    BY <2>3
  <2>5. ASSUME NEW y \in L PROVE y <= x
    <3>1. MaxSentAt - y \in D /\ MaxSentAt - y \in Nat /\ d \in Nat
      BY <1>0, <2>1 DEF SentAts
    <3>2. ~(MaxSentAt - y < d)
      BY <2>3, <3>1
    <3>3. x \in Nat /\ y \in Nat
      BY <1>0 DEF SentAts
    <3>4. QED BY <1>0, <2>4, <3>2, <3>3
  <2>6. QED BY <2>5
<1>5. Later(M, x) \subseteq K
  <2>1. \A n \in M : n \in Nat
    BY <1>0 DEF SentAts
  <2>2. \A n \in L : ~(n > x)
    BY <1>4, <2>1
  <2>3. QED BY <2>2 DEF Later
<1> HIDE DEF K, L, D, R
<1>6. Cardinality(Later(M, x)) <= Cardinality(K)
  BY <1>2, <1>5, FS_Subset
<1>7. Cardinality(Later(M, x)) \in Nat
  BY LaterFinite
<1>8. Cardinality(Later(M, x)) < MessageWindow
  BY <1>0, <1>2, <1>6, <1>7 DEF K
<1>9. QED BY <1>4, <1>8, NewestIsLater DEF K, L

(* A message that is there, or has given way to a full window of later ones,   *)
(* is in the same case among the newest.                                     *)
Shown(M, t) == t \in M \/ Cardinality(Later(M, t)) >= MessageWindow

LEMMA NewestShown ==
    ASSUME NEW M \in SUBSET SentAts, NEW t \in SentAts, Shown(M, t)
    PROVE  Shown(Newest(M), t)
<1>0. MessageWindow \in Nat \ {0} /\ SentAts \subseteq Nat
  BY StoreAssumption DEF SentAts
<1>1. Cardinality(Later(M, t)) \in Nat
  BY LaterFinite
<1>2. CASE Cardinality(Later(M, t)) < MessageWindow
  <2>1. t \in M
    BY <1>0, <1>1, <1>2 DEF Shown
  <2>2. QED BY <1>2, <2>1, NewestIsLater DEF Shown
<1>3. CASE ~(Cardinality(Later(M, t)) < MessageWindow)
  <2> DEFINE N == Later(M, t)
  <2>1. N \in SUBSET SentAts /\ Cardinality(N) >= MessageWindow
    <3>1. N \in SUBSET SentAts
      BY DEF Later
    <3>2. QED BY <1>0, <1>1, <1>3, <3>1
  <2>2. ASSUME NEW n \in N PROVE Later(N, n) = Later(M, n)
    <3>1. \A k \in M : k \in Nat
      BY <1>0
    <3>2. n \in Nat /\ t \in Nat /\ n > t
      BY <1>0 DEF Later
    <3>3. \A k \in M : k > n => k > t
      BY <3>1, <3>2
    <3>4. QED BY <3>3 DEF Later
  <2>3. Newest(N) = Later(Newest(M), t)
    <3>1. \A n \in N : n \in Newest(N) <=> n \in Newest(M)
      BY <2>1, <2>2, NewestIsLater DEF Later
    <3>2. Newest(N) \subseteq N /\ Newest(M) \subseteq M
      BY <2>1, NewestIsLater
    <3>3. QED BY <3>1, <3>2 DEF Later
  <2>4. QED BY <2>1, <2>3, NewestAtLeast DEF Shown
<1>4. QED BY <1>2, <1>3

(* More messages take nothing away.  *)
LEMMA ShownGrows ==
    ASSUME NEW M \in SUBSET SentAts, NEW N \in SUBSET SentAts, M \subseteq N,
           NEW t, Shown(M, t)
    PROVE  Shown(N, t)
<1>1. Later(M, t) \subseteq Later(N, t)
  BY DEF Later
<1>2. /\ IsFiniteSet(Later(N, t)) /\ Cardinality(Later(N, t)) \in Nat
      /\ Cardinality(Later(M, t)) \in Nat
  BY LaterFinite
<1>3. Cardinality(Later(M, t)) <= Cardinality(Later(N, t))
  BY <1>1, <1>2, FS_Subset
<1>4. QED BY <1>2, <1>3, StoreAssumption DEF Shown

(* Where no more than a window is shown, giving way means to be older than all. *)
LEMMA ShownOrOlder ==
    ASSUME NEW M \in SUBSET SentAts, Cardinality(M) <= MessageWindow, NEW t, Shown(M, t)
    PROVE  t \in M \/ \A m \in M : m > t
<1>1. CASE t \in M
  BY <1>1
<1>2. CASE t \notin M
  <2>1. Cardinality(Later(M, t)) >= MessageWindow /\ Later(M, t) \subseteq M
    BY <1>2 DEF Shown, Later
  <2>2. /\ IsFiniteSet(M) /\ Cardinality(M) \in Nat /\ Cardinality(Later(M, t)) \in Nat
        /\ MessageWindow \in Nat
    BY LaterFinite, StoreAssumption
  <2>3. /\ Cardinality(Later(M, t)) <= Cardinality(M)
        /\ Cardinality(M) = Cardinality(Later(M, t)) => M = Later(M, t)
    BY <2>1, <2>2, FS_Subset
  <2>4. M = Later(M, t)
    BY <2>1, <2>2, <2>3
  <2>5. QED BY <2>4 DEF Later
<1>3. QED BY <1>1, <1>2

-----------------------------------------------------------------------------
(* Messages as the browser keeps them, in a sequence.                         *)
Increasing(s) == \A i, j \in DOMAIN s : i < j => s[i] < s[j]

Rank(M, m) == Cardinality({ n \in M : n <= m })

LEMMA RankGrows ==
    ASSUME NEW M \in SUBSET SentAts, NEW a \in M, NEW b \in M, a < b
    PROVE  Rank(M, a) < Rank(M, b)
<1> DEFINE A == { n \in M : n <= a }
           B == { n \in M : n <= b }
<1>1. M \subseteq Nat /\ MaxSentAt \in Nat
  BY StoreAssumption DEF SentAts
<1>2. A \subseteq B /\ b \in B /\ b \notin A
  <2>1. a \in Nat /\ b \in Nat /\ \A n \in M : n \in Nat
    BY <1>1
  <2>2. /\ \A n \in M : n <= a => n <= b
        /\ b <= b /\ ~(b <= a)
    BY <2>1
  <2>3. QED BY <2>2
<1>3. IsFiniteSet(M)
  BY LaterFinite
<1>4. /\ B \subseteq M
      /\ IsFiniteSet(B)
  BY <1>3, FS_Subset
<1> HIDE DEF A, B
<1>5. /\ IsFiniteSet(A) /\ Cardinality(A) \in Nat /\ Cardinality(B) \in Nat
      /\ Cardinality(A) <= Cardinality(B)
      /\ Cardinality(B) = Cardinality(A) => B = A
  BY <1>2, <1>4, FS_Subset, FS_CardinalityType
<1>6. Cardinality(A) < Cardinality(B)
  BY <1>2, <1>5
<1>7. QED BY <1>6 DEF Rank, A, B

(* sort: the sequence of a set of messages has them all, in their order.      *)
LEMMA InOrderIsIncreasing ==
    ASSUME NEW M \in SUBSET SentAts
    PROVE  /\ InOrder(M) \in Seq(SentAts) /\ Len(InOrder(M)) = Cardinality(M)
           /\ ToSet(InOrder(M)) = M /\ Increasing(InOrder(M))
<1> DEFINE N == Cardinality(M)
           s == InOrder(M)
           f == [m \in M |-> Rank(M, m)]
<1>0. M \subseteq Nat /\ IsFiniteSet(M) /\ N \in Nat
  BY LaterFinite, StoreAssumption DEF SentAts
<1>1. \A m \in M : Rank(M, m) \in 1 .. N
  <2>1. ASSUME NEW m \in M PROVE Rank(M, m) \in 1 .. N
    <3> DEFINE A == { n \in M : n <= m }
    <3>1. A \subseteq M /\ m \in A
      BY <1>0
    <3> HIDE DEF A
    <3>2. /\ IsFiniteSet(A) /\ Cardinality(A) \in Nat /\ Cardinality(A) <= N
      BY <1>0, <3>1, FS_Subset, FS_CardinalityType
    <3>3. Cardinality(A) # 0
      BY <3>1, <3>2, FS_EmptySet
    <3>4. QED BY <1>0, <3>2, <3>3 DEF Rank, A
  <2>2. QED BY <2>1
<1>2. ASSUME NEW a \in M, NEW b \in M, Rank(M, a) = Rank(M, b) PROVE a = b
  <2>1. a \in Nat /\ b \in Nat /\ Rank(M, a) \in Nat /\ Rank(M, b) \in Nat
    BY <1>0, <1>1
  <2>2. ~(a < b) /\ ~(b < a)
    BY <1>2, <2>1, RankGrows
  <2>3. QED BY <2>1, <2>2
<1>3. f \in Injection(M, 1 .. N)
  BY <1>1, <1>2 DEF Injection, IsInjective
<1>4. f \in Surjection(M, 1 .. N)
  <2>1. IsFiniteSet(1 .. N) /\ Cardinality(1 .. N) = N
    BY <1>0, FS_Interval
  <2> HIDE DEF f
  <2>2. QED BY <1>3, <2>1, FS_Injection
<1>5. \A k \in 1 .. N : \E m \in M : Rank(M, m) = k
  BY <1>4 DEF Surjection
<1>6. s = [k \in 1 .. N |-> CHOOSE m \in M : Rank(M, m) = k]
  BY DEF InOrder, Rank
<1>7. \A k \in 1 .. N : s[k] \in M /\ Rank(M, s[k]) = k
  BY <1>5, <1>6
<1> HIDE DEF s, N
<1>8. s \in Seq(SentAts) /\ Len(s) = N /\ DOMAIN s = 1 .. N
  <2>1. s \in [1 .. N -> SentAts]
    BY <1>6, <1>7
  <2>2. QED BY <1>0, <2>1
<1>9. ToSet(s) = M
  <2>1. ASSUME NEW m \in M PROVE m \in ToSet(s)
    <3>1. s[Rank(M, m)] = m /\ Rank(M, m) \in DOMAIN s
      BY <1>1, <1>2, <1>7, <1>8
    <3>2. QED BY <3>1 DEF ToSet
  <2>2. QED BY <1>7, <1>8, <2>1 DEF ToSet
<1>10. Increasing(s)
  <2>1. ASSUME NEW i \in 1 .. N, NEW j \in 1 .. N, i < j PROVE s[i] < s[j]
    <3>1. s[i] \in M /\ s[j] \in M /\ s[i] \in Nat /\ s[j] \in Nat
      BY <1>0, <1>7
    <3>2. Rank(M, s[i]) = i /\ Rank(M, s[j]) = j /\ i \in Nat /\ j \in Nat
      BY <1>0, <1>7
    <3>3. s[i] # s[j] /\ ~(s[j] < s[i])
      BY <2>1, <3>1, <3>2, RankGrows
    <3>4. QED BY <3>1, <3>3
  <2>2. QED BY <1>8, <2>1 DEF Increasing
<1>11. QED BY <1>8, <1>9, <1>10 DEF s, N

LEMMA ToSetAtMost ==
    ASSUME NEW s \in Seq(SentAts)
    PROVE  /\ ToSet(s) \in SUBSET SentAts /\ Len(s) \in Nat
           /\ Cardinality(ToSet(s)) <= Len(s)
           /\ Increasing(s) => Cardinality(ToSet(s)) = Len(s)
<1>1. /\ s \in [1 .. Len(s) -> SentAts] /\ Len(s) \in Nat /\ DOMAIN s = 1 .. Len(s)
  OBVIOUS
<1>2. ToSet(s) \in SUBSET SentAts
  BY <1>1 DEF ToSet
<1>3. s \in Surjection(1 .. Len(s), ToSet(s))
  BY <1>1 DEF ToSet, Surjection
<1>4. Cardinality(ToSet(s)) <= Len(s)
  BY <1>1, <1>3, FS_SurjCardinalityBound DEF ExistsSurjection
<1>5. ASSUME Increasing(s) PROVE Cardinality(ToSet(s)) = Len(s)
  <2>1. ASSUME NEW i \in 1 .. Len(s), NEW j \in 1 .. Len(s), s[i] = s[j] PROVE i = j
    <3>1. s[i] \in Nat /\ s[j] \in Nat /\ i \in Nat /\ j \in Nat
      BY <1>1, StoreAssumption DEF SentAts
    <3>2. ~(s[i] < s[j]) /\ ~(s[j] < s[i])
      BY <2>1, <3>1
    <3>3. ~(i < j) /\ ~(j < i)
      BY <1>1, <1>5, <3>2 DEF Increasing
    <3>4. QED BY <3>1, <3>3
  <2>2. s \in Injection(1 .. Len(s), ToSet(s))
    BY <1>3, <2>1 DEF Injection, IsInjective, Surjection
  <2>3. s \in Bijection(1 .. Len(s), ToSet(s))
    BY <1>3, <2>2 DEF Bijection
  <2>4. QED BY <1>1, <2>3, FS_CountingElements DEF ExistsBijection
<1>6. QED BY <1>1, <1>2, <1>4, <1>5

(* An own message is shown, and nothing that was not.                         *)
LEMMA AppendedShows ==
    ASSUME NEW s \in Seq(SentAts), Len(s) <= MessageWindow, NEW t \in SentAts
    PROVE  /\ Appended(s, t) \in Seq(SentAts) /\ Len(Appended(s, t)) <= MessageWindow
           /\ t \in ToSet(Appended(s, t)) /\ ToSet(Appended(s, t)) \subseteq ToSet(s) \cup {t}
<1> DEFINE a == Append(s, t)
           b == Tail(a)
<1>0. MessageWindow \in Nat /\ MessageWindow >= 1 /\ Len(s) \in Nat
  BY StoreAssumption
<1>1. /\ a \in Seq(SentAts) /\ Len(a) = Len(s) + 1 /\ DOMAIN a = 1 .. (Len(s) + 1)
      /\ a[Len(s) + 1] = t /\ \A k \in 1 .. Len(s) : a[k] = s[k]
      /\ DOMAIN s = 1 .. Len(s)
  BY AppendProperties
<1> HIDE DEF a
<1>2. /\ b \in Seq(SentAts) /\ Len(b) = Len(s) /\ DOMAIN b = 1 .. Len(s)
      /\ \A k \in 1 .. Len(s) : b[k] = a[k + 1]
  BY <1>0, <1>1
<1> HIDE DEF b
<1>3. \A k \in DOMAIN a : a[k] \in ToSet(s) \cup {t}
  BY <1>0, <1>1 DEF ToSet
<1>4. CASE Len(a) > MessageWindow
  <2>1. Appended(s, t) = b
    BY <1>4 DEF Appended, a, b
  <2>2. Len(s) >= 1 /\ Len(s) \in DOMAIN b /\ b[Len(s)] = t
    BY <1>0, <1>1, <1>2, <1>4
  <2>3. \A k \in DOMAIN b : b[k] \in ToSet(s) \cup {t}
    BY <1>0, <1>1, <1>2, <1>3
  <2>4. QED BY <1>2, <2>1, <2>2, <2>3 DEF ToSet
<1>5. CASE ~(Len(a) > MessageWindow)
  <2>1. Appended(s, t) = a
    BY <1>5 DEF Appended, a
  <2>2. Len(s) + 1 \in DOMAIN a /\ Len(a) <= MessageWindow
    BY <1>0, <1>1, <1>5
  <2>3. QED BY <1>1, <1>3, <2>1, <2>2 DEF ToSet
<1>6. QED BY <1>4, <1>5

(* Behind messages that are in order and all earlier, the slice by position is  *)
(* the slice by sentAt.                                                      *)
LEMMA AppendedInOrder ==
    ASSUME NEW s \in Seq(SentAts), Len(s) <= MessageWindow, Increasing(s),
           NEW t \in SentAts, \A m \in ToSet(s) : m < t
    PROVE  /\ Increasing(Appended(s, t))
           /\ ToSet(Appended(s, t)) = Newest(ToSet(s) \cup {t})
<1> DEFINE a == Append(s, t)
           b == Tail(a)
           S == ToSet(s) \cup {t}
<1>0. /\ MessageWindow \in Nat /\ MessageWindow >= 1 /\ Len(s) \in Nat /\ SentAts \subseteq Nat
      /\ ToSet(s) \in SUBSET SentAts /\ Cardinality(ToSet(s)) = Len(s)
  BY StoreAssumption, ToSetAtMost DEF SentAts
<1>1. /\ a \in Seq(SentAts) /\ Len(a) = Len(s) + 1 /\ DOMAIN a = 1 .. (Len(s) + 1)
      /\ a[Len(s) + 1] = t /\ \A k \in 1 .. Len(s) : a[k] = s[k]
      /\ DOMAIN s = 1 .. Len(s)
  BY AppendProperties
<1> HIDE DEF a
<1>2. /\ b \in Seq(SentAts) /\ Len(b) = Len(s) /\ DOMAIN b = 1 .. Len(s)
      /\ \A k \in 1 .. Len(s) : b[k] = a[k + 1]
  BY <1>0, <1>1
<1> HIDE DEF b
<1>3. \A k \in 1 .. Len(s) : s[k] < t /\ s[k] \in ToSet(s)
  BY <1>1 DEF ToSet
<1>4. \A i, j \in DOMAIN a : i < j => a[i] < a[j]
  <2>1. ASSUME NEW i \in DOMAIN a, NEW j \in DOMAIN a, i < j PROVE a[i] < a[j]
    <3>1. i \in 1 .. Len(s)
      BY <1>0, <1>1, <2>1
    <3>2. j \in 1 .. Len(s) \/ j = Len(s) + 1
      BY <1>0, <1>1
    <3>3. QED BY <1>1, <1>3, <2>1, <3>1, <3>2 DEF Increasing
  <2>2. QED BY <2>1
<1>5. S \in SUBSET SentAts /\ ToSet(a) = S /\ t \notin ToSet(s)
  <2>1. t \notin ToSet(s)
    <3>1. t \in Nat /\ ~(t < t)
      BY <1>0
    <3>2. QED BY <3>1
  <2>2. \A k \in DOMAIN a : k \in 1 .. Len(s) \/ k = Len(s) + 1
    BY <1>0, <1>1
  <2>3. Len(s) + 1 \in DOMAIN a /\ \A k \in 1 .. Len(s) : k \in DOMAIN a
    BY <1>0, <1>1
  <2>4. ToSet(a) = S
    BY <1>1, <1>3, <2>2, <2>3 DEF ToSet
  <2>5. QED BY <1>0, <2>1, <2>4
<1>6. IsFiniteSet(S) /\ Cardinality(S) = Len(s) + 1
  BY <1>0, <1>5, LaterFinite, FS_AddElement
<1> HIDE DEF S
<1>7. ASSUME NEW m \in S
      PROVE  /\ m \notin Later(S, m) /\ Later(S, m) \subseteq S
             /\ IsFiniteSet(S \ {m}) /\ Cardinality(S \ {m}) = Len(s)
  <2>1. m \in Nat
    BY <1>0, <1>5
  <2>2. ~(m > m)
    BY <2>1
  <2>3. IsFiniteSet(S \ {m}) /\ Cardinality(S \ {m}) = Cardinality(S) - 1
    BY <1>6, FS_RemoveElement
  <2>4. QED BY <1>0, <1>6, <2>2, <2>3 DEF Later
<1>8. CASE Len(a) > MessageWindow
  <2>1. Appended(s, t) = b /\ Len(s) = MessageWindow
    BY <1>0, <1>1, <1>8 DEF Appended, a, b
  <2>2. /\ a[1] \in S /\ 1 \in DOMAIN a
        /\ \A k \in DOMAIN b : k + 1 \in DOMAIN a /\ 1 < k + 1 /\ k \in Nat
        /\ \A k \in DOMAIN a : k = 1 \/ (k - 1 \in DOMAIN b /\ (k - 1) + 1 = k)
    <3>1. /\ 1 \in DOMAIN a
          /\ \A k \in DOMAIN b : k + 1 \in DOMAIN a /\ 1 < k + 1 /\ k \in Nat
          /\ \A k \in DOMAIN a : k = 1 \/ (k - 1 \in DOMAIN b /\ (k - 1) + 1 = k)
      BY <1>0, <1>1, <1>2
    <3>2. QED BY <1>5, <3>1 DEF ToSet
  <2>3. \A m \in S : m = a[1] \/ m > a[1]
    <3>1. ASSUME NEW m \in S PROVE m = a[1] \/ m > a[1]
      <4>1. PICK k \in DOMAIN a : m = a[k]
        BY <1>5 DEF ToSet
      <4>2. k = 1 \/ 1 < k
        BY <1>0, <1>1
      <4>3. m \in Nat /\ a[1] \in Nat
        BY <1>0, <1>5, <2>2
      <4>4. QED BY <1>4, <2>2, <4>1, <4>2, <4>3
    <3>2. QED BY <3>1
  <2>4. Increasing(b)
    <3>1. ASSUME NEW i \in DOMAIN b, NEW j \in DOMAIN b, i < j PROVE b[i] < b[j]
      <4>1. i + 1 \in DOMAIN a /\ j + 1 \in DOMAIN a /\ i + 1 < j + 1
        BY <2>2, <3>1
      <4>2. QED BY <1>2, <1>4, <4>1
    <3>2. QED BY <3>1 DEF Increasing
  <2>5. ToSet(b) = S \ {a[1]}
    <3>1. ASSUME NEW k \in DOMAIN b PROVE b[k] \in S \ {a[1]}
      <4>1. b[k] = a[k + 1] /\ k + 1 \in DOMAIN a /\ a[1] < a[k + 1]
        BY <1>2, <1>4, <2>2
      <4>2. a[k + 1] \in S /\ a[k + 1] \in Nat /\ a[1] \in Nat
        BY <1>0, <1>5, <2>2, <4>1 DEF ToSet
      <4>3. QED BY <4>1, <4>2
    <3>2. ASSUME NEW m \in S, m # a[1] PROVE m \in ToSet(b)
      <4>1. PICK k \in DOMAIN a : m = a[k]
        BY <1>5 DEF ToSet
      <4>2. k - 1 \in DOMAIN b /\ b[k - 1] = a[k]
        BY <1>2, <2>2, <3>2, <4>1
      <4>3. QED BY <4>1, <4>2 DEF ToSet
    <3>3. QED BY <3>1, <3>2 DEF ToSet
  <2>6. a[1] \notin Newest(S)
    <3>1. Later(S, a[1]) = S \ {a[1]}
      BY <1>7, <2>2, <2>3 DEF Later
    <3>2. Cardinality(Later(S, a[1])) = MessageWindow
      BY <1>7, <2>1, <2>2, <3>1
    <3>3. a[1] \in Newest(S) <=> Cardinality(Later(S, a[1])) < MessageWindow
      BY <1>5, <2>2, NewestIsLater
    <3>4. QED BY <1>0, <3>2, <3>3
  <2>7. ASSUME NEW m \in S, m # a[1] PROVE m \in Newest(S)
    <3> DEFINE R == (S \ {a[1]}) \ {m}
    <3>1. IsFiniteSet(S \ {a[1]}) /\ Cardinality(S \ {a[1]}) = MessageWindow
      BY <1>7, <2>1, <2>2
    <3>2. IsFiniteSet(R) /\ Cardinality(R) = MessageWindow - 1
      BY <2>7, <3>1, FS_RemoveElement
    <3>3. a[1] \notin Later(S, m)
      <4>1. m > a[1] /\ m \in Nat /\ a[1] \in Nat
        BY <1>0, <1>5, <2>2, <2>3, <2>7
      <4>2. ~(a[1] > m)
        BY <4>1
      <4>3. QED BY <4>2 DEF Later
    <3>4. Later(S, m) \subseteq R
      BY <1>7, <3>3
    <3> HIDE DEF R
    <3>5. Cardinality(Later(S, m)) <= MessageWindow - 1 /\ Cardinality(Later(S, m)) \in Nat
      BY <1>5, <3>2, <3>4, FS_Subset, LaterFinite
    <3>6. QED BY <1>0, <1>5, <3>5, NewestIsLater
  <2>8. Newest(S) = ToSet(b)
    BY <1>5, <2>5, <2>6, <2>7, NewestIsLater
  <2>9. QED BY <2>1, <2>4, <2>8 DEF S
<1>9. CASE ~(Len(a) > MessageWindow)
  <2>1. Appended(s, t) = a
    BY <1>9 DEF Appended, a
  <2>2. Increasing(a)
    BY <1>4 DEF Increasing
  <2>3. ASSUME NEW m \in S PROVE m \in Newest(S)
    <3>1. Cardinality(S \ {m}) = Len(s) /\ IsFiniteSet(S \ {m})
      BY <1>7
    <3>2. Later(S, m) \subseteq S \ {m}
      BY <1>7
    <3>3. Cardinality(Later(S, m)) <= Len(s) /\ Cardinality(Later(S, m)) \in Nat
      BY <1>5, <3>1, <3>2, FS_Subset, LaterFinite
    <3>4. Len(s) < MessageWindow
      BY <1>0, <1>1, <1>9
    <3>5. QED BY <1>0, <1>5, <3>3, <3>4, NewestIsLater
  <2>4. QED BY <1>5, <2>1, <2>2, <2>3, NewestIsLater DEF S
<1>10. QED BY <1>8, <1>9

-----------------------------------------------------------------------------
(* The Host: what is in view is logged, what is logged is in view or was left  *)
(* out, and what was left out and is in view again came late.                *)
HostRecords ==
    [moves : Nat, revision : Nat, chats : [SentAts -> Nat],
     shown : SUBSET SentAts, absent : SUBSET SentAts, belated : SUBSET SentAts]

Consistent(h) ==
    /\ \A t \in SentAts : h.chats[t] <= h.revision
    /\ \A t \in h.shown : h.chats[t] # 0
    /\ \A t \in h.absent : h.chats[t] # 0
    /\ \A t \in SentAts : h.chats[t] # 0 => t \in h.shown \/ t \in h.absent
    /\ \A t \in h.shown : t \in h.absent => t \in h.belated

Hosts == { h \in HostRecords : Consistent(h) }

(* A Host only moves on, and only adds to its log.                           *)
Grows(h, g) ==
    /\ h \in Hosts /\ g \in Hosts
    /\ h.moves <= g.moves /\ h.revision <= g.revision
    /\ h.absent \subseteq g.absent /\ h.belated \subseteq g.belated
    /\ \A t \in SentAts :
         \/ g.chats[t] = h.chats[t]
         \/ h.chats[t] = 0 /\ g.chats[t] = g.revision /\ g.revision > h.revision

LEMMA SameHost == ASSUME NEW h \in Hosts PROVE Grows(h, h)
<1>1. h.moves \in Nat /\ h.revision \in Nat
  BY DEF Hosts, HostRecords
<1>2. QED BY <1>1 DEF Grows

LEMMA GrowsLogged ==
    ASSUME NEW h, NEW g, Grows(h, g), NEW t \in SentAts, h.chats[t] # 0
    PROVE  g.chats[t] # 0
  BY DEF Grows

LEMMA AcceptedGrows ==
    ASSUME NEW h \in Hosts, NEW fresh \in SUBSET (SentAts \ Logged(h)),
           NEW shown \in SUBSET (Logged(h) \cup fresh)
    PROVE  /\ Grows(h, Accepted(h, fresh, shown))
           /\ \A t \in fresh : Accepted(h, fresh, shown).chats[t] # 0
<1> DEFINE chats == [t \in SentAts |-> IF t \in fresh THEN h.revision + 1 ELSE h.chats[t]]
           absent == h.absent \cup ((Logged(h) \cup fresh) \ shown)
           belated == h.belated \cup (shown \ (h.shown \cup fresh))
           g == Accepted(h, fresh, shown)
<1>1. /\ h.moves \in Nat /\ h.revision \in Nat /\ h.shown \subseteq SentAts
      /\ h.absent \subseteq SentAts /\ h.belated \subseteq SentAts
      /\ \A t \in SentAts : h.chats[t] \in Nat
      /\ Consistent(h)
  BY DEF Hosts, HostRecords
<1>2. /\ \A t \in SentAts : t \in Logged(h) <=> h.chats[t] # 0
      /\ Logged(h) \subseteq SentAts
  BY DEF Logged, SentAts
<1>3. g = [moves |-> h.moves + 1, revision |-> h.revision + 1, chats |-> chats,
           shown |-> shown, absent |-> absent, belated |-> belated]
  BY DEF Accepted, SentAts
<1>4. /\ chats \in [SentAts -> Nat]
      /\ \A t \in fresh : chats[t] = h.revision + 1 /\ h.chats[t] = 0
      /\ \A t \in SentAts : t \notin fresh => chats[t] = h.chats[t]
  <2>1. \A t \in fresh : t \in SentAts /\ h.chats[t] = 0
    BY <1>2
  <2>2. QED BY <1>1, <2>1
<1>5. h.revision + 1 # 0 /\ h.revision + 1 > h.revision /\ h.moves <= h.moves + 1
      /\ h.revision + 1 \in Nat /\ h.moves + 1 \in Nat /\ h.revision <= h.revision + 1
  BY <1>1
<1> HIDE DEF chats
<1>6. shown \subseteq SentAts /\ absent \subseteq SentAts /\ belated \subseteq SentAts
  BY <1>1, <1>2
<1>7. /\ \A t \in SentAts : chats[t] # 0 <=> t \in Logged(h) \/ t \in fresh
      /\ \A t \in SentAts : chats[t] <= h.revision + 1
  <2>1. \A t \in SentAts : h.chats[t] <= h.revision
    BY <1>1 DEF Consistent
  <2>2. ASSUME NEW t \in SentAts, t \in fresh
        PROVE  chats[t] # 0 /\ chats[t] <= h.revision + 1
    BY <1>4, <1>5, <2>2
  <2>3. ASSUME NEW t \in SentAts, t \notin fresh
        PROVE  (chats[t] # 0 <=> t \in Logged(h)) /\ chats[t] <= h.revision + 1
    BY <1>1, <1>2, <1>4, <2>1, <2>3
  <2>4. QED BY <2>2, <2>3
<1>8. \A t \in absent : t \in Logged(h) \/ t \in fresh
  BY <1>1, <1>2 DEF Consistent
<1>9. \A t \in shown : t \in absent => t \in belated
  <2>1. ASSUME NEW t \in shown, t \in absent PROVE t \in belated
    <3>1. t \in h.absent
      BY <2>1
    <3>2. t \notin fresh
      BY <1>1, <1>2, <3>1 DEF Consistent
    <3>3. t \in h.shown => t \in h.belated
      BY <1>1, <3>1 DEF Consistent
    <3>4. QED BY <2>1, <3>2, <3>3
  <2>2. QED BY <2>1
<1>10. /\ h.absent \subseteq absent /\ h.belated \subseteq belated
       /\ \A t \in Logged(h) \cup fresh : t \in shown \/ t \in absent
  OBVIOUS
<1> HIDE DEF absent, belated, g
<1>11. /\ g.moves = h.moves + 1 /\ g.revision = h.revision + 1 /\ g.chats = chats
       /\ g.shown = shown /\ g.absent = absent /\ g.belated = belated
  BY <1>3
<1>12. g \in HostRecords
  BY <1>3, <1>4, <1>5, <1>6 DEF HostRecords
<1>13. Consistent(g)
  BY <1>6, <1>7, <1>8, <1>9, <1>10, <1>11 DEF Consistent
<1>14. \A t \in SentAts :
          \/ g.chats[t] = h.chats[t]
          \/ h.chats[t] = 0 /\ g.chats[t] = g.revision /\ g.revision > h.revision
  <2>1. ASSUME NEW t \in SentAts, t \in fresh
        PROVE  h.chats[t] = 0 /\ g.chats[t] = g.revision /\ g.revision > h.revision
    BY <1>4, <1>5, <1>11, <2>1
  <2>2. ASSUME NEW t \in SentAts, t \notin fresh PROVE g.chats[t] = h.chats[t]
    BY <1>4, <1>11, <2>2
  <2>3. QED BY <2>1, <2>2
<1>15. Grows(h, g)
  BY <1>5, <1>10, <1>11, <1>12, <1>13, <1>14 DEF Grows, Hosts
<1>16. \A t \in fresh : g.chats[t] # 0
  BY <1>4, <1>5, <1>11
<1>17. QED BY <1>15, <1>16 DEF g

LEMMA MovedGrows ==
    ASSUME NEW h \in Hosts
    PROVE  Grows(h, [h EXCEPT !.moves = @ + 1])
<1> DEFINE g == [h EXCEPT !.moves = @ + 1]
<1>1. h \in HostRecords /\ h.moves \in Nat /\ h.revision \in Nat /\ Consistent(h)
  BY DEF Hosts, HostRecords
<1>2. g = [moves |-> h.moves + 1, revision |-> h.revision, chats |-> h.chats,
           shown |-> h.shown, absent |-> h.absent, belated |-> h.belated]
  BY <1>1 DEF HostRecords
<1> HIDE DEF g
<1>3. g \in HostRecords /\ Consistent(g)
  BY <1>1, <1>2 DEF HostRecords, Consistent
<1>4. Grows(h, g)
  BY <1>1, <1>2, <1>3 DEF Grows, Hosts
<1>5. QED BY <1>4 DEF g

-----------------------------------------------------------------------------
(* What the calls carry, and where the rooms in them come from.               *)
PollRecords ==
    [binding : Nat, version : Nat, cursor : Nat \cup {-1}, answer : Rooms \cup {None},
     reset : BOOLEAN]

MutationRecords ==
    [binding : Nat, op : {"post", "hall"}, served : BOOLEAN, room : Rooms \cup {None},
     message : SentAts \cup {None}]

AsideRecords == [n : Nat, binding : Nat, op : {"invite", "connect"}]

(* The messages of a room.                                                   *)
Msgs(r) == ToSet(r.messages)

(* A room as the Host h of binding b gave it, or merged from such. *)
RoomOf(h, b, r) ==
    /\ r \in Rooms /\ r.from = b
    /\ r.cursor <= h.revision /\ r.readAt <= h.moves
    /\ Len(r.messages) <= MessageWindow
    /\ ~r.outrun => Increasing(r.messages)

PollOf(h, b, v, p) ==
    /\ p \in PollRecords /\ p.version <= v /\ p.binding <= b
    /\ p.answer # None => RoomOf(h, p.binding, p.answer)

MutationOf(h, b, m) ==
    /\ m \in MutationRecords /\ m.binding <= b
    /\ m.room # None => RoomOf(h, m.binding, m.room)

AsideOf(b, a) == a \in AsideRecords /\ a.binding <= b

Typed ==
    /\ host \in Hosts
    /\ binding \in Nat /\ roomVersion \in Nat /\ answeredAt \in Nat /\ used \in Nat
    /\ posted \in SentAts \cup {None}
    /\ bound \in BOOLEAN /\ posting \in BOOLEAN
    /\ phase \in {"starting", "online", "error"}
    /\ busy \in {None, "hall", "invite", "connect"}
    /\ hallActions \in Seq({"post", "hall"})
    /\ \A p \in polls : PollOf(host, binding, roomVersion, p)
    /\ \A m \in running : MutationOf(host, binding, m)
    /\ \A a \in asides : AsideOf(binding, a)
    /\ room # None => RoomOf(host, binding, room)

LEMMA RoomShows ==
    ASSUME NEW h, NEW b, NEW r, RoomOf(h, b, r)
    PROVE  /\ r.messages \in Seq(SentAts) /\ Msgs(r) \in SUBSET SentAts
           /\ Cardinality(Msgs(r)) <= MessageWindow
           /\ r.window \in SUBSET SentAts
<1>1. r.messages \in Seq(SentAts) /\ r.window \in SUBSET SentAts
  BY DEF RoomOf, Rooms, SentAts
<1>2. /\ Msgs(r) \in SUBSET SentAts /\ Len(r.messages) \in Nat
      /\ Cardinality(Msgs(r)) <= Len(r.messages)
  BY <1>1, ToSetAtMost DEF Msgs
<1>3. Cardinality(Msgs(r)) \in Nat /\ MessageWindow \in Nat
  BY <1>2, LaterFinite, StoreAssumption
<1>4. QED BY <1>1, <1>2, <1>3 DEF RoomOf

LEMMA RoomOfGrows ==
    ASSUME NEW h, NEW g, Grows(h, g), NEW b, NEW r, RoomOf(h, b, r)
    PROVE  RoomOf(g, b, r)
<1>1. /\ r.cursor \in Nat /\ r.readAt \in Nat /\ h.moves \in Nat /\ h.revision \in Nat
      /\ g.moves \in Nat /\ g.revision \in Nat
  BY DEF RoomOf, Rooms, Grows, Hosts, HostRecords
<1>2. QED BY <1>1 DEF RoomOf, Grows

LEMMA CallsGrow ==
    ASSUME NEW h, NEW g, Grows(h, g), NEW b \in Nat, NEW c \in Nat, b <= c,
           NEW v \in Nat, NEW w \in Nat, v <= w
    PROVE  /\ \A p : PollOf(h, b, v, p) => PollOf(g, c, w, p)
           /\ \A m : MutationOf(h, b, m) => MutationOf(g, c, m)
           /\ \A a : AsideOf(b, a) => AsideOf(c, a)
<1>1. ASSUME NEW p, PollOf(h, b, v, p) PROVE PollOf(g, c, w, p)
  <2>1. p.version \in Nat /\ p.binding \in Nat
    BY <1>1 DEF PollOf, PollRecords
  <2>2. QED BY <1>1, <2>1, RoomOfGrows DEF PollOf
<1>2. ASSUME NEW m, MutationOf(h, b, m) PROVE MutationOf(g, c, m)
  <2>1. m.binding \in Nat
    BY <1>2 DEF MutationOf, MutationRecords
  <2>2. QED BY <1>2, <2>1, RoomOfGrows DEF MutationOf
<1>3. ASSUME NEW a, AsideOf(b, a) PROVE AsideOf(c, a)
  <2>1. a.binding \in Nat
    BY <1>3 DEF AsideOf, AsideRecords
  <2>2. QED BY <1>3, <2>1 DEF AsideOf
<1>4. QED BY <1>1, <1>2, <1>3

(* What the Host answers.  *)
LEMMA WindowOfHost ==
    ASSUME NEW h \in Hosts
    PROVE  /\ Window(h) \in SUBSET SentAts /\ Cardinality(Window(h)) <= MessageWindow
           /\ Window(h) \subseteq h.shown
           /\ \A t \in SentAts : h.chats[t] # 0 => t \in h.absent \/ Shown(Window(h), t)
<1>1. h.shown \in SUBSET SentAts /\ Window(h) = Newest(h.shown) /\ Consistent(h)
  BY DEF Window, Hosts, HostRecords
<1>2. ASSUME NEW t \in SentAts, h.chats[t] # 0, t \notin h.absent PROVE Shown(Window(h), t)
  <2>1. Shown(h.shown, t)
    BY <1>1, <1>2 DEF Shown, Consistent
  <2>2. QED BY <1>1, <2>1, NewestShown
<1>3. QED BY <1>1, <1>2, NewestAtMost, NewestIsLater

LEMMA SnapshotOfHost ==
    ASSUME NEW h \in Hosts, NEW b \in Nat
    PROVE  /\ RoomOf(h, b, Snapshot(h, b)) /\ Snapshot(h, b).readAt = h.moves
           /\ Msgs(Snapshot(h, b)) = Window(h)
<1> DEFINE s == InOrder(Window(h))
<1>1. h.moves \in Nat /\ h.revision \in Nat
  BY DEF Hosts, HostRecords
<1>2. /\ Window(h) \in SUBSET SentAts /\ Cardinality(Window(h)) <= MessageWindow
  BY WindowOfHost
<1>3. Snapshot(h, b) = [from |-> b, cursor |-> h.revision, readAt |-> h.moves,
                        window |-> Window(h), messages |-> s, outrun |-> FALSE]
  BY DEF Snapshot
<1>4. /\ s \in Seq(SentAts) /\ Len(s) = Cardinality(Window(h)) /\ ToSet(s) = Window(h)
      /\ Increasing(s)
  BY <1>2, InOrderIsIncreasing
<1> HIDE DEF s
<1>5. QED BY <1>1, <1>2, <1>3, <1>4 DEF RoomOf, Rooms, SentAts, Msgs

LEMMA DeltaOfHost ==
    ASSUME NEW h \in Hosts, NEW b \in Nat, NEW cursor \in Nat \cup {-1}, NEW reset \in BOOLEAN
    PROVE  /\ RoomOf(h, b, Delta(h, b, cursor, reset))
           /\ Delta(h, b, cursor, reset).readAt = h.moves
           /\ Delta(h, b, cursor, reset).cursor = h.revision
           /\ Delta(h, b, cursor, reset).window = Window(h)
           /\ ~Delta(h, b, cursor, reset).outrun
           /\ Msgs(Delta(h, b, cursor, reset)) \subseteq Window(h)
           /\ reset => Msgs(Delta(h, b, cursor, reset)) = Window(h)
           /\ \A t \in Window(h) : h.chats[t] > cursor => t \in Msgs(Delta(h, b, cursor, reset))
<1> DEFINE kept == { t \in Window(h) : reset \/ h.chats[t] > cursor }
           s == InOrder(kept)
           d == Delta(h, b, cursor, reset)
<1>1. h.moves \in Nat /\ h.revision \in Nat
  BY DEF Hosts, HostRecords
<1>2. /\ Window(h) \in SUBSET SentAts /\ Cardinality(Window(h)) <= MessageWindow
  BY WindowOfHost
<1>3. d = [from |-> b, cursor |-> h.revision, readAt |-> h.moves,
           window |-> Window(h), messages |-> s, outrun |-> FALSE]
  <2> DEFINE n == Snapshot(h, b)
  <2>1. d = [n EXCEPT !.messages = s]
    BY DEF Delta
  <2>2. n = [from |-> b, cursor |-> h.revision, readAt |-> h.moves,
             window |-> Window(h), messages |-> InOrder(Window(h)), outrun |-> FALSE]
    BY DEF Snapshot
  <2> HIDE DEF n, s, d
  <2>3. QED BY <2>1, <2>2
<1>4. /\ kept \subseteq Window(h) /\ (reset => kept = Window(h))
      /\ \A t \in Window(h) : h.chats[t] > cursor => t \in kept
  OBVIOUS
<1> HIDE DEF kept
<1>5. kept \in SUBSET SentAts /\ Cardinality(kept) <= MessageWindow
  <2>1. /\ IsFiniteSet(Window(h)) /\ Cardinality(Window(h)) \in Nat
        /\ Cardinality(kept) \in Nat
    BY <1>2, <1>4, LaterFinite
  <2>2. Cardinality(kept) <= Cardinality(Window(h))
    BY <1>4, <2>1, FS_Subset
  <2>3. QED BY <1>2, <1>4, <2>1, <2>2, StoreAssumption
<1>6. s \in Seq(SentAts) /\ Len(s) = Cardinality(kept) /\ ToSet(s) = kept /\ Increasing(s)
  BY <1>5, InOrderIsIncreasing
<1> HIDE DEF s, d
<1>7. RoomOf(h, b, d)
  BY <1>1, <1>2, <1>3, <1>5, <1>6 DEF RoomOf, Rooms, SentAts
<1>8. Msgs(d) = kept
  BY <1>3, <1>6 DEF Msgs
<1>9. /\ d.readAt = h.moves /\ d.cursor = h.revision /\ d.window = Window(h) /\ ~d.outrun
  BY <1>3
<1>10. QED BY <1>4, <1>7, <1>8, <1>9 DEF d

(* A merged room has the newest of what both had.  *)
Both(r, d) == Msgs(r) \cup Msgs(d)

LEMMA Merging ==
    ASSUME NEW h, NEW b, NEW r, RoomOf(h, b, r), r # None, NEW d, RoomOf(h, b, d),
           NEW reset \in BOOLEAN, ~reset
    PROVE  /\ RoomOf(h, b, MergeRoom(r, d, reset))
           /\ Msgs(MergeRoom(r, d, reset)) = Newest(Both(r, d))
           /\ MergeRoom(r, d, reset).readAt = d.readAt
           /\ MergeRoom(r, d, reset).cursor = d.cursor
           /\ MergeRoom(r, d, reset).window = d.window
           /\ MergeRoom(r, d, reset).outrun = r.outrun
<1> DEFINE M == Newest(Both(r, d))
           s == InOrder(M)
           n == MergeRoom(r, d, reset)
<1>1. Both(r, d) \in SUBSET SentAts
  <2>1. Msgs(r) \in SUBSET SentAts /\ Msgs(d) \in SUBSET SentAts
    BY RoomShows
  <2>2. QED BY <2>1 DEF Both
<1>2. M \in SUBSET SentAts /\ Cardinality(M) <= MessageWindow
  BY <1>1, NewestIsLater, NewestAtMost
<1>3. s \in Seq(SentAts) /\ Len(s) = Cardinality(M) /\ ToSet(s) = M /\ Increasing(s)
  BY <1>2, InOrderIsIncreasing
<1>4. n = [d EXCEPT !.messages = s, !.outrun = r.outrun]
  BY DEF MergeRoom, Msgs, Both
<1> HIDE DEF M, s, n
<1>5. n = [from |-> d.from, cursor |-> d.cursor, readAt |-> d.readAt,
           window |-> d.window, messages |-> s, outrun |-> r.outrun]
  <2> DEFINE q == [d EXCEPT !.messages = s]
  <2>1. n = [q EXCEPT !.outrun = r.outrun]
    BY <1>4
  <2>2. q = [from |-> d.from, cursor |-> d.cursor, readAt |-> d.readAt,
             window |-> d.window, messages |-> s, outrun |-> d.outrun]
    <3>1. d \in Rooms
      BY DEF RoomOf
    <3>2. QED BY <3>1 DEF Rooms
  <2> HIDE DEF q
  <2>3. QED BY <2>1, <2>2
<1>6. r.outrun \in BOOLEAN /\ d \in Rooms /\ d.from = b
      /\ d.cursor <= h.revision /\ d.readAt <= h.moves
  BY DEF RoomOf, Rooms
<1>7. RoomOf(h, b, n)
  BY <1>2, <1>3, <1>5, <1>6 DEF RoomOf, Rooms, SentAts
<1>8. Msgs(n) = M /\ n.readAt = d.readAt /\ n.cursor = d.cursor /\ n.window = d.window
      /\ n.outrun = r.outrun
  BY <1>3, <1>5 DEF Msgs
<1>9. QED BY <1>7, <1>8 DEF n, M

LEMMA MergedRoom ==
    ASSUME NEW h \in Hosts, NEW b, NEW r, r # None => RoomOf(h, b, r),
           NEW d, RoomOf(h, b, d), NEW reset \in BOOLEAN
    PROVE  /\ RoomOf(h, b, MergeRoom(r, d, reset)) /\ MergeRoom(r, d, reset).readAt = d.readAt
           /\ ~reset /\ r # None => \A t \in SentAts :
                 Shown(Msgs(r), t) => Shown(Msgs(MergeRoom(r, d, reset)), t)
           /\ reset \/ r = None => MergeRoom(r, d, reset) = d
<1>1. CASE reset \/ r = None
  <2>1. MergeRoom(r, d, reset) = d
    BY <1>1 DEF MergeRoom
  <2>2. QED BY <1>1, <2>1
<1>2. CASE ~reset /\ r # None
  <2> DEFINE M == Both(r, d)
             n == MergeRoom(r, d, reset)
  <2>1. /\ RoomOf(h, b, n) /\ n.readAt = d.readAt /\ Msgs(n) = Newest(M)
        /\ Msgs(r) \in SUBSET SentAts /\ Msgs(d) \in SUBSET SentAts
    BY <1>2, Merging, RoomShows
  <2>2. M \in SUBSET SentAts /\ Msgs(r) \subseteq M
    BY <2>1 DEF Both
  <2> HIDE DEF M, n
  <2>3. \A t \in SentAts : Shown(Msgs(r), t) => Shown(Newest(M), t)
    BY <2>1, <2>2, ShownGrows, NewestShown
  <2>4. QED BY <1>2, <2>1, <2>3 DEF n
<1>3. QED BY <1>1, <1>2

With(X, t) == X \cup {t}

LEMMA RoomWithMessage ==
    ASSUME NEW h, NEW b, NEW r, RoomOf(h, b, r), NEW t \in SentAts
    PROVE  /\ RoomOf(h, b, WithMessage(r, t)) /\ WithMessage(r, t).readAt = r.readAt
           /\ t \in Msgs(WithMessage(r, t))
           /\ WithMessage(r, t).cursor = r.cursor
           /\ ~WithMessage(r, t).outrun =>
                /\ ~r.outrun
                /\ \/ WithMessage(r, t) = r
                   \/ /\ Msgs(WithMessage(r, t)) = Newest(With(Msgs(r), t))
                      /\ WithMessage(r, t).window = Newest(With(r.window, t))
<1>1. CASE t \in Msgs(r)
  <2>1. WithMessage(r, t) = r
    BY <1>1 DEF WithMessage, Msgs
  <2>2. QED BY <1>1, <2>1
<1>2. CASE t \notin Msgs(r)
  <2> DEFINE s == Appended(r.messages, t)
             W == Newest(With(r.window, t))
             out == r.outrun \/ \E m \in Msgs(r) : m > t
             n == WithMessage(r, t)
  <2>1. n = [r EXCEPT !.messages = s, !.window = W, !.outrun = out]
    BY <1>2 DEF WithMessage, Msgs, With
  <2>2. /\ r.messages \in Seq(SentAts) /\ Msgs(r) \in SUBSET SentAts
        /\ With(r.window, t) \in SUBSET SentAts /\ Len(r.messages) <= MessageWindow
    <3>1. r.messages \in Seq(SentAts) /\ Msgs(r) \in SUBSET SentAts /\ r.window \in SUBSET SentAts
      BY RoomShows
    <3>2. QED BY <3>1 DEF RoomOf, With
  <2>3. /\ s \in Seq(SentAts) /\ Len(s) <= MessageWindow
        /\ t \in ToSet(s)
    BY <2>2, AppendedShows
  <2>4. W \in SUBSET SentAts
    BY <2>2, NewestIsLater
  <2>5. out \in BOOLEAN
    BY DEF RoomOf, Rooms
  <2>6. ASSUME ~out
        PROVE  Increasing(s) /\ ToSet(s) = Newest(With(Msgs(r), t)) /\ ~r.outrun
    <3>1. ~r.outrun /\ Increasing(r.messages)
      BY <2>6 DEF RoomOf
    <3>2. \A m \in Msgs(r) : m \in Nat /\ t \in Nat
      BY <2>2, StoreAssumption DEF SentAts
    <3>3. \A m \in ToSet(r.messages) : m < t
      BY <1>2, <2>6, <3>2 DEF Msgs
    <3>4. QED BY <2>2, <3>1, <3>3, AppendedInOrder DEF Msgs, With
  <2> HIDE DEF s, W, out, n
  <2>7. n = [from |-> r.from, cursor |-> r.cursor, readAt |-> r.readAt,
             window |-> W, messages |-> s, outrun |-> out]
    <3> DEFINE q == [r EXCEPT !.messages = s]
               o == [q EXCEPT !.window = W]
    <3>1. n = [o EXCEPT !.outrun = out]
      BY <2>1
    <3>2. q = [from |-> r.from, cursor |-> r.cursor, readAt |-> r.readAt,
               window |-> r.window, messages |-> s, outrun |-> r.outrun]
      BY DEF RoomOf, Rooms
    <3> HIDE DEF q
    <3>3. o = [from |-> r.from, cursor |-> r.cursor, readAt |-> r.readAt,
               window |-> W, messages |-> s, outrun |-> r.outrun]
      BY <3>2
    <3> HIDE DEF o
    <3>4. QED BY <3>1, <3>3
  <2>8. RoomOf(h, b, n)
    BY <2>3, <2>4, <2>5, <2>6, <2>7 DEF RoomOf, Rooms, SentAts
  <2>9. /\ n.readAt = r.readAt /\ n.cursor = r.cursor /\ Msgs(n) = ToSet(s) /\ n.window = W
        /\ n.outrun = out
    BY <2>7 DEF Msgs
  <2>10. QED BY <2>3, <2>6, <2>8, <2>9 DEF n, W
<1>3. QED BY <1>1, <1>2

-----------------------------------------------------------------------------
(* Types are kept by every step.  *)
LEMMA HostMoveGrows == ASSUME Typed, HostMoves PROVE Grows(host, host')
<1>1. host \in Hosts
  BY DEF Typed
<1>2. ASSUME NEW fresh \in {{}} \cup { {t} : t \in (1 .. MaxSentAt) \ Logged(host) },
             NEW shown \in SUBSET (Logged(host) \cup fresh),
             host' = Accepted(host, fresh, shown)
      PROVE  Grows(host, host')
  <2>1. fresh \in SUBSET (SentAts \ Logged(host))
    BY <1>2 DEF SentAts
  <2>2. QED BY <1>1, <1>2, <2>1, AcceptedGrows
<1>3. CASE host' = [host EXCEPT !.moves = @ + 1]
  BY <1>1, <1>3, MovedGrows
<1>4. QED BY <1>2, <1>3 DEF HostMoves

(* What serving a mutation makes of it: it keeps its binding and its kind, and  *)
(* carries the room as it is then, or a message that the Host has.           *)
Served(h, m, n) ==
    /\ n.binding = m.binding /\ n.op = m.op
    /\ n.room # None => n.room = m.room \/ n.room = Snapshot(h, m.binding)
    /\ n.message # None => n.message = m.message
                            \/ (n.message \in SentAts /\ h.chats[n.message] # 0)

LEMMA ServedRecord ==
    ASSUME NEW m \in MutationRecords, NEW yes
    PROVE  [m EXCEPT !.served = yes] =
                [binding |-> m.binding, op |-> m.op, served |-> yes, room |-> m.room,
                 message |-> m.message]
  BY DEF MutationRecords

LEMMA ServedWithRoom ==
    ASSUME NEW m \in MutationRecords, NEW yes, NEW r
    PROVE  [m EXCEPT !.served = yes, !.room = r] =
                [binding |-> m.binding, op |-> m.op, served |-> yes, room |-> r,
                 message |-> m.message]
<1> DEFINE n == [m EXCEPT !.served = yes]
<1>1. [m EXCEPT !.served = yes, !.room = r] = [n EXCEPT !.room = r]
  OBVIOUS
<1>2. n = [binding |-> m.binding, op |-> m.op, served |-> yes, room |-> m.room,
           message |-> m.message]
  BY ServedRecord
<1> HIDE DEF n
<1>3. QED BY <1>1, <1>2

LEMMA ServedWithMessage ==
    ASSUME NEW m \in MutationRecords, NEW yes, NEW t
    PROVE  [m EXCEPT !.served = yes, !.message = t] =
                [binding |-> m.binding, op |-> m.op, served |-> yes, room |-> m.room,
                 message |-> t]
<1> DEFINE n == [m EXCEPT !.served = yes]
<1>1. [m EXCEPT !.served = yes, !.message = t] = [n EXCEPT !.message = t]
  OBVIOUS
<1>2. n = [binding |-> m.binding, op |-> m.op, served |-> yes, room |-> m.room,
           message |-> m.message]
  BY ServedRecord
<1> HIDE DEF n
<1>3. QED BY <1>1, <1>2

LEMMA ServeHallEffect ==
    ASSUME Typed, NEW m \in running, ServeHall(m)
    PROVE  /\ Grows(host, host')
           /\ \E n : /\ running' = (running \ {m}) \cup {n}
                     /\ Served(host', m, n) /\ MutationOf(host', binding, n)
<1>1. host \in Hosts /\ binding \in Nat /\ MutationOf(host, binding, m) /\ m \in MutationRecords
  BY DEF Typed, MutationOf
<1>2. /\ m.binding \in Nat /\ m.op \in {"post", "hall"}
      /\ m.message \in SentAts \cup {None} /\ m.binding <= binding
  BY <1>1 DEF MutationRecords, MutationOf
<1>3. Grows(host, host')
  <2>1. ASSUME NEW shown \in SUBSET Logged(host), host' = Accepted(host, {}, shown)
        PROVE  Grows(host, host')
    <3>1. {} \in SUBSET (SentAts \ Logged(host)) /\ shown \in SUBSET (Logged(host) \cup {})
      OBVIOUS
    <3>2. QED BY <1>1, <2>1, <3>1, AcceptedGrows
  <2>2. CASE UNCHANGED host
    BY <1>1, <2>2, SameHost
  <2>3. QED BY <2>1, <2>2 DEF ServeHall
<1>4. host' \in Hosts
  BY <1>3 DEF Grows
<1>5. PICK s \in {Snapshot(host', m.binding), None} :
         running' = (running \ {m}) \cup {[m EXCEPT !.served = TRUE, !.room = s]}
  BY DEF ServeHall
<1>6. s # None => s = Snapshot(host', m.binding) /\ RoomOf(host', m.binding, s)
  BY <1>2, <1>4, <1>5, SnapshotOfHost
<1> DEFINE n == [m EXCEPT !.served = TRUE, !.room = s]
<1>7. n = [binding |-> m.binding, op |-> m.op, served |-> TRUE, room |-> s,
           message |-> m.message]
  BY <1>1, ServedWithRoom
<1>8. running' = (running \ {m}) \cup {n}
  BY <1>5
<1> HIDE DEF n
<1>9. s \in Rooms \cup {None}
  BY <1>6 DEF RoomOf
<1>10. n \in MutationRecords
  BY <1>2, <1>7, <1>9 DEF MutationRecords
<1>11. n.binding = m.binding /\ n.op = m.op /\ n.room = s /\ n.message = m.message
  BY <1>7
<1>12. MutationOf(host', binding, n)
  BY <1>2, <1>6, <1>10, <1>11 DEF MutationOf
<1>13. Served(host', m, n)
  BY <1>6, <1>11 DEF Served
<1>14. QED BY <1>3, <1>8, <1>12, <1>13

LEMMA ServePostEffect ==
    ASSUME Typed, NEW m \in running, ServePost(m)
    PROVE  /\ Grows(host, host')
           /\ \E n : /\ running' = (running \ {m}) \cup {n}
                     /\ Served(host', m, n) /\ MutationOf(host', binding, n)
<1>1. host \in Hosts /\ binding \in Nat /\ MutationOf(host, binding, m) /\ m \in MutationRecords
  BY DEF Typed, MutationOf
<1>2. /\ m.binding \in Nat /\ m.op \in {"post", "hall"} /\ m.room \in Rooms \cup {None}
      /\ m.message \in SentAts \cup {None} /\ m.binding <= binding
  BY <1>1 DEF MutationRecords, MutationOf
<1>3. ASSUME NEW t \in (1 .. MaxSentAt) \ Logged(host),
             NEW shown \in SUBSET (Logged(host) \cup {t}),
             host' = Accepted(host, {t}, shown),
             running' = (running \ {m}) \cup
                {[m EXCEPT !.served = TRUE, !.message = IF t \in shown THEN t ELSE None]}
      PROVE  /\ Grows(host, host')
             /\ \E n : /\ running' = (running \ {m}) \cup {n}
                       /\ Served(host', m, n) /\ MutationOf(host', binding, n)
  <2>1. {t} \in SUBSET (SentAts \ Logged(host)) /\ t \in SentAts
    BY <1>3 DEF SentAts
  <2>2. Grows(host, host') /\ host'.chats[t] # 0
    BY <1>1, <1>3, <2>1, AcceptedGrows
  <2> DEFINE a == IF t \in shown THEN t ELSE None
             n == [m EXCEPT !.served = TRUE, !.message = a]
  <2>3. a = t \/ a = None
    OBVIOUS
  <2>4. n = [binding |-> m.binding, op |-> m.op, served |-> TRUE, room |-> m.room,
             message |-> a]
    BY <1>1, ServedWithMessage
  <2>5. running' = (running \ {m}) \cup {n}
    BY <1>3
  <2> HIDE DEF n, a
  <2>6. n \in MutationRecords
    BY <1>2, <2>1, <2>3, <2>4 DEF MutationRecords
  <2>7. n.binding = m.binding /\ n.op = m.op /\ n.room = m.room /\ n.message = a
    BY <2>4
  <2>8. m.room # None => RoomOf(host', m.binding, m.room)
    BY <1>1, <2>2, RoomOfGrows DEF MutationOf
  <2>9. MutationOf(host', binding, n)
    BY <1>2, <2>6, <2>7, <2>8 DEF MutationOf
  <2>10. Served(host', m, n)
    BY <2>1, <2>2, <2>3, <2>7 DEF Served
  <2>11. QED BY <2>2, <2>5, <2>9, <2>10
<1>4. CASE /\ running' = (running \ {m}) \cup {[m EXCEPT !.served = TRUE]}
           /\ UNCHANGED host
  <2> DEFINE n == [m EXCEPT !.served = TRUE]
  <2>1. n = [binding |-> m.binding, op |-> m.op, served |-> TRUE, room |-> m.room,
             message |-> m.message]
    BY <1>1, ServedRecord
  <2>2. running' = (running \ {m}) \cup {n}
    BY <1>4
  <2> HIDE DEF n
  <2>3. n \in MutationRecords
    BY <1>2, <2>1 DEF MutationRecords
  <2>4. n.binding = m.binding /\ n.op = m.op /\ n.room = m.room /\ n.message = m.message
    BY <2>1
  <2>5. MutationOf(host', binding, n) /\ Served(host', m, n)
    BY <1>1, <1>4, <2>3, <2>4 DEF MutationOf, Served
  <2>6. QED BY <1>1, <1>4, <2>2, <2>5, SameHost
<1>5. QED BY <1>3, <1>4 DEF ServePost

LEMMA ServeMutationEffect ==
    ASSUME Typed, NEW m \in running, ServeMutation(m)
    PROVE  /\ Grows(host, host')
           /\ \E n : /\ running' = (running \ {m}) \cup {n}
                     /\ Served(host', m, n) /\ MutationOf(host', binding, n)
  BY ServeHallEffect, ServePostEffect DEF ServeMutation

(* What a step has to show of the calls and the room: new ones have their type. *)
LEMMA TypedKept ==
    ASSUME Typed, Grows(host, host'),
           binding' \in Nat, binding <= binding', roomVersion' \in Nat, roomVersion <= roomVersion',
           answeredAt' \in Nat, used' \in Nat, posted' \in SentAts \cup {None},
           bound' \in BOOLEAN, posting' \in BOOLEAN, phase' \in {"starting", "online", "error"},
           busy' \in {None, "hall", "invite", "connect"}, hallActions' \in Seq({"post", "hall"}),
           \A p \in polls' : p \in polls \/ PollOf(host', binding', roomVersion', p),
           \A m \in running' : m \in running \/ MutationOf(host', binding', m),
           \A a \in asides' : a \in asides \/ AsideOf(binding', a),
           room' # None => (room' = room /\ binding' = binding) \/ RoomOf(host', binding', room')
    PROVE  Typed'
<1>1. /\ \A p : PollOf(host, binding, roomVersion, p) => PollOf(host', binding', roomVersion', p)
      /\ \A m : MutationOf(host, binding, m) => MutationOf(host', binding', m)
      /\ \A a : AsideOf(binding, a) => AsideOf(binding', a)
  <2>1. binding \in Nat /\ roomVersion \in Nat
    BY DEF Typed
  <2>2. QED BY <2>1, CallsGrow
<1>2. host' \in Hosts
  BY DEF Grows
<1>3. /\ \A p \in polls' : PollOf(host', binding', roomVersion', p)
      /\ \A m \in running' : MutationOf(host', binding', m)
      /\ \A a \in asides' : AsideOf(binding', a)
  BY <1>1 DEF Typed
<1>4. room' # None => RoomOf(host', binding', room')
  BY RoomOfGrows DEF Typed
<1>5. QED BY <1>2, <1>3, <1>4 DEF Typed

LEMMA NewPollTyped ==
    ASSUME NEW h, NEW b \in Nat, NEW v \in Nat, NEW c \in Nat \cup {-1}
    PROVE  PollOf(h, b, v, NewPoll(b, v, c))
<1>1. NewPoll(b, v, c) \in PollRecords
  BY DEF NewPoll, PollRecords
<1>2. /\ NewPoll(b, v, c).version = v /\ NewPoll(b, v, c).binding = b
      /\ NewPoll(b, v, c).answer = None
  BY DEF NewPoll
<1>3. QED BY <1>1, <1>2 DEF PollOf

LEMMA ServedPollRecord ==
    ASSUME NEW p \in PollRecords, NEW d, NEW reset
    PROVE  [p EXCEPT !.answer = d, !.reset = reset] =
                [binding |-> p.binding, version |-> p.version, cursor |-> p.cursor,
                 answer |-> d, reset |-> reset]
<1> DEFINE q == [p EXCEPT !.answer = d]
<1>1. [p EXCEPT !.answer = d, !.reset = reset] = [q EXCEPT !.reset = reset]
  OBVIOUS
<1>2. q = [binding |-> p.binding, version |-> p.version, cursor |-> p.cursor,
           answer |-> d, reset |-> p.reset]
  BY DEF PollRecords
<1> HIDE DEF q
<1>3. QED BY <1>1, <1>2

(* What serving a poll makes of it.  *)
PollServed(h, p, q) ==
    /\ q.binding = p.binding /\ q.version = p.version /\ q.cursor = p.cursor
    /\ q.reset \/ p.cursor >= 0
    /\ q.answer \in Rooms /\ q.answer.readAt = h.moves
    /\ q.reset => Msgs(q.answer) = Window(h)
    /\ q.answer = Delta(h, p.binding, p.cursor, q.reset)

LEMMA ServePollEffect ==
    ASSUME Typed, NEW p \in polls, ServePoll(p)
    PROVE  \E q : /\ polls' = (polls \ {p}) \cup {q} /\ PollServed(host, p, q)
                  /\ PollOf(host, binding, roomVersion, q)
<1>1. /\ PollOf(host, binding, roomVersion, p) /\ p \in PollRecords
      /\ host \in Hosts /\ host.moves \in Nat
  BY DEF Typed, PollOf, Hosts, HostRecords
<1>2. /\ p.binding \in Nat /\ p.version \in Nat /\ p.cursor \in Nat \cup {-1}
  BY <1>1 DEF PollRecords
<1>3. PICK reset \in Resets(host, p.cursor) :
         polls' = (polls \ {p}) \cup
              {[p EXCEPT !.answer = Delta(host, p.binding, p.cursor, reset), !.reset = reset]}
  BY DEF ServePoll
<1>12. reset \in BOOLEAN /\ (reset \/ p.cursor >= 0)
  <2>1. CASE p.cursor >= 0
    <3>1. ~(p.cursor < 0)
      BY <1>2, <2>1
    <3>2. Resets(host, p.cursor) \subseteq BOOLEAN
      BY <3>1, Zenon DEF Resets
    <3>3. QED BY <2>1, <3>2, Zenon
  <2>2. CASE ~(p.cursor >= 0)
    <3>1. p.cursor < 0
      BY <1>2, <2>2
    <3>2. Resets(host, p.cursor) = {TRUE}
      BY <3>1, Zenon DEF Resets
    <3>3. QED BY <3>2, Zenon
  <2>3. QED BY <2>1, <2>2
<1> DEFINE d == Delta(host, p.binding, p.cursor, reset)
           q == [p EXCEPT !.answer = d, !.reset = reset]
<1>4. /\ RoomOf(host, p.binding, d) /\ d.readAt = host.moves
      /\ reset => Msgs(d) = Window(host)
  BY <1>1, <1>2, <1>12, DeltaOfHost
<1>5. polls' = (polls \ {p}) \cup {q}
  BY <1>3
<1> HIDE DEF d
<1>6. q = [binding |-> p.binding, version |-> p.version, cursor |-> p.cursor,
           answer |-> d, reset |-> reset]
  BY <1>1, ServedPollRecord
<1> HIDE DEF q
<1>7. /\ q.binding = p.binding /\ q.version = p.version /\ q.cursor = p.cursor
      /\ q.answer = d /\ q.reset = reset
  BY <1>6
<1>8. q \in PollRecords
  BY <1>2, <1>4, <1>6, <1>12 DEF PollRecords, RoomOf
<1>9. PollServed(host, p, q)
  BY <1>4, <1>7, <1>12 DEF PollServed, RoomOf, d
<1>10. PollOf(host, binding, roomVersion, q)
  BY <1>1, <1>4, <1>7, <1>8 DEF PollOf
<1>11. QED BY <1>5, <1>9, <1>10

LEMMA TypedInit == Init => Typed
<1> SUFFICES ASSUME Init PROVE Typed
  OBVIOUS
<1> DEFINE chats == [t \in SentAts |-> 0]
<1>1. host = [moves |-> 0, revision |-> 1, chats |-> chats,
              shown |-> {}, absent |-> {}, belated |-> {}]
  BY DEF Init, SentAts
<1>2. chats \in [SentAts -> Nat] /\ \A t \in SentAts : chats[t] = 0
  OBVIOUS
<1> HIDE DEF chats
<1>3. host \in HostRecords
  BY <1>1, <1>2 DEF HostRecords
<1>4. host \in Hosts
  BY <1>1, <1>2, <1>3 DEF Hosts, Consistent
<1>5. /\ binding = 0 /\ roomVersion = 0 /\ answeredAt = 0 /\ used = 0 /\ posted = None
      /\ bound = FALSE /\ posting = FALSE /\ phase = "starting" /\ busy = None
      /\ hallActions = <<>> /\ polls = {} /\ running = {} /\ asides = {} /\ room = None
  BY DEF Init
<1>6. hallActions \in Seq({"post", "hall"}) /\ bound \in BOOLEAN /\ posting \in BOOLEAN
  <2>1. <<>> \in Seq({"post", "hall"})
    OBVIOUS
  <2>2. QED BY <1>5, <2>1, Zenon
<1> HIDE DEF SentAts
<1>7. QED BY <1>4, <1>5, <1>6 DEF Typed

LEMMA EmptySequence == <<>> \in Seq({"post", "hall"})
  OBVIOUS

LEMMA TypedNext == ASSUME Typed, [Next]_vars PROVE Typed'
<1> USE DEF store, snapshot, pending, history
<1>1. /\ Grows(host, host) /\ host \in Hosts
      /\ binding \in Nat /\ roomVersion \in Nat /\ answeredAt \in Nat /\ used \in Nat
      /\ posted \in SentAts \cup {None} /\ bound \in BOOLEAN /\ posting \in BOOLEAN
      /\ phase \in {"starting", "online", "error"}
      /\ busy \in {None, "hall", "invite", "connect"}
      /\ hallActions \in Seq({"post", "hall"})
  BY SameHost DEF Typed
<1>2. \A x \in Nat : x <= x /\ x + 1 \in Nat /\ x <= x + 1
  OBVIOUS
<1>3. room # None => room.cursor \in Nat /\ room \in Rooms
  BY DEF Typed, RoomOf, Rooms
<1>4. CASE HostMoves
  BY <1>1, <1>2, <1>4, HostMoveGrows, TypedKept DEF HostMoves
<1>5. ASSUME NEW m \in running, ServeMutation(m) PROVE Typed'
  <2>1. PICK n : running' = (running \ {m}) \cup {n} /\ MutationOf(host', binding, n)
    BY <1>5, ServeMutationEffect
  <2>2. Grows(host, host')
    BY <1>5, ServeMutationEffect
  <2>3. QED BY <1>1, <1>2, <1>5, <2>1, <2>2, TypedKept DEF ServeMutation
<1>6. ASSUME NEW m \in running, MutationAnswered(m) PROVE Typed'
  <2>1. m \in MutationRecords /\ MutationOf(host, binding, m)
    BY DEF Typed, MutationOf
  <2>2. /\ running' = running \ {m}
        /\ UNCHANGED <<binding, bound, hallActions, polls, asides, refreshInFlight, host,
                       used, faults, phase>>
    BY <1>6 DEF MutationAnswered
  <2>3. /\ roomVersion' \in Nat /\ roomVersion <= roomVersion'
        /\ posting' \in BOOLEAN /\ busy' \in {None, "hall", "invite", "connect"}
    BY <1>1, <1>2, <1>6 DEF MutationAnswered, Release
  <2>4. /\ answeredAt' \in Nat /\ posted' \in SentAts \cup {None}
        /\ room' # None => room' = room \/ RoomOf(host, binding, room')
    <3>1. CASE UNCHANGED <<room, answeredAt, posted>>
      BY <1>1, <3>1
    <3>2. CASE /\ m.binding = binding /\ m.room # None
               /\ room' = m.room /\ answeredAt' = Max({answeredAt, m.room.readAt}) /\ UNCHANGED posted
      <4>1. m.room.readAt \in Nat /\ RoomOf(host, binding, m.room)
        BY <2>1, <3>2 DEF MutationOf, RoomOf, Rooms
      <4>2. Max({answeredAt, m.room.readAt}) \in Nat
        BY <1>1, <4>1, MaxOfTwo
      <4>3. QED BY <1>1, <3>2, <4>1, <4>2
    <3>3. CASE /\ m.message # None /\ room # None
               /\ room' = WithMessage(room, m.message) /\ posted' = m.message
               /\ UNCHANGED answeredAt
      <4>1. m.message \in SentAts /\ RoomOf(host, binding, room)
        BY <2>1, <3>3 DEF MutationRecords, Typed
      <4>2. QED BY <1>1, <3>3, <4>1, RoomWithMessage
    <3>4. QED BY <1>6, <3>1, <3>2, <3>3 DEF MutationAnswered
  <2>5. QED BY <1>1, <1>2, <2>2, <2>3, <2>4, TypedKept
<1>7. ASSUME NEW m \in running, MutationFailed(m) PROVE Typed'
  <2>1. /\ roomVersion' \in Nat /\ roomVersion <= roomVersion'
        /\ posting' \in BOOLEAN /\ busy' \in {None, "hall", "invite", "connect"}
    BY <1>1, <1>2, <1>7 DEF MutationFailed, Release
  <2>2. QED BY <1>1, <1>2, <1>7, <2>1, TypedKept DEF MutationFailed
<1>8. ASSUME NEW p \in polls, ServePoll(p) PROVE Typed'
  <2>1. PICK q : polls' = (polls \ {p}) \cup {q} /\ PollOf(host, binding, roomVersion, q)
    BY <1>8, ServePollEffect
  <2>2. QED BY <1>1, <1>2, <1>8, <2>1, TypedKept DEF ServePoll
<1>9. ASSUME NEW p \in polls, PollAnswered(p) PROVE Typed'
  <2>1. /\ polls' = polls \ {p}
        /\ UNCHANGED <<store, running, asides, host, history, used, faults, busy, posting>>
        /\ phase' \in {"starting", "online", "error"}
    BY <1>1, <1>9 DEF PollAnswered, PollOver
  <2>2. room' # None => room' = room \/ RoomOf(host, binding, room')
    <3>1. CASE Obsolete(p)
      BY <1>9, <3>1 DEF PollAnswered
    <3>2. CASE ~Obsolete(p)
      <4>1. room' = MergeRoom(room, p.answer, p.reset) /\ p.binding = binding /\ p.answer # None
        BY <1>9, <3>2 DEF PollAnswered, Obsolete
      <4>2. RoomOf(host, binding, p.answer) /\ p.reset \in BOOLEAN
        BY <4>1 DEF Typed, PollOf, PollRecords
      <4>3. room # None => RoomOf(host, binding, room)
        BY DEF Typed
      <4>4. QED BY <1>1, <4>1, <4>2, <4>3, MergedRoom
    <3>3. QED BY <3>1, <3>2
  <2>3. QED BY <1>1, <1>2, <2>1, <2>2, TypedKept
<1>10. ASSUME NEW p \in polls, PollFailed(p) PROVE Typed'
  <2>1. /\ polls' = polls \ {p} /\ phase' \in {"starting", "online", "error"}
        /\ UNCHANGED <<store, room, busy, posting, running, asides, host, history, used>>
    BY <1>1, <1>10 DEF PollFailed, PollOver
  <2>2. QED BY <1>1, <1>2, <2>1, TypedKept
<1>11. CASE Bind
  <2>1. PollOf(host, binding + 1, roomVersion, NewPoll(binding + 1, roomVersion, -1))
    BY <1>1, <1>2, NewPollTyped
  <2>2. /\ binding' = binding + 1 /\ bound' = TRUE /\ hallActions' = <<>>
        /\ phase' = "starting" /\ room' = None /\ busy' = None /\ posting' = FALSE
        /\ polls' = polls \cup {NewPoll(binding + 1, roomVersion, -1)}
        /\ answeredAt' = 0 /\ posted' = None
        /\ UNCHANGED <<roomVersion, running, asides, host, used, faults>>
    BY <1>11 DEF Bind
  <2>3. bound' \in BOOLEAN /\ posting' \in BOOLEAN /\ hallActions' \in Seq({"post", "hall"})
    BY <2>2, Zenon, EmptySequence
  <2>4. QED BY <1>1, <1>2, <2>1, <2>2, <2>3, TypedKept
<1>12. CASE Unbind
  <2>1. /\ binding' = binding + 1 /\ bound' = FALSE /\ hallActions' = <<>>
        /\ phase' = "starting" /\ room' = None /\ busy' = None /\ posting' = FALSE
        /\ answeredAt' = 0 /\ posted' = None
        /\ UNCHANGED <<roomVersion, polls, running, asides, host, used, faults>>
    BY <1>12 DEF Unbind
  <2>2. bound' \in BOOLEAN /\ posting' \in BOOLEAN /\ hallActions' \in Seq({"post", "hall"})
    BY <2>1, Zenon, EmptySequence
  <2>3. QED BY <1>1, <1>2, <2>1, <2>2, TypedKept
<1>13. \A c \in Nat \cup {-1} :
          PollOf(host, binding, roomVersion, NewPoll(binding, roomVersion, c))
  BY <1>1, NewPollTyped
<1>14. ASSUME Refreshed PROVE \A p \in polls' : p \in polls \/ PollOf(host, binding, roomVersion, p)
  BY <1>3, <1>13, <1>14 DEF Refreshed
<1>15. CASE RefreshNetwork
  BY <1>1, <1>2, <1>14, <1>15, TypedKept DEF RefreshNetwork
<1>16. CASE PostNetworkMessage
  BY <1>1, <1>2, <1>16, TypedKept DEF PostNetworkMessage
<1>17. CASE ChangeHall
  BY <1>1, <1>2, <1>17, TypedKept DEF ChangeHall
<1>18. CASE BeginMutation
  <2>1. /\ NewMutation \in MutationRecords /\ MutationOf(host, binding, NewMutation)
        /\ Tail(hallActions) \in Seq({"post", "hall"})
    <3>1. /\ hallActions # <<>> /\ Head(hallActions) \in {"post", "hall"}
          /\ Tail(hallActions) \in Seq({"post", "hall"})
      BY <1>1, <1>18 DEF BeginMutation
    <3>2. NewMutation = [binding |-> binding, op |-> Head(hallActions), served |-> FALSE,
                         room |-> None, message |-> None]
      BY DEF NewMutation
    <3>3. NewMutation \in MutationRecords
      BY <1>1, <3>1, <3>2 DEF MutationRecords
    <3>4. NewMutation.binding = binding /\ NewMutation.room = None
      BY <3>2
    <3>5. QED BY <1>1, <1>2, <3>1, <3>3, <3>4 DEF MutationOf
  <2>2. /\ hallActions' = Tail(hallActions) /\ roomVersion' = roomVersion + 1
        /\ running' = running \cup {NewMutation}
        /\ busy' = IF Head(hallActions) = "hall" THEN "hall" ELSE busy
        /\ UNCHANGED <<binding, bound, phase, room, posting, polls, asides, host, history, used>>
    BY <1>18 DEF BeginMutation
  <2>3. QED BY <1>1, <1>2, <2>1, <2>2, TypedKept
<1>19. ASSUME NEW op \in {"invite", "connect"}, AsideBegins(op) PROVE Typed'
  <2>1. AsideOf(binding, [n |-> used, binding |-> binding, op |-> op])
    BY <1>1, <1>2 DEF AsideOf, AsideRecords
  <2>2. QED BY <1>1, <1>2, <1>19, <2>1, TypedKept DEF AsideBegins
<1>20. ASSUME NEW a \in asides, AsideEnds(a) PROVE Typed'
  <2>1. /\ asides' = asides \ {a} /\ busy' \in {None, "hall", "invite", "connect"}
        /\ \A p \in polls' : p \in polls \/ PollOf(host, binding, roomVersion, p)
        /\ UNCHANGED <<store, phase, room, posting, running, host, history, used, faults>>
    BY <1>1, <1>14, <1>20 DEF AsideEnds
  <2>2. QED BY <1>1, <1>2, <2>1, TypedKept
<1>21. CASE UNCHANGED vars
  BY <1>1, <1>2, <1>21, TypedKept DEF vars
<1>22. QED
  BY <1>4, <1>5, <1>6, <1>7, <1>8, <1>9, <1>10, <1>11, <1>12, <1>15, <1>16, <1>17, <1>18,
     <1>19, <1>20, <1>21 DEF Next

LEMMA TypedAlways == Spec => []Typed
<1>1. QED BY TypedInit, TypedNext, PTL DEF Spec

(* The type invariant TypeOK of network-store.ts: phase and the locked         *)
(* controls take the values the snapshot allows, no poll is newer than the   *)
(* binding and the version it was taken with, and no room is ahead of the    *)
(* Host it came from.                                                        *)
THEOREM TypeCorrect == Spec => []TypeOK
<1>1. ASSUME Typed PROVE TypeOK
  <2>1. \A p \in polls : p.version <= roomVersion /\ p.binding <= binding
    BY <1>1 DEF Typed, PollOf
  <2>2. room # None => /\ room \in Rooms
                       /\ room.cursor <= host.revision /\ room.readAt <= host.moves
    BY <1>1 DEF Typed, RoomOf
  <2>3. QED BY <1>1, <2>1, <2>2 DEF Typed, TypeOK
<1>2. QED BY <1>1, TypedAlways, PTL

-----------------------------------------------------------------------------
(* The chain of hallActions.                                                 *)
In(s, op) == \E k \in DOMAIN s : s[k] = op
Once(s) == \A j, k \in DOMAIN s : s[j] = "post" /\ s[k] = "post" => j = k

LEMMA InAppend ==
    ASSUME NEW s \in Seq({"post", "hall"}), NEW x \in {"post", "hall"}
    PROVE  /\ \A op : In(Append(s, x), op) <=> In(s, op) \/ x = op
           /\ Once(s) /\ (x = "post" => ~In(s, "post")) => Once(Append(s, x))
<1> DEFINE a == Append(s, x)
<1>1. /\ Len(s) \in Nat /\ DOMAIN s = 1 .. Len(s) /\ DOMAIN a = 1 .. (Len(s) + 1)
      /\ a[Len(s) + 1] = x /\ \A k \in DOMAIN s : a[k] = s[k]
  OBVIOUS
<1> HIDE DEF a
<1>2. \A k \in DOMAIN a : k \in DOMAIN s \/ k = Len(s) + 1
  BY <1>1
<1>3. Len(s) + 1 \in DOMAIN a /\ \A k \in DOMAIN s : k \in DOMAIN a
  BY <1>1
<1>4. \A op : In(a, op) <=> In(s, op) \/ x = op
  BY <1>1, <1>2, <1>3 DEF In
<1>5. ASSUME Once(s), x = "post" => ~In(s, "post") PROVE Once(a)
  BY <1>1, <1>2, <1>5 DEF In, Once
<1>6. QED BY <1>4, <1>5 DEF a

LEMMA InTail ==
    ASSUME NEW s \in Seq({"post", "hall"}), s # <<>>
    PROVE  /\ \A op : In(s, op) <=> In(Tail(s), op) \/ Head(s) = op
           /\ Once(s) => Once(Tail(s))
           /\ Once(s) /\ Head(s) = "post" => ~In(Tail(s), "post")
<1> DEFINE t == Tail(s)
<1>1. /\ Len(s) \in Nat /\ Len(s) >= 1 /\ DOMAIN s = 1 .. Len(s) /\ DOMAIN t = 1 .. (Len(s) - 1)
      /\ \A k \in DOMAIN t : t[k] = s[k + 1]
      /\ Head(s) = s[1] /\ 1 \in DOMAIN s
  OBVIOUS
<1> HIDE DEF t
<1>2. \A k \in DOMAIN t : k + 1 \in DOMAIN s /\ k + 1 # 1 /\ k \in Nat
  BY <1>1
<1>3. \A k \in DOMAIN s : k = 1 \/ (k - 1 \in DOMAIN t /\ (k - 1) + 1 = k)
  BY <1>1
<1>4. \A op : In(s, op) <=> In(t, op) \/ Head(s) = op
  <2>1. ASSUME NEW op, In(s, op) PROVE In(t, op) \/ Head(s) = op
    <3>1. PICK k \in DOMAIN s : s[k] = op
      BY <2>1 DEF In
    <3>2. k = 1 \/ t[k - 1] = op
      BY <1>1, <1>3, <3>1
    <3>3. QED BY <1>1, <1>3, <3>1, <3>2 DEF In
  <2>2. ASSUME NEW op, In(t, op) \/ Head(s) = op PROVE In(s, op)
    BY <1>1, <1>2, <2>2 DEF In
  <2>3. QED BY <2>1, <2>2
<1>5. ASSUME Once(s) PROVE Once(t)
  <2>1. ASSUME NEW j \in DOMAIN t, NEW k \in DOMAIN t, t[j] = "post", t[k] = "post"
        PROVE  j = k
    <3>1. s[j + 1] = "post" /\ s[k + 1] = "post"
      BY <1>1, <2>1
    <3>2. j + 1 = k + 1
      BY <1>2, <1>5, <3>1 DEF Once
    <3>3. QED BY <1>2, <3>2
  <2>2. QED BY <2>1 DEF Once
<1>6. ASSUME Once(s), Head(s) = "post" PROVE ~In(t, "post")
  BY <1>1, <1>2, <1>6 DEF Once, In
<1>7. QED BY <1>4, <1>5, <1>6 DEF t

(* The chain runs one mutation of a binding at a time, and at most one message *)
(* is chained or under way.                                                  *)
Chain ==
    /\ \A m, n \in running : m.binding = binding /\ n.binding = binding => m = n
    /\ Once(hallActions)
    /\ ~(Underway("post") /\ Queued("post"))
    /\ ControlsHonest

LEMMA ChainInit == Init => Chain
  BY StoreAssumption DEF Init, Chain, Once, Underway, Queued, ControlsHonest

(* What does not touch the chain or the controls.                            *)
LEMMA ChainKept ==
    ASSUME Chain, UNCHANGED <<running, binding, hallActions, posting, busy>>,
           \A a \in asides : a \in asides'
    PROVE  Chain'
  BY DEF Chain, Once, Underway, Queued, ControlsHonest

LEMMA ChainRebound ==
    ASSUME Typed, Chain, binding' = binding + 1, hallActions' = <<>>, posting' = FALSE,
           busy' = None, UNCHANGED running
    PROVE  Chain'
<1>1. \A m \in running : m.binding \in Nat /\ m.binding <= binding
  BY DEF Typed, MutationOf, MutationRecords
<1>2. binding \in Nat
  BY DEF Typed
<1>3. \A m \in running' : m.binding # binding'
  BY <1>1, <1>2
<1>4. Once(hallActions') /\ ~Queued("post")'
  BY DEF Once, Queued
<1>5. QED BY <1>3, <1>4, StoreAssumption DEF Chain, Underway, ControlsHonest

(* A mutation is over: it frees what it locked.                              *)
LEMMA ChainReleased ==
    ASSUME Typed, Chain, NEW m \in running, running' = running \ {m},
           IF m.binding = binding THEN Release(m.op) ELSE UNCHANGED <<busy, posting>>,
           UNCHANGED <<binding, hallActions, asides>>
    PROVE  Chain'
<1>1. m.op \in {"post", "hall"} /\ busy \in {None, "hall", "invite", "connect"}
      /\ posting \in BOOLEAN
  BY DEF Typed, MutationOf, MutationRecords
<1>2. CASE m.binding # binding
  BY <1>2, Zenon DEF Chain, Underway, Queued, ControlsHonest
<1>3. CASE m.binding = binding /\ m.op = "post"
  <2>1. \A n \in running' : n.binding # binding
    BY <1>3 DEF Chain
  <2>2. ~Queued("post") /\ ~Underway("hall") /\ busy # "hall"
    BY <1>3 DEF Chain, Underway, ControlsHonest
  <2>3. posting' = FALSE /\ busy' = busy
    BY <1>3 DEF Release
  <2>4. ~Underway("post")' /\ ~Queued("post")'
    BY <2>1, <2>2 DEF Underway, Queued
  <2>5. QED BY <2>1, <2>2, <2>3, <2>4 DEF Chain, ControlsHonest
<1>4. CASE m.binding = binding /\ m.op = "hall"
  <2>1. \A n \in running' : n.binding # binding
    BY <1>4 DEF Chain
  <2>2. ~Underway("post") /\ ~Underway("post")'
    BY <1>4, <2>1 DEF Chain, Underway
  <2>3. posting' = posting /\ busy' = None
    BY <1>4 DEF Release
  <2>4. Queued("post")' <=> Queued("post")
    BY DEF Queued
  <2>5. QED BY <2>1, <2>2, <2>3, <2>4, StoreAssumption DEF Chain, ControlsHonest
<1>5. QED BY <1>1, <1>2, <1>3, <1>4

LEMMA ChainNext == ASSUME Typed, Chain, [Next]_vars PROVE Chain'
<1> USE DEF store, snapshot, pending, history
<1>0. /\ hallActions \in Seq({"post", "hall"}) /\ posting \in BOOLEAN
      /\ busy \in {None, "hall", "invite", "connect"} /\ binding \in Nat
  BY DEF Typed
<1>1. CASE HostMoves
  BY <1>1, ChainKept DEF HostMoves
<1>2. ASSUME NEW m \in running, ServeMutation(m) PROVE Chain'
  <2>1. PICK n : running' = (running \ {m}) \cup {n} /\ n.binding = m.binding /\ n.op = m.op
    BY <1>2, ServeMutationEffect DEF Served
  <2>2. UNCHANGED <<binding, hallActions, posting, busy, asides>>
    BY <1>2 DEF ServeMutation
  <2>3. \A op : Underway(op)' <=> Underway(op)
    BY <2>1, <2>2 DEF Underway
  <2>4. \A i, j \in running' : i.binding = binding /\ j.binding = binding => i = j
    BY <2>1 DEF Chain
  <2>5. Queued("post")' <=> Queued("post")
    BY <2>2 DEF Queued
  <2>6. QED BY <2>2, <2>3, <2>4, <2>5 DEF Chain, ControlsHonest
<1>3. ASSUME NEW m \in running, MutationAnswered(m) PROVE Chain'
  <2>1. /\ running' = running \ {m} /\ UNCHANGED <<binding, hallActions, asides>>
        /\ IF m.binding = binding THEN Release(m.op) ELSE UNCHANGED <<busy, posting>>
    BY <1>3 DEF MutationAnswered
  <2>2. QED BY <2>1, ChainReleased
<1>4. ASSUME NEW m \in running, MutationFailed(m) PROVE Chain'
  <2>1. /\ running' = running \ {m} /\ UNCHANGED <<binding, hallActions, asides>>
        /\ IF m.binding = binding THEN Release(m.op) ELSE UNCHANGED <<busy, posting>>
    BY <1>4 DEF MutationFailed
  <2>2. QED BY <2>1, ChainReleased
<1>5. ASSUME NEW p \in polls, ServePoll(p) \/ PollAnswered(p) \/ PollFailed(p) PROVE Chain'
  <2>1. UNCHANGED <<running, binding, hallActions, posting, busy, asides>>
    BY <1>5 DEF ServePoll, PollAnswered, PollFailed, PollOver
  <2>2. QED BY <2>1, ChainKept
<1>6. CASE Bind \/ Unbind
  BY <1>6, ChainRebound DEF Bind, Unbind
<1>7. CASE RefreshNetwork
  BY <1>7, ChainKept DEF RefreshNetwork
<1>8. CASE PostNetworkMessage
  <2>1. /\ ~posting /\ posting' = TRUE /\ hallActions' = Append(hallActions, "post")
        /\ UNCHANGED <<running, binding, busy, asides>>
    BY <1>8 DEF PostNetworkMessage
  <2>2. ~Underway("post") /\ ~Queued("post") /\ ~Underway("post")'
    BY <2>1 DEF Chain, ControlsHonest, Underway
  <2>3. Queued("post")' /\ Once(hallActions')
    BY <1>0, <2>1, <2>2, InAppend DEF Chain, Queued, In
  <2>4. \A op : Underway(op)' <=> Underway(op)
    BY <2>1 DEF Underway
  <2>5. QED BY <2>1, <2>2, <2>3, <2>4 DEF Chain, ControlsHonest
<1>9. CASE ChangeHall
  <2>1. /\ hallActions' = Append(hallActions, "hall")
        /\ UNCHANGED <<running, binding, busy, posting, asides>>
    BY <1>9 DEF ChangeHall
  <2>2. (Queued("post")' <=> Queued("post")) /\ Once(hallActions')
    BY <1>0, <2>1, InAppend DEF Chain, Queued, In
  <2>3. \A op : Underway(op)' <=> Underway(op)
    BY <2>1 DEF Underway
  <2>4. QED BY <2>1, <2>2, <2>3 DEF Chain, ControlsHonest
<1>10. CASE BeginMutation
  <2>1. /\ hallActions # <<>> /\ \A m \in running : m.binding # binding
        /\ hallActions' = Tail(hallActions) /\ running' = running \cup {NewMutation}
        /\ busy' = IF Head(hallActions) = "hall" THEN "hall" ELSE busy
        /\ UNCHANGED <<binding, posting, asides>>
    BY <1>10 DEF BeginMutation
  <2>2. NewMutation.binding = binding /\ NewMutation.op = Head(hallActions)
    BY DEF NewMutation
  <2>3. \A op : ~Underway(op) /\ (Underway(op)' <=> Head(hallActions) = op)
    BY <2>1, <2>2 DEF Underway
  <2>4. /\ Queued("post") <=> Queued("post")' \/ Head(hallActions) = "post"
        /\ Once(hallActions') /\ (Head(hallActions) = "post" => ~Queued("post")')
    BY <1>0, <2>1, InTail DEF Chain, Queued, In
  <2>5. \A m, n \in running' : m.binding = binding /\ n.binding = binding => m = n
    BY <2>1
  <2>6. busy # "hall"
    BY <2>3 DEF Chain, ControlsHonest
  <2>7. posting <=> Queued("post")
    BY <2>3 DEF Chain, ControlsHonest
  <2>8. QED
    BY <2>1, <2>3, <2>4, <2>5, <2>6, <2>7 DEF Chain, ControlsHonest
<1>11. ASSUME NEW op \in {"invite", "connect"}, AsideBegins(op) PROVE Chain'
  <2>1. /\ busy = None /\ busy' = op
        /\ asides' = asides \cup {[n |-> used, binding |-> binding, op |-> op]}
        /\ UNCHANGED <<running, binding, hallActions, posting>>
    BY <1>11 DEF AsideBegins
  <2>2. \E a \in asides' : a.binding = binding /\ a.op = op
    <3> DEFINE a == [n |-> used, binding |-> binding, op |-> op]
    <3>1. a \in asides' /\ a.binding = binding /\ a.op = op
      BY <2>1
    <3> HIDE DEF a
    <3>2. QED BY <3>1
  <2>3. /\ \A o : Underway(o)' <=> Underway(o)
        /\ Queued("post")' <=> Queued("post")
    BY <2>1 DEF Underway, Queued
  <2>4. QED BY <2>1, <2>2, <2>3 DEF Chain, ControlsHonest
<1>12. ASSUME NEW a \in asides, AsideEnds(a) PROVE Chain'
  <2>1. /\ asides' = asides \ {a} /\ UNCHANGED <<running, binding, hallActions, posting>>
        /\ (a.binding # binding /\ busy' = busy) \/ busy' = None
    BY <1>12 DEF AsideEnds
  <2>2. /\ \A o : Underway(o)' <=> Underway(o)
        /\ Queued("post")' <=> Queued("post")
    BY <2>1 DEF Underway, Queued
  <2>3. QED BY <2>1, <2>2, StoreAssumption DEF Chain, ControlsHonest
<1>13. CASE UNCHANGED vars
  BY <1>13, ChainKept DEF vars
<1>14. QED
  BY <1>1, <1>2, <1>3, <1>4, <1>5, <1>6, <1>7, <1>8, <1>9, <1>10, <1>11, <1>12, <1>13 DEF Next

(* ControlsHonest: a control of the browser is locked only while a call of it  *)
(* is chained or under way, whatever fails, times out, or belonged to an     *)
(* earlier Host (the finally clauses and the binding checks of               *)
(* network-store.ts).                                                        *)
THEOREM LocksAreHonest == Spec => []ControlsHonest
<1>1. Chain => ControlsHonest
  BY DEF Chain
<1>2. Spec => []Chain
  BY ChainInit, ChainNext, TypedAlways, PTL DEF Spec
<1>3. QED BY <1>1, <1>2, PTL

-----------------------------------------------------------------------------
(* What the user did is not taken back.  Of a message sent: it is there, or    *)
(* left out, or has given way to a full window of later ones.               *)
Good(h, post, messages) == post # None => post \in h.absent \/ Shown(messages, post)

FreshRoom(h, at, post, r) == r.readAt >= at /\ Good(h, post, Msgs(r))

FreshMutation(h, b, at, post, m) ==
    m.binding = b => /\ m.message # None => h.chats[m.message] # 0
                     /\ m.room # None => FreshRoom(h, at, post, m.room)

(* An answer to a poll may be older than the last hall answer only if the      *)
(* version has moved on since the poll was sent, and one that is not the     *)
(* whole room is merged into a room that is there.                           *)
FreshPoll(h, b, v, at, post, r, p) ==
    p.binding = b =>
        /\ p.cursor >= 0 => r # None
        /\ p.answer # None =>
             /\ p.reset \/ p.cursor >= 0
             /\ p.version = v => /\ p.answer.readAt >= at
                                 /\ p.reset => Good(h, post, Msgs(p.answer))

Fresh ==
    /\ answeredAt <= host.moves
    /\ posted # None => room # None /\ host.chats[posted] # 0
    /\ room # None => FreshRoom(host, answeredAt, posted, room)
    /\ \A m \in running : FreshMutation(host, binding, answeredAt, posted, m)
    /\ \A p \in polls : FreshPoll(host, binding, roomVersion, answeredAt, posted, room, p)

LEMMA FreshInit == Init => Fresh
  BY DEF Init, Fresh

(* The Host shows every message it has and did not withdraw.                 *)
LEMMA WindowGood ==
    ASSUME NEW h \in Hosts, NEW post \in SentAts \cup {None}, post # None => h.chats[post] # 0
    PROVE  Good(h, post, Window(h))
  BY WindowOfHost DEF Good

LEMMA GoodGrows ==
    ASSUME NEW h, NEW g, Grows(h, g), NEW post, NEW M, Good(h, post, M)
    PROVE  Good(g, post, M)
  BY DEF Good, Grows

LEMMA FreshMutationGrows ==
    ASSUME NEW h, NEW g, Grows(h, g), NEW b, NEW c, NEW at, NEW post, NEW m, MutationOf(h, c, m),
           FreshMutation(h, b, at, post, m)
    PROVE  FreshMutation(g, b, at, post, m)
<1>1. m.message \in SentAts \cup {None}
  BY DEF MutationOf, MutationRecords
<1>2. m.binding = b /\ m.message # None => g.chats[m.message] # 0
  BY <1>1 DEF FreshMutation, Grows
<1>3. m.binding = b /\ m.room # None => FreshRoom(g, at, post, m.room)
  BY GoodGrows DEF FreshMutation, FreshRoom
<1>4. QED BY <1>2, <1>3 DEF FreshMutation

LEMMA FreshPollGrows ==
    ASSUME NEW h, NEW g, Grows(h, g), NEW b, NEW c, NEW v \in Nat, NEW w \in Nat, v <= w,
           NEW at, NEW post, NEW r, NEW s, r # None => s # None,
           NEW p, PollOf(h, c, v, p), FreshPoll(h, b, v, at, post, r, p)
    PROVE  FreshPoll(g, b, w, at, post, s, p)
<1>1. p.version \in Nat /\ p.version <= v
  BY DEF PollOf, PollRecords
<1>2. p.version = w => p.version = v
  BY <1>1
<1>3. QED BY <1>2, GoodGrows DEF FreshPoll

(* A step that neither answers a mutation nor changes the binding.           *)
LEMMA FreshKept ==
    ASSUME Typed, Fresh, Grows(host, host'), UNCHANGED <<binding, answeredAt, posted>>,
           roomVersion' \in Nat, roomVersion <= roomVersion',
           room # None => room' # None,
           room' # None => room' = room \/ FreshRoom(host', answeredAt, posted, room'),
           \A p \in polls' : p \in polls
                \/ FreshPoll(host', binding, roomVersion', answeredAt, posted, room', p),
           \A m \in running' : m \in running \/ FreshMutation(host', binding, answeredAt, posted, m)
    PROVE  Fresh'
<1>1. /\ answeredAt \in Nat /\ host.moves \in Nat /\ host'.moves \in Nat /\ roomVersion \in Nat
      /\ host.moves <= host'.moves /\ posted \in SentAts \cup {None}
  BY DEF Typed, Grows, Hosts, HostRecords
<1>2. answeredAt <= host'.moves
  BY <1>1 DEF Fresh
<1>3. posted # None => room' # None /\ host'.chats[posted] # 0
  BY <1>1 DEF Fresh, Grows
<1>4. room' # None => FreshRoom(host', answeredAt, posted, room')
  BY GoodGrows DEF Fresh, FreshRoom
<1>5. \A m \in running' : FreshMutation(host', binding, answeredAt, posted, m)
  BY FreshMutationGrows DEF Fresh, Typed
<1>6. \A p \in polls' : FreshPoll(host', binding, roomVersion', answeredAt, posted, room', p)
  <2>1. ASSUME NEW p \in polls
        PROVE  FreshPoll(host', binding, roomVersion', answeredAt, posted, room', p)
    <3>1. /\ PollOf(host, binding, roomVersion, p)
          /\ FreshPoll(host, binding, roomVersion, answeredAt, posted, room, p)
      BY DEF Typed, Fresh
    <3>2. QED BY <1>1, <3>1, FreshPollGrows
  <2>2. QED BY <2>1
<1>7. QED BY <1>2, <1>3, <1>4, <1>5, <1>6 DEF Fresh

LEMMA NewPollFresh ==
    ASSUME NEW h, NEW b, NEW v, NEW at, NEW post, NEW r, NEW c, c >= 0 => r # None
    PROVE  FreshPoll(h, b, v, at, post, r, NewPoll(b, v, c))
<1>1. NewPoll(b, v, c).answer = None /\ NewPoll(b, v, c).cursor = c
  BY DEF NewPoll
<1>2. QED BY <1>1 DEF FreshPoll

(* A new binding starts with nothing of the old one.                         *)
LEMMA FreshRebound ==
    ASSUME Typed, binding' = binding + 1, answeredAt' = 0, posted' = None, room' = None,
           UNCHANGED <<running, host>>,
           \A p \in polls' : p \in polls \/ p = NewPoll(binding + 1, roomVersion', -1)
    PROVE  Fresh'
<1>1. binding \in Nat /\ host.moves \in Nat
  BY DEF Typed, Hosts, HostRecords
<1>2. \A m \in running : m.binding \in Nat /\ m.binding <= binding
  BY DEF Typed, MutationOf, MutationRecords
<1>3. \A p \in polls : p.binding \in Nat /\ p.binding <= binding
  BY DEF Typed, PollOf, PollRecords
<1>4. \A m \in running' : FreshMutation(host', binding', answeredAt', posted', m)
  BY <1>1, <1>2 DEF FreshMutation
<1>5. \A p \in polls' : FreshPoll(host', binding', roomVersion', answeredAt', posted', room', p)
  <2>1. ASSUME NEW p \in polls
        PROVE  FreshPoll(host', binding', roomVersion', answeredAt', posted', room', p)
    BY <1>1, <1>3 DEF FreshPoll
  <2>2. FreshPoll(host', binding', roomVersion', answeredAt', posted', room',
                  NewPoll(binding + 1, roomVersion', -1))
    BY NewPollFresh
  <2>3. QED BY <2>1, <2>2
<1>6. QED BY <1>1, <1>4, <1>5 DEF Fresh

LEMMA FreshRefreshed ==
    ASSUME Refreshed
    PROVE  \A p \in polls' : p \in polls
                \/ FreshPoll(host, binding, roomVersion, answeredAt, posted, room, p)
<1>1. FreshPoll(host, binding, roomVersion, answeredAt, posted, room,
                NewPoll(binding, roomVersion, IF room = None THEN -1 ELSE room.cursor))
  <2>1. (IF room = None THEN -1 ELSE room.cursor) >= 0 => room # None
    OBVIOUS
  <2>2. QED BY <2>1, NewPollFresh
<1>2. QED BY <1>1 DEF Refreshed

(* The answer to a mutation: the version moves on, so that nothing is left of  *)
(* what was asked before.                                                    *)
LEMMA FreshAnswered ==
    ASSUME Typed, Chain, Fresh, NEW m \in running, MutationAnswered(m), m.binding = binding
    PROVE  Fresh'
<1>1. /\ answeredAt \in Nat /\ host \in Hosts /\ host.moves \in Nat /\ roomVersion \in Nat
      /\ binding \in Nat /\ posted \in SentAts \cup {None}
  BY DEF Typed, Hosts, HostRecords
<1>2. /\ MutationOf(host, binding, m) /\ m \in MutationRecords
      /\ FreshMutation(host, binding, answeredAt, posted, m)
  BY DEF Typed, MutationOf, Fresh
<1>3. /\ running' = running \ {m} /\ UNCHANGED <<binding, polls, host>>
      /\ roomVersion' = roomVersion + 1
  BY DEF MutationAnswered, Release
<1>4. \A n \in running' : n.binding # binding
  BY <1>3 DEF Chain
<1>5. \A p \in polls' : p.version # roomVersion'
  <2>1. \A p \in polls : p.version \in Nat /\ p.version <= roomVersion
    BY DEF Typed, PollOf, PollRecords
  <2>2. QED BY <1>1, <1>3, <2>1
<1>6. ASSUME answeredAt' \in Nat, answeredAt' <= host.moves,
             posted' # None => room' # None /\ host.chats[posted'] # 0,
             room # None => room' # None,
             room' # None => FreshRoom(host, answeredAt', posted', room')
      PROVE  Fresh'
  <2>1. \A n \in running' : FreshMutation(host', binding', answeredAt', posted', n)
    BY <1>3, <1>4 DEF FreshMutation
  <2>2. \A p \in polls' : FreshPoll(host', binding', roomVersion', answeredAt', posted', room', p)
    BY <1>3, <1>5, <1>6 DEF Fresh, FreshPoll
  <2>3. QED BY <1>3, <1>6, <2>1, <2>2 DEF Fresh
<1>7. CASE UNCHANGED <<room, answeredAt, posted>>
  BY <1>1, <1>6, <1>7 DEF Fresh
<1>8. CASE /\ m.room # None /\ room' = m.room
           /\ answeredAt' = Max({answeredAt, m.room.readAt}) /\ posted' = posted
  <2>1. /\ m.room.readAt \in Nat /\ m.room.readAt <= host.moves
        /\ FreshRoom(host, answeredAt, posted, m.room)
    BY <1>2, <1>8 DEF MutationOf, RoomOf, Rooms, FreshMutation
  <2>2. answeredAt' = m.room.readAt
    <3>1. /\ Max({answeredAt, m.room.readAt}) >= answeredAt
          /\ Max({answeredAt, m.room.readAt}) >= m.room.readAt
          /\ Max({answeredAt, m.room.readAt}) \in {answeredAt, m.room.readAt}
      BY <1>1, <2>1, MaxOfTwo
    <3>2. m.room.readAt >= answeredAt
      BY <2>1 DEF FreshRoom
    <3>3. QED BY <1>1, <1>8, <2>1, <3>1, <3>2
  <2>3. FreshRoom(host, answeredAt', posted', room')
    BY <1>8, <2>1, <2>2 DEF FreshRoom
  <2>4. posted' # None => host.chats[posted'] # 0
    BY <1>8 DEF Fresh
  <2>5. QED BY <1>6, <1>8, <2>1, <2>2, <2>3, <2>4
<1>9. CASE /\ m.message # None /\ room # None /\ room' = WithMessage(room, m.message)
           /\ posted' = m.message /\ answeredAt' = answeredAt
  <2>1. m.message \in SentAts /\ host.chats[m.message] # 0
    BY <1>2, <1>9 DEF MutationRecords, FreshMutation
  <2>2. RoomOf(host, binding, room) /\ FreshRoom(host, answeredAt, posted, room)
    BY <1>9 DEF Typed, Fresh
  <2>3. /\ RoomOf(host, binding, room') /\ room'.readAt = room.readAt
        /\ Shown(Msgs(room'), m.message)
    <3> DEFINE t == m.message
               n == WithMessage(room, t)
    <3>1. t \in SentAts /\ n = WithMessage(room, t) /\ room' = n
      BY <1>9, <2>1
    <3> HIDE DEF n, t
    <3>2. RoomOf(host, binding, n) /\ n.readAt = room.readAt /\ t \in Msgs(n)
      BY <2>2, <3>1, RoomWithMessage
    <3>3. QED BY <3>1, <3>2 DEF Shown, t
  <2>4. FreshRoom(host, answeredAt', posted', room') /\ answeredAt' <= host.moves
    BY <1>9, <2>2, <2>3 DEF FreshRoom, Good, Fresh
  <2>5. room' # None
    BY <2>3, StoreAssumption DEF RoomOf
  <2>6. QED BY <1>1, <1>6, <1>9, <2>1, <2>4, <2>5
<1>10. QED BY <1>7, <1>8, <1>9 DEF MutationAnswered, history

(* A poll that is used is not obsolete.                                      *)
LEMMA FreshUsed ==
    ASSUME Typed, Fresh, NEW p \in polls, p.answer # None, ~Obsolete(p)
    PROVE  /\ FreshRoom(host, answeredAt, posted, MergeRoom(room, p.answer, p.reset))
           /\ MergeRoom(room, p.answer, p.reset) # None
<1>1. /\ PollOf(host, binding, roomVersion, p)
      /\ FreshPoll(host, binding, roomVersion, answeredAt, posted, room, p)
      /\ posted \in SentAts \cup {None} /\ host \in Hosts
  BY DEF Typed, Fresh
<1>2. p.binding = binding /\ p.version = roomVersion
  BY DEF Obsolete
<1>3. RoomOf(host, binding, p.answer) /\ p.reset \in BOOLEAN
  BY <1>1, <1>2 DEF PollOf, PollRecords
<1>4. /\ p.answer.readAt >= answeredAt /\ (p.reset => Good(host, posted, Msgs(p.answer)))
      /\ ~p.reset => room # None
  BY <1>1, <1>2 DEF FreshPoll
<1>5. room # None => RoomOf(host, binding, room) /\ Good(host, posted, Msgs(room))
  BY DEF Typed, Fresh, FreshRoom
<1> DEFINE d == p.answer
           reset == p.reset
           r == MergeRoom(room, d, reset)
<1>6. /\ RoomOf(host, binding, r) /\ r.readAt = d.readAt
      /\ ~reset /\ room # None => \A t \in SentAts :
            Shown(Msgs(room), t) => Shown(Msgs(r), t)
      /\ reset \/ room = None => r = d
  <2>1. /\ room # None => RoomOf(host, binding, room)
        /\ RoomOf(host, binding, d) /\ reset \in BOOLEAN
    BY <1>3, <1>5
  <2> HIDE DEF d, reset, r
  <2>2. QED BY <1>1, <2>1, MergedRoom DEF r
<1> HIDE DEF r
<1>7. Good(host, posted, Msgs(r))
  <2>1. CASE p.reset
    BY <1>4, <1>6, <2>1
  <2>2. CASE ~p.reset
    BY <1>1, <1>4, <1>5, <1>6, <2>2 DEF Good
  <2>3. QED BY <2>1, <2>2
<1>8. r # None
  BY <1>6, StoreAssumption DEF RoomOf
<1>9. FreshRoom(host, answeredAt, posted, r)
  BY <1>4, <1>6, <1>7 DEF FreshRoom
<1>10. QED BY <1>8, <1>9 DEF r

LEMMA FreshNext == ASSUME Typed, Chain, Fresh, [Next]_vars PROVE Fresh'
<1> USE DEF store, snapshot, pending, history
<1>1. /\ Grows(host, host) /\ host \in Hosts /\ host.moves \in Nat
      /\ binding \in Nat /\ roomVersion \in Nat /\ answeredAt \in Nat
      /\ posted \in SentAts \cup {None} /\ answeredAt <= host.moves
      /\ posted # None => host.chats[posted] # 0
  BY SameHost DEF Typed, Fresh, Hosts, HostRecords
<1>2. \A x \in Nat : x <= x /\ x + 1 \in Nat /\ x <= x + 1
  OBVIOUS
<1>3. CASE HostMoves
  BY <1>1, <1>2, <1>3, HostMoveGrows, FreshKept DEF HostMoves
<1>4. ASSUME NEW m \in running, ServeMutation(m) PROVE Fresh'
  <2>1. /\ Grows(host, host')
        /\ \E n : /\ running' = (running \ {m}) \cup {n}
                  /\ Served(host', m, n) /\ MutationOf(host', binding, n)
    BY <1>4, ServeMutationEffect
  <2>2. PICK n : running' = (running \ {m}) \cup {n} /\ Served(host', m, n)
    BY <2>1
  <2>3. FreshMutation(host', binding, answeredAt, posted, m)
    BY <2>1, FreshMutationGrows DEF Fresh, Typed
  <2>4. /\ host' \in Hosts /\ host'.moves \in Nat /\ answeredAt <= host'.moves
        /\ posted # None => host'.chats[posted] # 0
    BY <1>1, <2>1 DEF Grows, Hosts, HostRecords
  <2>5. FreshRoom(host', answeredAt, posted, Snapshot(host', binding))
    <3>1. /\ Snapshot(host', binding).readAt = host'.moves
          /\ Msgs(Snapshot(host', binding)) = Window(host')
      BY <1>1, <2>4, SnapshotOfHost
    <3>2. QED BY <1>1, <2>4, <3>1, WindowGood DEF FreshRoom
  <2>6. FreshMutation(host', binding, answeredAt, posted, n)
    BY <2>2, <2>3, <2>5 DEF Served, FreshMutation
  <2>7. QED BY <1>1, <1>2, <1>4, <2>1, <2>2, <2>6, FreshKept DEF ServeMutation
<1>5. ASSUME NEW m \in running, MutationAnswered(m) PROVE Fresh'
  <2>1. CASE m.binding = binding
    BY <1>5, <2>1, FreshAnswered
  <2>2. CASE m.binding # binding
    BY <1>1, <1>2, <1>5, <2>2, FreshKept DEF MutationAnswered
  <2>3. QED BY <2>1, <2>2
<1>6. ASSUME NEW m \in running, MutationFailed(m) PROVE Fresh'
  <2>1. roomVersion' \in Nat /\ roomVersion <= roomVersion'
    BY <1>1, <1>2, <1>6 DEF MutationFailed, Release
  <2>2. QED BY <1>1, <1>6, <2>1, FreshKept DEF MutationFailed
<1>7. ASSUME NEW p \in polls, ServePoll(p) PROVE Fresh'
  <2>1. PICK q : polls' = (polls \ {p}) \cup {q} /\ PollServed(host, p, q)
    BY <1>7, ServePollEffect
  <2>2. FreshPoll(host, binding, roomVersion, answeredAt, posted, room, p)
    BY DEF Fresh
  <2>3. Good(host, posted, Window(host))
    BY <1>1, WindowGood
  <2>4. FreshPoll(host, binding, roomVersion, answeredAt, posted, room, q)
    BY <1>1, <2>1, <2>2, <2>3 DEF FreshPoll, PollServed
  <2>5. QED BY <1>1, <1>2, <1>7, <2>1, <2>4, FreshKept DEF ServePoll
<1>8. ASSUME NEW p \in polls, PollAnswered(p) PROVE Fresh'
  <2>1. /\ polls' = polls \ {p} /\ p.answer # None
        /\ UNCHANGED <<store, running, host, history>>
    BY <1>8 DEF PollAnswered, PollOver
  <2>2. CASE Obsolete(p)
    BY <1>1, <1>2, <1>8, <2>1, <2>2, FreshKept DEF PollAnswered
  <2>3. CASE ~Obsolete(p)
    <3>1. room' = MergeRoom(room, p.answer, p.reset)
      BY <1>8, <2>3 DEF PollAnswered
    <3>2. FreshRoom(host, answeredAt, posted, room') /\ room' # None
      BY <2>1, <2>3, <3>1, FreshUsed
    <3>3. QED BY <1>1, <1>2, <2>1, <3>2, FreshKept
  <2>4. QED BY <2>2, <2>3
<1>9. ASSUME NEW p \in polls, PollFailed(p) PROVE Fresh'
  BY <1>1, <1>2, <1>9, FreshKept DEF PollFailed, PollOver
<1>10. CASE Bind
  BY <1>10, FreshRebound DEF Bind
<1>11. CASE Unbind
  BY <1>11, FreshRebound DEF Unbind
<1>12. CASE RefreshNetwork
  BY <1>1, <1>2, <1>12, FreshRefreshed, FreshKept DEF RefreshNetwork
<1>13. CASE PostNetworkMessage
  BY <1>1, <1>2, <1>13, FreshKept DEF PostNetworkMessage
<1>14. CASE ChangeHall
  BY <1>1, <1>2, <1>14, FreshKept DEF ChangeHall
<1>15. CASE BeginMutation
  <2>1. NewMutation.message = None /\ NewMutation.room = None
    BY DEF NewMutation
  <2>2. FreshMutation(host, binding, answeredAt, posted, NewMutation)
    BY <2>1 DEF FreshMutation
  <2>3. QED BY <1>1, <1>2, <1>15, <2>2, FreshKept DEF BeginMutation
<1>16. ASSUME NEW op \in {"invite", "connect"}, AsideBegins(op) PROVE Fresh'
  BY <1>1, <1>2, <1>16, FreshKept DEF AsideBegins
<1>17. ASSUME NEW a \in asides, AsideEnds(a) PROVE Fresh'
  <2>1. /\ \A p \in polls' : p \in polls
              \/ FreshPoll(host, binding, roomVersion, answeredAt, posted, room, p)
        /\ UNCHANGED <<store, phase, room, posting, running, host, history, used, faults>>
    BY <1>17, FreshRefreshed DEF AsideEnds
  <2>2. QED BY <1>1, <1>2, <2>1, FreshKept
<1>18. CASE UNCHANGED vars
  BY <1>1, <1>2, <1>18, FreshKept DEF vars
<1>19. QED
  BY <1>3, <1>4, <1>5, <1>6, <1>7, <1>8, <1>9, <1>10, <1>11, <1>12, <1>13, <1>14, <1>15,
     <1>16, <1>17, <1>18 DEF Next

(* OwnActionsShown: the room on the screen is of the Host bound now and was    *)
(* not read before the answer to the user's last hall action, and a message  *)
(* of the user that the Host accepted stays in it until it is withdrawn or   *)
(* older than all that is shown (roomVersion, binding, mergeRoom and         *)
(* postNetworkMessage of network-store.ts).                                  *)
THEOREM UserIsNotOvertaken == Spec => []OwnActionsShown
<1>1. ASSUME Typed, Fresh PROVE OwnActionsShown
  <2>1. ASSUME room # None PROVE RoomOf(host, binding, room) /\ FreshRoom(host, answeredAt, posted, room)
    BY <1>1, <2>1 DEF Typed, Fresh
  <2>2. ASSUME room # None, posted # None
        PROVE  posted \in Msgs(room) \cup host.absent \/ \A m \in Msgs(room) : m > posted
    <3>1. RoomOf(host, binding, room) /\ Good(host, posted, Msgs(room))
      BY <2>1, <2>2 DEF FreshRoom
    <3>2. Msgs(room) \in SUBSET SentAts /\ Cardinality(Msgs(room)) <= MessageWindow
      BY <3>1, RoomShows
    <3>3. posted \in host.absent \/ Shown(Msgs(room), posted)
      BY <2>2, <3>1 DEF Good
    <3>4. QED BY <3>2, <3>3, ShownOrOlder
  <2>3. room # None => room.from = binding /\ room.readAt >= answeredAt
    BY <2>1 DEF RoomOf, FreshRoom
  <2>4. QED BY <2>2, <2>3 DEF OwnActionsShown, Msgs
<1>2. Spec => []Chain
  BY ChainInit, ChainNext, TypedAlways, PTL DEF Spec
<1>3. Spec => []Fresh
  BY FreshInit, FreshNext, TypedAlways, <1>2, PTL DEF Spec
<1>4. QED BY <1>1, <1>3, TypedAlways, PTL

-----------------------------------------------------------------------------
(* NoMessageLost: while no message has come into view after it was logged,     *)
(* however a room was merged from whole answers, deltas and the user's own   *)
(* messages, it lacks one of its Host only where it still shows one that the *)
(* Host has left out; an own message put behind a later one apart.           *)

(* If X shows t, and M shows all of X, then M shows t.                        *)
LEMMA ShownThrough ==
    ASSUME NEW X \in SUBSET SentAts, NEW M \in SUBSET SentAts,
           \A u \in X : Shown(M, u), NEW t \in SentAts, Shown(X, t)
    PROVE  Shown(M, t)
<1>0. MessageWindow \in Nat /\ SentAts \subseteq Nat
  BY StoreAssumption DEF SentAts
<1>1. CASE t \in X
  BY <1>1
<1>2. CASE Cardinality(Later(X, t)) >= MessageWindow /\ Later(X, t) \subseteq M
  <2>1. Later(X, t) \subseteq Later(M, t)
    BY <1>2 DEF Later
  <2>2. /\ IsFiniteSet(Later(M, t)) /\ Cardinality(Later(M, t)) \in Nat
        /\ Cardinality(Later(X, t)) \in Nat
    BY LaterFinite
  <2>3. Cardinality(Later(X, t)) <= Cardinality(Later(M, t))
    BY <2>1, <2>2, FS_Subset
  <2>4. QED BY <1>0, <1>2, <2>2, <2>3 DEF Shown
<1>3. CASE ~(Later(X, t) \subseteq M)
  <2>1. PICK u \in X : u > t /\ u \notin M
    BY <1>3 DEF Later
  <2>2. Cardinality(Later(M, u)) >= MessageWindow
    BY <2>1 DEF Shown
  <2>3. Later(M, u) \subseteq Later(M, t)
    <3>1. u \in Nat /\ t \in Nat /\ \A n \in M : n \in Nat
      BY <1>0
    <3>2. \A n \in M : n > u => n > t
      BY <2>1, <3>1
    <3>3. QED BY <3>2 DEF Later
  <2>4. /\ IsFiniteSet(Later(M, t)) /\ Cardinality(Later(M, t)) \in Nat
        /\ Cardinality(Later(M, u)) \in Nat
    BY LaterFinite
  <2>5. Cardinality(Later(M, u)) <= Cardinality(Later(M, t))
    BY <2>3, <2>4, FS_Subset
  <2>6. QED BY <1>0, <2>2, <2>4, <2>5 DEF Shown
<1>4. QED BY <1>1, <1>2, <1>3 DEF Shown

-----------------------------------------------------------------------------
(* A room against its Host: what it was read from, up to its cursor, it shows; *)
(* what the Host showed it shows; and what it shows the Host showed, or has  *)
(* left out.  To show is meant up to a full window of later messages.       *)
Complete(h, cursor, X) ==
    \A t \in SentAts : h.chats[t] # 0 /\ h.chats[t] <= cursor => t \in h.absent \/ Shown(X, t)

OfHost(h, X) == \A t \in X : h.chats[t] # 0

Backed(h, X, M) == \A t \in M : t \in h.absent \/ Shown(X, t)

Whole(h, r) ==
    /\ Complete(h, r.cursor, Msgs(r)) /\ OfHost(h, Msgs(r))
    /\ r.window \in SUBSET SentAts /\ Cardinality(r.window) <= MessageWindow
    /\ \A t \in r.window : Shown(Msgs(r), t)
    /\ Backed(h, r.window, Msgs(r))

(* The answer to a poll: the window of the Host, cut at the cursor.          *)
WholeAnswer(h, cursor, reset, d) ==
    /\ Complete(h, d.cursor, d.window) /\ OfHost(h, d.window)
    /\ d.window \in SUBSET SentAts /\ Cardinality(d.window) <= MessageWindow
    /\ Msgs(d) \subseteq d.window
    /\ reset => Msgs(d) = d.window
    /\ \A t \in d.window : h.chats[t] > cursor => t \in Msgs(d)

LEMMA CompleteGrows ==
    ASSUME NEW h, NEW g, Grows(h, g), NEW cursor \in Nat, cursor <= h.revision,
           NEW X, Complete(h, cursor, X)
    PROVE  Complete(g, cursor, X)
<1>1. /\ h.revision \in Nat /\ g.revision \in Nat /\ h.absent \subseteq g.absent
      /\ \A t \in SentAts : h.chats[t] \in Nat /\ g.chats[t] \in Nat
  BY DEF Grows, Hosts, HostRecords
<1>2. \A t \in SentAts : g.chats[t] <= cursor => g.chats[t] = h.chats[t]
  BY <1>1 DEF Grows
<1>3. QED BY <1>1, <1>2 DEF Complete

LEMMA OfHostGrows ==
    ASSUME NEW h, NEW g, Grows(h, g), NEW X \in SUBSET SentAts, OfHost(h, X)
    PROVE  OfHost(g, X)
  BY DEF Grows, OfHost

LEMMA WholeGrows ==
    ASSUME NEW h, NEW g, Grows(h, g), NEW b, NEW r, RoomOf(h, b, r), Whole(h, r)
    PROVE  Whole(g, r)
<1>1. r.cursor \in Nat /\ r.cursor <= h.revision /\ Msgs(r) \in SUBSET SentAts
  BY RoomShows DEF RoomOf, Rooms
<1>2. Complete(g, r.cursor, Msgs(r)) /\ OfHost(g, Msgs(r))
  BY <1>1, CompleteGrows, OfHostGrows DEF Whole
<1>3. Backed(g, r.window, Msgs(r))
  BY DEF Whole, Backed, Grows
<1>4. QED BY <1>2, <1>3 DEF Whole

LEMMA WholeAnswerGrows ==
    ASSUME NEW h, NEW g, Grows(h, g), NEW b, NEW d, RoomOf(h, b, d),
           NEW cursor, NEW reset, WholeAnswer(h, cursor, reset, d)
    PROVE  WholeAnswer(g, cursor, reset, d)
<1>1. d.cursor \in Nat /\ d.cursor <= h.revision /\ d.window \in SUBSET SentAts
  BY DEF RoomOf, Rooms, SentAts
<1>2. Complete(g, d.cursor, d.window) /\ OfHost(g, d.window)
  BY <1>1, CompleteGrows, OfHostGrows DEF WholeAnswer
<1>3. \A t \in d.window : g.chats[t] = h.chats[t]
  BY <1>1 DEF WholeAnswer, OfHost, Grows
<1>4. QED BY <1>2, <1>3 DEF WholeAnswer

-----------------------------------------------------------------------------
(* What the Host answers is whole.                                           *)
LEMMA WindowWhole ==
    ASSUME NEW h \in Hosts
    PROVE  /\ \A cursor : Complete(h, cursor, Window(h))
           /\ OfHost(h, Window(h)) /\ Window(h) \in SUBSET SentAts
           /\ Cardinality(Window(h)) <= MessageWindow
           /\ \A t \in SentAts : h.chats[t] # 0 => t \in h.absent \/ Shown(Window(h), t)
<1>1. OfHost(h, Window(h))
  BY WindowOfHost DEF OfHost, Hosts, Consistent
<1>2. QED BY <1>1, WindowOfHost DEF Complete

LEMMA WindowVisible ==
    ASSUME NEW h \in Hosts, h.belated = {}, NEW t \in Window(h)
    PROVE  t \in SentAts /\ t \notin h.absent /\ h.chats[t] # 0
<1>1. t \in SentAts /\ t \in h.shown
  BY WindowOfHost
<1>2. QED BY <1>1 DEF Hosts, Consistent

LEMMA SnapshotWhole ==
    ASSUME NEW h \in Hosts, NEW b \in Nat
    PROVE  Whole(h, Snapshot(h, b))
<1> DEFINE X == Window(h)
           s == Snapshot(h, b)
<1>1. Msgs(s) = X /\ s.window = X
  <2>1. s.window = X
    BY DEF Snapshot
  <2>2. QED BY <2>1, SnapshotOfHost
<1>2. /\ \A cursor : Complete(h, cursor, X)
      /\ OfHost(h, X) /\ X \in SUBSET SentAts /\ Cardinality(X) <= MessageWindow
  BY WindowWhole
<1> HIDE DEF X, s
<1>3. (\A t \in X : Shown(X, t)) /\ Backed(h, X, X)
  BY DEF Shown, Backed
<1>4. Whole(h, s)
  BY <1>1, <1>2, <1>3 DEF Whole
<1>5. QED BY <1>4 DEF s

LEMMA DeltaWhole ==
    ASSUME NEW h \in Hosts, NEW b \in Nat, NEW cursor \in Nat \cup {-1}, NEW reset \in BOOLEAN
    PROVE  /\ WholeAnswer(h, cursor, reset, Delta(h, b, cursor, reset))
           /\ Delta(h, b, cursor, reset).window = Window(h)
<1> DEFINE X == Window(h)
           d == Delta(h, b, cursor, reset)
<1>1. /\ \A c : Complete(h, c, X)
      /\ OfHost(h, X) /\ X \in SUBSET SentAts /\ Cardinality(X) <= MessageWindow
  BY WindowWhole
<1>2. /\ d.window = X /\ Msgs(d) \subseteq X /\ (reset => Msgs(d) = X)
      /\ \A t \in X : h.chats[t] > cursor => t \in Msgs(d)
  BY DeltaOfHost
<1> HIDE DEF X, d
<1>3. WholeAnswer(h, cursor, reset, d)
  BY <1>1, <1>2 DEF WholeAnswer
<1>4. QED BY <1>2, <1>3 DEF d, X

-----------------------------------------------------------------------------
(* What the browser makes of it stays whole.                                 *)
LEMMA MessageWhole ==
    ASSUME NEW h \in Hosts, NEW b, NEW r, RoomOf(h, b, r), ~r.outrun => Whole(h, r),
           NEW t \in SentAts, h.chats[t] # 0, ~WithMessage(r, t).outrun
    PROVE  Whole(h, WithMessage(r, t))
<1> DEFINE M == With(Msgs(r), t)
           W == With(r.window, t)
           n == WithMessage(r, t)
<1>1. /\ n.cursor = r.cursor
      /\ n = r \/ (Msgs(n) = Newest(M) /\ n.window = Newest(W))
      /\ Whole(h, r)
  <2>1. n.cursor = r.cursor
    BY RoomWithMessage
  <2>2. ~r.outrun
    BY RoomWithMessage
  <2>3. n = r \/ (Msgs(n) = Newest(M) /\ n.window = Newest(W))
    BY RoomWithMessage
  <2>4. QED BY <2>1, <2>2, <2>3
<1>2. /\ Msgs(r) \in SUBSET SentAts /\ r.window \in SUBSET SentAts
      /\ M \in SUBSET SentAts /\ W \in SUBSET SentAts
  <2>1. Msgs(r) \in SUBSET SentAts /\ r.window \in SUBSET SentAts
    BY RoomShows
  <2>2. QED BY <2>1 DEF With
<1>3. /\ \A u \in SentAts : Shown(Msgs(r), u) => Shown(M, u)
      /\ \A u \in SentAts : Shown(r.window, u) => Shown(W, u)
  <2>1. Msgs(r) \subseteq M /\ r.window \subseteq W
    BY DEF With
  <2> HIDE DEF M, W
  <2>2. QED BY <1>2, <2>1, ShownGrows
<1>4. /\ \A u \in M : u \in Msgs(r) \/ u = t
      /\ \A u \in W : u \in r.window \/ u = t
      /\ Shown(M, t) /\ Shown(W, t)
  BY DEF Shown, With
<1> HIDE DEF M, W, n
<1>5. CASE n = r
  BY <1>1, <1>5 DEF n
<1>6. CASE Msgs(n) = Newest(M) /\ n.window = Newest(W)
  <2>1. /\ Newest(M) \subseteq M /\ Newest(W) \subseteq W /\ Cardinality(Newest(W)) <= MessageWindow
        /\ \A u \in SentAts : Shown(M, u) => Shown(Newest(M), u)
        /\ \A u \in SentAts : Shown(W, u) => Shown(Newest(W), u)
    BY <1>2, NewestIsLater, NewestAtMost, NewestShown
  <2>2. Complete(h, n.cursor, Msgs(n))
    BY <1>1, <1>3, <1>6, <2>1 DEF Whole, Complete
  <2>3. OfHost(h, Msgs(n))
    BY <1>1, <1>4, <1>6, <2>1 DEF Whole, OfHost
  <2>4. n.window \in SUBSET SentAts /\ Cardinality(n.window) <= MessageWindow
    BY <1>2, <1>6, <2>1
  <2>5. \A u \in n.window : Shown(Msgs(n), u)
    BY <1>1, <1>2, <1>3, <1>4, <1>6, <2>1 DEF Whole
  <2>6. Backed(h, n.window, Msgs(n))
    BY <1>1, <1>2, <1>3, <1>4, <1>6, <2>1 DEF Whole, Backed
  <2>7. QED BY <2>2, <2>3, <2>4, <2>5, <2>6 DEF Whole, n
<1>7. QED BY <1>1, <1>5, <1>6

(* An answer that finds the room it was asked for.                           *)
Answering(h, r, p) ==
    r # None =>
        /\ p.cursor <= r.cursor
        /\ p.answer # None /\ ~r.outrun =>
             /\ Backed(h, p.answer.window, Msgs(r))
             /\ \A t \in p.answer.window : h.chats[t] <= p.cursor => Shown(Msgs(r), t)

LEMMA ResetWhole ==
    ASSUME NEW h, NEW cursor, NEW reset, NEW d, WholeAnswer(h, cursor, reset, d),
           Msgs(d) = d.window
    PROVE  Whole(h, d)
  BY DEF WholeAnswer, Whole, Backed, Shown

LEMMA MergeWhole ==
    ASSUME NEW h \in Hosts, NEW b, NEW r, RoomOf(h, b, r), Whole(h, r),
           NEW d, RoomOf(h, b, d), NEW cursor \in Nat \cup {-1},
           NEW reset \in BOOLEAN, ~reset, WholeAnswer(h, cursor, reset, d), r # None,
           Backed(h, d.window, Msgs(r)),
           \A t \in d.window : h.chats[t] <= cursor => Shown(Msgs(r), t)
    PROVE  Whole(h, MergeRoom(r, d, reset))
<1> DEFINE S == Both(r, d)
           n == MergeRoom(r, d, reset)
<1>1. /\ Msgs(r) \in SUBSET SentAts /\ Msgs(d) \in SUBSET SentAts
      /\ d.window \in SUBSET SentAts /\ Msgs(d) \subseteq d.window
      /\ \A t \in SentAts : h.chats[t] \in Nat
  BY RoomShows DEF WholeAnswer, Hosts, HostRecords
<1>3. S \in SUBSET SentAts /\ Msgs(r) \subseteq S /\ Msgs(d) \subseteq S
  BY <1>1 DEF Both
<1>4. \A t \in S : t \in Msgs(r) \/ t \in Msgs(d)
  BY DEF Both
<1>5. Msgs(n) = Newest(S) /\ n.window = d.window /\ n.cursor = d.cursor
  BY Merging
<1> HIDE DEF S, n
<1>6. /\ Newest(S) \in SUBSET SentAts /\ Newest(S) \subseteq S
      /\ \A t \in SentAts : Shown(S, t) => Shown(Newest(S), t)
  BY <1>3, NewestIsLater, NewestShown
<1>7. \A t \in SentAts : Shown(Msgs(r), t) => Shown(S, t)
  BY <1>1, <1>3, ShownGrows
<1>8. \A t \in d.window : Shown(Msgs(n), t)
  <2>1. ASSUME NEW t \in d.window PROVE Shown(S, t)
    <3>1. CASE h.chats[t] <= cursor
      BY <1>1, <1>7, <3>1
    <3>2. CASE h.chats[t] > cursor
      BY <1>3, <3>2 DEF WholeAnswer, Shown
    <3>3. QED BY <1>1, <3>1, <3>2
  <2>2. QED BY <1>1, <1>5, <1>6, <2>1
<1>9. Complete(h, n.cursor, Msgs(n))
  <2>1. \A t \in SentAts : Shown(d.window, t) => Shown(Msgs(n), t)
    BY <1>1, <1>5, <1>6, <1>8, ShownThrough
  <2>2. QED BY <1>5, <2>1 DEF WholeAnswer, Complete
<1>10. OfHost(h, Msgs(n))
  BY <1>1, <1>4, <1>5, <1>6 DEF Whole, WholeAnswer, OfHost
<1>11. Backed(h, n.window, Msgs(n))
  <2>1. \A t \in Msgs(d) : Shown(d.window, t)
    BY <1>1 DEF Shown
  <2>2. QED BY <1>4, <1>5, <1>6, <2>1 DEF Backed
<1>12. QED BY <1>5, <1>8, <1>9, <1>10, <1>11 DEF Whole, WholeAnswer, n

-----------------------------------------------------------------------------
(* Polls are coalesced: no two of the current binding are under way.         *)
OnePoll ==
    /\ \A p \in polls : p.binding = binding => refreshInFlight = binding
    /\ \A p, q \in polls : p.binding = binding /\ q.binding = binding => p = q

LEMMA OnePollInit == Init => OnePoll
  BY DEF Init, OnePoll

LEMMA OnePollRefreshed ==
    ASSUME Typed, OnePoll, Refreshed, binding' = binding
    PROVE  OnePoll'
<1>1. binding # None
  BY StoreAssumption DEF Typed
<1>2. CASE refreshInFlight # None
  BY <1>2 DEF Refreshed, OnePoll
<1>3. CASE refreshInFlight = None
  <2> DEFINE n == NewPoll(binding, roomVersion, IF room = None THEN -1 ELSE room.cursor)
  <2>1. polls' = polls \cup {n} /\ refreshInFlight' = binding
    BY <1>3 DEF Refreshed
  <2>2. \A p \in polls : p.binding # binding
    BY <1>1, <1>3 DEF OnePoll
  <2> HIDE DEF n
  <2>3. QED BY <2>1, <2>2 DEF OnePoll
<1>4. QED BY <1>2, <1>3

LEMMA OnePollOver ==
    ASSUME OnePoll, NEW p \in polls, PollOver(p), binding' = binding
    PROVE  OnePoll'
  BY DEF OnePoll, PollOver

LEMMA OnePollNext == ASSUME Typed, OnePoll, [Next]_vars PROVE OnePoll'
<1> USE DEF store, snapshot, pending, history
<1>1. binding \in Nat /\ \A p \in polls : p.binding \in Nat /\ p.binding <= binding
  BY DEF Typed, PollOf, PollRecords
<1>2. ASSUME UNCHANGED <<binding, polls, refreshInFlight>> PROVE OnePoll'
  BY <1>2 DEF OnePoll
<1>3. CASE HostMoves
  BY <1>2, <1>3 DEF HostMoves
<1>4. ASSUME NEW m \in running, ServeMutation(m) \/ MutationAnswered(m) \/ MutationFailed(m)
      PROVE  OnePoll'
  BY <1>2, <1>4 DEF ServeMutation, MutationAnswered, MutationFailed
<1>5. ASSUME NEW p \in polls, ServePoll(p) PROVE OnePoll'
  <2>1. PICK q : polls' = (polls \ {p}) \cup {q} /\ q.binding = p.binding
    BY <1>5, ServePollEffect DEF PollServed
  <2>2. UNCHANGED <<binding, refreshInFlight>>
    BY <1>5 DEF ServePoll
  <2>3. QED BY <2>1, <2>2 DEF OnePoll
<1>6. ASSUME NEW p \in polls, PollAnswered(p) \/ PollFailed(p) PROVE OnePoll'
  BY <1>6, OnePollOver DEF PollAnswered, PollFailed
<1>7. CASE Bind
  <2> DEFINE n == NewPoll(binding + 1, roomVersion, -1)
  <2>1. /\ binding' = binding + 1 /\ refreshInFlight' = binding + 1 /\ polls' = polls \cup {n}
    BY <1>7 DEF Bind
  <2>2. \A p \in polls : p.binding # binding + 1
    BY <1>1
  <2> HIDE DEF n
  <2>3. QED BY <2>1, <2>2 DEF OnePoll
<1>8. CASE Unbind
  <2>1. binding' = binding + 1 /\ polls' = polls
    BY <1>8 DEF Unbind
  <2>2. \A p \in polls : p.binding # binding + 1
    BY <1>1
  <2>3. QED BY <2>1, <2>2 DEF OnePoll
<1>9. CASE RefreshNetwork
  BY <1>9, OnePollRefreshed DEF RefreshNetwork
<1>10. CASE PostNetworkMessage \/ ChangeHall \/ BeginMutation
  BY <1>2, <1>10 DEF PostNetworkMessage, ChangeHall, BeginMutation
<1>11. ASSUME NEW op \in {"invite", "connect"}, AsideBegins(op) PROVE OnePoll'
  BY <1>2, <1>11 DEF AsideBegins
<1>12. ASSUME NEW a \in asides, AsideEnds(a) PROVE OnePoll'
  BY <1>2, <1>12, OnePollRefreshed DEF AsideEnds
<1>13. CASE UNCHANGED vars
  BY <1>2, <1>13 DEF vars
<1>14. QED
  BY <1>3, <1>4, <1>5, <1>6, <1>7, <1>8, <1>9, <1>10, <1>11, <1>12, <1>13 DEF Next

-----------------------------------------------------------------------------
Gathered ==
    /\ room # None /\ ~room.outrun => Whole(host, room)
    /\ \A m \in running : m.room # None => Whole(host, m.room)
    /\ \A p \in polls : p.answer # None => WholeAnswer(host, p.cursor, p.reset, p.answer)
    /\ \A p \in polls : p.binding = binding /\ p.version = roomVersion => Answering(host, room, p)

(* No message has come late so far, and all that was gathered is whole.       *)
Merged == host.belated = {} => Gathered

LEMMA MergedInit == ASSUME Init PROVE Merged
  BY DEF Init, Merged, Gathered

LEMMA AnsweringGrows ==
    ASSUME NEW h, NEW g, Grows(h, g), NEW r, NEW p,
           p.answer # None => WholeAnswer(h, p.cursor, p.reset, p.answer), Answering(h, r, p)
    PROVE  Answering(g, r, p)
<1>1. p.answer # None => \A t \in p.answer.window : g.chats[t] = h.chats[t]
  BY DEF WholeAnswer, OfHost, Grows
<1>2. h.absent \subseteq g.absent
  BY DEF Grows
<1>3. QED BY <1>1, <1>2 DEF Answering, Backed

(* A step that leaves the room as it is.                                     *)
LEMMA GatheredKept ==
    ASSUME Typed, Gathered, Grows(host, host'), UNCHANGED <<binding, room>>,
           roomVersion' \in Nat, roomVersion <= roomVersion',
           \A m \in running' : m \in running \/ (m.room # None => Whole(host', m.room)),
           \A p \in polls' : p \in polls
                \/ /\ p.answer # None => WholeAnswer(host', p.cursor, p.reset, p.answer)
                   /\ p.binding = binding /\ p.version = roomVersion' => Answering(host', room, p)
    PROVE  Gathered'
<1>2. room' # None /\ ~room'.outrun => Whole(host', room')
  BY WholeGrows DEF Gathered, Typed
<1>3. \A m \in running' : m.room # None => Whole(host', m.room)
  <2>1. ASSUME NEW m \in running, m.room # None PROVE Whole(host', m.room)
    BY <2>1, WholeGrows DEF Gathered, Typed, MutationOf
  <2>2. QED BY <2>1
<1>4. \A p \in polls' : p.answer # None => WholeAnswer(host', p.cursor, p.reset, p.answer)
  <2>1. ASSUME NEW p \in polls, p.answer # None
        PROVE  WholeAnswer(host', p.cursor, p.reset, p.answer)
    BY <2>1, WholeAnswerGrows DEF Gathered, Typed, PollOf
  <2>2. QED BY <2>1
<1>5. \A p \in polls' : p.binding = binding /\ p.version = roomVersion' => Answering(host', room, p)
  <2>1. ASSUME NEW p \in polls, p.binding = binding, p.version = roomVersion'
        PROVE  Answering(host', room, p)
    <3>1. p.version \in Nat /\ p.version <= roomVersion /\ roomVersion \in Nat
      BY DEF Typed, PollOf, PollRecords
    <3>2. p.version = roomVersion
      BY <2>1, <3>1
    <3>3. /\ p.answer # None => WholeAnswer(host, p.cursor, p.reset, p.answer)
          /\ Answering(host, room, p)
      BY <2>1, <3>2 DEF Gathered
    <3>4. QED BY <3>3, AnsweringGrows
  <2>2. QED BY <2>1
<1>6. QED BY <1>2, <1>3, <1>4, <1>5 DEF Gathered

(* A step that shows another room, and after which no call knows the old one. *)
LEMMA GatheredShown ==
    ASSUME Gathered, UNCHANGED host, \A m \in running' : m \in running,
           room' # None /\ ~room'.outrun => Whole(host, room'),
           \A p \in polls' : p \in polls \/ p.answer = None,
           \A p \in polls' : ~(p.binding = binding' /\ p.version = roomVersion') \/ room' = None
    PROVE  Gathered'
<1>1. \A p \in polls' : p.binding = binding' /\ p.version = roomVersion' => Answering(host', room', p)
  BY DEF Answering
<1>2. QED BY <1>1 DEF Gathered

LEMMA GatheredRefreshed ==
    ASSUME Typed, Refreshed
    PROVE  \A p \in polls' : p \in polls \/ (p.answer = None /\ Answering(host, room, p))
<1> DEFINE n == NewPoll(binding, roomVersion, IF room = None THEN -1 ELSE room.cursor)
<1>1. n.answer = None /\ Answering(host, room, n)
  <2>1. n.answer = None /\ (room # None => n.cursor = room.cursor /\ room.cursor \in Nat)
    BY DEF NewPoll, Typed, RoomOf, Rooms
  <2> HIDE DEF n
  <2>2. QED BY <2>1 DEF Answering
<1>2. polls' = polls \/ polls' = polls \cup {n}
  BY DEF Refreshed
<1> HIDE DEF n
<1>3. QED BY <1>1, <1>2

LEMMA GatheredNext ==
    ASSUME Typed, OnePoll, Fresh, Gathered, host.belated = {}, [Next]_vars
    PROVE  Gathered'
<1> USE DEF store, snapshot, pending, history
<1>1. /\ host \in Hosts /\ Grows(host, host) /\ binding \in Nat /\ roomVersion \in Nat
      /\ roomVersion <= roomVersion /\ roomVersion <= roomVersion + 1 /\ roomVersion + 1 \in Nat
  <2>1. host \in Hosts /\ binding \in Nat /\ roomVersion \in Nat
    BY DEF Typed
  <2>2. QED BY <2>1, SameHost
<1>2. CASE HostMoves
  BY <1>1, <1>2, HostMoveGrows, GatheredKept DEF HostMoves
<1>3. ASSUME NEW m \in running, ServeMutation(m) PROVE Gathered'
  <2>1. Grows(host, host')
    BY <1>3, ServeMutationEffect
  <2>2. PICK n : running' = (running \ {m}) \cup {n} /\ Served(host', m, n)
    BY <1>3, ServeMutationEffect
  <2>3. Whole(host', Snapshot(host', m.binding))
    BY <2>1, SnapshotWhole DEF Grows, Typed, MutationOf, MutationRecords
  <2>4. m.room # None => Whole(host', m.room)
    BY <2>1, WholeGrows DEF Gathered, Typed, MutationOf
  <2>5. n.room # None => Whole(host', n.room)
    BY <2>2, <2>3, <2>4 DEF Served
  <2>6. QED BY <1>1, <1>3, <2>1, <2>2, <2>5, GatheredKept DEF ServeMutation
<1>4. ASSUME NEW m \in running, MutationAnswered(m) PROVE Gathered'
  <2>1. running' = running \ {m} /\ UNCHANGED <<binding, polls, host>>
    BY <1>4 DEF MutationAnswered
  <2>2. CASE UNCHANGED room
    <3>1. roomVersion' \in Nat /\ roomVersion <= roomVersion'
      BY <1>1, <1>4 DEF MutationAnswered, Release
    <3>2. QED BY <1>1, <2>1, <2>2, <3>1, GatheredKept
  <2>3. CASE m.binding = binding
    <3>1. roomVersion' = roomVersion + 1
      BY <1>4, <2>3 DEF MutationAnswered, Release
    <3>2. \A p \in polls' : p.version # roomVersion'
      <4>1. \A p \in polls : p.version \in Nat /\ p.version <= roomVersion
        BY DEF Typed, PollOf, PollRecords
      <4>2. QED BY <1>1, <2>1, <3>1, <4>1
    <3>3. room' # None /\ ~room'.outrun => Whole(host, room')
      <4>1. CASE m.room # None /\ room' = m.room
        BY <4>1 DEF Gathered
      <4>2. CASE m.message # None /\ room # None /\ room' = WithMessage(room, m.message)
        <5> DEFINE t == m.message
        <5>1. t \in SentAts /\ host.chats[t] # 0 /\ room' = WithMessage(room, t)
          BY <2>3, <4>2 DEF Typed, MutationOf, MutationRecords, Fresh, FreshMutation
        <5>2. RoomOf(host, binding, room) /\ (~room.outrun => Whole(host, room))
          BY <4>2 DEF Typed, Gathered
        <5> HIDE DEF t
        <5>3. QED BY <1>1, <5>1, <5>2, MessageWhole
      <4>3. CASE room' = room
        BY <4>3 DEF Gathered
      <4>4. QED BY <1>4, <4>1, <4>2, <4>3 DEF MutationAnswered
    <3>4. QED BY <2>1, <3>2, <3>3, GatheredShown
  <2>4. QED BY <1>4, <2>2, <2>3 DEF MutationAnswered
<1>5. ASSUME NEW m \in running, MutationFailed(m) PROVE Gathered'
  <2>1. roomVersion' \in Nat /\ roomVersion <= roomVersion'
    BY <1>1, <1>5 DEF MutationFailed, Release
  <2>2. QED BY <1>1, <1>5, <2>1, GatheredKept DEF MutationFailed
<1>6. ASSUME NEW p \in polls, ServePoll(p) PROVE Gathered'
  <2>1. PICK q : /\ polls' = (polls \ {p}) \cup {q} /\ PollServed(host, p, q)
                 /\ PollOf(host, binding, roomVersion, q)
    BY <1>6, ServePollEffect
  <2>2. /\ WholeAnswer(host, q.cursor, q.reset, q.answer) /\ q.answer.window = Window(host)
    <3>1. PollOf(host, binding, roomVersion, p) /\ p \in PollRecords
      BY DEF Typed, PollOf
    <3>2. p.binding \in Nat /\ p.cursor \in Nat \cup {-1}
      BY <3>1 DEF PollRecords
    <3>3. /\ q.answer = Delta(host, p.binding, p.cursor, q.reset) /\ q.cursor = p.cursor
          /\ q.reset \in BOOLEAN
      BY <2>1 DEF PollServed, PollOf, PollRecords
    <3>4. QED BY <1>1, <3>2, <3>3, DeltaWhole
  <2>3. ASSUME q.binding = binding, q.version = roomVersion PROVE Answering(host, room, q)
    <3>1. p.binding = binding /\ p.version = roomVersion /\ q.cursor = p.cursor
      BY <2>1, <2>3 DEF PollServed
    <3>2. Answering(host, room, p)
      BY <3>1 DEF Gathered
    <3>3. ASSUME room # None, ~room.outrun
          PROVE  /\ Backed(host, Window(host), Msgs(room))
                 /\ \A t \in Window(host) : host.chats[t] <= p.cursor => Shown(Msgs(room), t)
      <4>1. Msgs(room) \in SUBSET SentAts /\ Whole(host, room) /\ p.cursor <= room.cursor
            /\ room.cursor \in Nat /\ p.cursor \in Nat \cup {-1}
            /\ \A t \in SentAts : host.chats[t] \in Nat
        <5>1. RoomOf(host, binding, room) /\ PollOf(host, binding, roomVersion, p)
              /\ Whole(host, room) /\ p.cursor <= room.cursor
          BY <3>2, <3>3 DEF Typed, Gathered, Answering
        <5>2. room.cursor \in Nat /\ p.cursor \in Nat \cup {-1} /\ Msgs(room) \in SUBSET SentAts
          BY <5>1, RoomShows DEF RoomOf, Rooms, PollOf, PollRecords
        <5>3. QED BY <1>1, <5>1, <5>2 DEF Hosts, HostRecords
      <4>2. Backed(host, Window(host), Msgs(room))
        BY <1>1, <4>1, WindowWhole DEF Backed, Whole, OfHost
      <4>3. ASSUME NEW t \in Window(host), host.chats[t] <= p.cursor PROVE Shown(Msgs(room), t)
        <5>1. t \in SentAts /\ t \notin host.absent /\ host.chats[t] # 0
          BY <1>1, WindowVisible
        <5>2. host.chats[t] <= room.cursor
          BY <4>1, <4>3, <5>1
        <5>3. QED BY <4>1, <5>1, <5>2 DEF Whole, Complete
      <4>4. QED BY <4>2, <4>3
    <3>4. QED BY <2>2, <3>1, <3>2, <3>3 DEF Answering
  <2>4. QED BY <1>1, <1>6, <2>1, <2>2, <2>3, GatheredKept DEF ServePoll
<1>7. ASSUME NEW p \in polls, PollAnswered(p) PROVE Gathered'
  <2>1. /\ polls' = polls \ {p} /\ p.answer # None
        /\ UNCHANGED <<binding, roomVersion, running, host>>
    BY <1>7 DEF PollAnswered, PollOver
  <2>2. CASE Obsolete(p)
    BY <1>1, <1>7, <2>1, <2>2, GatheredKept DEF PollAnswered
  <2>3. CASE ~Obsolete(p)
    <3>1. /\ room' = MergeRoom(room, p.answer, p.reset)
          /\ p.binding = binding /\ p.version = roomVersion
      BY <1>7, <2>3 DEF PollAnswered, Obsolete
    <3>2. \A q \in polls' : q.binding # binding
      BY <2>1, <3>1 DEF OnePoll
    <3>3. /\ RoomOf(host, binding, p.answer) /\ p.reset \in BOOLEAN
          /\ p.cursor \in Nat \cup {-1}
          /\ WholeAnswer(host, p.cursor, p.reset, p.answer) /\ Answering(host, room, p)
      BY <2>1, <3>1 DEF Typed, PollOf, PollRecords, Gathered
    <3>4. p.reset \/ room # None
      BY <2>1, <3>1 DEF Fresh, FreshPoll
    <3>5. CASE p.reset
      <4>1. room' = p.answer /\ Msgs(p.answer) = p.answer.window
        BY <3>1, <3>3, <3>5 DEF MergeRoom, WholeAnswer
      <4>2. Whole(host, room')
        BY <3>3, <4>1, ResetWhole
      <4>3. QED BY <2>1, <3>2, <4>2, GatheredShown
    <3>6. CASE ~p.reset
      <4>1. room # None /\ RoomOf(host, binding, room) /\ (~room.outrun => Whole(host, room))
        BY <3>4, <3>6 DEF Typed, Gathered
      <4>2. room'.outrun = room.outrun
        <5> DEFINE d == p.answer
                   reset == p.reset
        <5>1. RoomOf(host, binding, d) /\ reset \in BOOLEAN /\ ~reset /\ room' = MergeRoom(room, d, reset)
          BY <3>1, <3>3, <3>6
        <5> HIDE DEF d, reset
        <5>2. MergeRoom(room, d, reset).outrun = room.outrun
          BY <4>1, <5>1, Merging
        <5>3. QED BY <5>1, <5>2
      <4>3. ASSUME ~room.outrun PROVE Whole(host, room')
        <5> DEFINE d == p.answer
                   reset == p.reset
                   cursor == p.cursor
        <5>1. /\ RoomOf(host, binding, d) /\ reset \in BOOLEAN /\ ~reset
              /\ cursor \in Nat \cup {-1} /\ WholeAnswer(host, cursor, reset, d)
              /\ room' = MergeRoom(room, d, reset)
          BY <3>1, <3>3, <3>6
        <5>2. /\ Backed(host, d.window, Msgs(room))
              /\ \A t \in d.window : host.chats[t] <= cursor => Shown(Msgs(room), t)
          BY <2>1, <3>3, <4>1, <4>3 DEF Answering
        <5> HIDE DEF d, reset, cursor
        <5>3. QED BY <1>1, <4>1, <4>3, <5>1, <5>2, MergeWhole
      <4>4. QED BY <2>1, <3>2, <4>2, <4>3, GatheredShown
    <3>7. QED BY <3>5, <3>6
  <2>4. QED BY <2>2, <2>3
<1>8. ASSUME NEW p \in polls, PollFailed(p) PROVE Gathered'
  BY <1>1, <1>8, GatheredKept DEF PollFailed, PollOver
<1>9. CASE Bind
  <2>1. \A p \in polls' : p \in polls \/ p.answer = None
    BY <1>9 DEF Bind, NewPoll
  <2>2. QED BY <1>9, <2>1, GatheredShown DEF Bind
<1>10. CASE Unbind
  BY <1>10, GatheredShown DEF Unbind
<1>11. CASE RefreshNetwork
  BY <1>1, <1>11, GatheredRefreshed, GatheredKept DEF RefreshNetwork
<1>12. CASE PostNetworkMessage \/ ChangeHall
  BY <1>1, <1>12, GatheredKept DEF PostNetworkMessage, ChangeHall
<1>13. CASE BeginMutation
  <2>1. NewMutation.room = None
    BY DEF NewMutation
  <2>2. QED BY <1>1, <1>13, <2>1, GatheredKept DEF BeginMutation
<1>14. ASSUME NEW op \in {"invite", "connect"}, AsideBegins(op) PROVE Gathered'
  BY <1>1, <1>14, GatheredKept DEF AsideBegins
<1>15. ASSUME NEW a \in asides, AsideEnds(a) PROVE Gathered'
  <2>1. /\ \A p \in polls' : p \in polls \/ (p.answer = None /\ Answering(host, room, p))
        /\ UNCHANGED <<store, room, running, host>>
    BY <1>15, GatheredRefreshed DEF AsideEnds
  <2>2. QED BY <1>1, <2>1, GatheredKept
<1>16. CASE UNCHANGED vars
  BY <1>1, <1>16, GatheredKept DEF vars
<1>17. QED
  BY <1>2, <1>3, <1>4, <1>5, <1>6, <1>7, <1>8, <1>9, <1>10, <1>11, <1>12, <1>13, <1>14,
     <1>15, <1>16 DEF Next

LEMMA MergedNext == ASSUME Typed, OnePoll, Fresh, Merged, [Next]_vars PROVE Merged'
<1>1. Grows(host, host')
  <2>1. host \in Hosts
    BY DEF Typed
  <2>2. \/ HostMoves
        \/ \E m \in running : ServeMutation(m)
        \/ UNCHANGED host
    BY DEF Next, vars, MutationAnswered, MutationFailed, ServePoll, PollAnswered, PollFailed,
           Bind, Unbind, RefreshNetwork, PostNetworkMessage, ChangeHall, BeginMutation,
           AsideBegins, AsideEnds
  <2>3. QED BY <2>1, <2>2, HostMoveGrows, ServeMutationEffect, SameHost
<1>2. host'.belated = {} => host.belated = {}
  BY <1>1 DEF Grows
<1>3. QED BY <1>2, GatheredNext DEF Merged

LEMMA MergedAlways == Spec => []Merged
<1>1. Spec => []Chain
  BY ChainInit, ChainNext, TypedAlways, PTL DEF Spec
<1>2. Spec => []Fresh
  BY FreshInit, FreshNext, TypedAlways, <1>1, PTL DEF Spec
<1>3. Spec => []OnePoll
  BY OnePollInit, OnePollNext, TypedAlways, PTL DEF Spec
<1>4. Init => Merged
  BY MergedInit
<1>5. QED BY <1>2, <1>3, <1>4, MergedNext, TypedAlways, PTL DEF Spec

(* Where messages of the window are missing, the room is full, and all it      *)
(* shows is later than they are; what it shows besides the window is         *)
(* left out since, and there is as much of that as is missing.                    *)
LEMMA WholeLosesNothing ==
    ASSUME NEW h \in Hosts, NEW b, NEW r, RoomOf(h, b, r), Whole(h, r)
    PROVE  Cardinality(r.window \ Msgs(r)) <= Cardinality(Msgs(r) \cap h.absent)
<1> DEFINE M == Msgs(r)
           X == r.window
           R == M \cap h.absent
<1>1. /\ M \in SUBSET SentAts /\ X \in SUBSET SentAts /\ R \in SUBSET SentAts
      /\ Cardinality(M) <= MessageWindow /\ Cardinality(X) <= MessageWindow
      /\ \A t \in X : Shown(M, t)
      /\ \A t \in M : t \in R \/ Shown(X, t)
  BY RoomShows DEF Whole, Backed
<1>2. MessageWindow \in Nat /\ SentAts \subseteq Nat
  BY StoreAssumption DEF SentAts
<1> HIDE DEF M, X, R
<1>3. /\ IsFiniteSet(M) /\ Cardinality(M) \in Nat /\ IsFiniteSet(X) /\ Cardinality(X) \in Nat
      /\ IsFiniteSet(R) /\ Cardinality(R) \in Nat
  BY <1>1, LaterFinite
<1>4. CASE X \subseteq M
  <2>1. X \ M = {}
    BY <1>4
  <2>2. Cardinality(X \ M) = 0
    BY <2>1, FS_EmptySet
  <2>3. QED BY <1>3, <2>2 DEF M, X, R
<1>5. CASE ~(X \subseteq M)
  <2>1. PICK t \in X : t \notin M
    BY <1>5
  <2>2. t \in SentAts /\ (\A n \in M : n > t) /\ Cardinality(M) = MessageWindow
    <3>1. t \in SentAts /\ Shown(M, t)
      BY <1>1, <2>1
    <3>2. \A n \in M : n > t
      BY <1>1, <2>1, <3>1, ShownOrOlder
    <3>3. Cardinality(Later(M, t)) >= MessageWindow
      BY <2>1, <3>1 DEF Shown
    <3>4. Later(M, t) = M
      BY <3>2 DEF Later
    <3>5. QED BY <1>1, <1>2, <1>3, <3>1, <3>2, <3>3, <3>4
  <2>3. M \ X \subseteq R
    <3>1. ASSUME NEW m \in M, m \notin X PROVE m \in R
      <4>1. m > t /\ m \in Nat /\ t \in Nat /\ ~(t > m)
        BY <1>1, <1>2, <2>2, <3>1
      <4>2. ~Shown(X, m)
        BY <1>1, <2>1, <3>1, <4>1, ShownOrOlder
      <4>3. QED BY <1>1, <3>1, <4>2
    <3>2. QED BY <3>1
  <2>4. /\ Cardinality(X \ M) = Cardinality(X) - Cardinality(X \cap M)
        /\ Cardinality(M \ X) = Cardinality(M) - Cardinality(M \cap X)
    BY <1>3, FS_Difference
  <2>5. X \cap M = M \cap X
    OBVIOUS
  <2>6. Cardinality(X \cap M) \in Nat
    <3>1. X \cap M \in SUBSET SentAts
      BY <1>1
    <3>2. QED BY <3>1, LaterFinite
  <2>7. Cardinality(M \ X) <= Cardinality(R)
    BY <1>3, <2>3, FS_Subset
  <2>8. Cardinality(X \ M) <= Cardinality(R)
    BY <1>1, <1>2, <1>3, <2>2, <2>4, <2>5, <2>6, <2>7
  <2>9. QED BY <2>8 DEF M, X, R
<1>6. QED BY <1>4, <1>5

(* NoMessageLost: what the Host showed when the room was last read is shown,   *)
(* one that is left out apart (mergeRoom, postNetworkMessage and              *)
(* refreshCurrentNetwork of network-store.ts, delta of room-events.ts).      *)
THEOREM MergingLosesNothing == Spec => []NoMessageLost
<1>1. ASSUME Typed, Merged PROVE NoMessageLost
  <2>1. ASSUME room # None, host.belated = {}, ~room.outrun
        PROVE  RoomOf(host, binding, room) /\ Whole(host, room)
    BY <1>1, <2>1 DEF Typed, Merged, Gathered
  <2>2. ASSUME room # None, host.belated = {}, ~room.outrun
        PROVE  Cardinality(room.window \ Msgs(room)) <= Cardinality(Msgs(room) \cap host.absent)
    <3>1. host \in Hosts
      BY <1>1 DEF Typed
    <3>2. QED BY <2>1, <2>2, <3>1, WholeLosesNothing
  <2>3. QED BY <2>2 DEF NoMessageLost, Msgs
<1>2. QED BY <1>1, TypedAlways, MergedAlways, PTL
==============================================================================
