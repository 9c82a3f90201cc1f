---------------------------- MODULE Ledger_proofs ----------------------------
(***************************************************************************)
(* Lemmas about the methods of the ledger, for every set of peers and all  *)
(* limits that satisfy LimitsAssumption: what accept keeps of its limits,  *)
(* of what the indexes point to and of what the hall rests on, and when a  *)
(* join is admitted.  The theorems of LedgerHost and of ClubNode build on  *)
(* them.                                                                   *)
(***************************************************************************)
EXTENDS Ledger, HallDerive_proofs, FiniteSetTheorems, SequenceTheorems,
        WellFoundedInduction, TLAPS

-----------------------------------------------------------------------------
(* A set of natural numbers that is not empty has a least one. *)
LEMMA LeastNatural ==
    ASSUME NEW S, S \subseteq Nat, S # {}
    PROVE  Min(S) \in S
<1> DEFINE R == {ss \in Nat \X Nat : ss[1] < ss[2]}
<1>1. IsWellFoundedOn(R, Nat)
  BY NatLessThanWellFounded DEF OpToRel
<1>2. PICK x \in S : \A y \in S : ~(<<y, x>> \in R)
  BY <1>1, WFMin
<1>3. ASSUME NEW y \in S PROVE x <= y
  <2>1. x \in Nat /\ y \in Nat /\ ~(x > y)
    BY <1>2
  <2>2. QED BY <2>1
<1>4. QED BY <1>3 DEF Min

(* A sequence without its element at i. *)
LEMMA RemoveAtEffect ==
    ASSUME NEW T, NEW s \in Seq(T), NEW i \in 1 .. Len(s)
    PROVE  /\ RemoveAt(s, i) \in Seq(T)
           /\ Len(RemoveAt(s, i)) = Len(s) - 1
           /\ \A k \in 1 .. (Len(s) - 1) :
                RemoveAt(s, i)[k] = IF k < i THEN s[k] ELSE s[k + 1]
<1> DEFINE left == SubSeq(s, 1, i - 1)
           right == SubSeq(s, i + 1, Len(s))
<1>1. Len(s) \in Nat /\ i \in Nat /\ 1 <= i /\ i <= Len(s)
  OBVIOUS
<1>2. left \in Seq(T) /\ Len(left) = i - 1 /\ \A k \in 1 .. (i - 1) : left[k] = s[k]
  BY <1>1
<1>3. /\ right \in Seq(T) /\ Len(right) = Len(s) - i
      /\ \A k \in 1 .. (Len(s) - i) : right[k] = s[k + i]
  BY <1>1
<1>4. RemoveAt(s, i) = left \o right
  BY DEF RemoveAt
<1> HIDE DEF left, right
<1>5. left \o right \in Seq(T) /\ Len(left \o right) = Len(s) - 1
  <2>1. left \o right \in Seq(T) /\ Len(left \o right) = Len(left) + Len(right)
    BY <1>2, <1>3, ConcatProperties
  <2>2. QED BY <1>1, <1>2, <1>3, <2>1
<1>6. ASSUME NEW k \in 1 .. (Len(s) - 1)
      PROVE  (left \o right)[k] = IF k < i THEN s[k] ELSE s[k + 1]
  <2>1. CASE k < i
    BY <1>1, <1>2, <1>3, <2>1
  <2>2. CASE ~(k < i)
    <3>1. (left \o right)[k] = right[k - (i - 1)]
      BY <1>1, <1>2, <1>3, <2>2
    <3>2. k - (i - 1) \in 1 .. (Len(s) - i)
      BY <1>1, <2>2
    <3>3. right[k - (i - 1)] = s[(k - (i - 1)) + i]
      BY <1>3, <3>2
    <3>4. (k - (i - 1)) + i = k + 1
      BY <1>1
    <3>5. QED BY <2>2, <3>1, <3>3, <3>4
  <2>3. QED BY <2>1, <2>2
<1>7. QED BY <1>4, <1>5, <1>6

(* What is left of it: all elements but that one, at other places than before *)
(* but in different places still.                                            *)
LEMMA RemoveAtRest ==
    ASSUME NEW T, NEW s \in Seq(T), NEW i \in 1 .. Len(s)
    PROVE  /\ \A k \in DOMAIN RemoveAt(s, i) : \E j \in DOMAIN s :
                RemoveAt(s, i)[k] = s[j] /\ j # i
           /\ \A k, l \in DOMAIN RemoveAt(s, i) : k # l =>
                \E a, b \in DOMAIN s :
                   a # b /\ RemoveAt(s, i)[k] = s[a] /\ RemoveAt(s, i)[l] = s[b]
           /\ \A j \in DOMAIN s : j # i => \E k \in DOMAIN RemoveAt(s, i) :
                RemoveAt(s, i)[k] = s[j]
<1> DEFINE r == RemoveAt(s, i)
<1>1. /\ DOMAIN r = 1 .. (Len(s) - 1) /\ DOMAIN s = 1 .. Len(s) /\ Len(s) \in Nat
      /\ \A k \in 1 .. (Len(s) - 1) : r[k] = IF k < i THEN s[k] ELSE s[k + 1]
  <2>1. Len(s) \in Nat /\ DOMAIN s = 1 .. Len(s)
    OBVIOUS
  <2>2. r \in Seq(T) /\ Len(r) = Len(s) - 1
    BY RemoveAtEffect
  <2>3. DOMAIN r = 1 .. Len(r)
    BY <2>2
  <2>4. QED BY <2>1, <2>2, <2>3, RemoveAtEffect
<1>2. i \in Nat /\ 1 <= i /\ i <= Len(s)
  BY <1>1
<1> HIDE DEF r
<1>3. ASSUME NEW k \in DOMAIN r
      PROVE  \E j \in DOMAIN s : r[k] = s[j] /\ j # i /\ j = IF k < i THEN k ELSE k + 1
  BY <1>1, <1>2
<1>4. ASSUME NEW k \in DOMAIN r, NEW l \in DOMAIN r, k # l
      PROVE  \E a, b \in DOMAIN s : a # b /\ r[k] = s[a] /\ r[l] = s[b]
  <2>1. PICK a \in DOMAIN s : r[k] = s[a] /\ a = IF k < i THEN k ELSE k + 1
    BY <1>3
  <2>2. PICK b \in DOMAIN s : r[l] = s[b] /\ b = IF l < i THEN l ELSE l + 1
    BY <1>3
  <2>3. a # b
    BY <1>1, <1>2, <1>4, <2>1, <2>2
  <2>4. QED BY <2>1, <2>2, <2>3
<1>5. ASSUME NEW j \in DOMAIN s, j # i
      PROVE  \E k \in DOMAIN r : r[k] = s[j]
  <2>1. CASE j < i
    BY <1>1, <1>2, <2>1
  <2>2. CASE j > i
    <3>1. j - 1 \in DOMAIN r /\ r[j - 1] = s[(j - 1) + 1] /\ (j - 1) + 1 = j
      BY <1>1, <1>2, <2>2
    <3>2. QED BY <3>1
  <2>3. QED BY <1>1, <1>2, <1>5, <2>1, <2>2
<1>6. QED BY <1>3, <1>4, <1>5 DEF r

-----------------------------------------------------------------------------
(* The ledgers over the events of a set S, and what accept keeps of them.     *)
Mark == [origin : Peers, sequence : Nat \ {0}]

LedgerOf(S) ==
    [log : Seq(S), marks : Seq(Mark),
     joinBasis : [Peers -> S \cup {None}], latestPresence : [Peers -> S \cup {None}],
     checkpoint : S \cup {None}, revision : Nat]

Signed(S) == \A e \in S : e.origin \in Peers /\ e.sequence \in Nat \ {0}

OneMark(marks) == \A j, k \in DOMAIN marks : marks[j].origin = marks[k].origin => j = k

Fits(l) ==
    /\ IsInjective(l.log) /\ OneMark(l.marks)
    /\ Cardinality(Tracked(l)) <= MaxTrackedJoins

(* Forgetting origins: nothing but the indexes changes, for those origins. *)
LEMMA ForgetEffect ==
    ASSUME NEW S, NEW l \in LedgerOf(S), NEW O
    PROVE  /\ Forget(l, O) \in LedgerOf(S)
           /\ Forget(l, O).log = l.log /\ Forget(l, O).marks = l.marks
           /\ Forget(l, O).checkpoint = l.checkpoint /\ Forget(l, O).revision = l.revision
           /\ \A p \in Peers :
                /\ Forget(l, O).joinBasis[p] = IF p \in O THEN None ELSE l.joinBasis[p]
                /\ Forget(l, O).latestPresence[p] = IF p \in O THEN None ELSE l.latestPresence[p]
<1>1. /\ [p \in Peers |-> IF p \in O THEN None ELSE l.joinBasis[p]] \in [Peers -> S \cup {None}]
      /\ [p \in Peers |-> IF p \in O THEN None ELSE l.latestPresence[p]]
             \in [Peers -> S \cup {None}]
  BY DEF LedgerOf
<1>2. QED BY <1>1 DEF Forget, LedgerOf

LEMMA ForgetFits ==
    ASSUME NEW S, NEW l \in LedgerOf(S), NEW O, Fits(l)
    PROVE  Fits(Forget(l, O))
<1>1. Tracked(Forget(l, O)) \subseteq Tracked(l)
  BY ForgetEffect DEF Tracked, HasBasis
<1>2. IsFiniteSet(Tracked(l))
  BY FS_Subset, RulesAssumption DEF Tracked
<1>3. /\ Cardinality(Tracked(Forget(l, O))) <= Cardinality(Tracked(l))
      /\ Cardinality(Tracked(Forget(l, O))) \in Nat /\ Cardinality(Tracked(l)) \in Nat
  BY <1>1, <1>2, FS_Subset, FS_CardinalityType
<1>4. QED BY <1>3, ForgetEffect, LimitsAssumption DEF Fits

(* A mark gone: those of other origins stay, each in a place of its own. *)
LEMMA WithoutEffect ==
    ASSUME NEW marks \in Seq(Mark), OneMark(marks), NEW p
    PROVE  /\ Without(marks, p) \in Seq(Mark)
           /\ Len(Without(marks, p)) <= Len(marks)
           /\ OneMark(Without(marks, p))
           /\ \A k \in DOMAIN Without(marks, p) : Without(marks, p)[k].origin # p
           /\ \A j \in DOMAIN marks : marks[j].origin # p =>
                 \E k \in DOMAIN Without(marks, p) : Without(marks, p)[k] = marks[j]
<1> DEFINE own == { k \in DOMAIN marks : marks[k].origin = p }
<1>1. CASE own = {}
  <2>1. Without(marks, p) = marks
    BY <1>1 DEF Without
  <2>2. QED BY <1>1, <2>1
<1>2. CASE own # {}
  <2>1. own \subseteq Nat /\ DOMAIN marks = 1 .. Len(marks) /\ Len(marks) \in Nat
    OBVIOUS
  <2>2. Min(own) \in own
    BY <1>2, <2>1, LeastNatural
  <2> DEFINE i == Min(own)
  <2>3. i \in 1 .. Len(marks) /\ marks[i].origin = p
    BY <2>1, <2>2
  <2>4. Without(marks, p) = RemoveAt(marks, i)
    BY <1>2 DEF Without
  <2> HIDE DEF i, own
  <2>5. /\ RemoveAt(marks, i) \in Seq(Mark) /\ Len(RemoveAt(marks, i)) <= Len(marks)
    BY <2>1, <2>3, RemoveAtEffect
  <2>6. OneMark(RemoveAt(marks, i))
    BY <2>3, RemoveAtRest DEF OneMark
  <2>7. \A k \in DOMAIN RemoveAt(marks, i) : RemoveAt(marks, i)[k].origin # p
    BY <2>1, <2>3, RemoveAtRest DEF OneMark
  <2>8. \A j \in DOMAIN marks : marks[j].origin # p =>
                 \E k \in DOMAIN RemoveAt(marks, i) : RemoveAt(marks, i)[k] = marks[j]
    BY <2>3, RemoveAtRest
  <2>9. QED BY <2>4, <2>5, <2>6, <2>7, <2>8
<1>3. QED BY <1>1, <1>2

(* A sequence with one more element. *)
LEMMA AppendEffect ==
    ASSUME NEW T, NEW s \in Seq(T), NEW x \in T
    PROVE  /\ Append(s, x) \in Seq(T) /\ Len(Append(s, x)) = Len(s) + 1
           /\ DOMAIN Append(s, x) = DOMAIN s \cup {Len(s) + 1} /\ Len(s) + 1 \notin DOMAIN s
           /\ \A k \in DOMAIN s : Append(s, x)[k] = s[k]
           /\ Append(s, x)[Len(s) + 1] = x
<1>1. Len(s) \in Nat /\ DOMAIN s = 1 .. Len(s) /\ Append(s, x) \in Seq(T)
  OBVIOUS
<1>2. Len(Append(s, x)) = Len(s) + 1 /\ DOMAIN Append(s, x) = 1 .. (Len(s) + 1)
  OBVIOUS
<1>3. QED BY <1>1, <1>2

(* The record of an event: it is logged, and marked for its origin. *)
Appended(S, l, e, n) ==
    /\ n \in LedgerOf(S) /\ Fits(n)
    /\ Len(n.log) = Len(l.log) + 1 /\ Len(n.marks) <= Len(l.marks) + 1
    /\ Logged(n) = Logged(l) \cup {e}
    /\ n.joinBasis = l.joinBasis /\ n.latestPresence = l.latestPresence
    /\ n.checkpoint = l.checkpoint
    /\ [origin |-> e.origin, sequence |-> e.sequence] \in ToSet(n.marks)
    /\ \A m \in ToSet(l.marks) : m.origin # e.origin => m \in ToSet(n.marks)

LEMMA Append1Effect ==
    ASSUME NEW S, Signed(S), NEW l \in LedgerOf(S), Fits(l), NEW e \in S, e \notin Logged(l)
    PROVE  Appended(S, l, e, Append1(l, e))
<1> DEFINE mark == [origin |-> e.origin, sequence |-> e.sequence]
           rest == Without(l.marks, e.origin)
<1>0. mark \in Mark /\ mark.origin = e.origin /\ l.log \in Seq(S) /\ l.marks \in Seq(Mark)
  BY DEF Signed, Mark, LedgerOf
<1>1. /\ Append1(l, e).log = Append(l.log, e) /\ Append1(l, e).marks = Append(rest, mark)
      /\ Append1(l, e).joinBasis = l.joinBasis
      /\ Append1(l, e).latestPresence = l.latestPresence
      /\ Append1(l, e).checkpoint = l.checkpoint
      /\ Append1(l, e).revision = l.revision + 1
  BY DEF Append1, LedgerOf
<1>2. /\ rest \in Seq(Mark) /\ Len(rest) <= Len(l.marks) /\ OneMark(rest)
      /\ \A k \in DOMAIN rest : rest[k].origin # e.origin
      /\ \A j \in DOMAIN l.marks : l.marks[j].origin # e.origin =>
            \E k \in DOMAIN rest : rest[k] = l.marks[j]
  BY <1>0, WithoutEffect DEF Fits
<1> HIDE DEF mark, rest
<1>3. Append(l.log, e) \in Seq(S) /\ Append(rest, mark) \in Seq(Mark)
  BY <1>0, <1>2
<1>4. Append1(l, e) \in LedgerOf(S)
  <2>1. Append1(l, e) = [log |-> Append(l.log, e), marks |-> Append(rest, mark),
                         joinBasis |-> l.joinBasis, latestPresence |-> l.latestPresence,
                         checkpoint |-> l.checkpoint, revision |-> l.revision + 1]
    <3>1. Append1(l, e) = [l EXCEPT !.log = Append(@, e), !.marks = Append(rest, mark),
                                    !.revision = @ + 1]
      BY DEF Append1, mark, rest
    <3>2. QED BY <3>1 DEF LedgerOf
  <2>2. l.revision + 1 \in Nat
    BY DEF LedgerOf
  <2>3. QED BY <1>3, <2>1, <2>2 DEF LedgerOf
<1>5. IsInjective(Append(l.log, e))
  <2>1. \A k \in DOMAIN l.log : l.log[k] # e
    BY DEF Logged, ToSet
  <2>2. QED BY <1>0, <2>1, AppendEffect DEF Fits, IsInjective
<1>6. OneMark(Append(rest, mark))
  BY <1>0, <1>2, AppendEffect DEF OneMark
<1>7. Logged(Append1(l, e)) = Logged(l) \cup {e}
  BY <1>0, <1>1, AppendEffect DEF Logged, ToSet
<1>8. mark \in ToSet(Append(rest, mark))
  BY <1>0, <1>2, AppendEffect DEF ToSet
<1>9. \A m \in ToSet(l.marks) : m.origin # e.origin => m \in ToSet(Append(rest, mark))
  BY <1>0, <1>2, AppendEffect DEF ToSet
<1>10. Len(Append(rest, mark)) <= Len(l.marks) + 1 /\ Len(Append(l.log, e)) = Len(l.log) + 1
  BY <1>0, <1>2, AppendEffect
<1>11. Tracked(Append1(l, e)) = Tracked(l)
  BY <1>1 DEF Tracked, HasBasis
<1>12. QED BY <1>1, <1>4, <1>5, <1>6, <1>7, <1>8, <1>9, <1>10, <1>11 DEF Fits, mark, Appended

(* The indexes after an event: only a join makes its origin one of the tracked. *)
LEMMA IndexedEffect ==
    ASSUME NEW S, Signed(S), NEW l \in LedgerOf(S), Fits(l), NEW e \in S,
           e.kind = "join" /\ ~HasBasis(l, e.origin)
               => Cardinality(Tracked(l)) < MaxTrackedJoins
    PROVE  /\ Indexed(l, e) \in LedgerOf(S) /\ Fits(Indexed(l, e))
           /\ Indexed(l, e).log = l.log /\ Indexed(l, e).marks = l.marks
<1>0. e.origin \in Peers /\ LimitsAssumption
  BY LimitsAssumption DEF Signed
<1>1. CASE e.kind = "join"
  <2> DEFINE n == [l EXCEPT !.joinBasis[e.origin] = e, !.latestPresence[e.origin] = e]
  <2>1. Indexed(l, e) = n
    BY <1>1 DEF Indexed
  <2>2. /\ [l.joinBasis EXCEPT ![e.origin] = e] \in [Peers -> S \cup {None}]
        /\ [l.latestPresence EXCEPT ![e.origin] = e] \in [Peers -> S \cup {None}]
    BY DEF LedgerOf
  <2>3. n = [log |-> l.log, marks |-> l.marks,
             joinBasis |-> [l.joinBasis EXCEPT ![e.origin] = e],
             latestPresence |-> [l.latestPresence EXCEPT ![e.origin] = e],
             checkpoint |-> l.checkpoint, revision |-> l.revision]
    <3> DEFINE m == [l EXCEPT !.joinBasis[e.origin] = e]
    <3>1. m = [log |-> l.log, marks |-> l.marks,
               joinBasis |-> [l.joinBasis EXCEPT ![e.origin] = e],
               latestPresence |-> l.latestPresence,
               checkpoint |-> l.checkpoint, revision |-> l.revision]
      BY DEF LedgerOf
    <3>2. n = [m EXCEPT !.latestPresence[e.origin] = e]
      OBVIOUS
    <3> HIDE DEF m
    <3>3. QED BY <3>1, <3>2
  <2>4. n \in LedgerOf(S)
    BY <2>2, <2>3 DEF LedgerOf
  <2>5. Tracked(n) \subseteq Tracked(l) \cup {e.origin}
    BY <1>0, <2>3 DEF Tracked, HasBasis, LedgerOf
  <2>6. IsFiniteSet(Tracked(l)) /\ Cardinality(Tracked(l)) \in Nat
    BY FS_Subset, FS_CardinalityType, RulesAssumption DEF Tracked
  <2>7. /\ IsFiniteSet(Tracked(l) \cup {e.origin})
        /\ Cardinality(Tracked(l) \cup {e.origin}) =
             IF e.origin \in Tracked(l) THEN Cardinality(Tracked(l))
             ELSE Cardinality(Tracked(l)) + 1
    BY <2>6, FS_AddElement
  <2>8. /\ Cardinality(Tracked(n)) <= Cardinality(Tracked(l) \cup {e.origin})
        /\ Cardinality(Tracked(n)) \in Nat
    BY <2>5, <2>7, FS_Subset, FS_CardinalityType
  <2>9. Cardinality(Tracked(l) \cup {e.origin}) <= MaxTrackedJoins
    <3>1. CASE e.origin \in Tracked(l)
      BY <2>7, <3>1 DEF Fits
    <3>2. CASE e.origin \notin Tracked(l)
      <4>1. Cardinality(Tracked(l)) < MaxTrackedJoins
        BY <1>0, <1>1, <3>2 DEF Tracked
      <4>2. QED BY <2>6, <2>7, <3>2, <4>1, LimitsAssumption
    <3>3. QED BY <3>1, <3>2
  <2>10. Cardinality(Tracked(n)) <= MaxTrackedJoins
    <3>1. Cardinality(Tracked(l) \cup {e.origin}) \in Nat
      BY <2>7, FS_CardinalityType
    <3>2. QED BY <2>8, <2>9, <3>1, LimitsAssumption
  <2>11. n.log = l.log /\ n.marks = l.marks
    BY <2>3
  <2>12. QED BY <2>1, <2>4, <2>10, <2>11 DEF Fits
<1>2. CASE e.kind = "heartbeat"
  <2> DEFINE n == [l EXCEPT !.latestPresence[e.origin] = e]
  <2>1. Indexed(l, e) = n
    BY <1>2 DEF Indexed
  <2>2. [l.latestPresence EXCEPT ![e.origin] = e] \in [Peers -> S \cup {None}]
    BY DEF LedgerOf
  <2>3. n = [log |-> l.log, marks |-> l.marks, joinBasis |-> l.joinBasis,
             latestPresence |-> [l.latestPresence EXCEPT ![e.origin] = e],
             checkpoint |-> l.checkpoint, revision |-> l.revision]
    BY DEF LedgerOf
  <2>4. n \in LedgerOf(S) /\ Tracked(n) = Tracked(l) /\ n.log = l.log /\ n.marks = l.marks
    BY <2>2, <2>3 DEF LedgerOf, Tracked, HasBasis
  <2>5. QED BY <2>1, <2>4 DEF Fits
<1>3. CASE e.kind = "leave"
  BY <1>3, ForgetEffect, ForgetFits DEF Indexed
<1>4. CASE e.kind = "checkpoint"
  <2> DEFINE n == [l EXCEPT !.checkpoint = e]
  <2>1. Indexed(l, e) = n
    BY <1>4 DEF Indexed
  <2>2. n = [log |-> l.log, marks |-> l.marks, joinBasis |-> l.joinBasis,
             latestPresence |-> l.latestPresence, checkpoint |-> e, revision |-> l.revision]
    BY DEF LedgerOf
  <2>3. n \in LedgerOf(S) /\ Tracked(n) = Tracked(l) /\ n.log = l.log /\ n.marks = l.marks
    BY <2>2 DEF LedgerOf, Tracked, HasBasis
  <2>4. QED BY <2>1, <2>3 DEF Fits
<1>5. CASE e.kind \notin {"join", "heartbeat", "leave", "checkpoint"}
  <2>1. Indexed(l, e) = l
    BY <1>5 DEF Indexed
  <2>2. QED BY <2>1
<1>6. QED BY <1>1, <1>2, <1>3, <1>4, <1>5

(* Marks are pruned down to their limit: were all of them active, there would *)
(* be no more of them than origins with a join basis.                        *)
LEMMA PruneMarksEffect ==
    ASSUME NEW S, NEW l \in LedgerOf(S), Fits(l), Len(l.marks) <= MaxTrackedSequences + 1
    PROVE  /\ PruneMarks(l) \in LedgerOf(S) /\ Fits(PruneMarks(l))
           /\ Len(PruneMarks(l).marks) <= MaxTrackedSequences
           /\ PruneMarks(l).log = l.log /\ PruneMarks(l).joinBasis = l.joinBasis
           /\ PruneMarks(l).latestPresence = l.latestPresence
           /\ PruneMarks(l).checkpoint = l.checkpoint
           /\ \A m \in ToSet(l.marks) : HasBasis(l, m.origin) => m \in ToSet(PruneMarks(l).marks)
<1> DEFINE inactive == { k \in DOMAIN l.marks : ~HasBasis(l, l.marks[k].origin) }
<1>0. /\ l.marks \in Seq(Mark) /\ Len(l.marks) \in Nat /\ DOMAIN l.marks = 1 .. Len(l.marks)
      /\ MaxTrackedSequences \in Nat /\ MaxTrackedJoins \in Nat
      /\ MaxTrackedJoins <= MaxTrackedSequences
  BY LimitsAssumption DEF LedgerOf
<1>1. CASE Len(l.marks) <= MaxTrackedSequences
  <2>1. PruneMarks(l) = l
    BY <1>1 DEF PruneMarks
  <2>2. QED BY <1>1, <2>1
<1>2. CASE ~(Len(l.marks) <= MaxTrackedSequences)
  <2>1. inactive # {}
    <3> SUFFICES ASSUME inactive = {} PROVE FALSE
      OBVIOUS
    <3> DEFINE f == [k \in 1 .. Len(l.marks) |-> l.marks[k].origin]
    <3>1. ASSUME NEW k \in 1 .. Len(l.marks) PROVE l.marks[k].origin \in Tracked(l)
      <4>1. l.marks[k] \in Mark
        BY <1>0
      <4>2. HasBasis(l, l.marks[k].origin)
        BY <1>0
      <4>3. QED BY <4>1, <4>2 DEF Tracked, Mark
    <3>2. f \in Injection(1 .. Len(l.marks), Tracked(l))
      BY <1>0, <3>1 DEF Injection, IsInjective, Fits, OneMark
    <3>3. IsFiniteSet(Tracked(l))
      BY FS_Subset, RulesAssumption DEF Tracked
    <3>4. Cardinality(1 .. Len(l.marks)) <= Cardinality(Tracked(l))
      BY <3>2, <3>3, FS_Injection
    <3>5. Cardinality(1 .. Len(l.marks)) = Len(l.marks)
      BY <1>0, FS_Interval
    <3>6. Cardinality(Tracked(l)) \in Nat
      BY <3>3, FS_CardinalityType
    <3>7. QED BY <1>0, <1>2, <3>4, <3>5, <3>6 DEF Fits
  <2> DEFINE i == Min(inactive)
  <2>2. i \in inactive
    <3>1. inactive \subseteq Nat
      BY <1>0
    <3>2. QED BY <2>1, <3>1, LeastNatural
  <2>3. i \in 1 .. Len(l.marks) /\ ~HasBasis(l, l.marks[i].origin)
    BY <1>0, <2>2
  <2>4. PruneMarks(l) = [l EXCEPT !.marks = RemoveAt(@, i)]
    BY <1>2, <2>1 DEF PruneMarks
  <2> HIDE DEF i, inactive
  <2>5. /\ RemoveAt(l.marks, i) \in Seq(Mark) /\ Len(RemoveAt(l.marks, i)) = Len(l.marks) - 1
        /\ OneMark(RemoveAt(l.marks, i))
    <3>1. /\ RemoveAt(l.marks, i) \in Seq(Mark)
          /\ Len(RemoveAt(l.marks, i)) = Len(l.marks) - 1
      BY <1>0, <2>3, RemoveAtEffect
    <3>2. \A k, n \in DOMAIN RemoveAt(l.marks, i) : k # n =>
             \E a, b \in DOMAIN l.marks :
               a # b /\ RemoveAt(l.marks, i)[k] = l.marks[a] /\ RemoveAt(l.marks, i)[n] = l.marks[b]
      BY <1>0, <2>3, RemoveAtRest
    <3>3. OneMark(RemoveAt(l.marks, i))
      BY <3>2 DEF OneMark, Fits
    <3>4. QED BY <3>1, <3>3
  <2>6. PruneMarks(l) = [log |-> l.log, marks |-> RemoveAt(l.marks, i),
             joinBasis |-> l.joinBasis, latestPresence |-> l.latestPresence,
             checkpoint |-> l.checkpoint, revision |-> l.revision]
    BY <2>4 DEF LedgerOf
  <2>7. \A j \in DOMAIN l.marks : j # i =>
           \E k \in DOMAIN RemoveAt(l.marks, i) : RemoveAt(l.marks, i)[k] = l.marks[j]
    BY <1>0, <2>3, RemoveAtRest
  <2>8. \A m \in ToSet(l.marks) : HasBasis(l, m.origin) => m \in ToSet(RemoveAt(l.marks, i))
    BY <2>3, <2>7 DEF ToSet
  <2>9. PruneMarks(l) \in LedgerOf(S)
    BY <2>5, <2>6 DEF LedgerOf
  <2>10. Tracked(PruneMarks(l)) = Tracked(l)
    BY <2>6 DEF Tracked, HasBasis
  <2>11. QED BY <1>0, <2>5, <2>6, <2>8, <2>9, <2>10 DEF Fits
<1>3. QED BY <1>1, <1>2

(* The log is pruned down to its limit, one event at most, which stays if it  *)
(* is protected, as long as another one is loose.                            *)
LEMMA PruneEffect ==
    ASSUME NEW S, NEW l \in LedgerOf(S), Fits(l), Len(l.log) <= MaxRetainedEvents + 1
    PROVE  /\ Prune(l) \in LedgerOf(S) /\ Fits(Prune(l))
           /\ Len(Prune(l).log) <= MaxRetainedEvents
           /\ Prune(l).marks = l.marks /\ Prune(l).joinBasis = l.joinBasis
           /\ Prune(l).latestPresence = l.latestPresence /\ Prune(l).checkpoint = l.checkpoint
           /\ Logged(Prune(l)) \subseteq Logged(l)
           /\ Len(l.log) <= MaxRetainedEvents \/ Loose(l) # {} =>
                 \A e \in Logged(l) : e \in Protected(l) => e \in Logged(Prune(l))
<1> DEFINE i == IF Loose(l) = {} THEN 1 ELSE Min(Loose(l))
<1>0. /\ l.log \in Seq(S) /\ Len(l.log) \in Nat /\ DOMAIN l.log = 1 .. Len(l.log)
      /\ MaxRetainedEvents \in Nat \ {0}
  BY LimitsAssumption DEF LedgerOf
<1>1. CASE Len(l.log) <= MaxRetainedEvents
  <2>1. Prune(l) = l
    BY <1>1 DEF Prune
  <2>2. QED BY <1>1, <2>1
<1>2. CASE ~(Len(l.log) <= MaxRetainedEvents)
  <2>1. i \in 1 .. Len(l.log) /\ (Loose(l) # {} => i \in Loose(l))
    <3>1. CASE Loose(l) = {}
      BY <1>0, <1>2, <3>1
    <3>2. CASE Loose(l) # {}
      <4>1. Loose(l) \subseteq 1 .. Len(l.log) /\ Loose(l) \subseteq Nat
        BY <1>0 DEF Loose
      <4>2. QED BY <3>2, <4>1, LeastNatural
    <3>3. QED BY <3>1, <3>2
  <2>2. Prune(l) = [l EXCEPT !.log = RemoveAt(@, i)]
    BY <1>2 DEF Prune
  <2> HIDE DEF i
  <2>3. Prune(l) = [log |-> RemoveAt(l.log, i), marks |-> l.marks,
             joinBasis |-> l.joinBasis, latestPresence |-> l.latestPresence,
             checkpoint |-> l.checkpoint, revision |-> l.revision]
    BY <2>2 DEF LedgerOf
  <2>4. RemoveAt(l.log, i) \in Seq(S) /\ Len(RemoveAt(l.log, i)) = Len(l.log) - 1
    BY <1>0, <2>1, RemoveAtEffect
  <2>5. /\ \A k \in DOMAIN RemoveAt(l.log, i) : \E j \in DOMAIN l.log :
              RemoveAt(l.log, i)[k] = l.log[j] /\ j # i
        /\ \A k, n \in DOMAIN RemoveAt(l.log, i) : k # n =>
              \E a, b \in DOMAIN l.log :
                 a # b /\ RemoveAt(l.log, i)[k] = l.log[a] /\ RemoveAt(l.log, i)[n] = l.log[b]
        /\ \A j \in DOMAIN l.log : j # i => \E k \in DOMAIN RemoveAt(l.log, i) :
              RemoveAt(l.log, i)[k] = l.log[j]
    BY <1>0, <2>1, RemoveAtRest
  <2>6. IsInjective(RemoveAt(l.log, i))
    BY <2>5 DEF IsInjective, Fits
  <2>7. Logged(Prune(l)) \subseteq Logged(l)
    BY <2>3, <2>5 DEF Logged, ToSet
  <2>8. ASSUME Loose(l) # {}, NEW e \in Logged(l), e \in Protected(l)
        PROVE  e \in Logged(Prune(l))
    <3>1. PICK j \in DOMAIN l.log : l.log[j] = e
      BY DEF Logged, ToSet
    <3>2. j # i
      BY <2>1, <2>8, <3>1 DEF Loose
    <3>3. QED BY <2>3, <2>5, <3>1, <3>2 DEF Logged, ToSet
  <2>9. Prune(l) \in LedgerOf(S)
    BY <2>3, <2>4 DEF LedgerOf
  <2>10. Tracked(Prune(l)) = Tracked(l)
    BY <2>3 DEF Tracked, HasBasis
  <2>11. QED BY <1>0, <1>2, <2>3, <2>4, <2>6, <2>7, <2>8, <2>9, <2>10 DEF Fits
<1>3. QED BY <1>1, <1>2

-----------------------------------------------------------------------------
(* What accept keeps, the whole method: the ledger stays one over the events  *)
(* that were signed, and within its limits.                                  *)
Within(S, l) ==
    /\ l \in LedgerOf(S) /\ Fits(l)
    /\ Len(l.log) <= MaxRetainedEvents /\ Len(l.marks) <= MaxTrackedSequences

LEMMA ForgetWithin ==
    ASSUME NEW S, NEW l, Within(S, l), NEW O
    PROVE  Within(S, Forget(l, O))
<1>1. l \in LedgerOf(S) /\ Fits(l)
  BY DEF Within
<1>2. QED BY <1>1, ForgetEffect, ForgetFits DEF Within

LEMMA AcceptWithin ==
    ASSUME NEW S, Signed(S), NEW l, Within(S, l), NEW e \in S
    PROVE  Within(S, Accept(l, e))
<1> DEFINE current == ExpireIndexes(l, e.issuedAt)
           appended == Append1(current, e)
           indexed == Indexed(appended, e)
           marked == PruneMarks(indexed)
<1>1. CASE e.kind = "sync" \/ e \in Logged(l)
  <2>1. Accept(l, e) = l
    BY <1>1 DEF Accept
  <2>2. QED BY <2>1
<1>2. CASE ~(e.kind = "sync" \/ e \in Logged(l))
  <2>1. Within(S, current) /\ Logged(current) = Logged(l)
    <3>1. l \in LedgerOf(S)
      BY DEF Within
    <3>2. QED BY <3>1, ForgetWithin, ForgetEffect DEF ExpireIndexes, Logged
  <2>2. CASE ~Acceptable(current, e)
    <3>1. Accept(l, e) = current
      BY <1>2, <2>2 DEF Accept
    <3>2. QED BY <2>1, <3>1
  <2>3. CASE Acceptable(current, e)
    <3>1. Accept(l, e) = Prune(marked)
      BY <1>2, <2>3 DEF Accept
    <3>2. e.kind = "join" /\ ~HasBasis(current, e.origin)
             => Cardinality(Tracked(current)) < MaxTrackedJoins
      BY <2>3 DEF Acceptable
    <3> HIDE DEF current
    <3>3. current \in LedgerOf(S) /\ Fits(current) /\ e \notin Logged(current)
      BY <1>2, <2>1 DEF Within
    <3>4. /\ appended \in LedgerOf(S) /\ Fits(appended)
          /\ Len(appended.log) = Len(current.log) + 1
          /\ Len(appended.marks) <= Len(current.marks) + 1
          /\ appended.joinBasis = current.joinBasis
      <4>1. Appended(S, current, e, appended)
        BY <3>3, Append1Effect
      <4>2. QED BY <4>1 DEF Appended
    <3> HIDE DEF appended
    <3>5. e.kind = "join" /\ ~HasBasis(appended, e.origin)
             => Cardinality(Tracked(appended)) < MaxTrackedJoins
      BY <3>2, <3>4 DEF HasBasis, Tracked
    <3>6. /\ indexed \in LedgerOf(S) /\ Fits(indexed)
          /\ indexed.log = appended.log /\ indexed.marks = appended.marks
      BY <3>4, <3>5, IndexedEffect
    <3> HIDE DEF indexed
    <3>7. /\ Len(indexed.marks) <= MaxTrackedSequences + 1
          /\ Len(indexed.log) <= MaxRetainedEvents + 1
      <4>1. /\ Len(current.log) \in Nat /\ Len(current.marks) \in Nat
            /\ Len(appended.marks) \in Nat /\ Len(appended.log) \in Nat
        BY <3>3, <3>4 DEF LedgerOf
      <4>2. MaxTrackedSequences \in Nat /\ MaxRetainedEvents \in Nat
        BY LimitsAssumption
      <4>3. QED BY <2>1, <3>4, <3>6, <4>1, <4>2 DEF Within
    <3>8. /\ marked \in LedgerOf(S) /\ Fits(marked)
          /\ Len(marked.marks) <= MaxTrackedSequences /\ marked.log = indexed.log
      BY <3>6, <3>7, PruneMarksEffect
    <3> HIDE DEF marked
    <3>9. Within(S, Prune(marked))
      BY <3>7, <3>8, PruneEffect DEF Within
    <3>10. QED BY <3>1, <3>9
  <2>4. QED BY <2>2, <2>3
<1>3. QED BY <1>1, <1>2


(* It begins with an empty one. *)
LEMMA EmptyLedgerWithin ==
    ASSUME NEW S
    PROVE  Within(S, EmptyLedger)
<1> DEFINE l == EmptyLedger
<1>1. /\ l.log = <<>> /\ l.marks = <<>> /\ \A p \in Peers : l.joinBasis[p] = None
      /\ l \in LedgerOf(S)
  BY DEF EmptyLedger, LedgerOf
<1>2. Tracked(l) = {}
  BY <1>1 DEF Tracked, HasBasis
<1> HIDE DEF l
<1>3. IsInjective(<<>>) /\ OneMark(<<>>) /\ Len(<<>>) = 0
  BY DEF IsInjective, OneMark
<1>4. Cardinality(Tracked(l)) <= MaxTrackedJoins
  BY <1>2, FS_EmptySet, LimitsAssumption
<1>5. Fits(l)
  BY <1>1, <1>3, <1>4 DEF Fits
<1>6. Within(S, l)
  BY <1>1, <1>3, <1>5, LimitsAssumption DEF Within
<1>7. QED BY <1>6 DEF l

(* More events may have been signed. *)
LEMMA SentGrows ==
    ASSUME NEW S, NEW T, S \subseteq T, NEW l, Within(S, l)
    PROVE  Within(T, l)
<1>1. l.log \in Seq(T)
  BY DEF Within, LedgerOf
<1>2. l \in LedgerOf(T)
  BY <1>1 DEF Within, LedgerOf
<1>3. QED BY <1>2 DEF Within

-----------------------------------------------------------------------------
(* Why something is loose whenever the log is too long: the indexes and the   *)
(* recent chats cannot fill it.                                              *)
LEMMA UnionAtMost ==
    ASSUME NEW A, IsFiniteSet(A), NEW B, IsFiniteSet(B),
           NEW m \in Nat, NEW n \in Nat, Cardinality(A) <= m, Cardinality(B) <= n
    PROVE  IsFiniteSet(A \cup B) /\ Cardinality(A \cup B) <= m + n
<1>1. /\ IsFiniteSet(A \cup B)
      /\ Cardinality(A \cup B) = Cardinality(A) + Cardinality(B) - Cardinality(A \cap B)
  BY FS_Union
<1>2. IsFiniteSet(A \cap B)
  BY FS_Subset
<1>3. Cardinality(A) \in Nat /\ Cardinality(B) \in Nat /\ Cardinality(A \cap B) \in Nat
  BY <1>2, FS_CardinalityType
<1>4. QED BY <1>1, <1>3

(* A function takes at most as many values as its domain has elements. *)
LEMMA ImageAtMost ==
    ASSUME NEW A, IsFiniteSet(A), NEW f
    PROVE  /\ IsFiniteSet({ f[x] : x \in A })
           /\ Cardinality({ f[x] : x \in A }) <= Cardinality(A)
<1> DEFINE g == [x \in A |-> f[x]]
<1>1. g \in Surjection(A, { f[x] : x \in A })
  BY DEF Surjection
<1>2. QED BY <1>1, FS_Surjection

(* Chats are counted from the end of the log: no two have as many after them. *)
LEMMA RecentChatsAtMost ==
    ASSUME NEW T, NEW log \in Seq(T)
    PROVE  /\ IsFiniteSet(RecentChats(log))
           /\ Cardinality(RecentChats(log)) <= MaxRetainedMessages
<1> DEFINE later(k) == { j \in DOMAIN log : j > k /\ log[j].kind = "chat" }
           places == { k \in DOMAIN log :
                         log[k].kind = "chat" /\ Cardinality(later(k)) < MaxRetainedMessages }
           f == [k \in places |-> Cardinality(later(k))]
<1>0. /\ Len(log) \in Nat /\ DOMAIN log = 1 .. Len(log) /\ IsFiniteSet(DOMAIN log)
      /\ MaxRetainedMessages \in Nat \ {0}
  <2>1. Len(log) \in Nat /\ DOMAIN log = 1 .. Len(log)
    OBVIOUS
  <2>2. IsFiniteSet(1 .. Len(log))
    BY <2>1, FS_Interval
  <2>3. QED BY <2>1, <2>2, RulesAssumption
<1>1. \A k \in DOMAIN log : IsFiniteSet(later(k)) /\ Cardinality(later(k)) \in Nat
  BY <1>0, FS_Subset, FS_CardinalityType
<1>2. ASSUME NEW a \in places, NEW b \in places, a < b
      PROVE  Cardinality(later(b)) < Cardinality(later(a))
  <2>1. later(b) \subseteq later(a) /\ b \in later(a) /\ b \notin later(b)
    BY <1>0, <1>2
  <2>2. IsFiniteSet(later(a)) /\ Cardinality(later(a)) \in Nat /\ Cardinality(later(b)) \in Nat
    BY <1>1
  <2> HIDE DEF later
  <2>3. /\ Cardinality(later(b)) <= Cardinality(later(a))
        /\ Cardinality(later(a)) = Cardinality(later(b)) => later(a) = later(b)
    BY <2>1, <2>2, FS_Subset
  <2>4. QED BY <2>1, <2>2, <2>3
<1>3. f \in Injection(places, 0 .. (MaxRetainedMessages - 1))
  <2>1. f \in [places -> 0 .. (MaxRetainedMessages - 1)]
    <3>1. ASSUME NEW k \in places
          PROVE  Cardinality(later(k)) \in 0 .. (MaxRetainedMessages - 1)
      <4>1. Cardinality(later(k)) < MaxRetainedMessages /\ k \in DOMAIN log
        OBVIOUS
      <4>2. Cardinality(later(k)) \in Nat
        BY <1>1, <4>1
      <4> HIDE DEF later
      <4>3. QED BY <1>0, <4>1, <4>2
    <3> HIDE DEF later
    <3>2. QED BY <3>1
  <2>2. ASSUME NEW a \in places, NEW b \in places, f[a] = f[b] PROVE a = b
    <3>1. a \in Nat /\ b \in Nat
      BY <1>0
    <3>2. /\ Cardinality(later(a)) = Cardinality(later(b))
          /\ Cardinality(later(a)) \in Nat /\ Cardinality(later(b)) \in Nat
      BY <1>1, <2>2
    <3> HIDE DEF later, f
    <3>3. ~(a < b)
      BY <1>2, <3>2
    <3>4. ~(b < a)
      BY <1>2, <3>2
    <3>5. QED BY <3>1, <3>3, <3>4
  <2>3. QED BY <2>1, <2>2 DEF Injection, IsInjective
<1>4. /\ IsFiniteSet(0 .. (MaxRetainedMessages - 1))
      /\ Cardinality(0 .. (MaxRetainedMessages - 1)) = MaxRetainedMessages
  BY <1>0, FS_Interval
<1> HIDE DEF f
<1>5. IsFiniteSet(places) /\ Cardinality(places) <= MaxRetainedMessages
  BY <1>3, <1>4, FS_Injection
<1>6. RecentChats(log) = { log[k] : k \in places }
  BY DEF RecentChats
<1> HIDE DEF places
<1>7. QED
  <2>1. /\ IsFiniteSet(RecentChats(log))
        /\ Cardinality(RecentChats(log)) <= Cardinality(places)
    BY <1>5, <1>6, ImageAtMost
  <2>2. Cardinality(RecentChats(log)) \in Nat /\ Cardinality(places) \in Nat
    BY <1>5, <2>1, FS_CardinalityType
  <2>3. QED BY <1>0, <1>5, <2>1, <2>2

LEMMA SomethingLoose ==
    ASSUME NEW S, None \notin S, NEW l \in LedgerOf(S), Fits(l),
           Len(l.log) > MaxRetainedEvents,
           \A p \in Peers : l.latestPresence[p] # None => HasBasis(l, p)
    PROVE  Loose(l) # {}
<1> SUFFICES ASSUME Loose(l) = {} PROVE FALSE
  OBVIOUS
<1> DEFINE T == Tracked(l)
           bases == { l.joinBasis[p] : p \in T }
           latests == { l.latestPresence[p] : p \in T }
           recent == RecentChats(l.log)
           held == ((bases \cup latests) \cup {l.checkpoint}) \cup recent
<1>0. /\ l.log \in Seq(S) /\ Len(l.log) \in Nat /\ DOMAIN l.log = 1 .. Len(l.log)
      /\ MaxTrackedJoins \in Nat /\ MaxRetainedMessages \in Nat /\ MaxRetainedEvents \in Nat
      /\ 2 * MaxTrackedJoins + MaxRetainedMessages + 1 <= MaxRetainedEvents
  BY LimitsAssumption, RulesAssumption DEF LedgerOf
<1>1. ASSUME NEW k \in DOMAIN l.log PROVE l.log[k] \in held
  <2>1. l.log[k] \in Protected(l)
    BY DEF Loose
  <2>2. l.log[k] # None
    BY <1>0
  <2>3. \A p \in Peers : p \notin T => l.joinBasis[p] = None /\ l.latestPresence[p] = None
    BY DEF Tracked, HasBasis
  <2>4. QED BY <2>1, <2>2, <2>3 DEF Protected
<1>2. IsFiniteSet(T) /\ Cardinality(T) \in Nat /\ Cardinality(T) <= MaxTrackedJoins
  BY FS_Subset, FS_CardinalityType, RulesAssumption DEF Tracked, Fits
<1> HIDE DEF T
<1>3. IsFiniteSet(bases) /\ Cardinality(bases) <= Cardinality(T)
  BY <1>2, ImageAtMost
<1>4. IsFiniteSet(latests) /\ Cardinality(latests) <= Cardinality(T)
  BY <1>2, ImageAtMost
<1>5. IsFiniteSet(recent) /\ Cardinality(recent) <= MaxRetainedMessages
  BY <1>0, RecentChatsAtMost
<1> HIDE DEF bases, latests, recent
<1>6. /\ IsFiniteSet(bases \cup latests)
      /\ Cardinality(bases \cup latests) <= Cardinality(T) + Cardinality(T)
  BY <1>2, <1>3, <1>4, UnionAtMost
<1>7. /\ IsFiniteSet((bases \cup latests) \cup {l.checkpoint})
      /\ Cardinality((bases \cup latests) \cup {l.checkpoint})
            <= (Cardinality(T) + Cardinality(T)) + 1
  <2>1. IsFiniteSet({l.checkpoint}) /\ Cardinality({l.checkpoint}) <= 1
    <3>1. IsFiniteSet({l.checkpoint}) /\ Cardinality({l.checkpoint}) = 1
      BY FS_Singleton, Zenon
    <3>2. QED BY <3>1
  <2>2. Cardinality(T) + Cardinality(T) \in Nat /\ 1 \in Nat
    BY <1>2
  <2>3. QED BY <1>6, <2>1, <2>2, UnionAtMost
<1>8. /\ IsFiniteSet(held)
      /\ Cardinality(held) <= ((Cardinality(T) + Cardinality(T)) + 1) + MaxRetainedMessages
  <2>1. (Cardinality(T) + Cardinality(T)) + 1 \in Nat
    BY <1>2
  <2>2. QED BY <1>0, <1>5, <1>7, <2>1, UnionAtMost
<1> HIDE DEF held
<1>9. l.log \in Injection(1 .. Len(l.log), held)
  <2>1. l.log \in [1 .. Len(l.log) -> held]
    BY <1>0, <1>1
  <2>2. QED BY <2>1 DEF Injection, Fits
<1>10. Cardinality(1 .. Len(l.log)) <= Cardinality(held)
  BY <1>8, <1>9, FS_Injection
<1>11. Cardinality(1 .. Len(l.log)) = Len(l.log)
  BY <1>0, FS_Interval
<1>12. Cardinality(held) \in Nat
  BY <1>8, FS_CardinalityType
<1>13. QED BY <1>0, <1>2, <1>8, <1>10, <1>11, <1>12

-----------------------------------------------------------------------------
(* What the indexes point to.  The last conjunct of the first part is what    *)
(* makes a later heartbeat come after the presence it replaces: the mark of  *)
(* an active origin is never pruned.                                         *)
Pointed(l) ==
    /\ \A p \in Peers : HasBasis(l, p) =>
         /\ l.joinBasis[p] \in Logged(l)
         /\ l.joinBasis[p].origin = p /\ l.joinBasis[p].kind = "join"
         /\ l.latestPresence[p] \in Logged(l)
         /\ l.latestPresence[p].origin = p /\ l.latestPresence[p].kind \in Presence
         /\ l.joinBasis[p].sequence <= l.latestPresence[p].sequence
         /\ \E m \in ToSet(l.marks) :
              m.origin = p /\ l.latestPresence[p].sequence <= m.sequence
    /\ \A p \in Peers : l.latestPresence[p] # None => HasBasis(l, p)
    /\ l.checkpoint # None =>
         l.checkpoint \in Logged(l) /\ l.checkpoint.kind = "checkpoint"

LEMMA PointedForget ==
    ASSUME NEW S, NEW l \in LedgerOf(S), NEW O, Pointed(l)
    PROVE  Pointed(Forget(l, O))
<1> DEFINE n == Forget(l, O)
<1>1. /\ n.log = l.log /\ n.marks = l.marks /\ n.checkpoint = l.checkpoint
      /\ \A p \in Peers : n.joinBasis[p] = IF p \in O THEN None ELSE l.joinBasis[p]
      /\ \A p \in Peers : n.latestPresence[p] = IF p \in O THEN None ELSE l.latestPresence[p]
  BY ForgetEffect
<1> HIDE DEF n
<1>2. QED BY <1>1 DEF Pointed, HasBasis, Logged, n

(* An accepted event of an active origin comes after its latest presence. *)
LEMMA AcceptedIsLater ==
    ASSUME NEW S, Signed(S), NEW l \in LedgerOf(S), Fits(l), Pointed(l), NEW e \in S,
           Acceptable(l, e), HasBasis(l, e.origin)
    PROVE  l.latestPresence[e.origin].sequence < e.sequence
<1> DEFINE own == { m \in ToSet(l.marks) : m.origin = e.origin }
<1>0. /\ e.origin \in Peers /\ e.sequence \in Nat /\ ToSet(l.marks) \subseteq Mark
  BY DEF Signed, LedgerOf, ToSet
<1>1. PICK m \in own : l.latestPresence[e.origin].sequence <= m.sequence
  BY <1>0 DEF Pointed
<1>2. \A x, y \in own : x = y
  BY DEF ToSet, Fits, OneMark
<1>3. (CHOOSE x \in own : TRUE) = m
  BY <1>1, <1>2
<1>4. HighWaterMark(l, e.origin) = m.sequence
  BY <1>1, <1>3 DEF HighWaterMark
<1>5. e.sequence > m.sequence
  BY <1>4 DEF Acceptable
<1>6. /\ l.latestPresence[e.origin] \in S /\ m.sequence \in Nat
  <2>1. Logged(l) \subseteq S
    BY DEF Logged, ToSet, LedgerOf
  <2>2. l.latestPresence[e.origin] \in Logged(l)
    BY <1>0 DEF Pointed
  <2>3. m \in Mark
    BY <1>0
  <2>4. QED BY <2>1, <2>2, <2>3 DEF Mark
<1>7. QED BY <1>0, <1>1, <1>5, <1>6 DEF Signed

(* What an event does to the indexes, field by field. *)
LEMMA IndexedFields ==
    ASSUME NEW S, NEW a \in LedgerOf(S), NEW e, e.origin \in Peers
    PROVE  /\ Indexed(a, e).log = a.log /\ Indexed(a, e).marks = a.marks
           /\ Indexed(a, e).checkpoint = IF e.kind = "checkpoint" THEN e ELSE a.checkpoint
           /\ \A p \in Peers \ {e.origin} :
                /\ Indexed(a, e).joinBasis[p] = a.joinBasis[p]
                /\ Indexed(a, e).latestPresence[p] = a.latestPresence[p]
           /\ Indexed(a, e).joinBasis[e.origin] =
                IF e.kind = "join" THEN e ELSE IF e.kind = "leave" THEN None
                ELSE a.joinBasis[e.origin]
           /\ Indexed(a, e).latestPresence[e.origin] =
                IF e.kind \in Presence THEN e ELSE IF e.kind = "leave" THEN None
                ELSE a.latestPresence[e.origin]
<1>1. CASE e.kind = "join"
  <2>1. Indexed(a, e) = [a EXCEPT !.joinBasis[e.origin] = e, !.latestPresence[e.origin] = e]
    BY <1>1 DEF Indexed
  <2>2. QED BY <1>1, <2>1 DEF LedgerOf, Presence
<1>2. CASE e.kind = "heartbeat"
  <2>1. Indexed(a, e) = [a EXCEPT !.latestPresence[e.origin] = e]
    BY <1>2 DEF Indexed
  <2>2. QED BY <1>2, <2>1 DEF LedgerOf, Presence
<1>3. CASE e.kind = "leave"
  <2>1. Indexed(a, e) = Forget(a, {e.origin})
    BY <1>3 DEF Indexed
  <2> DEFINE f == Forget(a, {e.origin})
  <2>2. /\ f.log = a.log /\ f.marks = a.marks /\ f.checkpoint = a.checkpoint
        /\ \A p \in Peers :
             f.joinBasis[p] = IF p \in {e.origin} THEN None ELSE a.joinBasis[p]
        /\ \A p \in Peers :
             f.latestPresence[p] = IF p \in {e.origin} THEN None ELSE a.latestPresence[p]
    BY ForgetEffect
  <2> HIDE DEF f
  <2>3. Indexed(a, e) = f
    BY <2>1 DEF f
  <2>4. QED BY <1>3, <2>2, <2>3 DEF Presence
<1>4. CASE e.kind = "checkpoint"
  <2>1. Indexed(a, e) = [a EXCEPT !.checkpoint = e]
    BY <1>4 DEF Indexed
  <2>2. QED BY <1>4, <2>1 DEF LedgerOf, Presence
<1>5. CASE e.kind \notin {"join", "heartbeat", "leave", "checkpoint"}
  <2>1. Indexed(a, e) = a
    BY <1>5 DEF Indexed
  <2>2. QED BY <1>5, <2>1 DEF Presence
<1>6. QED BY <1>1, <1>2, <1>3, <1>4, <1>5

LEMMA PointedRecorded ==
    ASSUME NEW S, Signed(S), None \notin S, NEW l \in LedgerOf(S), Fits(l), Pointed(l),
           NEW e \in S, Acceptable(l, e), NEW a \in LedgerOf(S), Appended(S, l, e, a)
    PROVE  Pointed(Indexed(a, e))
<1> DEFINE o == e.origin
           n == Indexed(a, e)
           mark == [origin |-> o, sequence |-> e.sequence]
<1>0. o \in Peers /\ e.sequence \in Nat /\ e # None
  BY DEF Signed
<1>1. /\ Logged(a) = Logged(l) \cup {e} /\ mark \in ToSet(a.marks)
      /\ a.joinBasis = l.joinBasis /\ a.latestPresence = l.latestPresence
      /\ a.checkpoint = l.checkpoint
      /\ \A m \in ToSet(l.marks) : m.origin # o => m \in ToSet(a.marks)
      /\ mark.origin = o /\ mark.sequence = e.sequence
  BY DEF Appended
<1>2. HasBasis(l, o) => l.latestPresence[o].sequence < e.sequence
  BY AcceptedIsLater
<1>3. /\ \A p \in Peers : l.joinBasis[p] \in S \cup {None} /\ l.latestPresence[p] \in S \cup {None}
      /\ \A s \in S : s.sequence \in Nat
  BY DEF LedgerOf, Signed
<1> HIDE DEF mark, o
<1>4. /\ n.log = a.log /\ n.marks = a.marks
      /\ n.checkpoint = IF e.kind = "checkpoint" THEN e ELSE a.checkpoint
      /\ \A p \in Peers \ {o} :
           n.joinBasis[p] = a.joinBasis[p] /\ n.latestPresence[p] = a.latestPresence[p]
      /\ n.joinBasis[o] = IF e.kind = "join" THEN e ELSE IF e.kind = "leave" THEN None
                          ELSE a.joinBasis[o]
      /\ n.latestPresence[o] = IF e.kind \in Presence THEN e
                               ELSE IF e.kind = "leave" THEN None ELSE a.latestPresence[o]
  BY <1>0, IndexedFields DEF o
<1>5. Logged(n) = Logged(l) \cup {e}
  BY <1>1, <1>4 DEF Logged
<1> HIDE DEF n
<1>6. ASSUME NEW p \in Peers \ {o}, HasBasis(n, p)
      PROVE  /\ n.joinBasis[p] \in Logged(n)
             /\ n.joinBasis[p].origin = p /\ n.joinBasis[p].kind = "join"
             /\ n.latestPresence[p] \in Logged(n)
             /\ n.latestPresence[p].origin = p /\ n.latestPresence[p].kind \in Presence
             /\ n.joinBasis[p].sequence <= n.latestPresence[p].sequence
             /\ \E m \in ToSet(n.marks) :
                  m.origin = p /\ n.latestPresence[p].sequence <= m.sequence
  <2>1. n.joinBasis[p] = l.joinBasis[p] /\ n.latestPresence[p] = l.latestPresence[p]
    BY <1>1, <1>4
  <2>2. HasBasis(l, p)
    BY <1>6, <2>1 DEF HasBasis
  <2>3. PICK m \in ToSet(l.marks) : m.origin = p /\ l.latestPresence[p].sequence <= m.sequence
    BY <2>2 DEF Pointed
  <2>4. m \in ToSet(n.marks)
    BY <1>1, <1>4, <2>3
  <2>5. QED BY <1>5, <2>1, <2>2, <2>3, <2>4 DEF Pointed
<1>7. ASSUME HasBasis(n, o)
      PROVE  /\ n.joinBasis[o] \in Logged(n)
             /\ n.joinBasis[o].origin = o /\ n.joinBasis[o].kind = "join"
             /\ n.latestPresence[o] \in Logged(n)
             /\ n.latestPresence[o].origin = o /\ n.latestPresence[o].kind \in Presence
             /\ n.joinBasis[o].sequence <= n.latestPresence[o].sequence
             /\ n.latestPresence[o].sequence <= e.sequence
  <2>0. e.origin = o
    BY DEF o
  <2>1. CASE e.kind = "join"
    BY <1>0, <1>4, <1>5, <2>0, <2>1 DEF Presence
  <2>2. CASE e.kind = "heartbeat"
    <3>1. HasBasis(l, o) /\ n.joinBasis[o] = l.joinBasis[o] /\ n.latestPresence[o] = e
      BY <1>1, <1>4, <1>7, <2>2 DEF HasBasis, Presence
    <3>2. /\ l.joinBasis[o] \in Logged(l) /\ l.joinBasis[o].origin = o
          /\ l.joinBasis[o].kind = "join"
          /\ l.joinBasis[o].sequence <= l.latestPresence[o].sequence
          /\ l.latestPresence[o] \in Logged(l)
      BY <1>0, <3>1 DEF Pointed
    <3>3. Logged(l) \subseteq S
      BY DEF Logged, ToSet, LedgerOf
    <3>4. /\ l.joinBasis[o].sequence \in Nat /\ l.latestPresence[o].sequence \in Nat
      BY <1>3, <3>2, <3>3
    <3>5. l.joinBasis[o].sequence <= e.sequence
      BY <1>0, <1>2, <3>1, <3>2, <3>4
    <3>6. QED BY <1>0, <1>5, <2>0, <2>2, <3>1, <3>2, <3>5 DEF Presence
  <2>3. CASE e.kind \notin Presence
    <3>1. e.kind # "leave" /\ e.kind # "join"
      BY <1>4, <1>7, <2>3 DEF HasBasis, Presence
    <3>2. /\ HasBasis(l, o) /\ n.joinBasis[o] = l.joinBasis[o]
          /\ n.latestPresence[o] = l.latestPresence[o]
      BY <1>1, <1>4, <1>7, <2>3, <3>1 DEF HasBasis
    <3>3. Logged(l) \subseteq S
      BY DEF Logged, ToSet, LedgerOf
    <3>4. l.latestPresence[o] \in Logged(l)
      BY <1>0, <3>2 DEF Pointed
    <3>5. l.latestPresence[o].sequence <= e.sequence
      BY <1>0, <1>2, <1>3, <3>2, <3>3, <3>4
    <3>6. QED BY <1>0, <1>5, <3>2, <3>5 DEF Pointed
  <2>4. QED BY <2>1, <2>2, <2>3 DEF Presence
<1>8. HasBasis(n, o) => \E m \in ToSet(n.marks) :
                          m.origin = o /\ n.latestPresence[o].sequence <= m.sequence
  BY <1>1, <1>4, <1>7
<1>9. \A p \in Peers : n.latestPresence[p] # None => HasBasis(n, p)
  <2>1. ASSUME NEW p \in Peers \ {o}, n.latestPresence[p] # None PROVE HasBasis(n, p)
    BY <1>1, <1>4, <2>1 DEF Pointed, HasBasis
  <2>2. ASSUME n.latestPresence[o] # None PROVE HasBasis(n, o)
    <3>1. CASE e.kind = "join"
      BY <1>0, <1>4, <3>1 DEF HasBasis
    <3>2. CASE e.kind # "join"
      <4>1. HasBasis(l, o)
        BY <3>2 DEF Acceptable, o
      <4>2. e.kind # "leave"
        BY <1>4, <2>2 DEF Presence
      <4>3. QED BY <1>1, <1>4, <3>2, <4>1, <4>2 DEF HasBasis
    <3>3. QED BY <3>1, <3>2
  <2>3. QED BY <2>1, <2>2
<1>10. n.checkpoint # None => n.checkpoint \in Logged(n) /\ n.checkpoint.kind = "checkpoint"
  BY <1>1, <1>4, <1>5 DEF Pointed
<1>11. Pointed(n)
  <2>1. ASSUME NEW p \in Peers, HasBasis(n, p)
        PROVE  /\ n.joinBasis[p] \in Logged(n)
               /\ n.joinBasis[p].origin = p /\ n.joinBasis[p].kind = "join"
               /\ n.latestPresence[p] \in Logged(n)
               /\ n.latestPresence[p].origin = p /\ n.latestPresence[p].kind \in Presence
               /\ n.joinBasis[p].sequence <= n.latestPresence[p].sequence
               /\ \E m \in ToSet(n.marks) :
                    m.origin = p /\ n.latestPresence[p].sequence <= m.sequence
    <3>1. CASE p = o
      BY <1>7, <1>8, <2>1, <3>1
    <3>2. CASE p # o
      BY <1>6, <2>1, <3>2
    <3>3. QED BY <3>1, <3>2
  <2>2. QED BY <1>9, <1>10, <2>1 DEF Pointed
<1>12. QED BY <1>11 DEF n

(* Pruning the marks, and one event of the log, leaves what is pointed to. *)
LEMMA PointedPruned ==
    ASSUME NEW S, None \notin S, NEW n \in LedgerOf(S), Fits(n), Pointed(n),
           Len(n.marks) <= MaxTrackedSequences + 1, Len(n.log) <= MaxRetainedEvents + 1
    PROVE  Pointed(Prune(PruneMarks(n)))
<1> DEFINE m == PruneMarks(n)
           r == Prune(m)
<1>1. /\ m \in LedgerOf(S) /\ Fits(m) /\ m.log = n.log /\ m.joinBasis = n.joinBasis
      /\ m.latestPresence = n.latestPresence /\ m.checkpoint = n.checkpoint
      /\ \A x \in ToSet(n.marks) : HasBasis(n, x.origin) => x \in ToSet(m.marks)
  BY PruneMarksEffect
<1> HIDE DEF m
<1>2. Pointed(m)
  BY <1>1 DEF Pointed, HasBasis, Logged
<1>3. Len(m.log) <= MaxRetainedEvents \/ Loose(m) # {}
  <2>1. CASE Len(m.log) > MaxRetainedEvents
    BY <1>1, <1>2, <2>1, SomethingLoose DEF Pointed
  <2>2. CASE ~(Len(m.log) > MaxRetainedEvents)
    <3>1. Len(m.log) \in Nat /\ MaxRetainedEvents \in Nat
      BY <1>1, LimitsAssumption DEF LedgerOf
    <3>2. QED BY <2>2, <3>1
  <2>3. QED BY <2>1, <2>2
<1>4. /\ r.marks = m.marks /\ r.joinBasis = m.joinBasis
      /\ r.latestPresence = m.latestPresence /\ r.checkpoint = m.checkpoint
  BY <1>1, PruneEffect
<1>5. \A e \in Logged(m) : e \in Protected(m) => e \in Logged(r)
  BY <1>1, <1>3, PruneEffect
<1> HIDE DEF r
<1>6. /\ \A p \in Peers : m.joinBasis[p] \in Protected(m) /\ m.latestPresence[p] \in Protected(m)
      /\ m.checkpoint \in Protected(m)
  BY DEF Protected
<1>7. Pointed(r)
  BY <1>2, <1>4, <1>5, <1>6 DEF Pointed, HasBasis
<1>8. QED BY <1>7 DEF m, r

LEMMA AcceptPointed ==
    ASSUME NEW S, Signed(S), None \notin S, NEW l, Within(S, l), Pointed(l), NEW e \in S
    PROVE  Pointed(Accept(l, e))
<1> DEFINE current == ExpireIndexes(l, e.issuedAt)
           appended == Append1(current, e)
           indexed == Indexed(appended, e)
<1>0. l \in LedgerOf(S)
  BY DEF Within
<1>1. /\ Within(S, current) /\ Pointed(current) /\ Logged(current) = Logged(l)
  BY <1>0, ForgetWithin, ForgetEffect, PointedForget DEF ExpireIndexes, Logged
<1>2. CASE e.kind = "sync" \/ e \in Logged(l)
  <2>1. Accept(l, e) = l
    BY <1>2 DEF Accept
  <2>2. QED BY <2>1
<1>3. CASE ~(e.kind = "sync" \/ e \in Logged(l)) /\ ~Acceptable(current, e)
  <2>1. Accept(l, e) = current
    BY <1>3 DEF Accept
  <2>2. QED BY <1>1, <2>1
<1>4. CASE ~(e.kind = "sync" \/ e \in Logged(l)) /\ Acceptable(current, e)
  <2>1. Accept(l, e) = Prune(PruneMarks(indexed))
    BY <1>4 DEF Accept
  <2>2. e.kind = "join" /\ ~HasBasis(current, e.origin)
           => Cardinality(Tracked(current)) < MaxTrackedJoins
    BY <1>4 DEF Acceptable
  <2> HIDE DEF current
  <2>3. /\ current \in LedgerOf(S) /\ Fits(current) /\ e \notin Logged(current)
        /\ Len(current.log) <= MaxRetainedEvents /\ Len(current.marks) <= MaxTrackedSequences
    BY <1>1, <1>4 DEF Within
  <2>4. Appended(S, current, e, appended)
    BY <2>3, Append1Effect
  <2> HIDE DEF appended
  <2>5. /\ appended \in LedgerOf(S) /\ Fits(appended) /\ appended.joinBasis = current.joinBasis
        /\ Len(appended.log) = Len(current.log) + 1
        /\ Len(appended.marks) <= Len(current.marks) + 1
    BY <2>4 DEF Appended
  <2>6. Pointed(indexed)
    BY <1>1, <1>4, <2>3, <2>4, <2>5, PointedRecorded
  <2>7. e.kind = "join" /\ ~HasBasis(appended, e.origin)
           => Cardinality(Tracked(appended)) < MaxTrackedJoins
    BY <2>2, <2>5 DEF HasBasis, Tracked
  <2>8. /\ indexed \in LedgerOf(S) /\ Fits(indexed)
        /\ indexed.log = appended.log /\ indexed.marks = appended.marks
    BY <2>5, <2>7, IndexedEffect
  <2> HIDE DEF indexed
  <2>9. /\ Len(indexed.marks) <= MaxTrackedSequences + 1
        /\ Len(indexed.log) <= MaxRetainedEvents + 1
    <3>1. /\ Len(current.log) \in Nat /\ Len(current.marks) \in Nat
          /\ Len(appended.marks) \in Nat /\ Len(appended.log) \in Nat
      BY <2>3, <2>5 DEF LedgerOf
    <3>2. MaxTrackedSequences \in Nat /\ MaxRetainedEvents \in Nat
      BY LimitsAssumption
    <3>3. QED BY <2>3, <2>5, <2>8, <3>1, <3>2
  <2>10. QED BY <2>1, <2>6, <2>8, <2>9, PointedPruned
<1>5. QED BY <1>2, <1>3, <1>4

-----------------------------------------------------------------------------
(* The marks, as long as none is pruned. *)
Covered(l) ==
    \A e \in Logged(l) : \E m \in ToSet(l.marks) : m.origin = e.origin /\ e.sequence <= m.sequence

LEMMA MarkIsHighWater ==
    ASSUME NEW l, OneMark(l.marks), NEW m \in ToSet(l.marks)
    PROVE  HighWaterMark(l, m.origin) = m.sequence
<1> DEFINE own == { x \in ToSet(l.marks) : x.origin = m.origin }
<1>1. m \in own /\ \A x, y \in own : x = y
  BY DEF ToSet, OneMark
<1>2. (CHOOSE x \in own : TRUE) = m
  BY <1>1
<1>3. QED BY <1>1, <1>2 DEF HighWaterMark

(* No two marks have the same origin, so that there are no more marks than    *)
(* peers, and nothing to prune.                                              *)
LEMMA MarksUnpruned ==
    ASSUME NEW S, NEW l \in LedgerOf(S), Fits(l), Cardinality(Peers) <= MaxTrackedSequences
    PROVE  PruneMarks(l) = l
<1> DEFINE f == [k \in 1 .. Len(l.marks) |-> l.marks[k].origin]
<1>0. /\ l.marks \in Seq(Mark) /\ Len(l.marks) \in Nat /\ DOMAIN l.marks = 1 .. Len(l.marks)
      /\ MaxTrackedSequences \in Nat
  BY LimitsAssumption DEF LedgerOf
<1>1. f \in Injection(1 .. Len(l.marks), Peers)
  <2>1. \A k \in 1 .. Len(l.marks) : l.marks[k].origin \in Peers
    <3>1. \A k \in 1 .. Len(l.marks) : l.marks[k] \in Mark
      BY <1>0
    <3>2. QED BY <3>1 DEF Mark
  <2>2. QED BY <1>0, <2>1 DEF Injection, IsInjective, Fits, OneMark
<1>2. IsFiniteSet(Peers) /\ Cardinality(Peers) \in Nat
  BY RulesAssumption, FS_CardinalityType
<1>3. Cardinality(1 .. Len(l.marks)) <= Cardinality(Peers)
  BY <1>1, <1>2, FS_Injection
<1>4. Cardinality(1 .. Len(l.marks)) = Len(l.marks)
  BY <1>0, FS_Interval
<1>5. Len(l.marks) <= MaxTrackedSequences
  BY <1>0, <1>2, <1>3, <1>4
<1>6. QED BY <1>5 DEF PruneMarks

LEMMA CoveredAppended ==
    ASSUME NEW S, Signed(S), NEW l \in LedgerOf(S), Fits(l), Covered(l), NEW e \in S,
           Acceptable(l, e), NEW a \in LedgerOf(S), Appended(S, l, e, a)
    PROVE  Covered(a)
<1> DEFINE mark == [origin |-> e.origin, sequence |-> e.sequence]
<1>0. /\ Logged(a) = Logged(l) \cup {e} /\ mark \in ToSet(a.marks)
      /\ \A m \in ToSet(l.marks) : m.origin # e.origin => m \in ToSet(a.marks)
      /\ mark.origin = e.origin /\ mark.sequence = e.sequence /\ e.sequence \in Nat
  BY DEF Appended, Signed
<1>1. Logged(l) \subseteq S /\ ToSet(l.marks) \subseteq Mark
  BY DEF Logged, ToSet, LedgerOf
<1> HIDE DEF mark
<1>2. ASSUME NEW f \in Logged(l)
      PROVE  \E m \in ToSet(a.marks) : m.origin = f.origin /\ f.sequence <= m.sequence
  <2>1. PICK m \in ToSet(l.marks) : m.origin = f.origin /\ f.sequence <= m.sequence
    BY DEF Covered
  <2>2. CASE f.origin # e.origin
    BY <1>0, <2>1, <2>2
  <2>3. CASE f.origin = e.origin
    <3>1. HighWaterMark(l, e.origin) = m.sequence
      BY <2>1, <2>3, MarkIsHighWater DEF Fits
    <3>2. e.sequence > m.sequence
      BY <3>1 DEF Acceptable
    <3>3. f.sequence \in Nat /\ m.sequence \in Nat
      BY <1>1 DEF Signed, Mark
    <3>4. f.sequence <= mark.sequence
      BY <1>0, <2>1, <3>2, <3>3
    <3>5. QED BY <1>0, <2>3, <3>4
  <2>4. QED BY <2>2, <2>3
<1>3. \E m \in ToSet(a.marks) : m.origin = e.origin /\ e.sequence <= m.sequence
  BY <1>0
<1>4. QED BY <1>0, <1>2, <1>3 DEF Covered

LEMMA AcceptCovered ==
    ASSUME NEW S, Signed(S), NEW l, Within(S, l), Covered(l), NEW e \in S,
           Cardinality(Peers) <= MaxTrackedSequences
    PROVE  Covered(Accept(l, e))
<1> DEFINE current == ExpireIndexes(l, e.issuedAt)
           appended == Append1(current, e)
           indexed == Indexed(appended, e)
<1>0. l \in LedgerOf(S)
  BY DEF Within
<1>1. /\ Within(S, current) /\ Covered(current) /\ Logged(current) = Logged(l)
  BY <1>0, ForgetWithin, ForgetEffect DEF ExpireIndexes, Logged, Covered
<1>2. CASE e.kind = "sync" \/ e \in Logged(l)
  <2>1. Accept(l, e) = l
    BY <1>2 DEF Accept
  <2>2. QED BY <2>1
<1>3. CASE ~(e.kind = "sync" \/ e \in Logged(l)) /\ ~Acceptable(current, e)
  <2>1. Accept(l, e) = current
    BY <1>3 DEF Accept
  <2>2. QED BY <1>1, <2>1
<1>4. CASE ~(e.kind = "sync" \/ e \in Logged(l)) /\ Acceptable(current, e)
  <2>1. Accept(l, e) = Prune(PruneMarks(indexed))
    BY <1>4 DEF Accept
  <2>2. e.kind = "join" /\ ~HasBasis(current, e.origin)
           => Cardinality(Tracked(current)) < MaxTrackedJoins
    BY <1>4 DEF Acceptable
  <2> HIDE DEF current
  <2>3. /\ current \in LedgerOf(S) /\ Fits(current) /\ e \notin Logged(current)
        /\ Len(current.log) <= MaxRetainedEvents
    BY <1>1, <1>4 DEF Within
  <2>4. Appended(S, current, e, appended)
    BY <2>3, Append1Effect
  <2> HIDE DEF appended
  <2>5. /\ appended \in LedgerOf(S) /\ Fits(appended) /\ appended.joinBasis = current.joinBasis
        /\ Len(appended.log) = Len(current.log) + 1
    BY <2>4 DEF Appended
  <2>6. Covered(appended)
    BY <1>1, <1>4, <2>3, <2>4, <2>5, CoveredAppended
  <2>7. e.kind = "join" /\ ~HasBasis(appended, e.origin)
           => Cardinality(Tracked(appended)) < MaxTrackedJoins
    BY <2>2, <2>5 DEF HasBasis, Tracked
  <2>8. /\ indexed \in LedgerOf(S) /\ Fits(indexed)
        /\ indexed.log = appended.log /\ indexed.marks = appended.marks
    BY <2>5, <2>7, IndexedEffect
  <2> HIDE DEF indexed
  <2>9. Covered(indexed) /\ PruneMarks(indexed) = indexed
    BY <2>6, <2>8, MarksUnpruned DEF Covered, Logged
  <2>10. Len(indexed.log) <= MaxRetainedEvents + 1
    <3>1. Len(current.log) \in Nat /\ Len(appended.log) \in Nat /\ MaxRetainedEvents \in Nat
      BY <2>3, <2>5, LimitsAssumption DEF LedgerOf
    <3>2. QED BY <2>3, <2>5, <2>8, <3>1
  <2>11. Prune(indexed).marks = indexed.marks /\ Logged(Prune(indexed)) \subseteq Logged(indexed)
    BY <2>8, <2>10, PruneEffect
  <2>12. QED BY <2>1, <2>9, <2>11 DEF Covered
<1>5. QED BY <1>2, <1>3, <1>4

-----------------------------------------------------------------------------
(* What was signed: the sequence numbers of an origin are in the order of the *)
(* times of its events.                                                      *)
Ordered(S) ==
    /\ \A e \in S : EventLike(e)
    /\ \A e, f \in S : e.origin = f.origin /\ e.sequence <= f.sequence =>
          e = f \/ (e.sequence < f.sequence /\ e.issuedAt <= f.issuedAt)

(* Any part of it has an order, in which it is replayed. *)
LEMMA OrderedIsLog ==
    ASSUME NEW S, IsFiniteSet(S), Ordered(S), NEW E \in SUBSET S
    PROVE  IsLog(E)
<1>1. ASSUME NEW e \in E, NEW f \in E, e # f PROVE Earlier(e, f) \/ Earlier(f, e)
  <2>1. /\ e.issuedAt \in Nat /\ e.origin \in Nat /\ e.sequence \in Nat
        /\ f.issuedAt \in Nat /\ f.origin \in Nat /\ f.sequence \in Nat
    BY RulesAssumption DEF Ordered, EventLike
  <2>2. e.origin = f.origin => e.sequence < f.sequence \/ f.sequence < e.sequence
    BY <1>1, <2>1 DEF Ordered
  <2>3. QED BY <2>1, <2>2 DEF Earlier
<1>2. QED BY <1>1, FS_Subset DEF IsLog, Ordered

(* What was signed by time t, when no clock is ahead of the host's *)
SignedBy(S, t) == Ordered(S) /\ \A e \in S : e.issuedAt <= t

(* Every presence in the log that is fresh at time t is indexed, by itself or *)
(* a later one, or was followed by a leave that is in the log after it:       *)
(* pruning takes the first loose event, and not the leave before the presence. *)
Fresher(l, f) ==
    HasBasis(l, f.origin) /\ f.sequence <= l.latestPresence[f.origin].sequence
LeftAfter(log, j) ==
    \E k \in DOMAIN log :
        /\ k > j /\ log[k].kind = "leave"
        /\ log[k].origin = log[j].origin /\ log[k].sequence > log[j].sequence
Heeded(l, t) ==
    \A j \in DOMAIN l.log :
        l.log[j].kind \in Presence /\ l.log[j].issuedAt + PresenceTtlMs > t =>
            Fresher(l, l.log[j]) \/ LeftAfter(l.log, j)

(* Expiry at a time that is not later than t forgets no origin with a fresh presence. *)
LEMMA HeededForget ==
    ASSUME NEW S, NEW t \in Nat, SignedBy(S, t), None \notin S,
           NEW l \in LedgerOf(S), Pointed(l), Heeded(l, t),
           NEW at \in Nat, at <= t
    PROVE  Heeded(ExpireIndexes(l, at), t)
<1> DEFINE n == ExpireIndexes(l, at)
<1>1. /\ n.log = l.log
      /\ \A p \in Peers : p \notin Lapsed(l, at) =>
           n.joinBasis[p] = l.joinBasis[p] /\ n.latestPresence[p] = l.latestPresence[p]
  BY ForgetEffect DEF ExpireIndexes
<1> HIDE DEF n
<1>2. PresenceTtlMs \in Nat /\ l.log \in Seq(S) /\ Logged(l) \subseteq S
  BY RulesAssumption DEF LedgerOf, Logged, ToSet
<1>3. ASSUME NEW j \in DOMAIN l.log, l.log[j].kind \in Presence,
             l.log[j].issuedAt + PresenceTtlMs > t, Fresher(l, l.log[j])
      PROVE  Fresher(n, l.log[j])
  <2> DEFINE f == l.log[j]
             latest == l.latestPresence[f.origin]
  <2>1. f \in S /\ f.origin \in Peers /\ f.issuedAt \in Nat
    <3>1. f \in S
      BY <1>2
    <3>2. QED BY <3>1 DEF SignedBy, Ordered, EventLike
  <2>2. latest \in Logged(l) /\ latest.origin = f.origin /\ f.sequence <= latest.sequence
    BY <1>3, <2>1 DEF Pointed, Fresher
  <2>3. latest \in S /\ latest.issuedAt \in Nat
    BY <1>2, <2>2 DEF SignedBy, Ordered, EventLike
  <2>4. f.issuedAt <= latest.issuedAt
    BY <2>1, <2>2, <2>3 DEF SignedBy, Ordered
  <2>5. latest.issuedAt + PresenceTtlMs > t
    <3> HIDE DEF f, latest
    <3>1. f.issuedAt + PresenceTtlMs > t
      BY <1>3 DEF f
    <3>2. QED BY <1>2, <2>1, <2>3, <2>4, <3>1
  <2>6. ~(latest.issuedAt < at - PresenceTtlMs)
    <3> HIDE DEF f, latest
    <3>1. QED BY <1>2, <2>3, <2>5
  <2>7. f.origin \notin Lapsed(l, at)
    BY <2>2, <2>6 DEF Lapsed
  <2>8. QED BY <1>1, <1>3, <2>1, <2>7 DEF Fresher, HasBasis
<1>4. Heeded(n, t)
  BY <1>1, <1>3 DEF Heeded, LeftAfter
<1>5. QED BY <1>4 DEF n

LEMMA HeededRecorded ==
    ASSUME NEW S, Signed(S), None \notin S, NEW t, NEW l \in LedgerOf(S), Fits(l), Pointed(l),
           Heeded(l, t), NEW e \in S, Acceptable(l, e), NEW a \in LedgerOf(S),
           a.log = Append(l.log, e),
           a.joinBasis = l.joinBasis, a.latestPresence = l.latestPresence
    PROVE  Heeded(Indexed(a, e), t)
<1> DEFINE o == e.origin
           n == Indexed(a, e)
           last == Len(l.log) + 1
<1>0. o \in Peers /\ e.sequence \in Nat /\ e # None /\ l.log \in Seq(S) /\ Len(l.log) \in Nat
  BY DEF Signed, LedgerOf
<1>1. /\ DOMAIN a.log = DOMAIN l.log \cup {last} /\ a.log[last] = e
      /\ \A k \in DOMAIN l.log : a.log[k] = l.log[k] /\ k < last
  <2>1. \A k \in DOMAIN l.log : k < last
    BY <1>0
  <2>2. QED BY <1>0, <2>1, AppendEffect
<1>2. HasBasis(l, o) => l.latestPresence[o].sequence < e.sequence
  BY AcceptedIsLater
<1>3. /\ n.log = a.log
      /\ \A p \in Peers \ {o} :
           n.joinBasis[p] = l.joinBasis[p] /\ n.latestPresence[p] = l.latestPresence[p]
      /\ n.joinBasis[o] = IF e.kind = "join" THEN e ELSE IF e.kind = "leave" THEN None
                          ELSE l.joinBasis[o]
      /\ n.latestPresence[o] = IF e.kind \in Presence THEN e
                               ELSE IF e.kind = "leave" THEN None ELSE l.latestPresence[o]
  BY <1>0, IndexedFields
<1> HIDE DEF n, last
<1>4. \A k \in DOMAIN l.log :
         l.log[k] \in S /\ l.log[k].origin \in Peers /\ l.log[k].sequence \in Nat
  BY <1>0 DEF Signed
<1>5. ASSUME NEW j \in DOMAIN l.log, LeftAfter(l.log, j) PROVE LeftAfter(n.log, j)
  BY <1>1, <1>3, <1>5 DEF LeftAfter
<1>6. ASSUME NEW j \in DOMAIN l.log, Fresher(l, l.log[j])
      PROVE  Fresher(n, l.log[j]) \/ LeftAfter(n.log, j)
  <2> DEFINE f == l.log[j]
  <2>1. f.origin \in Peers /\ f.sequence \in Nat /\ HasBasis(l, f.origin)
        /\ f.sequence <= l.latestPresence[f.origin].sequence
    BY <1>4, <1>6 DEF Fresher
  <2>2. CASE f.origin # o
    BY <1>3, <2>1, <2>2 DEF Fresher, HasBasis
  <2>3. CASE f.origin = o
    <3>1. l.latestPresence[o].sequence \in Nat
      <4>1. l.latestPresence[o] \in Logged(l) /\ Logged(l) \subseteq S
        BY <1>0, <2>1, <2>3 DEF Pointed, Logged, ToSet, LedgerOf
      <4>2. QED BY <4>1 DEF Signed
    <3>2. f.sequence < e.sequence
      BY <1>0, <1>2, <2>1, <2>3, <3>1
    <3>3. CASE e.kind \in Presence
      <4>1. HasBasis(n, o) /\ n.latestPresence[o] = e
        BY <1>0, <1>3, <2>1, <2>3, <3>3 DEF HasBasis, Presence
      <4>2. QED BY <1>0, <2>1, <2>3, <3>2, <4>1 DEF Fresher
    <3>4. CASE e.kind = "leave"
      BY <1>0, <1>1, <1>3, <2>1, <2>3, <3>2, <3>4 DEF LeftAfter
    <3>5. CASE e.kind \notin Presence \cup {"leave"}
      BY <1>3, <2>1, <2>3, <3>5 DEF Fresher, HasBasis, Presence
    <3>6. QED BY <3>3, <3>4, <3>5
  <2>4. QED BY <2>2, <2>3
<1>7. ASSUME e.kind \in Presence PROVE Fresher(n, e)
  <2>1. e.kind = "join" \/ HasBasis(l, o)
    BY DEF Acceptable
  <2>2. HasBasis(n, o) /\ n.latestPresence[o] = e
    BY <1>0, <1>3, <1>7, <2>1 DEF HasBasis, Presence
  <2>3. QED BY <1>0, <2>2 DEF Fresher
<1>8. Heeded(n, t)
  <2> SUFFICES ASSUME NEW j \in DOMAIN n.log, n.log[j].kind \in Presence,
                      n.log[j].issuedAt + PresenceTtlMs > t
               PROVE  Fresher(n, n.log[j]) \/ LeftAfter(n.log, j)
    BY DEF Heeded
  <2>1. CASE j = last
    BY <1>1, <1>3, <1>7, <2>1
  <2>2. CASE j \in DOMAIN l.log
    <3>1. n.log[j] = l.log[j]
      BY <1>1, <1>3, <2>2
    <3>2. Fresher(l, l.log[j]) \/ LeftAfter(l.log, j)
      BY <2>2, <3>1 DEF Heeded
    <3>3. QED BY <1>5, <1>6, <2>2, <3>1, <3>2
  <2>3. QED BY <1>1, <1>3, <2>1, <2>2
<1>9. QED BY <1>8 DEF n

(* Pruning takes the first event that nothing protects: a leave only if the   *)
(* presences before it in the log are protected, and so indexed.             *)
LEMMA HeededPruned ==
    ASSUME NEW S, Signed(S), None \notin S, NEW t, NEW n \in LedgerOf(S), Fits(n), Pointed(n),
           Heeded(n, t), Len(n.log) <= MaxRetainedEvents + 1
    PROVE  Heeded(Prune(n), t)
<1> DEFINE r == Prune(n)
           i == Min(Loose(n))
<1>0. /\ n.log \in Seq(S) /\ Len(n.log) \in Nat /\ DOMAIN n.log = 1 .. Len(n.log)
      /\ MaxRetainedEvents \in Nat
  BY LimitsAssumption DEF LedgerOf
<1>1. CASE Len(n.log) <= MaxRetainedEvents
  <2>1. r = n
    BY <1>1 DEF Prune
  <2>2. QED BY <2>1
<1>2. CASE ~(Len(n.log) <= MaxRetainedEvents)
  <2>1. Loose(n) # {}
    <3>1. Len(n.log) > MaxRetainedEvents
      BY <1>0, <1>2
    <3>2. QED BY <3>1, SomethingLoose DEF Pointed
  <2>2. Loose(n) \subseteq Nat
    BY <1>0 DEF Loose
  <2>3. i \in Loose(n) /\ \A k \in Loose(n) : i <= k
    <3>1. i \in Loose(n)
      BY <2>1, <2>2, LeastNatural
    <3>2. i = CHOOSE x \in Loose(n) : \A y \in Loose(n) : x <= y
      BY DEF Min
    <3>3. \E x \in Loose(n) : \A y \in Loose(n) : x <= y
      BY <2>1, <2>2, LeastOfNaturals
    <3>4. QED BY <3>2, <3>3
  <2>4. i \in 1 .. Len(n.log)
    BY <1>0, <2>3 DEF Loose
  <2>5. r = [n EXCEPT !.log = RemoveAt(@, i)]
    BY <1>2, <2>1 DEF Prune
  <2>6. /\ r.log = RemoveAt(n.log, i)
        /\ r.joinBasis = n.joinBasis /\ r.latestPresence = n.latestPresence
    BY <2>5 DEF LedgerOf
  <2> HIDE DEF r, i
  <2>7. /\ DOMAIN r.log = 1 .. (Len(n.log) - 1)
        /\ \A k \in 1 .. (Len(n.log) - 1) : r.log[k] = IF k < i THEN n.log[k] ELSE n.log[k + 1]
    <3>1. /\ RemoveAt(n.log, i) \in Seq(S) /\ Len(RemoveAt(n.log, i)) = Len(n.log) - 1
          /\ \A k \in 1 .. (Len(n.log) - 1) :
                RemoveAt(n.log, i)[k] = IF k < i THEN n.log[k] ELSE n.log[k + 1]
      BY <1>0, <2>4, RemoveAtEffect
    <3>2. DOMAIN RemoveAt(n.log, i) = 1 .. Len(RemoveAt(n.log, i))
      BY <3>1
    <3>3. QED BY <2>6, <3>1, <3>2
  <2>8. ASSUME NEW j \in DOMAIN n.log, n.log[j].kind \in Presence, n.log[j] \in Protected(n)
        PROVE  Fresher(n, n.log[j])
    <3> DEFINE f == n.log[j]
    <3>1. f \in S /\ f # None /\ f.sequence \in Nat
      BY <1>0 DEF Signed
    <3>2. f # n.checkpoint
      BY <2>8, <3>1 DEF Pointed, Presence
    <3>3. f \notin RecentChats(n.log)
      BY <2>8 DEF RecentChats, Presence
    <3>4. PICK p \in Peers : f = n.joinBasis[p] \/ f = n.latestPresence[p]
      BY <2>8, <3>2, <3>3 DEF Protected
    <3>5. HasBasis(n, p)
      BY <3>1, <3>4 DEF Pointed, HasBasis
    <3>6. f.origin = p /\ f.sequence <= n.latestPresence[p].sequence
      BY <3>1, <3>4, <3>5 DEF Pointed
    <3>7. QED BY <3>5, <3>6 DEF Fresher
  <2>9. ASSUME NEW j \in DOMAIN n.log, n.log[j].kind \in Presence, LeftAfter(n.log, j),
               NEW h \in DOMAIN r.log, j = IF h < i THEN h ELSE h + 1
        PROVE  Fresher(n, n.log[j]) \/ LeftAfter(r.log, h)
    <3>1. PICK k \in DOMAIN n.log :
             /\ k > j /\ n.log[k].kind = "leave"
             /\ n.log[k].origin = n.log[j].origin /\ n.log[k].sequence > n.log[j].sequence
      BY <2>9 DEF LeftAfter
    <3>2. CASE k = i
      <4>1. j \notin Loose(n)
        BY <1>0, <2>3, <2>4, <3>1, <3>2
      <4>2. QED BY <2>8, <2>9, <4>1 DEF Loose
    <3>3. CASE k # i
      <4>1. \E x \in DOMAIN r.log : r.log[x] = n.log[k] /\ x > h
        <5>1. CASE k < i
          BY <1>0, <2>4, <2>7, <2>9, <3>1, <5>1
        <5>2. CASE k > i
          <6>1. k - 1 \in DOMAIN r.log /\ k - 1 > h /\ ~(k - 1 < i) /\ (k - 1) + 1 = k
            BY <1>0, <2>4, <2>7, <2>9, <3>1, <5>2
          <6>2. QED BY <2>7, <6>1
        <5>3. QED BY <1>0, <2>4, <3>3, <5>1, <5>2
      <4>2. r.log[h] = n.log[j]
        BY <2>7, <2>9
      <4>3. QED BY <3>1, <4>1, <4>2 DEF LeftAfter
    <3>4. QED BY <3>2, <3>3
  <2>10. Heeded(r, t)
    <3> SUFFICES ASSUME NEW h \in DOMAIN r.log, r.log[h].kind \in Presence,
                        r.log[h].issuedAt + PresenceTtlMs > t
                 PROVE  Fresher(r, r.log[h]) \/ LeftAfter(r.log, h)
      BY DEF Heeded
    <3>1. PICK j : j = IF h < i THEN h ELSE h + 1
      OBVIOUS
    <3>2. j \in DOMAIN n.log /\ r.log[h] = n.log[j]
      BY <1>0, <2>4, <2>7, <3>1
    <3>3. Fresher(n, n.log[j]) \/ LeftAfter(n.log, j)
      BY <3>2 DEF Heeded
    <3>4. Fresher(n, n.log[j]) \/ LeftAfter(r.log, h)
      BY <2>9, <3>1, <3>2, <3>3
    <3>5. QED BY <2>6, <3>2, <3>4 DEF Fresher, HasBasis
  <2>11. QED BY <2>10 DEF r
<1>3. QED BY <1>1, <1>2

LEMMA AcceptHeeded ==
    ASSUME NEW S, Signed(S), None \notin S, NEW t \in Nat, SignedBy(S, t),
           NEW l, Within(S, l), Pointed(l), Heeded(l, t), NEW e \in S
    PROVE  Heeded(Accept(l, e), t)
<1> DEFINE current == ExpireIndexes(l, e.issuedAt)
           appended == Append1(current, e)
           indexed == Indexed(appended, e)
           marked == PruneMarks(indexed)
<1>0. l \in LedgerOf(S) /\ e.issuedAt \in Nat /\ e.issuedAt <= t
  BY DEF Within, SignedBy, Ordered, EventLike
<1>1. /\ Within(S, current) /\ Pointed(current) /\ Logged(current) = Logged(l)
  BY <1>0, ForgetWithin, ForgetEffect, PointedForget DEF ExpireIndexes, Logged
<1>2. Heeded(current, t)
  BY <1>0, HeededForget
<1>3. CASE e.kind = "sync" \/ e \in Logged(l)
  <2>1. Accept(l, e) = l
    BY <1>3 DEF Accept
  <2>2. QED BY <2>1
<1>4. CASE ~(e.kind = "sync" \/ e \in Logged(l)) /\ ~Acceptable(current, e)
  <2>1. Accept(l, e) = current
    BY <1>4 DEF Accept
  <2>2. QED BY <1>2, <2>1
<1>5. CASE ~(e.kind = "sync" \/ e \in Logged(l)) /\ Acceptable(current, e)
  <2>1. Accept(l, e) = Prune(marked)
    BY <1>5 DEF Accept
  <2>2. e.kind = "join" /\ ~HasBasis(current, e.origin)
           => Cardinality(Tracked(current)) < MaxTrackedJoins
    BY <1>5 DEF Acceptable
  <2> HIDE DEF current
  <2>3. /\ current \in LedgerOf(S) /\ Fits(current) /\ e \notin Logged(current)
        /\ Len(current.log) <= MaxRetainedEvents /\ Len(current.marks) <= MaxTrackedSequences
    BY <1>1, <1>5 DEF Within
  <2>4. Appended(S, current, e, appended)
    BY <2>3, Append1Effect
  <2>5. appended.log = Append(current.log, e)
    BY <2>3 DEF Append1, LedgerOf
  <2> HIDE DEF appended
  <2>6. /\ appended \in LedgerOf(S) /\ Fits(appended) /\ appended.joinBasis = current.joinBasis
        /\ appended.latestPresence = current.latestPresence
        /\ Len(appended.log) = Len(current.log) + 1
        /\ Len(appended.marks) <= Len(current.marks) + 1
    BY <2>4 DEF Appended
  <2>7. Pointed(indexed)
    BY <1>1, <1>5, <2>3, <2>4, <2>6, PointedRecorded
  <2>8. Heeded(indexed, t)
    BY <1>1, <1>2, <1>5, <2>3, <2>5, <2>6, HeededRecorded
  <2>9. e.kind = "join" /\ ~HasBasis(appended, e.origin)
           => Cardinality(Tracked(appended)) < MaxTrackedJoins
    BY <2>2, <2>6 DEF HasBasis, Tracked
  <2>10. /\ indexed \in LedgerOf(S) /\ Fits(indexed)
         /\ indexed.log = appended.log /\ indexed.marks = appended.marks
    BY <2>6, <2>9, IndexedEffect
  <2> HIDE DEF indexed
  <2>11. /\ Len(indexed.marks) <= MaxTrackedSequences + 1
         /\ Len(indexed.log) <= MaxRetainedEvents + 1
    <3>1. /\ Len(current.log) \in Nat /\ Len(current.marks) \in Nat
          /\ Len(appended.marks) \in Nat /\ Len(appended.log) \in Nat
      BY <2>3, <2>6 DEF LedgerOf
    <3>2. MaxTrackedSequences \in Nat /\ MaxRetainedEvents \in Nat
      BY LimitsAssumption
    <3>3. QED BY <2>3, <2>6, <2>10, <3>1, <3>2
  <2>12. /\ marked \in LedgerOf(S) /\ Fits(marked) /\ marked.log = indexed.log
         /\ marked.joinBasis = indexed.joinBasis
         /\ marked.latestPresence = indexed.latestPresence
         /\ marked.checkpoint = indexed.checkpoint
         /\ \A m \in ToSet(indexed.marks) :
               HasBasis(indexed, m.origin) => m \in ToSet(marked.marks)
    BY <2>10, <2>11, PruneMarksEffect
  <2> HIDE DEF marked
  <2>13. Pointed(marked)
    BY <2>7, <2>12 DEF Pointed, HasBasis, Logged
  <2>14. Heeded(marked, t)
    BY <2>8, <2>12 DEF Heeded, Fresher, HasBasis
  <2>15. QED BY <2>1, <2>11, <2>12, <2>13, <2>14, HeededPruned
<1>6. QED BY <1>3, <1>4, <1>5

(* Whoever the hall holds is indexed with the presence that it rests on, which *)
(* is fresh.                                                                 *)
LEMMA HallIsIndexed ==
    ASSUME NEW S, IsFiniteSet(S), NEW t \in Nat, SignedBy(S, t),
           NEW l, Within(S, l), Pointed(l), Heeded(l, t), NEW r \in Entries(HallAt(l, t))
    PROVE  /\ HasBasis(l, r.peerId)
           /\ r.lastPresenceAt = l.latestPresence[r.peerId].issuedAt
           /\ r.lastPresenceAt + PresenceTtlMs > t
<1> DEFINE latest == l.latestPresence[r.peerId]
<1>0. /\ t \in Nat /\ l \in LedgerOf(S) /\ Logged(l) \subseteq S
      /\ SignedBy(S, t) /\ Pointed(l) /\ Heeded(l, t)
  BY DEF Within, LedgerOf, Logged, ToSet
<1>1. RestsOn(r, Logged(l)) /\ r.lastPresenceAt + PresenceTtlMs > t
  <2>1. t \in Int
    BY <1>0
  <2>2. IsLog(Logged(l))
    BY <1>0, OrderedIsLog DEF SignedBy
  <2>3. QED BY <2>1, <2>2, PresenceBacked DEF HallAt
<1>2. PICK f \in Logged(l) :
         /\ f.origin = r.peerId /\ f.kind \in Presence /\ f.issuedAt = r.lastPresenceAt
         /\ \A g \in Logged(l) :
              g.origin = f.origin /\ g.kind \in {"join", "heartbeat", "leave"}
                  => g = f \/ Earlier(g, f)
  BY <1>1 DEF RestsOn, Presence
<1>3. PICK j \in DOMAIN l.log : l.log[j] = f
  BY DEF Logged, ToSet
<1>4. ASSUME NEW g \in Logged(l), g.origin = f.origin, f.sequence <= g.sequence, g # f
      PROVE  ~Earlier(g, f)
  <2>1. f.sequence < g.sequence /\ f.issuedAt <= g.issuedAt
    BY <1>0, <1>4 DEF SignedBy, Ordered
  <2>2. /\ f.issuedAt \in Nat /\ f.origin \in Nat /\ f.sequence \in Nat
        /\ g.issuedAt \in Nat /\ g.origin \in Nat /\ g.sequence \in Nat
    BY <1>0, RulesAssumption DEF SignedBy, Ordered, EventLike
  <2>3. QED BY <1>4, <2>1, <2>2 DEF Earlier
<1>5. ~LeftAfter(l.log, j)
  <2> SUFFICES ASSUME NEW k \in DOMAIN l.log, l.log[k].kind = "leave",
                      l.log[k].origin = f.origin, l.log[k].sequence > f.sequence
               PROVE  FALSE
    BY <1>3 DEF LeftAfter
  <2>1. l.log[k] \in Logged(l)
    BY DEF Logged, ToSet
  <2>2. f.sequence \in Nat /\ l.log[k].sequence \in Nat
    BY <1>0, <2>1 DEF SignedBy, Ordered, EventLike
  <2>3. f.sequence <= l.log[k].sequence /\ l.log[k] # f
    BY <2>2
  <2>4. QED BY <1>2, <1>4, <2>1, <2>3
<1>6. Fresher(l, f)
  BY <1>0, <1>1, <1>2, <1>3, <1>5 DEF Heeded
<1>7. HasBasis(l, f.origin) /\ f.sequence <= latest.sequence /\ f.origin \in Peers
  BY <1>0, <1>2, <1>6 DEF Fresher, SignedBy, Ordered, EventLike
<1>8. latest \in Logged(l) /\ latest.origin = f.origin /\ latest.kind \in Presence
  BY <1>0, <1>2, <1>7 DEF Pointed
<1>9. latest = f
  BY <1>2, <1>4, <1>7, <1>8 DEF Presence
<1>10. QED BY <1>1, <1>2, <1>7, <1>9

-----------------------------------------------------------------------------
(* What accept may leave of the log and of the marks, and what it makes of the *)
(* indexes of an event's origin.                                             *)
LEMMA MarksFromWithout ==
    ASSUME NEW marks \in Seq(Mark), NEW p, NEW mark \in Mark
    PROVE  \A m \in ToSet(Append(Without(marks, p), mark)) : m \in ToSet(marks) \/ m = mark
<1> DEFINE own == { k \in DOMAIN marks : marks[k].origin = p }
           rest == Without(marks, p)
<1>1. rest \in Seq(Mark) /\ \A k \in DOMAIN rest : \E j \in DOMAIN marks : rest[k] = marks[j]
  <2>1. CASE own = {}
    BY <2>1 DEF Without
  <2>2. CASE own # {}
    <3>1. own \subseteq Nat /\ DOMAIN marks = 1 .. Len(marks)
      OBVIOUS
    <3>2. Min(own) \in own
      BY <2>2, <3>1, LeastNatural
    <3>3. Min(own) \in 1 .. Len(marks) /\ rest = RemoveAt(marks, Min(own))
      BY <2>2, <3>1, <3>2 DEF Without
    <3> HIDE DEF own, rest
    <3>4. QED BY <3>3, RemoveAtEffect, RemoveAtRest
  <2>3. QED BY <2>1, <2>2
<1> HIDE DEF rest
<1>2. QED BY <1>1, AppendEffect DEF ToSet, rest

LEMMA PruneMarksDrops ==
    ASSUME NEW S, NEW l \in LedgerOf(S)
    PROVE  ToSet(PruneMarks(l).marks) \subseteq ToSet(l.marks)
<1> DEFINE inactive == { k \in DOMAIN l.marks : ~HasBasis(l, l.marks[k].origin) }
<1>0. l.marks \in Seq(Mark)
  BY DEF LedgerOf
<1>1. CASE Len(l.marks) <= MaxTrackedSequences \/ inactive = {}
  BY <1>1 DEF PruneMarks
<1>2. CASE ~(Len(l.marks) <= MaxTrackedSequences \/ inactive = {})
  <2>1. inactive \subseteq Nat /\ DOMAIN l.marks = 1 .. Len(l.marks)
    BY <1>0
  <2>2. Min(inactive) \in inactive
    BY <1>2, <2>1, LeastNatural
  <2> DEFINE i == Min(inactive)
  <2>3. i \in 1 .. Len(l.marks)
    BY <2>1, <2>2
  <2>4. PruneMarks(l) = [l EXCEPT !.marks = RemoveAt(@, i)]
    BY <1>2 DEF PruneMarks
  <2> HIDE DEF i, inactive
  <2>5. PruneMarks(l).marks = RemoveAt(l.marks, i)
    BY <2>4 DEF LedgerOf
  <2>6. QED BY <1>0, <2>3, <2>5, RemoveAtRest DEF ToSet
<1>3. QED BY <1>1, <1>2

LEMMA AcceptEffect ==
    ASSUME NEW S, Signed(S), NEW l, Within(S, l), NEW e \in S,
           e.kind # "sync", e \notin Logged(l),
           NEW c, c = ExpireIndexes(l, e.issuedAt), NEW n, n = Accept(l, e)
    PROVE  /\ ~Acceptable(c, e) => n = c
           /\ Logged(n) \subseteq Logged(l) \cup {e}
           /\ \A m \in ToSet(n.marks) :
                m \in ToSet(l.marks) \/ (m.origin = e.origin /\ m.sequence = e.sequence)
           /\ Acceptable(c, e) =>
                /\ n.joinBasis[e.origin] =
                     IF e.kind = "join" THEN e ELSE IF e.kind = "leave" THEN None
                     ELSE c.joinBasis[e.origin]
                /\ n.latestPresence[e.origin] =
                     IF e.kind \in Presence THEN e ELSE IF e.kind = "leave" THEN None
                     ELSE c.latestPresence[e.origin]
<1> DEFINE appended == Append1(c, e)
           indexed == Indexed(appended, e)
           marked == PruneMarks(indexed)
<1>1. Within(S, c) /\ Logged(c) = Logged(l) /\ c.marks = l.marks
  <2>1. l \in LedgerOf(S)
    BY DEF Within
  <2>2. QED BY <2>1, ForgetWithin, ForgetEffect DEF ExpireIndexes, Logged
<1>2. ~Acceptable(c, e) => n = c
  BY DEF Accept
<1>3. CASE ~Acceptable(c, e)
  BY <1>1, <1>2, <1>3
<1>4. CASE Acceptable(c, e)
  <2>1. n = Prune(marked)
    BY <1>4 DEF Accept
  <2>2. e.kind = "join" /\ ~HasBasis(c, e.origin)
           => Cardinality(Tracked(c)) < MaxTrackedJoins
    BY <1>4 DEF Acceptable
  <2>3. /\ c \in LedgerOf(S) /\ Fits(c) /\ e \notin Logged(c)
        /\ Len(c.log) <= MaxRetainedEvents /\ Len(c.marks) <= MaxTrackedSequences
    BY <1>1 DEF Within
  <2>4. Appended(S, c, e, appended)
    BY <2>3, Append1Effect
  <2>5. \A m \in ToSet(appended.marks) :
           m \in ToSet(l.marks) \/ (m.origin = e.origin /\ m.sequence = e.sequence)
    <3> DEFINE mark == [origin |-> e.origin, sequence |-> e.sequence]
    <3>1. appended.marks = Append(Without(c.marks, e.origin), mark)
      BY <2>3 DEF Append1, LedgerOf
    <3>2. mark \in Mark /\ c.marks \in Seq(Mark)
      BY <2>3 DEF Signed, Mark, LedgerOf
    <3>3. mark.origin = e.origin /\ mark.sequence = e.sequence
      OBVIOUS
    <3> HIDE DEF mark, appended
    <3>4. QED BY <1>1, <3>1, <3>2, <3>3, MarksFromWithout
  <2> HIDE DEF appended
  <2>6. /\ appended \in LedgerOf(S) /\ Fits(appended) /\ appended.joinBasis = c.joinBasis
        /\ appended.latestPresence = c.latestPresence
        /\ Len(appended.log) = Len(c.log) + 1
        /\ Len(appended.marks) <= Len(c.marks) + 1
        /\ Logged(appended) = Logged(l) \cup {e}
    BY <1>1, <2>4 DEF Appended
  <2>7. e.kind = "join" /\ ~HasBasis(appended, e.origin)
           => Cardinality(Tracked(appended)) < MaxTrackedJoins
    BY <2>2, <2>6 DEF HasBasis, Tracked
  <2>8. /\ indexed \in LedgerOf(S) /\ Fits(indexed)
        /\ indexed.log = appended.log /\ indexed.marks = appended.marks
    BY <2>6, <2>7, IndexedEffect
  <2>9. /\ indexed.joinBasis[e.origin] =
             IF e.kind = "join" THEN e ELSE IF e.kind = "leave" THEN None
             ELSE c.joinBasis[e.origin]
        /\ indexed.latestPresence[e.origin] =
             IF e.kind \in Presence THEN e ELSE IF e.kind = "leave" THEN None
             ELSE c.latestPresence[e.origin]
    BY <2>6, IndexedFields DEF Signed
  <2> HIDE DEF indexed
  <2>10. /\ Len(indexed.marks) <= MaxTrackedSequences + 1
         /\ Len(indexed.log) <= MaxRetainedEvents + 1
    <3>1. /\ Len(c.log) \in Nat /\ Len(c.marks) \in Nat
          /\ Len(appended.marks) \in Nat /\ Len(appended.log) \in Nat
      BY <2>3, <2>6 DEF LedgerOf
    <3>2. MaxTrackedSequences \in Nat /\ MaxRetainedEvents \in Nat
      BY LimitsAssumption
    <3>3. QED BY <2>3, <2>6, <2>8, <3>1, <3>2
  <2>11. /\ marked \in LedgerOf(S) /\ Fits(marked) /\ marked.log = indexed.log
         /\ marked.joinBasis = indexed.joinBasis
         /\ marked.latestPresence = indexed.latestPresence
         /\ ToSet(marked.marks) \subseteq ToSet(indexed.marks)
    BY <2>8, <2>10, PruneMarksEffect, PruneMarksDrops
  <2> HIDE DEF marked
  <2>12. /\ Prune(marked).marks = marked.marks /\ Prune(marked).joinBasis = marked.joinBasis
         /\ Prune(marked).latestPresence = marked.latestPresence
         /\ Logged(Prune(marked)) \subseteq Logged(marked)
    BY <2>10, <2>11, PruneEffect
  <2>13. Logged(n) \subseteq Logged(l) \cup {e}
    BY <2>1, <2>6, <2>8, <2>11, <2>12 DEF Logged
  <2>14. \A m \in ToSet(n.marks) :
           m \in ToSet(l.marks) \/ (m.origin = e.origin /\ m.sequence = e.sequence)
    BY <2>1, <2>5, <2>8, <2>11, <2>12
  <2>15. QED BY <1>4, <2>1, <2>9, <2>11, <2>12, <2>13, <2>14
<1>5. QED BY <1>3, <1>4

-----------------------------------------------------------------------------
(* Each event is in the log once. *)
LEMMA LogLength ==
    ASSUME NEW S, NEW l, Within(S, l)
    PROVE  /\ IsFiniteSet(Logged(l)) /\ Cardinality(Logged(l)) = Len(l.log)
           /\ Len(l.log) \in Nat
<1> DEFINE n == Len(l.log)
<1>1. l.log \in Seq(S) /\ IsInjective(l.log)
  BY DEF Within, LedgerOf, Fits
<1>2. n \in Nat /\ DOMAIN l.log = 1 .. n
  BY <1>1
<1>3. l.log \in Bijection(1 .. n, Logged(l))
  <2>1. l.log \in [1 .. n -> Logged(l)]
    BY <1>1, <1>2 DEF Logged, ToSet
  <2>2. \A a, b \in 1 .. n : l.log[a] = l.log[b] => a = b
    BY <1>1, <1>2 DEF IsInjective
  <2>3. \A y \in Logged(l) : \E a \in 1 .. n : l.log[a] = y
    BY <1>2 DEF Logged, ToSet
  <2>4. QED BY <2>1, <2>2, <2>3 DEF Bijection, Injection, Surjection, IsInjective
<1>4. ExistsBijection(1 .. n, Logged(l))
  BY <1>3 DEF ExistsBijection
<1>5. Cardinality(Logged(l)) = n
  BY <1>2, <1>4, FS_CountingElements
<1>6. IsFiniteSet(Logged(l))
  BY <1>2, <1>4, FS_NatBijection
<1>7. QED BY <1>2, <1>5, <1>6

(* What admissionError promises.  While the log has room nothing is pruned:   *)
(* an accepted event is all that the log gains, and it loses nothing.         *)
LEMMA AcceptLogs ==
    ASSUME NEW S, Signed(S), NEW l, Within(S, l), NEW e \in S, Len(l.log) < MaxRetainedEvents
    PROVE  Logged(Accept(l, e)) \in {Logged(l), Logged(l) \cup {e}}
<1> DEFINE current == ExpireIndexes(l, e.issuedAt)
           appended == Append1(current, e)
           indexed == Indexed(appended, e)
           marked == PruneMarks(indexed)
<1>1. /\ Within(S, current) /\ Logged(current) = Logged(l)
      /\ Len(current.log) < MaxRetainedEvents
  <2>1. l \in LedgerOf(S)
    BY DEF Within
  <2>2. QED BY <2>1, ForgetWithin, ForgetEffect DEF ExpireIndexes, Logged
<1>2. CASE e.kind = "sync" \/ e \in Logged(l)
  BY <1>2 DEF Accept
<1>3. CASE ~(e.kind = "sync" \/ e \in Logged(l)) /\ ~Acceptable(current, e)
  BY <1>1, <1>3 DEF Accept
<1>4. CASE ~(e.kind = "sync" \/ e \in Logged(l)) /\ Acceptable(current, e)
  <2>1. Accept(l, e) = Prune(marked)
    BY <1>4 DEF Accept
  <2>2. e.kind = "join" /\ ~HasBasis(current, e.origin)
           => Cardinality(Tracked(current)) < MaxTrackedJoins
    BY <1>4 DEF Acceptable
  <2> HIDE DEF current
  <2>3. /\ current \in LedgerOf(S) /\ Fits(current) /\ e \notin Logged(current)
        /\ Len(current.marks) <= MaxTrackedSequences
    BY <1>1, <1>4 DEF Within
  <2>4. Appended(S, current, e, appended)
    BY <2>3, Append1Effect
  <2> HIDE DEF appended
  <2>5. /\ appended \in LedgerOf(S) /\ Fits(appended) /\ appended.joinBasis = current.joinBasis
        /\ Len(appended.log) = Len(current.log) + 1
        /\ Len(appended.marks) <= Len(current.marks) + 1
        /\ Logged(appended) = Logged(l) \cup {e}
    BY <1>1, <2>4 DEF Appended
  <2>6. e.kind = "join" /\ ~HasBasis(appended, e.origin)
           => Cardinality(Tracked(appended)) < MaxTrackedJoins
    BY <2>2, <2>5 DEF HasBasis, Tracked
  <2>7. /\ indexed \in LedgerOf(S) /\ Fits(indexed)
        /\ indexed.log = appended.log /\ indexed.marks = appended.marks
    BY <2>5, <2>6, IndexedEffect
  <2> HIDE DEF indexed
  <2>8. /\ Len(indexed.marks) <= MaxTrackedSequences + 1
        /\ Len(indexed.log) <= MaxRetainedEvents
    <3>1. /\ Len(current.log) \in Nat /\ Len(current.marks) \in Nat
          /\ Len(appended.marks) \in Nat /\ Len(appended.log) \in Nat
      BY <2>3, <2>5 DEF LedgerOf
    <3>2. MaxTrackedSequences \in Nat /\ MaxRetainedEvents \in Nat
      BY LimitsAssumption
    <3>3. QED BY <1>1, <2>3, <2>5, <2>7, <3>1, <3>2
  <2>9. marked.log = indexed.log
    BY <2>7, <2>8, PruneMarksEffect
  <2> HIDE DEF marked
  <2>10. Prune(marked) = marked
    BY <2>8, <2>9 DEF Prune
  <2>11. QED BY <2>1, <2>5, <2>7, <2>9, <2>10 DEF Logged
<1>5. QED BY <1>2, <1>3, <1>4

(* A hall of which admissionError reports nothing admits the peer.            *)
LEMMA NoErrorAdmits ==
    ASSUME None \notin {"HALL_COOLDOWN", "HALL_FULL"},
           NEW l, NEW peer \in Peers, NEW at \in Nat,
           NEW hall, hall = HallAt(l, at), hall \in Halls, Single(hall),
           AdmissionError(l, peer, at) = None
    PROVE  peer \in Participants(hall) \/ Admissible(hall, peer, at)
<1> SUFFICES ASSUME peer \notin Participants(hall) PROVE Admissible(hall, peer, at)
  OBVIOUS
<1>1. /\ ~(hall.cooldownUntil[peer] > at)
      /\ ~(Cardinality(hall.queue) + Cardinality(TakenSeats(hall)) >= Capacity)
  BY DEF AdmissionError
<1>2. IsFiniteSet(hall.queue)
  BY OneEachIsFinite DEF Halls, Single
<1>3. IsFiniteSet(TakenSeats(hall))
  <2>1. IsFiniteSet(SeatIds)
    BY FS_Interval, RulesAssumption DEF SeatIds
  <2>2. QED BY <2>1, FS_Subset DEF TakenSeats
<1>4. Cardinality(hall.queue) \in Nat /\ Cardinality(TakenSeats(hall)) \in Nat
  BY <1>2, <1>3, FS_CardinalityType
<1>5. hall.cooldownUntil[peer] \in Nat
  BY DEF Halls
<1>6. Capacity \in Nat
  BY RulesAssumption
<1>7. hall.cooldownUntil[peer] <= at
  BY <1>1, <1>5
<1>8. Cardinality(hall.queue) + Cardinality(TakenSeats(hall)) < Capacity
  BY <1>1, <1>4, <1>6
<1>9. QED BY <1>7, <1>8 DEF Admissible

(* A join accepted into a log with room, at a time when admissionError reports *)
(* nothing and later than anything logged, puts its peer in the hall.         *)
LEMMA JoinIsAdmitted ==
    ASSUME None \notin {"HALL_COOLDOWN", "HALL_FULL"},
           NEW S, Signed(S), IsFiniteSet(S), Ordered(S), NEW l, Within(S, l),
           Len(l.log) < MaxRetainedEvents, NEW e \in S, NEW at \in Nat,
           e \notin Logged(l), e \in Logged(Accept(l, e)),
           e.kind = "join", e.issuedAt = at, \A f \in Logged(l) : Earlier(f, e),
           AdmissionError(l, e.origin, at) = None
    PROVE  e.origin \in Participants(HallAt(Accept(l, e), at))
<1> DEFINE events == Logged(l) \cup {e}
<1>1. Logged(Accept(l, e)) = events
  BY AcceptLogs
<1>2. Logged(l) \subseteq S /\ e.origin \in Peers
  BY DEF Within, LedgerOf, Logged, ToSet, Signed
<1>3. IsLog(events) /\ IsLog(Logged(l))
  BY <1>2, OrderedIsLog
<1>4. events \ {e} = Logged(l)
  OBVIOUS
<1>5. PICK hall : hall = HallAt(l, at)
  OBVIOUS
<1>6. hall \in Halls /\ Single(hall)
  BY <1>3, <1>5, PresenceBacked, OnePlaceEach DEF HallAt
<1>7. e.origin \in Participants(hall) \/ Admissible(hall, e.origin, at)
  BY <1>2, <1>5, <1>6, NoErrorAdmits
<1>8. hall = Derive(events \ {e}, e.issuedAt)
  BY <1>4, <1>5 DEF HallAt
<1>9. e \in events /\ \A f \in events \ {e} : Earlier(f, e)
  OBVIOUS
<1> HIDE DEF events
<1>10. e.origin \in Participants(Derive(events, e.issuedAt))
  BY <1>3, <1>7, <1>8, <1>9, LastJoinAdmits
<1>11. QED BY <1>1, <1>10 DEF HallAt

(* While the log has room, whoever is in the hall stays in it by an event of   *)
(* its own that shows presence and is later than anything logged.             *)
LEMMA PresenceStays ==
    ASSUME NEW S, Signed(S), IsFiniteSet(S), Ordered(S), NEW l, Within(S, l),
           Len(l.log) < MaxRetainedEvents, NEW e \in S, NEW at \in Nat,
           e \notin Logged(l), e.kind \in {"join", "heartbeat"}, e.issuedAt = at,
           \A f \in Logged(l) : Earlier(f, e),
           e.origin \in Participants(HallAt(l, at))
    PROVE  e.origin \in Participants(HallAt(Accept(l, e), at))
<1>1. CASE Logged(Accept(l, e)) = Logged(l)
  BY <1>1 DEF HallAt
<1>2. CASE Logged(Accept(l, e)) # Logged(l)
  <2> DEFINE events == Logged(l) \cup {e}
  <2>1. Logged(Accept(l, e)) = events
    BY <1>2, AcceptLogs
  <2>2. Logged(l) \subseteq S
    BY DEF Within, LedgerOf, Logged, ToSet
  <2>3. IsLog(events)
    BY <2>2, OrderedIsLog
  <2>4. /\ e \in events /\ events \ {e} = Logged(l)
        /\ \A f \in events \ {e} : Earlier(f, e)
    OBVIOUS
  <2> HIDE DEF events
  <2>5. e.origin \in Participants(Derive(events, at))
    BY <2>3, <2>4, LastPresenceKeeps DEF HallAt
  <2>6. QED BY <2>1, <2>5 DEF HallAt
<1>3. QED BY <1>1, <1>2

(* Marks of one origin are one mark at most. *)
LEMMA MarksOfOne ==
    ASSUME NEW marks \in Seq(Mark), OneMark(marks), NEW p, \A m \in ToSet(marks) : m.origin = p
    PROVE  Len(marks) <= 1
<1> SUFFICES ASSUME ~(Len(marks) <= 1) PROVE FALSE
  OBVIOUS
<1>1. Len(marks) \in Nat /\ DOMAIN marks = 1 .. Len(marks)
  OBVIOUS
<1>2. 1 \in DOMAIN marks /\ 2 \in DOMAIN marks /\ 1 # 2
  BY <1>1
<1>3. marks[1].origin = p /\ marks[2].origin = p
  BY <1>2 DEF ToSet
<1>4. QED BY <1>2, <1>3 DEF OneMark

(* An acceptable event of the only origin that the ledger knows is logged, and *)
(* its sequence number is that origin's high-water mark.                      *)
LEMMA AcceptRecords ==
    ASSUME NEW S, Signed(S), NEW l, Within(S, l), NEW e \in S, Len(l.log) < MaxRetainedEvents,
           e.kind # "sync", e \notin Logged(l), \A m \in ToSet(l.marks) : m.origin = e.origin,
           NEW c, c = ExpireIndexes(l, e.issuedAt), Acceptable(c, e), NEW n, n = Accept(l, e)
    PROVE  Logged(n) = Logged(l) \cup {e} /\ HighWaterMark(n, e.origin) = e.sequence
<1> DEFINE appended == Append1(c, e)
           indexed == Indexed(appended, e)
           mark == [origin |-> e.origin, sequence |-> e.sequence]
<1>1. Within(S, c) /\ Logged(c) = Logged(l) /\ c.marks = l.marks /\ c.log = l.log
  <2>1. l \in LedgerOf(S)
    BY DEF Within
  <2>2. QED BY <2>1, ForgetWithin, ForgetEffect DEF ExpireIndexes, Logged
<1>2. n = Prune(PruneMarks(indexed))
  BY DEF Accept
<1>3. e.kind = "join" /\ ~HasBasis(c, e.origin) => Cardinality(Tracked(c)) < MaxTrackedJoins
  BY DEF Acceptable
<1>4. c \in LedgerOf(S) /\ Fits(c) /\ e \notin Logged(c)
  BY <1>1 DEF Within
<1>5. Appended(S, c, e, appended)
  BY <1>4, Append1Effect
<1>6. \A m \in ToSet(appended.marks) : m.origin = e.origin
  <2>1. appended.marks = Append(Without(c.marks, e.origin), mark)
    BY <1>4 DEF Append1, LedgerOf
  <2>2. mark \in Mark /\ c.marks \in Seq(Mark) /\ mark.origin = e.origin
    BY <1>4 DEF Signed, Mark, LedgerOf
  <2> HIDE DEF mark, appended
  <2>3. QED BY <1>1, <2>1, <2>2, MarksFromWithout
<1> HIDE DEF appended
<1>7. /\ appended \in LedgerOf(S) /\ Fits(appended) /\ appended.joinBasis = c.joinBasis
      /\ Len(appended.log) = Len(c.log) + 1
      /\ Logged(appended) = Logged(l) \cup {e} /\ mark \in ToSet(appended.marks)
  BY <1>1, <1>5 DEF Appended
<1>8. e.kind = "join" /\ ~HasBasis(appended, e.origin)
         => Cardinality(Tracked(appended)) < MaxTrackedJoins
  BY <1>3, <1>7 DEF HasBasis, Tracked
<1>9. /\ indexed \in LedgerOf(S) /\ Fits(indexed)
      /\ indexed.log = appended.log /\ indexed.marks = appended.marks
  BY <1>7, <1>8, IndexedEffect
<1> HIDE DEF indexed
<1>10. PruneMarks(indexed) = indexed
  <2>1. indexed.marks \in Seq(Mark) /\ Len(indexed.marks) \in Nat
    BY <1>9 DEF LedgerOf
  <2>2. Len(indexed.marks) <= 1
    BY <1>6, <1>9, <2>1, MarksOfOne DEF Fits
  <2>3. MaxTrackedSequences \in Nat /\ 1 <= MaxTrackedSequences
    BY LimitsAssumption
  <2>4. Len(indexed.marks) <= MaxTrackedSequences
    BY <2>1, <2>2, <2>3
  <2>5. QED BY <2>4 DEF PruneMarks
<1>11. Prune(indexed) = indexed
  <2>1. Len(c.log) \in Nat /\ Len(appended.log) \in Nat /\ MaxRetainedEvents \in Nat
    BY <1>4, <1>7, LimitsAssumption DEF LedgerOf
  <2>2. Len(indexed.log) <= MaxRetainedEvents
    BY <1>1, <1>7, <1>9, <2>1
  <2>3. QED BY <2>2 DEF Prune
<1>12. HighWaterMark(indexed, e.origin) = e.sequence
  <2>1. mark \in ToSet(indexed.marks) /\ mark.origin = e.origin /\ mark.sequence = e.sequence
    BY <1>7, <1>9
  <2> HIDE DEF mark
  <2>2. QED BY <1>9, <2>1, MarkIsHighWater DEF Fits
<1>13. n = indexed
  BY <1>2, <1>10, <1>11
<1>14. QED BY <1>7, <1>9, <1>12, <1>13 DEF Logged
==============================================================================
