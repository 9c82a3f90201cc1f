-------------------------- MODULE HallDerive_proofs --------------------------
(***************************************************************************)
(* Facts about derive() in closed form, for every set of peers and every   *)
(* choice of the rules: that its recursive functions exist and return a    *)
(* hall, that they obey their equations, and who is in the hall they       *)
(* return: nobody without a recent word of its own, nobody twice, no more  *)
(* than the hall has room for, the author of a join that nothing stands    *)
(* against, and whoever joined recently enough.  Induction is on a natural *)
(* number, a rank, that every turn of a loop lowers; a set of              *)
(* counterexamples with no least one is empty.                             *)
(***************************************************************************)
EXTENDS HallDerive, FiniteSetTheorems, WellFoundedInduction, TLAPS

-----------------------------------------------------------------------------
(* A set of natural numbers that is not empty has a least one. *)
LEMMA LeastOfNaturals ==
    ASSUME NEW S, S \subseteq Nat, S # {}
    PROVE  \E x \in S : \A y \in S : x <= y
<1> DEFINE R == {ss \in Nat \X Nat : ss[1] < ss[2]}
<1>1. IsWellFoundedOn(R, Nat)
  BY NatLessThanWellFounded DEF OpToRel
<1>2. PICK x \in S : \A y \in S : ~(<<y, x>> \in R)
  BY <1>1, WFMin
<1>3. ASSUME NEW y \in S PROVE x <= y
  <2>1. x \in Nat /\ y \in Nat /\ ~(x > y)
    BY <1>2
  <2>2. QED BY <2>1
<1>4. QED BY <1>3

(* Descent: if every member of a set has another one of a lower rank, the    *)
(* set is empty.                                                             *)
LEMMA Descent ==
    ASSUME NEW Bad, NEW rank,
           \A x \in Bad : rank[x] \in Nat,
           \A x \in Bad : \E y \in Bad : rank[y] < rank[x]
    PROVE  Bad = {}
<1> SUFFICES ASSUME Bad # {} PROVE FALSE
  OBVIOUS
<1> DEFINE Ranks == { rank[x] : x \in Bad }
<1>1. Ranks \subseteq Nat /\ Ranks # {}
  OBVIOUS
<1>2. PICK r \in Ranks : \A q \in Ranks : r <= q
  BY <1>1, LeastOfNaturals
<1>3. PICK x \in Bad : r = rank[x]
  OBVIOUS
<1>4. PICK y \in Bad : rank[y] < rank[x]
  OBVIOUS
<1>5. rank[y] \in Ranks /\ rank[y] \in Nat /\ rank[x] \in Nat
  OBVIOUS
<1>6. rank[x] <= rank[y]
  BY <1>2, <1>3, <1>5
<1>7. QED BY <1>4, <1>5, <1>6

(* A recursion on S with values in V, by steps that lead down to where it    *)
(* stops: each lowers a bounded rank.                                        *)
Recursion(S, V, stop, step, out, op, rank, bound) ==
    /\ stop \subseteq S /\ step \in [S -> S]
    /\ out \in [S -> V] /\ op \in [S -> [V -> V]]
    /\ rank \in [S -> Nat] /\ bound \in Nat
    /\ \A x \in S : rank[x] <= bound
    /\ \A x \in S \ stop : rank[step[x]] < rank[x]

Solves(f, S, V, stop, step, out, op) ==
    /\ f \in [S -> V]
    /\ \A x \in S : f[x] = IF x \in stop THEN out[x] ELSE op[x][f[step[x]]]

(* The function such a recursion defines exists. *)
LEMMA RecursionExists ==
    ASSUME NEW S, NEW V, NEW stop, NEW step, NEW out, NEW op, NEW rank, NEW N,
           Recursion(S, V, stop, step, out, op, rank, N)
    PROVE  \E f : Solves(f, S, V, stop, step, out, op)
<1>0. /\ stop \subseteq S /\ step \in [S -> S] /\ rank \in [S -> Nat] /\ N \in Nat
      /\ out \in [S -> V] /\ op \in [S -> [V -> V]]
      /\ \A x \in S : rank[x] <= N
      /\ \A x \in S \ stop : rank[step[x]] < rank[x]
  BY DEF Recursion
<1> USE <1>0
<1> DEFINE Below(n) == { x \in S : rank[x] <= n }
           Obeys(f, n) == \A x \in Below(n) :
               f[x] = IF x \in stop THEN out[x] ELSE op[x][f[step[x]]]
           Reached == { n \in Nat : \E f \in [S -> V] : Obeys(f, n) }
<1>1. 0 \in Reached
  <2>1. ASSUME NEW x \in Below(0) PROVE x \in stop
    BY <2>1
  <2>2. Obeys(out, 0)
    BY <2>1
  <2>3. QED BY <2>2
<1>2. ASSUME NEW n \in Nat, n \in Reached PROVE n + 1 \in Reached
  <2>1. PICK f \in [S -> V] : Obeys(f, n)
    BY <1>2
  <2> DEFINE g == [x \in S |-> IF x \in stop THEN out[x] ELSE op[x][f[step[x]]]]
  <2>2. g \in [S -> V]
    OBVIOUS
  <2>3. ASSUME NEW x \in Below(n) PROVE g[x] = f[x]
    BY <2>1, <2>3
  <2>4. ASSUME NEW x \in Below(n + 1), x \notin stop PROVE step[x] \in Below(n)
    <3>1. rank[x] \in Nat /\ step[x] \in S /\ rank[step[x]] \in Nat /\ rank[step[x]] < rank[x]
      BY <2>4
    <3>2. rank[x] <= n + 1
      BY <2>4
    <3>3. QED BY <3>1, <3>2
  <2>5. ASSUME NEW x \in Below(n + 1)
        PROVE  g[x] = IF x \in stop THEN out[x] ELSE op[x][g[step[x]]]
    <3>1. x \notin stop => g[step[x]] = f[step[x]]
      BY <2>3, <2>4
    <3>2. QED BY <3>1
  <2>6. Obeys(g, n + 1)
    BY <2>5
  <2> HIDE DEF g
  <2>7. \E h \in [S -> V] : Obeys(h, n + 1)
    BY <2>2, <2>6
  <2> HIDE DEF Obeys
  <2>8. QED BY <2>7
<1>3. Nat \ Reached = {}
  <2> DEFINE Bad == Nat \ Reached
             id == [n \in Nat |-> n]
  <2>1. ASSUME NEW n \in Bad PROVE \E m \in Bad : id[m] < id[n]
    <3>1. n # 0 /\ n \in Nat
      BY <1>1, <2>1
    <3>2. n - 1 \in Nat /\ (n - 1) + 1 = n /\ n - 1 < n
      BY <3>1
    <3>3. n - 1 \notin Reached
      BY <1>2, <2>1, <3>2
    <3>4. QED BY <3>2, <3>3
  <2>2. \A n \in Bad : id[n] \in Nat
    OBVIOUS
  <2> HIDE DEF Bad, id
  <2>3. Bad = {}
    BY <2>1, <2>2, Descent
  <2>4. QED BY <2>3 DEF Bad
<1>4. PICK f \in [S -> V] : Obeys(f, N)
  BY <1>3
<1>5. Below(N) = S
  OBVIOUS
<1>6. QED BY <1>4, <1>5 DEF Solves

-----------------------------------------------------------------------------
(* Who is due next, and the turn of advance that removes it                  *)
NextDue(h, time) == CHOOSE x \in Due(h, time) : \A y \in Due(h, time) : ~Sooner(y, x)
Turn(h, time) ==
    Release(h, NextDue(h, time).peerId, NextDue(h, time).at, NextDue(h, time).cooldown)

LEMMA TakenSeat ==
    ASSUME NEW h \in Halls, NEW i \in TakenSeats(h)
    PROVE  /\ i \in SeatIds /\ h.seats[i] \in Seat
           /\ h.seats[i].participant \in Participant
           /\ h.seats[i].participant.peerId \in Participants(h)
           /\ h.seats[i].seatedAt \in Nat
<1>1. i \in SeatIds /\ h.seats[i] \in Seat
  BY DEF Halls, TakenSeats
<1>2. h.seats[i].participant \in Participant /\ h.seats[i].seatedAt \in Nat
  BY <1>1 DEF Seat
<1>3. QED BY <1>1, <1>2 DEF Participants

LEMMA ParticipantFields ==
    ASSUME NEW p \in Participant
    PROVE  /\ p.peerId \in Peers /\ p.peerId \in Nat
           /\ p.joinedAt \in Nat /\ p.lastPresenceAt \in Nat
           /\ QueueExpiry(p) \in Nat /\ QueueExpiry(p) = p.lastPresenceAt + PresenceTtlMs
<1>1. /\ p.peerId \in Peers /\ p.joinedAt \in Nat /\ p.lastPresenceAt \in Nat
      /\ Peers \subseteq Nat /\ PresenceTtlMs \in Nat
  BY RulesAssumption DEF Participant
<1>2. p.lastPresenceAt + PresenceTtlMs \in Nat
  BY <1>1
<1>3. QED BY <1>1, <1>2 DEF QueueExpiry

LEMMA WaitingPeer ==
    ASSUME NEW h \in Halls, NEW p \in h.queue
    PROVE  p \in Participant /\ p.peerId \in Participants(h)
BY DEF Halls, Participants

LEMMA ParticipantsFinite ==
    ASSUME NEW h \in Halls
    PROVE  /\ Participants(h) \subseteq Peers
           /\ IsFiniteSet(Participants(h))
           /\ Cardinality(Participants(h)) \in Nat
           /\ Cardinality(Participants(h)) <= Cardinality(Peers)
           /\ Cardinality(Peers) \in Nat
<1>1. ASSUME NEW x \in Participants(h) PROVE x \in Peers
  <2>1. CASE \E i \in TakenSeats(h) : x = h.seats[i].participant.peerId
    BY <2>1, TakenSeat, ParticipantFields
  <2>2. CASE \E p \in h.queue : x = p.peerId
    BY <2>2, WaitingPeer, ParticipantFields
  <2>3. QED BY <2>1, <2>2 DEF Participants
<1>2. Participants(h) \subseteq Peers /\ IsFiniteSet(Peers)
  BY <1>1, RulesAssumption
<1>3. QED BY <1>2, FS_Subset, FS_CardinalityType

(* The earliest deadline of a seat exists and is one of its three deadlines. *)
LEMMA SeatExpiryLeast ==
    ASSUME NEW s \in Seat
    PROVE  /\ SeatExpiry(s) \in Nat
           /\ SeatExpiry(s) \in SeatDeadlines(s)
           /\ \A d \in SeatDeadlines(s) : d \in Nat /\ SeatExpiry(s) <= d
<1> DEFINE a == s.seatedAt + MaxLeaseMs
           b == (IF s.lastSpokeAt = None THEN s.seatedAt ELSE s.lastSpokeAt) + IdleMs
           c == s.participant.lastPresenceAt + PresenceTtlMs
<1>1. a \in Nat /\ b \in Nat /\ c \in Nat
  BY RulesAssumption DEF Seat, Participant
<1>2. SeatDeadlines(s) = {a, b, c}
  BY DEF SeatDeadlines
<1> HIDE DEF a, b, c
<1>3. \E at \in {a, b, c} : \A other \in {a, b, c} : at <= other
  <2>1. CASE a <= b /\ a <= c BY <1>1, <2>1
  <2>2. CASE b <= a /\ b <= c BY <1>1, <2>2
  <2>3. CASE c <= a /\ c <= b BY <1>1, <2>3
  <2>4. QED BY <1>1, <2>1, <2>2, <2>3
<1>4. SeatExpiry(s) \in {a, b, c} /\ \A other \in {a, b, c} : SeatExpiry(s) <= other
  BY <1>2, <1>3 DEF SeatExpiry
<1>5. QED BY <1>1, <1>2, <1>4

(* What is due is a participant at its deadline. *)
LEMMA DueFields ==
    ASSUME NEW h \in Halls, NEW time, NEW x \in Due(h, time)
    PROVE  /\ x.at \in Nat /\ x.at <= time
           /\ x.peerId \in Participants(h) /\ x.peerId \in Peers
           /\ x.cooldown \in BOOLEAN
           /\ x.place[1] \in Nat /\ x.place[2] \in Nat
<1>1. CASE \E i \in TakenSeats(h) :
             x = [at |-> SeatExpiry(h.seats[i]), peerId |-> h.seats[i].participant.peerId,
                  cooldown |-> TRUE, place |-> <<0, i>>]
  <2>1. PICK i \in TakenSeats(h) :
             x = [at |-> SeatExpiry(h.seats[i]), peerId |-> h.seats[i].participant.peerId,
                  cooldown |-> TRUE, place |-> <<0, i>>]
    BY <1>1
  <2>2. i \in Nat
    BY TakenSeat, RulesAssumption DEF SeatIds
  <2>3. SeatExpiry(h.seats[i]) \in Nat /\ x.peerId \in Participants(h)
    BY <2>1, TakenSeat, SeatExpiryLeast
  <2>4. QED BY <2>1, <2>2, <2>3, ParticipantsFinite DEF Due
<1>2. CASE \E p \in h.queue :
             x = [at |-> QueueExpiry(p), peerId |-> p.peerId,
                  cooldown |-> FALSE, place |-> <<p.joinedAt + 1, p.peerId>>]
  <2>1. PICK p \in h.queue :
             x = [at |-> QueueExpiry(p), peerId |-> p.peerId,
                  cooldown |-> FALSE, place |-> <<p.joinedAt + 1, p.peerId>>]
    BY <1>2
  <2>2. p \in Participant /\ p.peerId \in Participants(h)
    BY WaitingPeer
  <2>3. QED BY <2>1, <2>2, ParticipantFields DEF Due
<1>3. QED BY <1>1, <1>2 DEF Due, SeatExpiries, QueueExpiries

LEMMA NextDueExists ==
    ASSUME NEW h \in Halls, NEW time, Due(h, time) # {}
    PROVE  /\ NextDue(h, time) \in Due(h, time)
           /\ \A y \in Due(h, time) : ~Sooner(y, NextDue(h, time))
<1> DEFINE D == Due(h, time)
<1> USE DueFields
<1> DEFINE Ats == { x.at : x \in D }
<1>1. PICK a \in Ats : \A b \in Ats : a <= b
  <2>1. Ats \subseteq Nat /\ Ats # {}
    OBVIOUS
  <2>2. QED BY <2>1, LeastOfNaturals
<1> DEFINE D1 == { x \in D : x.at = a }
           Firsts == { x.place[1] : x \in D1 }
<1>2. PICK f \in Firsts : \A b \in Firsts : f <= b
  <2>1. Firsts \subseteq Nat /\ Firsts # {}
    OBVIOUS
  <2>2. QED BY <2>1, LeastOfNaturals
<1> DEFINE D2 == { x \in D1 : x.place[1] = f }
           Seconds == { x.place[2] : x \in D2 }
<1>3. PICK s \in Seconds : \A b \in Seconds : s <= b
  <2>1. Seconds \subseteq Nat /\ Seconds # {}
    OBVIOUS
  <2>2. QED BY <2>1, LeastOfNaturals
<1>4. PICK x \in D2 : x.place[2] = s
  OBVIOUS
<1>5. ASSUME NEW y \in D PROVE ~Sooner(y, x)
  <2>1. x \in D /\ x.at = a /\ x.place[1] = f
    OBVIOUS
  <2>2. a <= y.at /\ y.at \in Nat /\ a \in Nat
    BY <1>1, <2>1
  <2>3. y.at = a => f <= y.place[1] /\ y.place[1] \in Nat /\ f \in Nat
    BY <1>2, <2>1
  <2>4. y.at = a /\ y.place[1] = f => s <= y.place[2] /\ y.place[2] \in Nat /\ s \in Nat
    BY <1>3, <1>4, <2>1
  <2> HIDE DEF Ats, D1, D2, Firsts, Seconds, D
  <2>5. QED BY <1>4, <2>1, <2>2, <2>3, <2>4 DEF Sooner
<1>6. \E z \in Due(h, time) : \A y \in Due(h, time) : ~Sooner(y, z)
  BY <1>5
<1>7. QED BY <1>6 DEF NextDue

(* The participant records of a hall, of its seats and of its queue          *)
Entries(h) == { h.seats[i].participant : i \in TakenSeats(h) } \cup h.queue

LEMMA EntriesAreParticipants ==
    ASSUME NEW h \in Halls
    PROVE  /\ Entries(h) \subseteq Participant
           /\ Participants(h) = { r.peerId : r \in Entries(h) }
           /\ \A peer \in Participants(h) : \E r \in Entries(h) : r.peerId = peer
<1>1. ASSUME NEW r \in Entries(h) PROVE r \in Participant /\ r.peerId \in Participants(h)
  BY TakenSeat, WaitingPeer DEF Entries
<1>2. ASSUME NEW peer \in Participants(h) PROVE \E r \in Entries(h) : r.peerId = peer
  BY DEF Participants, Entries
<1>3. QED BY <1>1, <1>2

(* fillSeats returns a hall; it moves records of the queue, it never alters   *)
(* or adds one.                                                              *)
LEMMA FillSeatsType ==
    ASSUME NEW h \in Halls, NEW at \in Nat
    PROVE  /\ FillSeats(h, at) \in Halls
           /\ Entries(FillSeats(h, at)) \subseteq Entries(h)
<1> DEFINE waiting == Fresh(h.queue, at)
           free == FreeSeats(h)
           Place(p) == Cardinality({ q \in waiting : Before(q, p) })
           Rank(i) == Cardinality({ j \in free : j < i })
           Takers(i) == { p \in waiting : Place(p) = Rank(i) }
           Taker(i) == CHOOSE p \in Takers(i) : TRUE
           g == FillSeats(h, at)
<1>1. g = [h EXCEPT
          !.seats = [i \in SeatIds |->
              IF i \in free /\ Takers(i) # {}
              THEN [participant |-> Taker(i), seatedAt |-> at, lastSpokeAt |-> None]
              ELSE h.seats[i]],
          !.queue = { p \in waiting : Place(p) >= Cardinality(free) }]
  BY DEF FillSeats
<1>2. waiting \subseteq h.queue /\ h.queue \subseteq Participant
  BY DEF Fresh, Halls
<1>3. \A i \in SeatIds : Takers(i) # {} => Taker(i) \in waiting
  OBVIOUS
<1> HIDE DEF waiting, free, Place, Rank, Takers, Taker, g
<1>4. g.queue \subseteq h.queue
  BY <1>1, <1>2 DEF Halls
<1>5. ASSUME NEW i \in SeatIds
      PROVE  \/ g.seats[i] = h.seats[i]
             \/ /\ g.seats[i] \in Seat
                /\ g.seats[i].participant \in h.queue
  BY <1>1, <1>2, <1>3 DEF Halls, Seat
<1>6. g \in Halls
  <2>1. g.seats \in [SeatIds -> Seat \cup {None}]
    <3>1. g.seats = [i \in SeatIds |-> g.seats[i]]
      BY <1>1 DEF Halls
    <3>2. \A i \in SeatIds : g.seats[i] \in Seat \cup {None}
      BY <1>5 DEF Halls
    <3>3. QED BY <3>1, <3>2
  <2>2. g.queue \in SUBSET Participant
    BY <1>4, <1>2
  <2>3. g = [seats |-> g.seats, queue |-> g.queue,
             cooldownUntil |-> h.cooldownUntil, messages |-> h.messages]
    BY <1>1 DEF Halls
  <2>4. QED BY <2>1, <2>2, <2>3 DEF Halls
<1>7. ASSUME NEW i \in TakenSeats(g) PROVE g.seats[i].participant \in Entries(h)
  <2>1. i \in SeatIds /\ g.seats[i] # None
    BY DEF TakenSeats
  <2>2. QED BY <1>5, <2>1 DEF TakenSeats, Entries
<1>8. QED BY <1>4, <1>6, <1>7 DEF Entries, g

-----------------------------------------------------------------------------
(* removeParticipant returns a hall with the records of the others, as they   *)
(* were.                                                                     *)
LEMMA ReleaseFills ==
    ASSUME NEW h \in Halls, NEW peer \in Peers, NEW at \in Nat, NEW cooldown \in BOOLEAN
    PROVE  \E g \in Halls :
             /\ Release(h, peer, at, cooldown) = FillSeats(g, at)
             /\ \A i \in TakenSeats(g) :
                  i \in TakenSeats(h) /\ i \notin SeatOf(h, peer) /\ g.seats[i] = h.seats[i]
             /\ TakenSeats(h) \ SeatOf(h, peer) \subseteq TakenSeats(g)
             /\ g.queue = h.queue \ InQueue(h, peer)
             /\ \A p \in Peers \ {peer} : g.cooldownUntil[p] = h.cooldownUntil[p]
<1> DEFINE seats1 == [i \in SeatIds |-> IF i \in SeatOf(h, peer) THEN None ELSE h.seats[i]]
           queue1 == h.queue \ InQueue(h, peer)
           cooldown1 == IF SeatOf(h, peer) # {} /\ cooldown
                        THEN [h.cooldownUntil EXCEPT ![peer] = at + CooldownMs]
                        ELSE h.cooldownUntil
<1>1. PICK g : g = [h EXCEPT !.seats = seats1, !.queue = queue1, !.cooldownUntil = cooldown1]
  OBVIOUS
<1>2. Release(h, peer, at, cooldown) = FillSeats(g, at)
  BY <1>1 DEF Release
<1>3. cooldown1 \in [Peers -> Nat]
  <2>1. CooldownMs \in Nat /\ h.cooldownUntil \in [Peers -> Nat]
    BY RulesAssumption DEF Halls
  <2>2. at + CooldownMs \in Nat
    BY <2>1
  <2>3. QED BY <2>1, <2>2
<1>4. g = [seats |-> seats1, queue |-> queue1, cooldownUntil |-> cooldown1,
           messages |-> h.messages]
  <2> HIDE DEF seats1, queue1, cooldown1
  <2>1. QED BY <1>1 DEF Halls
<1>5. g \in Halls
  BY <1>3, <1>4 DEF Halls
<1>6. ASSUME NEW i \in TakenSeats(g)
      PROVE  i \in TakenSeats(h) /\ i \notin SeatOf(h, peer) /\ g.seats[i] = h.seats[i]
  <2>1. i \in SeatIds /\ g.seats[i] # None
    BY DEF TakenSeats
  <2>2. g.seats[i] = h.seats[i] /\ i \notin SeatOf(h, peer)
    BY <1>4, <2>1
  <2>3. QED BY <2>1, <2>2 DEF TakenSeats
<1>7. g.queue = h.queue \ InQueue(h, peer)
  BY <1>4
<1>8. TakenSeats(h) \ SeatOf(h, peer) \subseteq TakenSeats(g)
  BY <1>4 DEF TakenSeats
<1>9. \A p \in Peers \ {peer} : g.cooldownUntil[p] = h.cooldownUntil[p]
  <2>1. g.cooldownUntil = cooldown1 /\ h.cooldownUntil \in [Peers -> Nat]
    BY <1>4 DEF Halls
  <2>2. QED BY <2>1
<1>10. QED BY <1>2, <1>5, <1>6, <1>7, <1>8, <1>9

LEMMA ReleaseType ==
    ASSUME NEW h \in Halls, NEW peer \in Peers, NEW at \in Nat, NEW cooldown \in BOOLEAN
    PROVE  /\ Release(h, peer, at, cooldown) \in Halls
           /\ \A r \in Entries(Release(h, peer, at, cooldown)) : r \in Entries(h) /\ r.peerId # peer
           /\ Participants(Release(h, peer, at, cooldown)) \subseteq Participants(h) \ {peer}
<1>1. PICK g \in Halls :
        /\ Release(h, peer, at, cooldown) = FillSeats(g, at)
        /\ \A i \in TakenSeats(g) :
             i \in TakenSeats(h) /\ i \notin SeatOf(h, peer) /\ g.seats[i] = h.seats[i]
        /\ g.queue = h.queue \ InQueue(h, peer)
  BY ReleaseFills
<1>2. ASSUME NEW r \in Entries(g) PROVE r \in Entries(h) /\ r.peerId # peer
  BY <1>1, <1>2 DEF Entries, SeatOf, InQueue
<1> DEFINE k == Release(h, peer, at, cooldown)
<1>3. k \in Halls /\ \A r \in Entries(k) : r \in Entries(h) /\ r.peerId # peer
  BY <1>1, <1>2, FillSeatsType
<1>4. Participants(k) \subseteq Participants(h) \ {peer}
  <2> HIDE DEF k
  <2>1. QED BY <1>3, EntriesAreParticipants
<1>5. QED BY <1>3, <1>4

LEMMA TurnType ==
    ASSUME NEW h \in Halls, NEW time, Due(h, time) # {}
    PROVE  /\ Turn(h, time) \in Halls
           /\ Cardinality(Participants(Turn(h, time))) < Cardinality(Participants(h))
           /\ NextDue(h, time) \in Due(h, time)
<1> DEFINE x == NextDue(h, time)
<1>1. x \in Due(h, time)
  BY NextDueExists
<1>2. x.peerId \in Peers /\ x.at \in Nat /\ x.cooldown \in BOOLEAN /\ x.peerId \in Participants(h)
  BY <1>1, DueFields
<1> HIDE DEF x
<1>3. /\ Release(h, x.peerId, x.at, x.cooldown) \in Halls
      /\ Participants(Release(h, x.peerId, x.at, x.cooldown)) \subseteq Participants(h) \ {x.peerId}
  BY <1>2, ReleaseType
<1>4. Turn(h, time) = Release(h, x.peerId, x.at, x.cooldown)
  BY DEF Turn, x
<1>5. /\ IsFiniteSet(Participants(h)) /\ Cardinality(Participants(h)) \in Nat
      /\ Cardinality(Participants(Turn(h, time))) \in Nat
  BY <1>3, <1>4, ParticipantsFinite
<1>6. Cardinality(Participants(h) \ {x.peerId}) = Cardinality(Participants(h)) - 1
  BY <1>2, <1>5, FS_RemoveElement
<1>7. /\ IsFiniteSet(Participants(h) \ {x.peerId})
      /\ Cardinality(Participants(Turn(h, time))) <= Cardinality(Participants(h) \ {x.peerId})
  BY <1>2, <1>3, <1>4, <1>5, FS_RemoveElement, FS_Subset
<1>8. QED BY <1>1, <1>3, <1>4, <1>5, <1>6, <1>7 DEF x

(* The for(;;) loop of advance, as one equation. *)
LEMMA AdvanceEquation ==
    ASSUME NEW h \in Halls, NEW time
    PROVE  Advance(h, time) = IF Due(h, time) = {} THEN h ELSE Advance(Turn(h, time), time)
<1> DEFINE stop == { g \in Halls : Due(g, time) = {} }
           step == [g \in Halls |-> IF g \in stop THEN g ELSE Turn(g, time)]
           out == [g \in Halls |-> g]
           op == [g \in Halls |-> [v \in Halls |-> v]]
           rank == [g \in Halls |-> Cardinality(Participants(g))]
           turn == CHOOSE turn : turn = [g \in Halls |->
                      IF Due(g, time) = {} THEN g ELSE turn[Turn(g, time)]]
<1>1. \A g : Advance(g, time) = turn[g]
  BY DEF Advance, Turn, NextDue
<1>2. \E f : Solves(f, Halls, Halls, stop, step, out, op)
  <2>1. step \in [Halls -> Halls] /\ rank \in [Halls -> Nat] /\ Cardinality(Peers) \in Nat
        /\ \A g \in Halls : rank[g] <= Cardinality(Peers)
    BY TurnType, ParticipantsFinite
  <2>2. \A g \in Halls \ stop : rank[step[g]] < rank[g]
    BY TurnType
  <2>3. out \in [Halls -> Halls] /\ op \in [Halls -> [Halls -> Halls]] /\ stop \in SUBSET Halls
    OBVIOUS
  <2> HIDE DEF stop, step, out, op, rank
  <2>4. Recursion(Halls, Halls, stop, step, out, op, rank, Cardinality(Peers))
    BY <2>1, <2>2, <2>3 DEF Recursion
  <2>5. QED BY <2>4, RecursionExists
<1>3. PICK f \in [Halls -> Halls] : \A g \in Halls :
         f[g] = IF g \in stop THEN out[g] ELSE op[g][f[step[g]]]
  BY <1>2 DEF Solves
<1>4. ASSUME NEW g \in Halls
      PROVE  f[g] = IF Due(g, time) = {} THEN g ELSE f[Turn(g, time)]
  BY <1>3, TurnType
<1>5. f = [g \in Halls |-> IF Due(g, time) = {} THEN g ELSE f[Turn(g, time)]]
  <2>1. f = [g \in Halls |-> f[g]]
    OBVIOUS
  <2>2. QED BY <1>4, <2>1
<1>6. turn = [g \in Halls |-> IF Due(g, time) = {} THEN g ELSE turn[Turn(g, time)]]
  BY <1>5
<1> HIDE DEF turn
<1>7. turn[h] = IF Due(h, time) = {} THEN h ELSE turn[Turn(h, time)]
  BY <1>6
<1>8. QED BY <1>1, <1>7

(* advance returns a hall in which nothing is due any more. *)
LEMMA AdvanceType ==
    ASSUME NEW h \in Halls, NEW time
    PROVE  /\ Advance(h, time) \in Halls
           /\ Due(Advance(h, time), time) = {}
           /\ Participants(Advance(h, time)) \subseteq Participants(h)
<1> DEFINE Good(g) == /\ Advance(g, time) \in Halls
                      /\ Due(Advance(g, time), time) = {}
                      /\ Participants(Advance(g, time)) \subseteq Participants(g)
           Bad == { g \in Halls : ~Good(g) }
           rank == [g \in Halls |-> Cardinality(Participants(g))]
<1>1. ASSUME NEW g \in Bad PROVE \E k \in Bad : rank[k] < rank[g]
  <2>1. g \in Halls /\ ~Good(g)
    OBVIOUS
  <2>2. Due(g, time) # {}
    BY <2>1, AdvanceEquation
  <2>3. /\ Turn(g, time) \in Halls
        /\ Cardinality(Participants(Turn(g, time))) < Cardinality(Participants(g))
        /\ Participants(Turn(g, time)) \subseteq Participants(g)
        /\ Advance(g, time) = Advance(Turn(g, time), time)
    <3>1. NextDue(g, time).peerId \in Peers /\ NextDue(g, time).at \in Nat
          /\ NextDue(g, time).cooldown \in BOOLEAN
      BY <2>1, <2>2, NextDueExists, DueFields
    <3>2. Participants(Turn(g, time)) \subseteq Participants(g)
      BY <2>1, <3>1, ReleaseType DEF Turn
    <3>3. QED BY <2>1, <2>2, <3>2, TurnType, AdvanceEquation
  <2>4. ~Good(Turn(g, time))
    BY <2>1, <2>3
  <2> HIDE DEF Good
  <2>5. QED BY <2>1, <2>3, <2>4
<1>2. \A g \in Bad : rank[g] \in Nat
  BY ParticipantsFinite
<1> HIDE DEF rank, Bad
<1>3. Bad = {}
  BY <1>1, <1>2, Descent
<1>4. QED BY <1>3 DEF Bad

(* What is still in the hall after advance was in it, unaltered, and is due   *)
(* only later.                                                               *)
LEMMA AdvanceEntries ==
    ASSUME NEW h \in Halls, NEW time \in Int
    PROVE  /\ Entries(Advance(h, time)) \subseteq Entries(h)
           /\ \A r \in Entries(Advance(h, time)) : r.lastPresenceAt + PresenceTtlMs > time
<1> DEFINE Bad == { g \in Halls : ~(Entries(Advance(g, time)) \subseteq Entries(g)) }
           rank == [g \in Halls |-> Cardinality(Participants(g))]
<1>1. ASSUME NEW g \in Bad PROVE \E k \in Bad : rank[k] < rank[g]
  <2>1. g \in Halls /\ ~(Entries(Advance(g, time)) \subseteq Entries(g))
    OBVIOUS
  <2>2. Due(g, time) # {}
    BY <2>1, AdvanceEquation
  <2>3. /\ Turn(g, time) \in Halls
        /\ Cardinality(Participants(Turn(g, time))) < Cardinality(Participants(g))
        /\ Advance(g, time) = Advance(Turn(g, time), time)
    BY <2>1, <2>2, TurnType, AdvanceEquation
  <2>4. Entries(Turn(g, time)) \subseteq Entries(g)
    <3>1. NextDue(g, time).peerId \in Peers /\ NextDue(g, time).at \in Nat
          /\ NextDue(g, time).cooldown \in BOOLEAN
      BY <2>1, <2>2, NextDueExists, DueFields
    <3>2. QED BY <2>1, <3>1, ReleaseType DEF Turn
  <2>5. QED BY <2>1, <2>3, <2>4
<1>2. \A g \in Bad : rank[g] \in Nat
  BY ParticipantsFinite
<1> HIDE DEF rank, Bad
<1>3. Bad = {}
  BY <1>1, <1>2, Descent
<1>4. Entries(Advance(h, time)) \subseteq Entries(h)
  BY <1>3 DEF Bad
<1> DEFINE a == Advance(h, time)
<1>5. a \in Halls /\ Due(a, time) = {}
  BY AdvanceType
<1> HIDE DEF a
<1>6. ASSUME NEW r \in Entries(a) PROVE r.lastPresenceAt + PresenceTtlMs > time
  <2>1. CASE \E i \in TakenSeats(a) : r = a.seats[i].participant
    <3>1. PICK i \in TakenSeats(a) : r = a.seats[i].participant
      BY <2>1
    <3>2. a.seats[i] \in Seat
      BY <1>5, TakenSeat
    <3>3. [at |-> SeatExpiry(a.seats[i]), peerId |-> a.seats[i].participant.peerId,
           cooldown |-> TRUE, place |-> <<0, i>>] \in SeatExpiries(a)
      BY DEF SeatExpiries
    <3>4. ~(SeatExpiry(a.seats[i]) <= time)
      BY <1>5, <3>3 DEF Due
    <3>5. r.lastPresenceAt + PresenceTtlMs \in SeatDeadlines(a.seats[i])
      BY <3>1 DEF SeatDeadlines
    <3>6. /\ SeatExpiry(a.seats[i]) \in Nat /\ r.lastPresenceAt + PresenceTtlMs \in Nat
          /\ SeatExpiry(a.seats[i]) <= r.lastPresenceAt + PresenceTtlMs
      BY <3>2, <3>5, SeatExpiryLeast
    <3>7. QED BY <3>4, <3>6
  <2>2. CASE r \in a.queue
    <3>1. [at |-> QueueExpiry(r), peerId |-> r.peerId,
           cooldown |-> FALSE, place |-> <<r.joinedAt + 1, r.peerId>>] \in QueueExpiries(a)
      BY <2>2 DEF QueueExpiries
    <3>2. ~(QueueExpiry(r) <= time)
      BY <1>5, <3>1 DEF Due
    <3>3. QueueExpiry(r) \in Nat /\ QueueExpiry(r) = r.lastPresenceAt + PresenceTtlMs
      BY <1>5, <2>2, WaitingPeer, ParticipantFields
    <3>4. QED BY <3>2, <3>3
  <2>3. QED BY <2>1, <2>2 DEF Entries
<1>7. QED BY <1>4, <1>6 DEF a

-----------------------------------------------------------------------------
(* The fields of an event that the hall is derived from *)
EventLike(e) ==
    /\ e.origin \in Peers /\ e.sequence \in Nat
    /\ e.issuedAt \in Nat /\ e.joinedAt \in Nat

LEMMA RefreshedSeat ==
    ASSUME NEW s \in Seat, NEW at \in Nat,
           NEW t, t = s \/ t = [s EXCEPT !.participant.lastPresenceAt = at]
    PROVE  /\ t \in Seat
           /\ t.participant.peerId = s.participant.peerId
           /\ t.participant.joinedAt = s.participant.joinedAt
           /\ t.participant.lastPresenceAt \in {s.participant.lastPresenceAt, at}
           /\ t.seatedAt = s.seatedAt /\ t.lastSpokeAt = s.lastSpokeAt
BY DEF Seat, Participant

(* A presence event renews the records of its origin and no others. *)
LEMMA RefreshType ==
    ASSUME NEW h \in Halls, NEW e, EventLike(e)
    PROVE  /\ Refresh(h, e) \in Halls
           /\ \A r \in Entries(Refresh(h, e)) :
                \/ r.peerId = e.origin /\ r.lastPresenceAt = e.issuedAt
                \/ r.peerId # e.origin /\ r \in Entries(h)
<1>0. e.origin \in Peers /\ e.issuedAt \in Nat
  BY DEF EventLike
<1> DEFINE renewed(p) == [p EXCEPT !.lastPresenceAt = e.issuedAt]
           seats1 == [i \in SeatIds |->
               IF i \in SeatOf(h, e.origin)
               THEN [h.seats[i] EXCEPT !.participant.lastPresenceAt = e.issuedAt]
               ELSE h.seats[i]]
           queue1 == { IF p.peerId = e.origin THEN renewed(p) ELSE p : p \in h.queue }
<1>1. PICK g : g = [h EXCEPT !.seats = seats1, !.queue = queue1]
  OBVIOUS
<1>2. Refresh(h, e) = g
  BY <1>1 DEF Refresh
<1>3. ASSUME NEW i \in SeatIds
      PROVE  /\ seats1[i] \in Seat \cup {None}
             /\ i \in SeatOf(h, e.origin) =>
                  /\ seats1[i].participant.peerId = e.origin
                  /\ seats1[i].participant.lastPresenceAt = e.issuedAt
             /\ i \notin SeatOf(h, e.origin) => seats1[i] = h.seats[i]
  <2>1. CASE i \in SeatOf(h, e.origin)
    <3>1. h.seats[i] \in Seat /\ h.seats[i].participant.peerId = e.origin
      BY <2>1, TakenSeat DEF SeatOf
    <3>2. seats1[i] = [h.seats[i] EXCEPT !.participant.lastPresenceAt = e.issuedAt]
      BY <2>1
    <3> HIDE DEF seats1
    <3>3. seats1[i] \in Seat /\ seats1[i].participant.peerId = e.origin
      BY <1>0, <3>1, <3>2, RefreshedSeat
    <3>4. seats1[i].participant.lastPresenceAt = e.issuedAt
      BY <3>1, <3>2 DEF Seat, Participant
    <3>5. QED BY <2>1, <3>3, <3>4
  <2>2. CASE i \notin SeatOf(h, e.origin)
    BY <2>2 DEF Halls
  <2>3. QED BY <2>1, <2>2
<1>4. ASSUME NEW q \in queue1
      PROVE  /\ q \in Participant
             /\ \/ q.peerId = e.origin /\ q.lastPresenceAt = e.issuedAt
                \/ q.peerId # e.origin /\ q \in h.queue
  <2>1. PICK p \in h.queue : q = IF p.peerId = e.origin THEN renewed(p) ELSE p
    OBVIOUS
  <2>2. p \in Participant
    BY WaitingPeer
  <2>3. renewed(p) \in Participant /\ renewed(p).peerId = p.peerId
        /\ renewed(p).lastPresenceAt = e.issuedAt
    BY <1>0, <2>2 DEF Participant
  <2>4. QED BY <2>1, <2>2, <2>3
<1>5. seats1 \in [SeatIds -> Seat \cup {None}] /\ queue1 \in SUBSET Participant
  BY <1>3, <1>4
<1> HIDE DEF seats1, queue1
<1>6. g = [seats |-> seats1, queue |-> queue1, cooldownUntil |-> h.cooldownUntil,
           messages |-> h.messages]
  BY <1>1 DEF Halls
<1>7. g \in Halls
  BY <1>5, <1>6 DEF Halls
<1>8. ASSUME NEW i \in TakenSeats(g), NEW r, r = g.seats[i].participant
      PROVE  \/ r.peerId = e.origin /\ r.lastPresenceAt = e.issuedAt
             \/ r.peerId # e.origin /\ r \in Entries(h)
  <2>1. i \in SeatIds /\ seats1[i] # None /\ r = seats1[i].participant
    BY <1>6, <1>8 DEF TakenSeats
  <2>2. CASE i \in SeatOf(h, e.origin)
    BY <1>3, <2>1, <2>2
  <2>3. CASE i \notin SeatOf(h, e.origin)
    <3>1. seats1[i] = h.seats[i]
      BY <1>3, <2>1, <2>3
    <3>2. i \in TakenSeats(h)
      BY <2>1, <3>1 DEF TakenSeats
    <3>3. QED BY <2>1, <2>3, <3>1, <3>2 DEF Entries, SeatOf
  <2>4. QED BY <2>2, <2>3
<1>9. \A r \in g.queue : \/ r.peerId = e.origin /\ r.lastPresenceAt = e.issuedAt
                         \/ r.peerId # e.origin /\ r \in Entries(h)
  BY <1>4, <1>6 DEF Entries
<1>10. QED BY <1>2, <1>7, <1>8, <1>9 DEF Entries

(* A join adds the record it says. *)
LEMMA AdmitType ==
    ASSUME NEW h \in Halls, NEW e, EventLike(e)
    PROVE  /\ Admit(h, e) \in Halls
           /\ \A r \in Entries(Admit(h, e)) :
                \/ r \in Entries(h)
                \/ r.peerId = e.origin /\ r.lastPresenceAt = e.issuedAt
<1> DEFINE new == [peerId |-> e.origin, joinedAt |-> e.joinedAt, lastPresenceAt |-> e.issuedAt]
           queue1 == h.queue \cup {new}
<1>1. new \in Participant /\ new.peerId = e.origin /\ new.lastPresenceAt = e.issuedAt
      /\ e.issuedAt \in Nat
  BY DEF EventLike, Participant
<1>2. queue1 \in SUBSET Participant
  BY <1>1 DEF Halls
<1>3. PICK g : g = [h EXCEPT !.queue = queue1]
  OBVIOUS
<1>4. Admit(h, e) = FillSeats(g, e.issuedAt)
  BY <1>3 DEF Admit
<1> HIDE DEF new
<1>5. g = [seats |-> h.seats, queue |-> queue1, cooldownUntil |-> h.cooldownUntil,
           messages |-> h.messages]
  <2> HIDE DEF queue1
  <2>1. QED BY <1>3 DEF Halls
<1>6. g \in Halls
  BY <1>2, <1>5 DEF Halls
<1>7. Entries(g) \subseteq Entries(h) \cup {new}
  BY <1>5 DEF Entries, TakenSeats
<1>8. QED BY <1>1, <1>4, <1>6, <1>7, FillSeatsType

(* A chat message changes nobody's record. *)
LEMMA PostType ==
    ASSUME NEW h \in Halls, NEW e, EventLike(e)
    PROVE  /\ Post(h, e) \in Halls
           /\ Entries(Post(h, e)) \subseteq Entries(h)
<1>0. e.origin \in Peers /\ e.issuedAt \in Nat
  BY DEF EventLike
<1> DEFINE said == Append(h.messages, [origin |-> e.origin, sentAt |-> e.issuedAt])
           surplus == Len(said) - MaxRetainedMessages
           messages1 == IF surplus > 0 THEN SubSeq(said, surplus + 1, Len(said)) ELSE said
           seats1 == [i \in SeatIds |->
              IF i \in SeatOf(h, e.origin)
              THEN [h.seats[i] EXCEPT !.lastSpokeAt = e.issuedAt] ELSE h.seats[i]]
<1>1. PICK g : g = [h EXCEPT !.seats = seats1, !.messages = messages1]
  OBVIOUS
<1>2. Post(h, e) = g
  BY <1>1 DEF Post
<1>3. messages1 \in Seq(Message)
  <2>1. said \in Seq(Message) /\ MaxRetainedMessages \in Nat
    BY <1>0, RulesAssumption DEF Halls, Message
  <2> HIDE DEF said
  <2>2. QED BY <2>1
<1>4. ASSUME NEW i \in SeatIds
      PROVE  /\ seats1[i] \in Seat \cup {None}
             /\ i \in SeatOf(h, e.origin) => seats1[i].participant = h.seats[i].participant
             /\ i \notin SeatOf(h, e.origin) => seats1[i] = h.seats[i]
  <2>1. CASE i \in SeatOf(h, e.origin)
    <3>1. h.seats[i] \in Seat
      BY <2>1, TakenSeat DEF SeatOf
    <3>2. QED BY <1>0, <2>1, <3>1 DEF Seat
  <2>2. CASE i \notin SeatOf(h, e.origin)
    BY <2>2 DEF Halls
  <2>3. QED BY <2>1, <2>2
<1>5. seats1 \in [SeatIds -> Seat \cup {None}]
  BY <1>4
<1> HIDE DEF seats1, messages1
<1>6. g = [seats |-> seats1, queue |-> h.queue, cooldownUntil |-> h.cooldownUntil,
           messages |-> messages1]
  BY <1>1 DEF Halls
<1>7. g \in Halls
  BY <1>3, <1>5, <1>6 DEF Halls
<1>8. ASSUME NEW i \in TakenSeats(g) PROVE g.seats[i].participant \in Entries(h)
  <2>1. i \in SeatIds /\ seats1[i] # None /\ g.seats[i] = seats1[i]
    BY <1>6 DEF TakenSeats
  <2>2. i \in TakenSeats(h) /\ seats1[i].participant = h.seats[i].participant
    BY <1>4, <2>1 DEF SeatOf, TakenSeats
  <2>3. QED BY <2>1, <2>2 DEF Entries
<1>9. QED BY <1>2, <1>6, <1>7, <1>8 DEF Entries

(* The body of the loop returns a hall.  A record in it is the one that the   *)
(* event renews or brings, or one that the event does not concern.            *)
LEMMA ApplyType ==
    ASSUME NEW h \in Halls, NEW e, EventLike(e)
    PROVE  /\ Apply(h, e) \in Halls
           /\ \A r \in Entries(Apply(h, e)) :
                \/ /\ e.kind \in {"join", "heartbeat"}
                   /\ r.peerId = e.origin /\ r.lastPresenceAt = e.issuedAt
                \/ /\ r \in Entries(h)
                   /\ r.peerId = e.origin => e.kind \notin {"join", "heartbeat", "leave"}
<1> DEFINE Good(k) == /\ k \in Halls
                      /\ \A r \in Entries(k) :
                           \/ /\ e.kind \in {"join", "heartbeat"}
                              /\ r.peerId = e.origin /\ r.lastPresenceAt = e.issuedAt
                           \/ /\ r \in Entries(h)
                              /\ r.peerId = e.origin => e.kind \notin {"join", "heartbeat", "leave"}
<1>0. e.origin \in Peers /\ e.issuedAt \in Nat
  BY DEF EventLike
<1>1. CASE e.kind = "leave"
  <2>1. Apply(h, e) = Release(h, e.origin, e.issuedAt, FALSE)
    BY <1>1 DEF Apply
  <2>2. \A c \in BOOLEAN : /\ Release(h, e.origin, e.issuedAt, c) \in Halls
                          /\ \A r \in Entries(Release(h, e.origin, e.issuedAt, c)) :
                               r \in Entries(h) /\ r.peerId # e.origin
    BY <1>0, ReleaseType
  <2>3. QED BY <2>1, <2>2
<1>2. CASE e.kind \in {"join", "heartbeat"} /\ e.origin \in Participants(h)
  <2>1. Apply(h, e) = Refresh(h, e)
    BY <1>2 DEF Apply
  <2>2. QED BY <1>2, <2>1, RefreshType
<1>3. CASE e.kind \in {"join", "heartbeat"} /\ e.origin \notin Participants(h)
  <2>0. \A r \in Entries(h) : r.peerId # e.origin
    BY <1>3, EntriesAreParticipants
  <2>1. CASE e.kind = "join" /\ Admissible(h, e.origin, e.issuedAt)
    <3>1. Apply(h, e) = Admit(h, e)
      BY <1>3, <2>1 DEF Apply
    <3>2. QED BY <2>0, <2>1, <3>1, AdmitType
  <2>2. CASE ~(e.kind = "join" /\ Admissible(h, e.origin, e.issuedAt))
    <3>1. Apply(h, e) = h
      BY <1>3, <2>2 DEF Apply
    <3>2. QED BY <2>0, <3>1
  <2>3. QED BY <2>1, <2>2
<1>4. CASE e.kind \notin {"leave", "join", "heartbeat"}
  <2>1. CASE e.kind = "chat" /\ MayPost(h, e)
    <3>1. Apply(h, e) = Post(h, e)
      BY <2>1 DEF Apply
    <3>2. QED BY <2>1, <3>1, PostType
  <2>2. CASE ~(e.kind = "chat" /\ MayPost(h, e))
    <3>1. Apply(h, e) = h
      BY <1>4, <2>2 DEF Apply
    <3>2. QED BY <1>4, <3>1
  <2>3. QED BY <2>1, <2>2
<1>5. QED BY <1>1, <1>2, <1>3, <1>4

LEMMA StepType ==
    ASSUME NEW h \in Halls, NEW e, EventLike(e)
    PROVE  /\ Step(h, e) \in Halls
           /\ \A r \in Entries(Step(h, e)) :
                \/ /\ e.kind \in {"join", "heartbeat"}
                   /\ r.peerId = e.origin /\ r.lastPresenceAt = e.issuedAt
                \/ /\ r \in Entries(h)
                   /\ r.peerId = e.origin => e.kind \notin {"join", "heartbeat", "leave"}
<1>1. e.issuedAt \in Int
  BY DEF EventLike
<1>2. Advance(h, e.issuedAt) \in Halls /\ Entries(Advance(h, e.issuedAt)) \subseteq Entries(h)
  BY <1>1, AdvanceType, AdvanceEntries
<1>3. QED BY <1>2, ApplyType DEF Step

-----------------------------------------------------------------------------
(* A log: finitely many events in a strict total order                       *)
IsLog(events) ==
    /\ IsFiniteSet(events)
    /\ \A e \in events : EventLike(e)
    /\ \A e, f \in events : e # f => Earlier(e, f) \/ Earlier(f, e)

LEMMA EarlierIsOrder ==
    ASSUME NEW e, NEW f, NEW g, EventLike(e), EventLike(f), EventLike(g)
    PROVE  /\ ~Earlier(e, e)
           /\ ~(Earlier(e, f) /\ Earlier(f, e))
           /\ Earlier(e, f) /\ Earlier(f, g) => Earlier(e, g)
<1>1. ASSUME NEW x, EventLike(x)
      PROVE  x.issuedAt \in Nat /\ x.origin \in Nat /\ x.sequence \in Nat
  BY <1>1, RulesAssumption DEF EventLike
<1>2. /\ e.issuedAt \in Nat /\ e.origin \in Nat /\ e.sequence \in Nat
      /\ f.issuedAt \in Nat /\ f.origin \in Nat /\ f.sequence \in Nat
      /\ g.issuedAt \in Nat /\ g.origin \in Nat /\ g.sequence \in Nat
  BY <1>1
<1>3. QED BY <1>2 DEF Earlier

LastEvent(seen) == CHOOSE e \in seen : \A f \in seen \ {e} : Earlier(f, e)

(* A log that is not empty has a last event. *)
LEMMA LastExists ==
    ASSUME NEW seen, IsLog(seen), seen # {}
    PROVE  /\ LastEvent(seen) \in seen
           /\ \A f \in seen \ {LastEvent(seen)} : Earlier(f, LastEvent(seen))
<1> DEFINE After(e) == { f \in seen : Earlier(e, f) }
           rank == [e \in seen |-> Cardinality(After(e))]
<1>1. SUFFICES \E e \in seen : \A f \in seen \ {e} : Earlier(f, e)
  BY DEF LastEvent
<1>2. SUFFICES ASSUME \A e \in seen : \E f \in seen \ {e} : ~Earlier(f, e)
               PROVE  FALSE
  OBVIOUS
<1>3. IsFiniteSet(seen) /\ \A e \in seen : EventLike(e)
  BY DEF IsLog
<1>4. ASSUME NEW e \in seen
      PROVE  IsFiniteSet(After(e)) /\ Cardinality(After(e)) \in Nat
  BY <1>3, FS_Subset, FS_CardinalityType
<1>5. ASSUME NEW e \in seen PROVE \E f \in seen : rank[f] < rank[e]
  <2>1. PICK f \in seen : Earlier(e, f)
    BY <1>2 DEF IsLog
  <2>2. After(f) \subseteq After(e)
    BY <1>3, <2>1, EarlierIsOrder
  <2>3. f \in After(e) /\ f \notin After(f)
    BY <1>3, <2>1, EarlierIsOrder
  <2>4. Cardinality(After(f)) <= Cardinality(After(e)) /\ Cardinality(After(f)) # Cardinality(After(e))
    BY <1>4, <2>2, <2>3, FS_Subset
  <2>5. rank[f] = Cardinality(After(f)) /\ rank[e] = Cardinality(After(e))
    OBVIOUS
  <2>6. Cardinality(After(f)) \in Nat /\ Cardinality(After(e)) \in Nat
    BY <1>4
  <2> HIDE DEF rank, After
  <2>7. rank[f] < rank[e]
    BY <2>4, <2>5, <2>6
  <2>8. QED BY <2>7
<1>6. \A e \in seen : rank[e] \in Nat
  BY <1>4
<1> HIDE DEF rank
<1>7. QED BY <1>5, <1>6, Descent

LEMMA SubLog ==
    ASSUME NEW events, IsLog(events), NEW seen \in SUBSET events
    PROVE  IsLog(seen)
BY FS_Subset DEF IsLog

(* The function in Replay, on the parts of a log, as an equation *)
Replays(after, events) ==
    after = [seen \in SUBSET events |->
        IF seen = {} THEN EmptyHall ELSE Step(after[seen \ {LastEvent(seen)}], LastEvent(seen))]

LEMMA EmptyHallType == EmptyHall \in Halls
<1>1. 0 \in Nat /\ <<>> \in Seq(Message)
  OBVIOUS
<1>2. QED BY <1>1 DEF EmptyHall, Halls

LEMMA ReplaysExists ==
    ASSUME NEW events, IsLog(events)
    PROVE  \E after : Replays(after, events)
<1> DEFINE S == SUBSET events
           stop == {{}}
           step == [seen \in S |-> IF seen = {} THEN {} ELSE seen \ {LastEvent(seen)}]
           out == [seen \in S |-> EmptyHall]
           op == [seen \in S |-> [h \in Halls |-> IF seen = {} THEN h ELSE Step(h, LastEvent(seen))]]
           rank == [seen \in S |-> Cardinality(seen)]
           bound == Cardinality(events)
<1>1. ASSUME NEW seen \in S
      PROVE  /\ IsFiniteSet(seen) /\ Cardinality(seen) \in Nat
             /\ Cardinality(seen) <= Cardinality(events) /\ Cardinality(events) \in Nat
  BY FS_Subset, FS_CardinalityType DEF IsLog
<1>2. ASSUME NEW seen \in S, seen # {}
      PROVE  /\ LastEvent(seen) \in seen /\ EventLike(LastEvent(seen))
             /\ seen \ {LastEvent(seen)} \in S
             /\ Cardinality(seen \ {LastEvent(seen)}) = Cardinality(seen) - 1
  <2>1. LastEvent(seen) \in seen
    BY <1>2, SubLog, LastExists
  <2>2. EventLike(LastEvent(seen))
    BY <2>1 DEF IsLog
  <2>3. QED BY <1>1, <2>1, <2>2, FS_RemoveElement
<1>3. /\ stop \subseteq S /\ step \in [S -> S] /\ out \in [S -> Halls] /\ rank \in [S -> Nat]
      /\ bound \in Nat /\ \A seen \in S : rank[seen] <= bound
  BY <1>1, <1>2, EmptyHallType
<1>4. op \in [S -> [Halls -> Halls]]
  BY <1>2, StepType
<1>5. ASSUME NEW seen \in S \ stop PROVE rank[step[seen]] < rank[seen]
  <2>1. seen \in S /\ seen # {}
    OBVIOUS
  <2>2. step[seen] = seen \ {LastEvent(seen)} /\ step[seen] \in S
    BY <1>2, <2>1
  <2>3. rank[step[seen]] = Cardinality(seen) - 1 /\ rank[seen] = Cardinality(seen)
    BY <1>2, <2>1, <2>2
  <2>4. QED BY <1>1, <2>1, <2>3
<1>6. PICK f : Solves(f, S, Halls, stop, step, out, op)
  <2> HIDE DEF S, stop, step, out, op, rank, bound
  <2>1. Recursion(S, Halls, stop, step, out, op, rank, bound)
    BY <1>3, <1>4, <1>5 DEF Recursion
  <2>2. QED BY <2>1, RecursionExists
<1>7. f \in [S -> Halls]
  BY <1>6 DEF Solves
<1>8. ASSUME NEW seen \in S
      PROVE  f[seen] = IF seen = {} THEN EmptyHall ELSE Step(f[seen \ {LastEvent(seen)}], LastEvent(seen))
  <2>1. f[seen] = IF seen \in stop THEN out[seen] ELSE op[seen][f[step[seen]]]
    BY <1>6 DEF Solves
  <2>2. CASE seen = {}
    BY <2>1, <2>2
  <2>3. CASE seen # {}
    <3>1. step[seen] = seen \ {LastEvent(seen)} /\ f[seen \ {LastEvent(seen)}] \in Halls
      BY <1>2, <1>7, <2>3
    <3>2. f[seen] = op[seen][f[step[seen]]]
      BY <2>1, <2>3
    <3>3. \A h \in Halls : op[seen][h] = Step(h, LastEvent(seen))
      BY <2>3
    <3> HIDE DEF op, step
    <3>4. QED BY <2>3, <3>1, <3>2, <3>3
  <2>4. QED BY <2>2, <2>3
<1>9. f = [seen \in S |->
             IF seen = {} THEN EmptyHall ELSE Step(f[seen \ {LastEvent(seen)}], LastEvent(seen))]
  <2>1. f = [seen \in S |-> f[seen]]
    BY <1>7
  <2>2. QED BY <1>8, <2>1
<1>10. QED BY <1>9 DEF Replays

(* Two functions that replay agree where both are defined. *)
LEMMA ReplaysUnique ==
    ASSUME NEW events, IsLog(events), NEW some \in SUBSET events,
           NEW f, Replays(f, events), NEW g, Replays(g, some)
    PROVE  \A seen \in SUBSET some : f[seen] = g[seen]
<1> DEFINE Bad == { seen \in SUBSET some : f[seen] # g[seen] }
           rank == [seen \in SUBSET some |-> Cardinality(seen)]
<1>1. ASSUME NEW seen \in SUBSET some
      PROVE  /\ IsFiniteSet(seen) /\ Cardinality(seen) \in Nat
             /\ f[seen] = IF seen = {} THEN EmptyHall ELSE Step(f[seen \ {LastEvent(seen)}], LastEvent(seen))
             /\ g[seen] = IF seen = {} THEN EmptyHall ELSE Step(g[seen \ {LastEvent(seen)}], LastEvent(seen))
  <2>1. seen \in SUBSET events
    OBVIOUS
  <2>2. IsFiniteSet(seen) /\ Cardinality(seen) \in Nat
    BY <2>1, FS_Subset, FS_CardinalityType DEF IsLog
  <2>3. f[seen] = IF seen = {} THEN EmptyHall ELSE Step(f[seen \ {LastEvent(seen)}], LastEvent(seen))
    BY <2>1 DEF Replays
  <2>4. g[seen] = IF seen = {} THEN EmptyHall ELSE Step(g[seen \ {LastEvent(seen)}], LastEvent(seen))
    BY DEF Replays
  <2>5. QED BY <2>2, <2>3, <2>4
<1>2. ASSUME NEW seen \in Bad PROVE \E t \in Bad : rank[t] < rank[seen]
  <2> DEFINE t == seen \ {LastEvent(seen)}
  <2>1. seen \in SUBSET some /\ f[seen] # g[seen]
    OBVIOUS
  <2>2. seen # {}
    BY <1>1, <2>1
  <2>3. LastEvent(seen) \in seen /\ t \in SUBSET some
    BY <2>1, <2>2, SubLog, LastExists
  <2>4. f[t] # g[t]
    BY <1>1, <2>1, <2>2
  <2>5. rank[t] = Cardinality(seen) - 1 /\ rank[seen] = Cardinality(seen) /\ Cardinality(seen) \in Nat
    BY <1>1, <2>1, <2>3, FS_RemoveElement
  <2> HIDE DEF t, rank
  <2>6. t \in Bad
    BY <2>3, <2>4
  <2>7. rank[t] < rank[seen]
    BY <2>5
  <2>8. QED BY <2>6, <2>7
<1>3. \A seen \in Bad : rank[seen] \in Nat
  BY <1>1
<1> HIDE DEF rank, Bad
<1>4. Bad = {}
  BY <1>2, <1>3, Descent
<1>5. QED BY <1>4 DEF Bad

(* The loop over the log, as one equation: the last event is applied to the   *)
(* hall that the others lead to.                                             *)
LEMMA ReplayEquation ==
    ASSUME NEW events, IsLog(events)
    PROVE  /\ events = {} => Replay(events) = EmptyHall
           /\ events # {} => Replay(events) = Step(Replay(events \ {LastEvent(events)}), LastEvent(events))
<1> DEFINE F(E) == CHOOSE after : Replays(after, E)
<1>1. ASSUME NEW E PROVE Replay(E) = F(E)[E]
  BY DEF Replay, Replays, LastEvent
<1>2. ASSUME NEW E, IsLog(E) PROVE Replays(F(E), E)
  BY <1>2, ReplaysExists
<1> HIDE DEF F
<1>3. events = {} => F(events)[events] = EmptyHall
  BY <1>2 DEF Replays
<1>4. ASSUME events # {}
      PROVE  F(events)[events] = Step(F(events)[events \ {LastEvent(events)}], LastEvent(events))
  BY <1>2, <1>4 DEF Replays
<1>5. ASSUME events # {}
      PROVE  F(events)[events \ {LastEvent(events)}] = Replay(events \ {LastEvent(events)})
  <2> DEFINE some == events \ {LastEvent(events)}
  <2>1. some \in SUBSET events /\ IsLog(some)
    BY SubLog
  <2>2. F(events)[some] = F(some)[some]
    <3> HIDE DEF some
    <3>1. QED BY <1>2, <2>1, ReplaysUnique
  <2>3. QED BY <1>1, <2>2
<1>6. QED BY <1>1, <1>3, <1>4, <1>5

LEMMA ReplayType ==
    ASSUME NEW events, IsLog(events)
    PROVE  Replay(events) \in Halls
<1> DEFINE Bad == { seen \in SUBSET events : Replay(seen) \notin Halls }
           rank == [seen \in SUBSET events |-> Cardinality(seen)]
<1>1. ASSUME NEW seen \in SUBSET events
      PROVE  IsFiniteSet(seen) /\ Cardinality(seen) \in Nat /\ IsLog(seen)
  BY SubLog, FS_CardinalityType DEF IsLog
<1>2. ASSUME NEW seen \in Bad PROVE \E t \in Bad : rank[t] < rank[seen]
  <2> DEFINE t == seen \ {LastEvent(seen)}
  <2>1. seen \in SUBSET events /\ Replay(seen) \notin Halls
    OBVIOUS
  <2>2. seen # {} /\ Replay(seen) = Step(Replay(t), LastEvent(seen))
    BY <1>1, <2>1, ReplayEquation, EmptyHallType
  <2>3. LastEvent(seen) \in seen /\ EventLike(LastEvent(seen)) /\ t \in SUBSET events
    BY <1>1, <2>1, <2>2, LastExists DEF IsLog
  <2>4. Replay(t) \notin Halls
    BY <2>1, <2>2, <2>3, StepType
  <2>5. rank[t] = Cardinality(seen) - 1 /\ rank[seen] = Cardinality(seen) /\ Cardinality(seen) \in Nat
    BY <1>1, <2>1, <2>3, FS_RemoveElement
  <2> HIDE DEF t, rank
  <2>6. t \in Bad
    BY <2>3, <2>4
  <2>7. rank[t] < rank[seen]
    BY <2>5
  <2>8. QED BY <2>6, <2>7
<1>3. \A seen \in Bad : rank[seen] \in Nat
  BY <1>1
<1> HIDE DEF rank, Bad
<1>4. Bad = {}
  BY <1>2, <1>3, Descent
<1>5. QED BY <1>4 DEF Bad

(* The presence a record rests on: the last thing that its peer said of its   *)
(* presence in the log is the presence event that the record was renewed by. *)
RestsOn(r, events) ==
    \E f \in events :
        /\ f.origin = r.peerId /\ f.kind \in {"join", "heartbeat"}
        /\ f.issuedAt = r.lastPresenceAt
        /\ \A g \in events :
             g.origin = f.origin /\ g.kind \in {"join", "heartbeat", "leave"}
                 => g = f \/ Earlier(g, f)

LEMMA ReplayRests ==
    ASSUME NEW events, IsLog(events)
    PROVE  \A r \in Entries(Replay(events)) : RestsOn(r, events)
<1> DEFINE Good(seen) == \A r \in Entries(Replay(seen)) : RestsOn(r, seen)
           Bad == { seen \in SUBSET events : ~Good(seen) }
           rank == [seen \in SUBSET events |-> Cardinality(seen)]
<1>1. ASSUME NEW seen \in SUBSET events
      PROVE  IsFiniteSet(seen) /\ Cardinality(seen) \in Nat /\ IsLog(seen)
  BY SubLog, FS_CardinalityType DEF IsLog
<1>2. Good({})
  <2>1. Replay({}) = EmptyHall
    BY <1>1, ReplayEquation
  <2>2. Entries(EmptyHall) = {}
    BY DEF Entries, EmptyHall, TakenSeats
  <2>3. QED BY <2>1, <2>2
<1>3. ASSUME NEW seen \in SUBSET events, seen # {}, Good(seen \ {LastEvent(seen)})
      PROVE  Good(seen)
  <2> DEFINE e == LastEvent(seen)
             t == seen \ {e}
  <2>1. /\ Replay(seen) = Step(Replay(t), e) /\ e \in seen /\ EventLike(e)
        /\ \A f \in t : Earlier(f, e)
    BY <1>1, <1>3, ReplayEquation, LastExists DEF IsLog
  <2>2. Replay(t) \in Halls
    BY SubLog, ReplayType
  <2> HIDE DEF e
  <2>3. ASSUME NEW r \in Entries(Replay(seen)) PROVE RestsOn(r, seen)
    <3>1. \/ /\ e.kind \in {"join", "heartbeat"}
             /\ r.peerId = e.origin /\ r.lastPresenceAt = e.issuedAt
          \/ /\ r \in Entries(Replay(t))
             /\ r.peerId = e.origin => e.kind \notin {"join", "heartbeat", "leave"}
      BY <2>1, <2>2, <2>3, StepType
    <3>2. CASE /\ e.kind \in {"join", "heartbeat"}
               /\ r.peerId = e.origin /\ r.lastPresenceAt = e.issuedAt
      BY <2>1, <3>2 DEF RestsOn
    <3>3. CASE /\ r \in Entries(Replay(t))
               /\ r.peerId = e.origin => e.kind \notin {"join", "heartbeat", "leave"}
      <4>1. RestsOn(r, t)
        BY <1>3, <3>3 DEF e
      <4>2. QED BY <3>3, <4>1 DEF RestsOn
    <3>4. QED BY <3>1, <3>2, <3>3
  <2>4. QED BY <2>3
<1>4. ASSUME NEW seen \in Bad PROVE \E t \in Bad : rank[t] < rank[seen]
  <2> DEFINE t == seen \ {LastEvent(seen)}
  <2>1. seen \in SUBSET events /\ ~Good(seen)
    OBVIOUS
  <2> HIDE DEF Good
  <2>2. seen # {} /\ ~Good(t)
    BY <1>2, <1>3, <2>1
  <2>3. LastEvent(seen) \in seen /\ t \in SUBSET events
    BY <1>1, <2>1, <2>2, LastExists
  <2>4. rank[t] = Cardinality(seen) - 1 /\ rank[seen] = Cardinality(seen) /\ Cardinality(seen) \in Nat
    BY <1>1, <2>1, <2>3, FS_RemoveElement
  <2> HIDE DEF t, rank
  <2>5. t \in Bad
    BY <2>2, <2>3
  <2>6. rank[t] < rank[seen]
    BY <2>4
  <2>7. QED BY <2>5, <2>6
<1>5. \A seen \in Bad : rank[seen] \in Nat
  BY <1>1
<1> HIDE DEF rank, Bad
<1>6. Bad = {}
  BY <1>4, <1>5, Descent
<1>7. Good(events)
  BY <1>6 DEF Bad
<1>8. QED BY <1>7

(* Whoever is in the hall that derive() returns is there by the last word of  *)
(* its own, which is recent, and a leave is obeyed whenever it is the last.   *)
THEOREM PresenceBacked ==
    ASSUME NEW events, IsLog(events), NEW now \in Int
    PROVE  /\ Derive(events, now) \in Halls
           /\ \A r \in Entries(Derive(events, now)) :
                RestsOn(r, events) /\ r.lastPresenceAt + PresenceTtlMs > now
<1>1. Replay(events) \in Halls
  BY ReplayType
<1>2. /\ Derive(events, now) \in Halls
      /\ Entries(Derive(events, now)) \subseteq Entries(Replay(events))
      /\ \A r \in Entries(Derive(events, now)) : r.lastPresenceAt + PresenceTtlMs > now
  BY <1>1, AdvanceType, AdvanceEntries DEF Derive
<1>3. QED BY <1>2, ReplayRests

-----------------------------------------------------------------------------
(* fillSeats in parts: the place of a peer among those who wait, the rank of  *)
(* a seat among the free ones, and who takes which.                          *)
PlaceIn(waiting, p) == Cardinality({ q \in waiting : Before(q, p) })
RankIn(free, i) == Cardinality({ j \in free : j < i })
TakersOf(free, waiting, i) == { p \in waiting : PlaceIn(waiting, p) = RankIn(free, i) }
NewSeat(p, at) == [participant |-> p, seatedAt |-> at, lastSpokeAt |-> None]
Filled(seats, free, waiting, at) ==
    [i \in SeatIds |->
        IF i \in free /\ TakersOf(free, waiting, i) # {}
        THEN NewSeat(CHOOSE p \in TakersOf(free, waiting, i) : TRUE, at)
        ELSE seats[i]]
StillWaiting(free, waiting) == { p \in waiting : PlaceIn(waiting, p) >= Cardinality(free) }

LEMMA FillSeatsParts ==
    ASSUME NEW h \in Halls, NEW at
    PROVE  FillSeats(h, at) =
              [seats |-> Filled(h.seats, FreeSeats(h), Fresh(h.queue, at), at),
               queue |-> StillWaiting(FreeSeats(h), Fresh(h.queue, at)),
               cooldownUntil |-> h.cooldownUntil, messages |-> h.messages]
<1>1. FillSeats(h, at) =
         [h EXCEPT !.seats = Filled(h.seats, FreeSeats(h), Fresh(h.queue, at), at),
                   !.queue = StillWaiting(FreeSeats(h), Fresh(h.queue, at))]
  BY DEF FillSeats, Filled, StillWaiting, TakersOf, PlaceIn, RankIn, NewSeat
<1>2. QED BY <1>1 DEF Halls

(* The filter with which fillSeats begins may as well come before it. *)
LEMMA FillSeatsFilters ==
    ASSUME NEW g \in Halls, NEW h \in Halls, NEW at,
           g.seats = h.seats, g.queue = Fresh(h.queue, at),
           g.cooldownUntil = h.cooldownUntil, g.messages = h.messages
    PROVE  FillSeats(g, at) = FillSeats(h, at)
<1>1. Fresh(g.queue, at) = Fresh(h.queue, at) /\ FreeSeats(g) = FreeSeats(h)
  BY DEF Fresh, FreeSeats, TakenSeats
<1>2. QED BY <1>1, FillSeatsParts

LEMMA OneLess ==
    ASSUME NEW S, IsFiniteSet(S), NEW x \in S
    PROVE  /\ Cardinality(S) \in Nat /\ Cardinality(S) >= 1
           /\ Cardinality(S \ {x}) = Cardinality(S) - 1
<1>1. Cardinality(S) \in Nat /\ Cardinality(S \ {x}) \in Nat
  BY FS_CardinalityType, FS_Subset
<1>2. Cardinality(S \ {x}) = Cardinality(S) - 1
  BY FS_RemoveElement
<1>3. QED BY <1>1, <1>2

LEMMA FreeFinite ==
    ASSUME NEW h \in Halls
    PROVE  /\ FreeSeats(h) \subseteq SeatIds /\ FreeSeats(h) \subseteq Nat
           /\ IsFiniteSet(FreeSeats(h)) /\ Cardinality(FreeSeats(h)) \in Nat
<1>1. SeatIds \subseteq Nat /\ IsFiniteSet(SeatIds)
  <2>1. SeatCount \in Nat /\ 1 \in Nat
    BY RulesAssumption
  <2>2. QED BY <2>1, FS_Interval DEF SeatIds
<1>2. FreeSeats(h) \subseteq SeatIds
  BY DEF FreeSeats
<1>3. QED BY <1>1, <1>2, FS_Subset, FS_CardinalityType

(* When no seat is free, or nobody waits, fillSeats is done. *)
LEMMA FillSeatsDone ==
    ASSUME NEW h \in Halls, NEW at, IsFiniteSet(h.queue),
           \A p \in h.queue : QueueExpiry(p) > at,
           FreeSeats(h) = {} \/ h.queue = {}
    PROVE  FillSeats(h, at) = h
<1> DEFINE free == FreeSeats(h)
           waiting == Fresh(h.queue, at)
<1>1. waiting = h.queue
  BY DEF Fresh
<1>2. Filled(h.seats, free, waiting, at) = h.seats
  <2>1. \A i \in SeatIds : ~(i \in free /\ TakersOf(free, waiting, i) # {})
    BY <1>1 DEF TakersOf
  <2>2. Filled(h.seats, free, waiting, at) = [i \in SeatIds |-> h.seats[i]]
    BY <2>1 DEF Filled
  <2>3. QED BY <2>2 DEF Halls
<1>3. StillWaiting(free, waiting) = h.queue
  <2>1. CASE h.queue = {}
    BY <1>1, <2>1 DEF StillWaiting
  <2>2. CASE free = {}
    <3>1. Cardinality(free) = 0
      BY <2>2, FS_EmptySet
    <3>2. \A p \in h.queue : PlaceIn(waiting, p) \in Nat
      BY <1>1, FS_Subset, FS_CardinalityType DEF PlaceIn
    <3>3. \A p \in h.queue : PlaceIn(waiting, p) >= Cardinality(free)
      BY <3>1, <3>2
    <3>4. QED BY <1>1, <3>3 DEF StillWaiting
  <2>3. QED BY <2>1, <2>2
<1>4. FillSeats(h, at) = [seats |-> h.seats, queue |-> h.queue,
                          cooldownUntil |-> h.cooldownUntil, messages |-> h.messages]
  BY <1>2, <1>3, FillSeatsParts
<1>5. QED BY <1>4 DEF Halls

(* One turn of its loop: the first of the queue takes the lowest free seat,   *)
(* and the others move up by one.                                            *)
LEMMA FillSeatsTurn ==
    ASSUME NEW h \in Halls, NEW g \in Halls, NEW at, IsFiniteSet(h.queue),
           \A p \in h.queue : QueueExpiry(p) > at,
           NEW i \in FreeSeats(h), \A j \in FreeSeats(h) : i <= j,
           NEW head \in h.queue, \A p \in h.queue : p = head \/ Before(head, p),
           NewSeat(head, at) # None,
           g.seats = [h.seats EXCEPT ![i] = NewSeat(head, at)],
           g.queue = h.queue \ {head},
           g.cooldownUntil = h.cooldownUntil, g.messages = h.messages
    PROVE  FillSeats(g, at) = FillSeats(h, at)
<1> DEFINE free == FreeSeats(h)
           rest == FreeSeats(g)
           waiting == h.queue
           later == g.queue
<1>0. /\ Fresh(h.queue, at) = waiting /\ Fresh(g.queue, at) = later
      /\ i \in SeatIds /\ free \subseteq SeatIds /\ free \subseteq Nat /\ i \in Nat
      /\ IsFiniteSet(free) /\ Cardinality(free) \in Nat
  BY FreeFinite DEF Fresh
<1>1. rest = free \ {i} /\ later = waiting \ {head}
  <2>1. g.seats[i] # None /\ \A j \in SeatIds \ {i} : g.seats[j] = h.seats[j]
    BY <1>0 DEF Halls
  <2>2. QED BY <2>1 DEF FreeSeats, TakenSeats
<1>2. \A p \in waiting : ~Before(p, head) /\ ~Before(p, p)
  <2>1. \A p \in waiting : p \in Participant
    BY WaitingPeer
  <2>2. \A p \in waiting : p.joinedAt \in Nat /\ p.peerId \in Nat
    BY <2>1, ParticipantFields
  <2>3. QED BY <2>2 DEF Before
<1>3. ASSUME NEW p \in later
      PROVE  /\ PlaceIn(waiting, p) \in Nat /\ PlaceIn(waiting, p) >= 1
             /\ PlaceIn(later, p) = PlaceIn(waiting, p) - 1
  <2> DEFINE ahead == { q \in waiting : Before(q, p) }
  <2>1. head \in ahead /\ IsFiniteSet(ahead) /\ { q \in later : Before(q, p) } = ahead \ {head}
    BY <1>1, FS_Subset
  <2> HIDE DEF ahead
  <2>2. QED BY <2>1, OneLess DEF PlaceIn, ahead
<1>4. PlaceIn(waiting, head) = 0
  <2>1. { q \in waiting : Before(q, head) } = {}
    BY <1>2
  <2>2. QED BY <2>1, FS_EmptySet DEF PlaceIn
<1>5. ASSUME NEW j \in rest
      PROVE  /\ RankIn(free, j) \in Nat /\ RankIn(free, j) >= 1
             /\ RankIn(rest, j) = RankIn(free, j) - 1
  <2> DEFINE below == { k \in free : k < j }
  <2>1. i \in below
    <3>1. j \in free /\ j # i /\ i <= j /\ j \in Nat
      BY <1>0, <1>1
    <3>2. QED BY <1>0, <3>1
  <2>2. IsFiniteSet(below) /\ { k \in rest : k < j } = below \ {i}
    BY <1>0, <1>1, FS_Subset
  <2> HIDE DEF below
  <2>3. QED BY <2>1, <2>2, OneLess DEF RankIn, below
<1>6. RankIn(free, i) = 0
  <2>1. { k \in free : k < i } = {}
    BY <1>0
  <2>2. QED BY <2>1, FS_EmptySet DEF RankIn
<1>7. Cardinality(rest) = Cardinality(free) - 1 /\ Cardinality(free) >= 1
  BY <1>0, <1>1, OneLess
<1> HIDE DEF free, rest, waiting, later
<1>8. ASSUME NEW j \in rest PROVE TakersOf(rest, later, j) = TakersOf(free, waiting, j)
  <2>1. ASSUME NEW p \in later
        PROVE  PlaceIn(later, p) = RankIn(rest, j) <=> PlaceIn(waiting, p) = RankIn(free, j)
    BY <1>3, <1>5
  <2>2. PlaceIn(waiting, head) # RankIn(free, j)
    BY <1>4, <1>5
  <2>3. QED BY <1>1, <2>1, <2>2 DEF TakersOf
<1>9. TakersOf(free, waiting, i) = {head}
  <2>1. \A p \in later : PlaceIn(waiting, p) # RankIn(free, i)
    BY <1>3, <1>6
  <2>2. head \in waiting
    BY DEF waiting
  <2>3. QED BY <1>1, <1>4, <1>6, <2>1, <2>2 DEF TakersOf
<1>10. StillWaiting(rest, later) = StillWaiting(free, waiting)
  <2>1. ASSUME NEW p \in later
        PROVE  PlaceIn(later, p) >= Cardinality(rest) <=> PlaceIn(waiting, p) >= Cardinality(free)
    BY <1>0, <1>3, <1>7
  <2>2. ~(PlaceIn(waiting, head) >= Cardinality(free))
    BY <1>0, <1>4, <1>7
  <2>3. QED BY <1>1, <2>1, <2>2 DEF StillWaiting
<1>11. Filled(g.seats, rest, later, at) = Filled(h.seats, free, waiting, at)
  <2> DEFINE inG(j) == IF j \in rest /\ TakersOf(rest, later, j) # {}
                       THEN NewSeat(CHOOSE p \in TakersOf(rest, later, j) : TRUE, at)
                       ELSE g.seats[j]
             inH(j) == IF j \in free /\ TakersOf(free, waiting, j) # {}
                       THEN NewSeat(CHOOSE p \in TakersOf(free, waiting, j) : TRUE, at)
                       ELSE h.seats[j]
  <2>1. ASSUME NEW j \in SeatIds PROVE inG(j) = inH(j)
    <3>1. CASE j \in rest
      <4>1. TakersOf(rest, later, j) = TakersOf(free, waiting, j) /\ j \in free /\ j # i
        BY <1>1, <1>8, <3>1
      <4>2. g.seats[j] = h.seats[j]
        BY <4>1 DEF Halls
      <4>3. QED BY <3>1, <4>1, <4>2
    <3>2. CASE j = i
      <4>1. (CHOOSE p \in TakersOf(free, waiting, i) : TRUE) = head
        BY <1>9
      <4>2. g.seats[i] = NewSeat(head, at) /\ i \notin rest /\ i \in free
        BY <1>0, <1>1 DEF Halls, free
      <4>3. QED BY <1>9, <3>2, <4>1, <4>2
    <3>3. CASE j \notin rest /\ j # i
      <4>1. j \notin free /\ g.seats[j] = h.seats[j]
        BY <1>1, <3>3 DEF Halls
      <4>2. QED BY <3>3, <4>1
    <3>4. QED BY <3>1, <3>2, <3>3
  <2>2. QED BY <2>1 DEF Filled
<1>12. QED BY <1>0, <1>10, <1>11, FillSeatsParts DEF free, rest, waiting, later

(* The next to expire is the one that is sooner than all the others. *)
LEMMA NextDueIs ==
    ASSUME NEW h \in Halls, NEW time, NEW x \in Due(h, time),
           \A y \in Due(h, time) : y = x \/ Sooner(x, y)
    PROVE  NextDue(h, time) = x
BY NextDueExists

(* Nothing is due when all deadlines are in the future. *)
LEMMA NothingIsDue ==
    ASSUME NEW h \in Halls, NEW time \in Int
    PROVE  Due(h, time) = {} <=> /\ \A i \in TakenSeats(h) : SeatExpiry(h.seats[i]) > time
                                 /\ \A p \in h.queue : QueueExpiry(p) > time
<1>1. \A i \in TakenSeats(h) : SeatExpiry(h.seats[i]) \in Nat
  BY TakenSeat, SeatExpiryLeast
<1>2. \A p \in h.queue : QueueExpiry(p) \in Nat
  BY WaitingPeer, ParticipantFields
<1>3. \A n \in Nat : n > time <=> ~(n <= time)
  OBVIOUS
<1>4. Due(h, time) = {} <=> \A x \in SeatExpiries(h) \cup QueueExpiries(h) : ~(x.at <= time)
  BY DEF Due
<1>5. (\A x \in SeatExpiries(h) : ~(x.at <= time))
         <=> \A i \in TakenSeats(h) : ~(SeatExpiry(h.seats[i]) <= time)
  <2> DEFINE R(i) == [at |-> SeatExpiry(h.seats[i]), peerId |-> h.seats[i].participant.peerId,
                      cooldown |-> TRUE, place |-> <<0, i>>]
  <2>1. SeatExpiries(h) = { R(i) : i \in TakenSeats(h) }
    BY DEF SeatExpiries
  <2>2. \A i \in TakenSeats(h) : R(i).at = SeatExpiry(h.seats[i])
    OBVIOUS
  <2> HIDE DEF R
  <2>3. QED BY <2>1, <2>2
<1>6. (\A x \in QueueExpiries(h) : ~(x.at <= time))
         <=> \A p \in h.queue : ~(QueueExpiry(p) <= time)
  <2> DEFINE R(p) == [at |-> QueueExpiry(p), peerId |-> p.peerId,
                      cooldown |-> FALSE, place |-> <<p.joinedAt + 1, p.peerId>>]
  <2>1. QueueExpiries(h) = { R(p) : p \in h.queue }
    BY DEF QueueExpiries
  <2>2. \A p \in h.queue : R(p).at = QueueExpiry(p)
    OBVIOUS
  <2> HIDE DEF R
  <2>3. QED BY <2>1, <2>2
<1>7. QED BY <1>1, <1>2, <1>3, <1>4, <1>5, <1>6

-----------------------------------------------------------------------------
(* Refresh and Admit, field by field *)
LEMMA RefreshParts ==
    ASSUME NEW h \in Halls, NEW e
    PROVE  Refresh(h, e) =
             [seats |-> [i \in SeatIds |->
                 IF i \in SeatOf(h, e.origin)
                 THEN [h.seats[i] EXCEPT !.participant.lastPresenceAt = e.issuedAt]
                 ELSE h.seats[i]],
              queue |-> { IF p.peerId = e.origin THEN [p EXCEPT !.lastPresenceAt = e.issuedAt]
                          ELSE p : p \in h.queue },
              cooldownUntil |-> h.cooldownUntil, messages |-> h.messages]
<1> DEFINE seats1 == [i \in SeatIds |->
                 IF i \in SeatOf(h, e.origin)
                 THEN [h.seats[i] EXCEPT !.participant.lastPresenceAt = e.issuedAt]
                 ELSE h.seats[i]]
           queue1 == { IF p.peerId = e.origin THEN [p EXCEPT !.lastPresenceAt = e.issuedAt]
                       ELSE p : p \in h.queue }
<1>1. PICK g : g = [h EXCEPT !.seats = seats1, !.queue = queue1]
  OBVIOUS
<1>2. Refresh(h, e) = g
  BY <1>1 DEF Refresh
<1> HIDE DEF seats1, queue1
<1>3. g = [seats |-> seats1, queue |-> queue1, cooldownUntil |-> h.cooldownUntil,
           messages |-> h.messages]
  BY <1>1 DEF Halls
<1>4. QED BY <1>2, <1>3 DEF seats1, queue1

LEMMA AdmitIs ==
    ASSUME NEW h \in Halls, NEW g \in Halls, NEW e, NEW new \in Participant,
           new = [peerId |-> e.origin, joinedAt |-> e.joinedAt, lastPresenceAt |-> e.issuedAt],
           g.seats = h.seats, g.queue = Fresh(h.queue \cup {new}, e.issuedAt),
           g.cooldownUntil = h.cooldownUntil, g.messages = h.messages
    PROVE  Admit(h, e) = FillSeats(g, e.issuedAt)
<1>1. PICK c : c = [h EXCEPT !.queue = h.queue \cup {new}]
  OBVIOUS
<1>2. Admit(h, e) = FillSeats(c, e.issuedAt)
  BY <1>1 DEF Admit
<1>3. c = [seats |-> h.seats, queue |-> h.queue \cup {new},
           cooldownUntil |-> h.cooldownUntil, messages |-> h.messages]
  <2>1. h \in [seats : [SeatIds -> Seat \cup {None}], queue : SUBSET Participant,
               cooldownUntil : [Peers -> Nat], messages : Seq(Message)]
    BY DEF Halls
  <2>2. QED BY <1>1, <2>1, Zenon
<1>4. c \in Halls
  BY <1>3 DEF Halls
<1>5. QED BY <1>2, <1>3, <1>4, FillSeatsFilters

-----------------------------------------------------------------------------
(* The ranks of n seats are 0 to n - 1, each the rank of one seat. *)
LEMMA RanksOnto ==
    ASSUME NEW free \in SUBSET Nat, IsFiniteSet(free)
    PROVE  /\ \A i \in free : RankIn(free, i) \in Nat /\ RankIn(free, i) < Cardinality(free)
           /\ \A i, j \in free : RankIn(free, i) = RankIn(free, j) => i = j
           /\ \A n \in Nat : n < Cardinality(free) => \E i \in free : RankIn(free, i) = n
<1> DEFINE below(i) == { j \in free : j < i }
           f == [i \in free |-> RankIn(free, i)]
           T == 0 .. (Cardinality(free) - 1)
<1>0. Cardinality(free) \in Nat
  BY FS_CardinalityType
<1>1. ASSUME NEW i \in free
      PROVE  /\ IsFiniteSet(below(i)) /\ RankIn(free, i) \in Nat
             /\ RankIn(free, i) < Cardinality(free)
  <2>1. IsFiniteSet(below(i)) /\ below(i) \subseteq free \ {i} /\ IsFiniteSet(free \ {i})
    BY FS_Subset
  <2>2. Cardinality(below(i)) \in Nat /\ Cardinality(below(i)) <= Cardinality(free \ {i})
    BY <2>1, FS_CardinalityType, FS_Subset
  <2>3. Cardinality(free \ {i}) = Cardinality(free) - 1
    BY OneLess
  <2>4. RankIn(free, i) = Cardinality(below(i))
    BY DEF RankIn
  <2> HIDE DEF below
  <2>5. QED BY <1>0, <2>1, <2>2, <2>3, <2>4
<1>2. ASSUME NEW i \in free, NEW j \in free, i < j
      PROVE  RankIn(free, i) < RankIn(free, j)
  <2>0. i \in below(j) /\ below(i) \subseteq below(j) \ {i}
    <3>1. free \subseteq Nat /\ i \in Nat /\ j \in Nat
      OBVIOUS
    <3>2. i \in below(j)
      BY <1>2
    <3>3. \A k \in Nat : k < i => k < j /\ k # i
      BY <1>2, <3>1
    <3>4. \A k \in below(i) : k \in below(j) /\ k # i
      BY <3>1, <3>3
    <3>5. QED BY <3>2, <3>4
  <2>1. IsFiniteSet(below(j)) /\ IsFiniteSet(below(j) \ {i})
    BY <1>1, FS_Subset
  <2>2. Cardinality(below(i)) <= Cardinality(below(j) \ {i})
    BY <2>0, <2>1, FS_Subset
  <2>3. Cardinality(below(j) \ {i}) = Cardinality(below(j)) - 1
    BY <2>0, <2>1, OneLess
  <2>4. RankIn(free, i) = Cardinality(below(i)) /\ RankIn(free, j) = Cardinality(below(j))
    BY DEF RankIn
  <2>5. RankIn(free, i) \in Nat /\ RankIn(free, j) \in Nat
    BY <1>1
  <2> HIDE DEF below
  <2>6. QED BY <2>2, <2>3, <2>4, <2>5
<1>3. \A i, j \in free : RankIn(free, i) = RankIn(free, j) => i = j
  <2> SUFFICES ASSUME NEW i \in free, NEW j \in free, i # j
               PROVE  RankIn(free, i) # RankIn(free, j)
    OBVIOUS
  <2>1. i < j \/ j < i
    OBVIOUS
  <2>2. RankIn(free, i) \in Nat /\ RankIn(free, j) \in Nat
    BY <1>1
  <2>3. QED BY <1>2, <2>1, <2>2
<1>4. f \in Injection(free, T)
  <2>0. \A n \in Nat : n < Cardinality(free) => n \in T
    BY <1>0
  <2>1. \A i \in free : f[i] \in T
    <3> HIDE DEF T
    <3>1. QED BY <1>1, <2>0
  <2>2. \A i, j \in free : f[i] = f[j] => i = j
    BY <1>3
  <2> HIDE DEF T
  <2>3. f \in [free -> T]
    BY <2>1
  <2> HIDE DEF f
  <2>4. QED BY <2>2, <2>3 DEF Injection, IsInjective
<1>5. IsFiniteSet(T) /\ Cardinality(T) = Cardinality(free)
  <2>1. 0 \in Int /\ Cardinality(free) - 1 \in Int
    BY <1>0
  <2>2. IsFiniteSet(T) /\ Cardinality(T) = IF 0 > Cardinality(free) - 1 THEN 0
                                             ELSE (Cardinality(free) - 1) - 0 + 1
    BY <2>1, FS_Interval
  <2> HIDE DEF T
  <2>3. QED BY <1>0, <2>2
<1>6. f \in Surjection(free, T)
  <2> HIDE DEF f, T
  <2>1. QED BY <1>4, <1>5, FS_Injection
<1>7. \A n \in T : \E i \in free : f[i] = n
  <2> HIDE DEF f, T
  <2>1. QED BY <1>6 DEF Surjection
<1>8. \A n \in Nat : n < Cardinality(free) => \E i \in free : RankIn(free, i) = n
  BY <1>0, <1>7
<1>9. QED BY <1>1, <1>3, <1>8

(* Two peers have different places in the queue. *)
LEMMA PlacesDiffer ==
    ASSUME NEW waiting \in SUBSET Participant, IsFiniteSet(waiting),
           NEW p \in waiting, NEW q \in waiting, p.peerId # q.peerId
    PROVE  /\ PlaceIn(waiting, p) \in Nat
           /\ PlaceIn(waiting, p) # PlaceIn(waiting, q)
<1> DEFINE ahead(r) == { w \in waiting : Before(w, r) }
<1>1. \A r \in waiting : r.joinedAt \in Nat /\ r.peerId \in Nat
  BY ParticipantFields
<1>2. ASSUME NEW x \in waiting, NEW y \in waiting, Before(x, y)
      PROVE  PlaceIn(waiting, x) # PlaceIn(waiting, y) /\ PlaceIn(waiting, x) \in Nat
  <2>1. x \in ahead(y) /\ x \notin ahead(x) /\ ahead(x) \subseteq ahead(y)
    BY <1>1, <1>2 DEF Before
  <2>2. IsFiniteSet(ahead(y)) /\ IsFiniteSet(ahead(y) \ {x}) /\ ahead(x) \subseteq ahead(y) \ {x}
        /\ IsFiniteSet(ahead(x))
    BY <2>1, FS_Subset
  <2>3. Cardinality(ahead(x)) <= Cardinality(ahead(y) \ {x})
    BY <2>2, FS_Subset
  <2>4. Cardinality(ahead(y)) \in Nat /\ Cardinality(ahead(y) \ {x}) = Cardinality(ahead(y)) - 1
    BY <2>1, <2>2, OneLess
  <2>5. Cardinality(ahead(x)) \in Nat
    BY <2>2, FS_CardinalityType
  <2>6. PlaceIn(waiting, x) = Cardinality(ahead(x)) /\ PlaceIn(waiting, y) = Cardinality(ahead(y))
    BY DEF PlaceIn
  <2> HIDE DEF ahead
  <2>7. QED BY <2>3, <2>4, <2>5, <2>6
<1>3. Before(p, q) \/ Before(q, p)
  BY <1>1 DEF Before
<1>4. PlaceIn(waiting, p) \in Nat
  BY FS_Subset, FS_CardinalityType DEF PlaceIn
<1>5. QED BY <1>2, <1>3, <1>4

-----------------------------------------------------------------------------
(* Everybody in one place: never in two seats, twice in the queue, or in both *)
Single(h) ==
    /\ \A i, j \in TakenSeats(h) :
         h.seats[i].participant.peerId = h.seats[j].participant.peerId => i = j
    /\ \A i \in TakenSeats(h), p \in h.queue : h.seats[i].participant.peerId # p.peerId
    /\ \A p, q \in h.queue : p.peerId = q.peerId => p = q

LEMMA OneEachIsFinite ==
    ASSUME NEW waiting \in SUBSET Participant,
           \A p, q \in waiting : p.peerId = q.peerId => p = q
    PROVE  IsFiniteSet(waiting)
<1> DEFINE f == [p \in waiting |-> p.peerId]
<1>1. \A p \in waiting : p.peerId \in Peers
  BY ParticipantFields
<1>2. f \in Injection(waiting, Peers)
  BY <1>1 DEF Injection, IsInjective
<1>3. QED BY <1>2, RulesAssumption, FS_Injection

(* What fillSeats does to a hall: a seat is as it was or goes to the peer of  *)
(* its rank, the queue keeps the others, and nobody fresh is lost.            *)
LEMMA FillSeatsSeats ==
    ASSUME NEW h \in Halls, NEW at \in Nat, NEW g, g = FillSeats(h, at),
           \A p, q \in h.queue : p.peerId = q.peerId => p = q
    PROVE  /\ g \in Halls /\ g.cooldownUntil = h.cooldownUntil
           /\ \A i \in TakenSeats(h) : i \in TakenSeats(g) /\ g.seats[i] = h.seats[i]
           /\ \A i \in TakenSeats(g) \ TakenSeats(h) :
                /\ i \in FreeSeats(h)
                /\ \E p \in Fresh(h.queue, at) :
                     /\ g.seats[i] = NewSeat(p, at)
                     /\ PlaceIn(Fresh(h.queue, at), p) = RankIn(FreeSeats(h), i)
           /\ \A p \in g.queue : /\ p \in Fresh(h.queue, at)
                                 /\ PlaceIn(Fresh(h.queue, at), p) >= Cardinality(FreeSeats(h))
           /\ \A p \in Fresh(h.queue, at) :
                \/ p \in g.queue
                \/ \E i \in TakenSeats(g) : g.seats[i] = NewSeat(p, at)
<1> DEFINE waiting == Fresh(h.queue, at)
           free == FreeSeats(h)
<1>1. /\ waiting \in SUBSET Participant /\ waiting \subseteq h.queue
      /\ \A p, q \in waiting : p.peerId = q.peerId => p = q
  BY WaitingPeer DEF Fresh
<1>2. IsFiniteSet(waiting)
  BY <1>1, OneEachIsFinite
<1>3. free \in SUBSET Nat /\ free \subseteq SeatIds /\ IsFiniteSet(free) /\ Cardinality(free) \in Nat
  BY FreeFinite
<1>4. \A i \in SeatIds : i \in TakenSeats(h) <=> i \notin free
  BY DEF FreeSeats, TakenSeats
<1>5. /\ g.seats = Filled(h.seats, free, waiting, at) /\ g.queue = StillWaiting(free, waiting)
      /\ g.cooldownUntil = h.cooldownUntil
  BY FillSeatsParts
<1>6. g \in Halls
  BY FillSeatsType
<1> HIDE DEF waiting, free
<1>7. \A p \in waiting : NewSeat(p, at) \in Seat /\ NewSeat(p, at) # None
  <2>1. \A p \in waiting : NewSeat(p, at) \in Seat
    BY <1>1 DEF NewSeat, Seat
  <2>2. QED BY <2>1, RulesAssumption
<1>8. ASSUME NEW i \in SeatIds, ~(i \in free /\ TakersOf(free, waiting, i) # {})
      PROVE  g.seats[i] = h.seats[i]
  BY <1>5, <1>8 DEF Filled
<1>9. ASSUME NEW i \in free, NEW p \in TakersOf(free, waiting, i)
      PROVE  /\ g.seats[i] = NewSeat(p, at) /\ p \in waiting
             /\ PlaceIn(waiting, p) = RankIn(free, i) /\ i \in TakenSeats(g)
  <2>1. p \in waiting /\ PlaceIn(waiting, p) = RankIn(free, i)
    BY DEF TakersOf
  <2>2. ASSUME NEW q \in TakersOf(free, waiting, i) PROVE q = p
    <3>1. q \in waiting /\ PlaceIn(waiting, q) = PlaceIn(waiting, p)
      BY <2>1 DEF TakersOf
    <3>2. q.peerId = p.peerId
      BY <1>1, <1>2, <2>1, <3>1, PlacesDiffer
    <3>3. QED BY <1>1, <2>1, <3>1, <3>2
  <2>3. (CHOOSE q \in TakersOf(free, waiting, i) : TRUE) = p
    BY <2>2
  <2>4. i \in SeatIds
    BY <1>3
  <2>5. g.seats[i] = NewSeat(CHOOSE q \in TakersOf(free, waiting, i) : TRUE, at)
    BY <1>5, <2>4 DEF Filled
  <2>6. g.seats[i] = NewSeat(p, at)
    BY <2>3, <2>5
  <2>7. QED BY <1>7, <2>1, <2>4, <2>6 DEF TakenSeats
<1>10. \A i \in TakenSeats(h) : i \in TakenSeats(g) /\ g.seats[i] = h.seats[i]
  BY <1>4, <1>8 DEF TakenSeats
<1>11. ASSUME NEW i \in TakenSeats(g) \ TakenSeats(h)
       PROVE  /\ i \in free
              /\ \E p \in waiting : g.seats[i] = NewSeat(p, at) /\ PlaceIn(waiting, p) = RankIn(free, i)
  <2>1. i \in SeatIds /\ g.seats[i] # None /\ h.seats[i] = None /\ i \in free
    BY <1>4 DEF TakenSeats
  <2>2. TakersOf(free, waiting, i) # {}
    BY <1>8, <2>1
  <2>3. QED BY <1>9, <2>1, <2>2
<1>12. \A p \in g.queue : p \in waiting /\ PlaceIn(waiting, p) >= Cardinality(free)
  BY <1>5 DEF StillWaiting
<1>13. ASSUME NEW p \in waiting
       PROVE  p \in g.queue \/ \E i \in TakenSeats(g) : g.seats[i] = NewSeat(p, at)
  <2>1. PlaceIn(waiting, p) \in Nat
    BY <1>2, FS_Subset, FS_CardinalityType DEF PlaceIn
  <2>2. CASE PlaceIn(waiting, p) >= Cardinality(free)
    BY <1>5, <2>2 DEF StillWaiting
  <2>3. CASE PlaceIn(waiting, p) < Cardinality(free)
    <3>1. PICK i \in free : RankIn(free, i) = PlaceIn(waiting, p)
      BY <1>3, <2>1, <2>3, RanksOnto
    <3>2. p \in TakersOf(free, waiting, i)
      BY <3>1 DEF TakersOf
    <3>3. QED BY <1>9, <3>2
  <2>4. QED BY <1>3, <2>1, <2>2, <2>3
<1>14. QED BY <1>5, <1>6, <1>10, <1>11, <1>12, <1>13 DEF waiting, free

LEMMA FillSeatsSingle ==
    ASSUME NEW h \in Halls, NEW at \in Nat, Single(h)
    PROVE  Single(FillSeats(h, at))
<1> DEFINE waiting == Fresh(h.queue, at)
           free == FreeSeats(h)
<1>1. PICK g : g = FillSeats(h, at)
  OBVIOUS
<1>2. \A p, q \in h.queue : p.peerId = q.peerId => p = q
  BY DEF Single
<1>3. /\ \A i \in TakenSeats(h) : i \in TakenSeats(g) /\ g.seats[i] = h.seats[i]
      /\ \A i \in TakenSeats(g) \ TakenSeats(h) :
           /\ i \in free
           /\ \E p \in waiting :
                g.seats[i] = NewSeat(p, at) /\ PlaceIn(waiting, p) = RankIn(free, i)
      /\ \A p \in g.queue : p \in waiting /\ PlaceIn(waiting, p) >= Cardinality(free)
  BY <1>1, <1>2, FillSeatsSeats
<1>4. waiting \subseteq h.queue
  BY DEF Fresh
<1>5. free \in SUBSET Nat /\ IsFiniteSet(free) /\ Cardinality(free) \in Nat
  BY FreeFinite
<1>6. \A p : NewSeat(p, at).participant = p
  BY DEF NewSeat
<1> HIDE DEF waiting, free
<1>7. ASSUME NEW i \in TakenSeats(g), NEW j \in TakenSeats(g),
             g.seats[i].participant.peerId = g.seats[j].participant.peerId
      PROVE  i = j
  <2>1. CASE i \in TakenSeats(h) /\ j \in TakenSeats(h)
    BY <1>3, <1>7, <2>1 DEF Single
  <2>2. CASE i \in TakenSeats(h) /\ j \notin TakenSeats(h)
    BY <1>3, <1>4, <1>6, <1>7, <2>2 DEF Single
  <2>3. CASE i \notin TakenSeats(h) /\ j \in TakenSeats(h)
    BY <1>3, <1>4, <1>6, <1>7, <2>3 DEF Single
  <2>4. CASE i \notin TakenSeats(h) /\ j \notin TakenSeats(h)
    <3>1. PICK p \in waiting : g.seats[i] = NewSeat(p, at) /\ PlaceIn(waiting, p) = RankIn(free, i)
      BY <1>3, <2>4
    <3>2. PICK q \in waiting : g.seats[j] = NewSeat(q, at) /\ PlaceIn(waiting, q) = RankIn(free, j)
      BY <1>3, <2>4
    <3>3. p = q
      BY <1>2, <1>4, <1>6, <1>7, <3>1, <3>2
    <3>4. i \in free /\ j \in free /\ RankIn(free, i) = RankIn(free, j)
      BY <1>3, <2>4, <3>1, <3>2, <3>3
    <3>5. QED BY <1>5, <3>4, RanksOnto
  <2>5. QED BY <2>1, <2>2, <2>3, <2>4
<1>8. ASSUME NEW i \in TakenSeats(g), NEW p \in g.queue
      PROVE  g.seats[i].participant.peerId # p.peerId
  <2>1. CASE i \in TakenSeats(h)
    BY <1>3, <1>4, <2>1 DEF Single
  <2>2. CASE i \notin TakenSeats(h)
    <3>1. PICK q \in waiting : g.seats[i] = NewSeat(q, at) /\ PlaceIn(waiting, q) = RankIn(free, i)
      BY <1>3, <2>2
    <3>2. i \in free /\ RankIn(free, i) \in Nat /\ RankIn(free, i) < Cardinality(free)
      BY <1>3, <1>5, <2>2, RanksOnto
    <3>3. p \in waiting /\ PlaceIn(waiting, p) >= Cardinality(free)
      BY <1>3
    <3>4. p # q
      BY <1>5, <3>1, <3>2, <3>3
    <3>5. QED BY <1>2, <1>4, <1>6, <3>1, <3>3, <3>4
  <2>3. QED BY <2>1, <2>2
<1>9. \A p, q \in g.queue : p.peerId = q.peerId => p = q
  BY <1>2, <1>3, <1>4
<1>10. QED BY <1>1, <1>7, <1>8, <1>9 DEF Single

(* fillSeats leaves nothing due that was not: who gets a seat is fresh.       *)
LEMMA FillSeatsQuiet ==
    ASSUME NEW h \in Halls, NEW at \in Nat, Single(h), NEW time \in Int, time <= at,
           \A i \in TakenSeats(h) : SeatExpiry(h.seats[i]) > time
    PROVE  Due(FillSeats(h, at), time) = {}
<1>1. PICK g : g = FillSeats(h, at)
  OBVIOUS
<1>2. /\ g \in Halls
      /\ \A i \in TakenSeats(h) : i \in TakenSeats(g) /\ g.seats[i] = h.seats[i]
      /\ \A i \in TakenSeats(g) \ TakenSeats(h) :
           \E p \in Fresh(h.queue, at) : g.seats[i] = NewSeat(p, at)
      /\ \A p \in g.queue : p \in Fresh(h.queue, at)
  BY <1>1, FillSeatsSeats DEF Single
<1>3. \A p \in Fresh(h.queue, at) : p \in Participant /\ QueueExpiry(p) \in Nat /\ QueueExpiry(p) > time
  BY WaitingPeer, ParticipantFields DEF Fresh
<1>4. ASSUME NEW p \in Participant, QueueExpiry(p) > time
      PROVE  SeatExpiry(NewSeat(p, at)) > time
  <2>1. NewSeat(p, at) \in Seat
    BY DEF NewSeat, Seat
  <2>2. SeatDeadlines(NewSeat(p, at)) = {at + MaxLeaseMs, at + IdleMs, QueueExpiry(p)}
    BY DEF NewSeat, SeatDeadlines, QueueExpiry
  <2>3. SeatExpiry(NewSeat(p, at)) \in {at + MaxLeaseMs, at + IdleMs, QueueExpiry(p)}
    BY <2>1, <2>2, SeatExpiryLeast
  <2>4. at + MaxLeaseMs > time /\ at + IdleMs > time
    BY RulesAssumption
  <2>5. QED BY <1>4, <2>3, <2>4
<1>5. \A i \in TakenSeats(g) : SeatExpiry(g.seats[i]) > time
  BY <1>2, <1>3, <1>4
<1>6. \A p \in g.queue : QueueExpiry(p) > time
  BY <1>2, <1>3
<1>7. QED BY <1>1, <1>2, <1>5, <1>6, NothingIsDue

-----------------------------------------------------------------------------
(* Everybody stays in one place whatever is applied to the hall. *)
LEMMA ReleaseSingle ==
    ASSUME NEW h \in Halls, NEW peer \in Peers, NEW at \in Nat, NEW cooldown \in BOOLEAN,
           Single(h)
    PROVE  Single(Release(h, peer, at, cooldown))
<1>1. PICK g \in Halls :
        /\ Release(h, peer, at, cooldown) = FillSeats(g, at)
        /\ \A i \in TakenSeats(g) :
             i \in TakenSeats(h) /\ i \notin SeatOf(h, peer) /\ g.seats[i] = h.seats[i]
        /\ g.queue = h.queue \ InQueue(h, peer)
  BY ReleaseFills
<1>2. Single(g)
  BY <1>1 DEF Single
<1>3. QED BY <1>1, <1>2, FillSeatsSingle

LEMMA AdvanceSingle ==
    ASSUME NEW h \in Halls, NEW time, Single(h)
    PROVE  Single(Advance(h, time))
<1> DEFINE Bad == { g \in Halls : Single(g) /\ ~Single(Advance(g, time)) }
           rank == [g \in Halls |-> Cardinality(Participants(g))]
<1>1. ASSUME NEW g \in Bad PROVE \E k \in Bad : rank[k] < rank[g]
  <2>1. g \in Halls /\ Single(g) /\ ~Single(Advance(g, time))
    OBVIOUS
  <2>2. Due(g, time) # {}
    BY <2>1, AdvanceEquation
  <2>3. /\ Turn(g, time) \in Halls
        /\ Cardinality(Participants(Turn(g, time))) < Cardinality(Participants(g))
        /\ Advance(g, time) = Advance(Turn(g, time), time)
    BY <2>1, <2>2, TurnType, AdvanceEquation
  <2>4. Single(Turn(g, time))
    <3>1. NextDue(g, time).peerId \in Peers /\ NextDue(g, time).at \in Nat
          /\ NextDue(g, time).cooldown \in BOOLEAN
      BY <2>1, <2>2, NextDueExists, DueFields
    <3>2. QED BY <2>1, <3>1, ReleaseSingle DEF Turn
  <2>5. QED BY <2>1, <2>3, <2>4
<1>2. \A g \in Bad : rank[g] \in Nat
  BY ParticipantsFinite
<1> HIDE DEF rank, Bad
<1>3. Bad = {}
  BY <1>1, <1>2, Descent
<1>4. QED BY <1>3 DEF Bad

Renewed(p, e) == IF p.peerId = e.origin THEN [p EXCEPT !.lastPresenceAt = e.issuedAt] ELSE p
RenewedSeat(s, e) == [s EXCEPT !.participant.lastPresenceAt = e.issuedAt]

(* What a presence event makes of the hall of a participant *)
LEMMA RefreshSeats ==
    ASSUME NEW h \in Halls, NEW e, EventLike(e), NEW g, g = Refresh(h, e)
    PROVE  /\ g \in Halls /\ TakenSeats(g) = TakenSeats(h)
           /\ \A i \in TakenSeats(h) :
                /\ g.seats[i] \in Seat
                /\ g.seats[i].participant.peerId = h.seats[i].participant.peerId
                /\ g.seats[i] \in {h.seats[i], RenewedSeat(h.seats[i], e)}
           /\ \A q \in g.queue : \E p \in h.queue :
                /\ q = Renewed(p, e)
                /\ q.peerId = p.peerId /\ q.lastPresenceAt \in {p.lastPresenceAt, e.issuedAt}
           /\ \A p \in h.queue : \E q \in g.queue : q.peerId = p.peerId
           /\ g.cooldownUntil = h.cooldownUntil
<1>0. e.issuedAt \in Nat
  BY DEF EventLike
<1> DEFINE seats1 == [i \in SeatIds |->
             IF i \in SeatOf(h, e.origin)
             THEN RenewedSeat(h.seats[i], e)
             ELSE h.seats[i]]
           queue1 == { Renewed(p, e) : p \in h.queue }
<1>1. g \in Halls /\ g.seats = seats1 /\ g.queue = queue1 /\ g.cooldownUntil = h.cooldownUntil
  <2>1. g = [seats |-> seats1, queue |-> queue1,
             cooldownUntil |-> h.cooldownUntil, messages |-> h.messages]
    BY RefreshParts, Zenon DEF Renewed, RenewedSeat
  <2>2. g \in Halls
    BY RefreshType
  <2> HIDE DEF seats1, queue1
  <2>3. QED BY <2>1, <2>2
<1>2. ASSUME NEW i \in SeatIds, i \notin SeatOf(h, e.origin)
      PROVE  g.seats[i] = h.seats[i]
  BY <1>1, <1>2
<1>3. ASSUME NEW i \in SeatOf(h, e.origin)
      PROVE  /\ i \in TakenSeats(h) /\ g.seats[i] \in Seat
             /\ g.seats[i].participant.peerId = h.seats[i].participant.peerId
             /\ g.seats[i] = RenewedSeat(h.seats[i], e)
  <2>1. i \in TakenSeats(h) /\ i \in SeatIds /\ h.seats[i] \in Seat
    BY TakenSeat DEF SeatOf
  <2>2. g.seats[i] = RenewedSeat(h.seats[i], e)
    BY <1>1, <2>1
  <2>3. PICK s : s = h.seats[i]
    OBVIOUS
  <2>4. PICK t : t = g.seats[i]
    OBVIOUS
  <2>5. s \in Seat /\ t = RenewedSeat(s, e)
    BY <2>1, <2>2, <2>3, <2>4
  <2>6. t \in Seat /\ t.participant.peerId = s.participant.peerId
    BY <1>0, <2>5, RefreshedSeat DEF RenewedSeat
  <2>7. QED BY <2>1, <2>3, <2>4, <2>5, <2>6
<1>4. TakenSeats(g) = TakenSeats(h)
  <2>1. \A i \in SeatOf(h, e.origin) : g.seats[i] # None /\ i \in TakenSeats(h)
    BY <1>3, RulesAssumption
  <2>2. QED BY <1>2, <2>1 DEF TakenSeats
<1>5. ASSUME NEW i \in TakenSeats(h)
      PROVE  /\ g.seats[i] \in Seat
             /\ g.seats[i].participant.peerId = h.seats[i].participant.peerId
             /\ g.seats[i] \in {h.seats[i], RenewedSeat(h.seats[i], e)}
  <2>1. CASE i \in SeatOf(h, e.origin)
    BY <1>3, <2>1
  <2>2. CASE i \notin SeatOf(h, e.origin)
    BY <1>2, <2>2, TakenSeat
  <2>3. QED BY <2>1, <2>2
<1>6. ASSUME NEW p \in h.queue
      PROVE  /\ Renewed(p, e).peerId = p.peerId
             /\ Renewed(p, e).lastPresenceAt \in {p.lastPresenceAt, e.issuedAt}
  BY WaitingPeer DEF Participant, Renewed
<1>7. \A q \in g.queue : \E p \in h.queue :
         /\ q = Renewed(p, e)
         /\ q.peerId = p.peerId /\ q.lastPresenceAt \in {p.lastPresenceAt, e.issuedAt}
  BY <1>1, <1>6
<1>8. \A p \in h.queue : \E q \in g.queue : q.peerId = p.peerId
  BY <1>1, <1>6
<1>9. QED BY <1>1, <1>4, <1>5, <1>7, <1>8

LEMMA RefreshSingle ==
    ASSUME NEW h \in Halls, NEW e, EventLike(e), Single(h)
    PROVE  Single(Refresh(h, e))
<1>1. PICK g : g = Refresh(h, e)
  OBVIOUS
<1>2. /\ TakenSeats(g) = TakenSeats(h)
      /\ \A i \in TakenSeats(h) : g.seats[i].participant.peerId = h.seats[i].participant.peerId
      /\ \A q \in g.queue : \E p \in h.queue : q = Renewed(p, e) /\ q.peerId = p.peerId
  BY <1>1, RefreshSeats
<1>3. \A p, q \in g.queue : p.peerId = q.peerId => p = q
  <2> SUFFICES ASSUME NEW p \in g.queue, NEW q \in g.queue, p.peerId = q.peerId PROVE p = q
    OBVIOUS
  <2>1. PICK p1 \in h.queue : p = Renewed(p1, e) /\ p.peerId = p1.peerId
    BY <1>2
  <2>2. PICK q1 \in h.queue : q = Renewed(q1, e) /\ q.peerId = q1.peerId
    BY <1>2
  <2>3. p1 = q1
    BY <2>1, <2>2 DEF Single
  <2>4. QED BY <2>1, <2>2, <2>3
<1>4. QED BY <1>1, <1>2, <1>3 DEF Single

LEMMA AdmitFills ==
    ASSUME NEW h \in Halls, NEW e, EventLike(e)
    PROVE  \E g \in Halls, new \in Participant :
             /\ Admit(h, e) = FillSeats(g, e.issuedAt)
             /\ g.seats = h.seats /\ g.queue = h.queue \cup {new}
             /\ new.peerId = e.origin /\ new.lastPresenceAt = e.issuedAt
             /\ g.cooldownUntil = h.cooldownUntil
<1> DEFINE new == [peerId |-> e.origin, joinedAt |-> e.joinedAt, lastPresenceAt |-> e.issuedAt]
<1>1. new \in Participant /\ new.peerId = e.origin /\ new.lastPresenceAt = e.issuedAt
  BY DEF EventLike, Participant
<1>2. PICK g : g = [h EXCEPT !.queue = h.queue \cup {new}]
  OBVIOUS
<1>3. Admit(h, e) = FillSeats(g, e.issuedAt)
  BY <1>2 DEF Admit
<1> HIDE DEF new
<1>4. g = [seats |-> h.seats, queue |-> h.queue \cup {new},
           cooldownUntil |-> h.cooldownUntil, messages |-> h.messages]
  <2>1. h \in [seats : [SeatIds -> Seat \cup {None}], queue : SUBSET Participant,
               cooldownUntil : [Peers -> Nat], messages : Seq(Message)]
    BY DEF Halls
  <2>2. QED BY <1>2, <2>1, Zenon
<1>5. g \in Halls
  BY <1>1, <1>4 DEF Halls
<1>6. /\ g.seats = h.seats /\ g.queue = h.queue \cup {new}
      /\ g.cooldownUntil = h.cooldownUntil
  BY <1>4
<1>7. QED BY <1>1, <1>3, <1>5, <1>6

LEMMA AdmitSingle ==
    ASSUME NEW h \in Halls, NEW e, EventLike(e), Single(h), e.origin \notin Participants(h)
    PROVE  Single(Admit(h, e))
<1>1. PICK g \in Halls, new \in Participant :
             /\ Admit(h, e) = FillSeats(g, e.issuedAt)
             /\ g.seats = h.seats /\ g.queue = h.queue \cup {new}
             /\ new.peerId = e.origin /\ new.lastPresenceAt = e.issuedAt
  BY AdmitFills
<1>2. TakenSeats(g) = TakenSeats(h)
  BY <1>1 DEF TakenSeats
<1>3. /\ \A i \in TakenSeats(h) : h.seats[i].participant.peerId # e.origin
      /\ \A p \in h.queue : p.peerId # e.origin
  BY DEF Participants
<1>4. Single(g)
  BY <1>1, <1>2, <1>3 DEF Single
<1>5. e.issuedAt \in Nat
  BY DEF EventLike
<1>6. QED BY <1>1, <1>4, <1>5, FillSeatsSingle

SpokenSeat(s, e) == [s EXCEPT !.lastSpokeAt = e.issuedAt]

(* What a chat message makes of the seats                                    *)
LEMMA PostSeats ==
    ASSUME NEW h \in Halls, NEW e, EventLike(e), NEW g, g = Post(h, e)
    PROVE  /\ TakenSeats(g) = TakenSeats(h) /\ g.queue = h.queue
           /\ \A i \in TakenSeats(h) : g.seats[i].participant = h.seats[i].participant
           /\ \A i \in TakenSeats(h) : g.seats[i] \in {h.seats[i], SpokenSeat(h.seats[i], e)}
           /\ g.cooldownUntil = h.cooldownUntil
<1> DEFINE said == Append(h.messages, [origin |-> e.origin, sentAt |-> e.issuedAt])
           surplus == Len(said) - MaxRetainedMessages
           messages1 == IF surplus > 0 THEN SubSeq(said, surplus + 1, Len(said)) ELSE said
           seats1 == [i \in SeatIds |->
              IF i \in SeatOf(h, e.origin)
              THEN [h.seats[i] EXCEPT !.lastSpokeAt = e.issuedAt] ELSE h.seats[i]]
<1>0. e.issuedAt \in Nat
  BY DEF EventLike
<1>1. PICK k : k = [h EXCEPT !.seats = seats1, !.messages = messages1]
  OBVIOUS
<1>2. g = k
  BY <1>1 DEF Post
<1>3. g.seats = seats1 /\ g.queue = h.queue /\ g.cooldownUntil = h.cooldownUntil
  <2> HIDE DEF seats1, messages1
  <2>1. k = [seats |-> seats1, queue |-> h.queue, cooldownUntil |-> h.cooldownUntil,
             messages |-> messages1]
    BY <1>1 DEF Halls
  <2>2. QED BY <1>2, <2>1
<1> HIDE DEF messages1
<1>4. ASSUME NEW i \in SeatOf(h, e.origin)
      PROVE  /\ i \in TakenSeats(h) /\ g.seats[i] \in Seat
             /\ g.seats[i].participant = h.seats[i].participant
             /\ g.seats[i] = SpokenSeat(h.seats[i], e)
  <2>1. i \in TakenSeats(h) /\ i \in SeatIds /\ h.seats[i] \in Seat
    BY TakenSeat DEF SeatOf
  <2>2. g.seats[i] = [h.seats[i] EXCEPT !.lastSpokeAt = e.issuedAt]
    BY <1>3, <2>1
  <2>3. QED BY <1>0, <2>1, <2>2 DEF Seat, SpokenSeat
<1>5. \A i \in SeatIds : i \notin SeatOf(h, e.origin) => g.seats[i] = h.seats[i]
  BY <1>3
<1>6. TakenSeats(g) = TakenSeats(h)
  <2>1. \A i \in SeatOf(h, e.origin) : g.seats[i] # None /\ i \in TakenSeats(h)
    BY <1>4, RulesAssumption
  <2>2. QED BY <1>5, <2>1 DEF TakenSeats
<1>7. \A i \in TakenSeats(h) :
        /\ g.seats[i].participant = h.seats[i].participant
        /\ g.seats[i] \in {h.seats[i], SpokenSeat(h.seats[i], e)}
  BY <1>4, <1>5 DEF TakenSeats
<1>8. QED BY <1>3, <1>6, <1>7

LEMMA PostSingle ==
    ASSUME NEW h \in Halls, NEW e, EventLike(e), Single(h)
    PROVE  Single(Post(h, e))
<1>1. PICK g : g = Post(h, e)
  OBVIOUS
<1>2. /\ TakenSeats(g) = TakenSeats(h) /\ g.queue = h.queue
      /\ \A i \in TakenSeats(h) : g.seats[i].participant = h.seats[i].participant
  BY <1>1, PostSeats
<1>3. QED BY <1>1, <1>2 DEF Single

LEMMA StepSingle ==
    ASSUME NEW h \in Halls, NEW e, EventLike(e), Single(h)
    PROVE  Single(Step(h, e))
<1>1. PICK g : g = Advance(h, e.issuedAt)
  OBVIOUS
<1>2. g \in Halls /\ Single(g)
  BY <1>1, AdvanceType, AdvanceSingle
<1>3. e.origin \in Peers /\ e.issuedAt \in Nat
  BY DEF EventLike
<1>4. \/ Apply(g, e) = Release(g, e.origin, e.issuedAt, FALSE)
      \/ Apply(g, e) = Refresh(g, e)
      \/ Apply(g, e) = Admit(g, e) /\ e.origin \notin Participants(g)
      \/ Apply(g, e) = Post(g, e)
      \/ Apply(g, e) = g
  BY DEF Apply
<1>5. Single(Release(g, e.origin, e.issuedAt, FALSE))
  BY <1>2, <1>3, ReleaseSingle
<1>6. Single(Apply(g, e))
  BY <1>2, <1>4, <1>5, RefreshSingle, AdmitSingle, PostSingle
<1>7. QED BY <1>1, <1>6 DEF Step

LEMMA ReplaySingle ==
    ASSUME NEW events, IsLog(events)
    PROVE  Single(Replay(events))
<1> DEFINE Bad == { seen \in SUBSET events : ~Single(Replay(seen)) }
           rank == [seen \in SUBSET events |-> Cardinality(seen)]
<1>1. ASSUME NEW seen \in SUBSET events
      PROVE  IsFiniteSet(seen) /\ Cardinality(seen) \in Nat /\ IsLog(seen)
  BY SubLog, FS_CardinalityType DEF IsLog
<1>2. Single(EmptyHall)
  BY DEF Single, EmptyHall, TakenSeats
<1>3. ASSUME NEW seen \in Bad PROVE \E t \in Bad : rank[t] < rank[seen]
  <2> DEFINE t == seen \ {LastEvent(seen)}
  <2>1. seen \in SUBSET events /\ ~Single(Replay(seen))
    OBVIOUS
  <2>2. seen # {} /\ Replay(seen) = Step(Replay(t), LastEvent(seen))
    BY <1>1, <1>2, <2>1, ReplayEquation
  <2>3. LastEvent(seen) \in seen /\ EventLike(LastEvent(seen)) /\ t \in SUBSET events
    BY <1>1, <2>1, <2>2, LastExists DEF IsLog
  <2>4. Replay(t) \in Halls
    BY <1>1, <2>3, ReplayType
  <2>5. ~Single(Replay(t))
    BY <2>1, <2>2, <2>3, <2>4, StepSingle
  <2>6. rank[t] = Cardinality(seen) - 1 /\ rank[seen] = Cardinality(seen) /\ Cardinality(seen) \in Nat
    BY <1>1, <2>1, <2>3, FS_RemoveElement
  <2> HIDE DEF t, rank
  <2>7. t \in Bad
    BY <2>3, <2>5
  <2>8. rank[t] < rank[seen]
    BY <2>6
  <2>9. QED BY <2>7, <2>8
<1>4. \A seen \in Bad : rank[seen] \in Nat
  BY <1>1
<1> HIDE DEF rank, Bad
<1>5. Bad = {}
  BY <1>3, <1>4, Descent
<1>6. QED BY <1>5 DEF Bad

(* Whatever log derive() is given and whatever time it is, nobody is in two   *)
(* places of the hall that it returns (room-events.ts:217-325).              *)
THEOREM OnePlaceEach ==
    ASSUME NEW events, IsLog(events), NEW now \in Int
    PROVE  Single(Derive(events, now))
BY ReplayType, ReplaySingle, AdvanceSingle DEF Derive

-----------------------------------------------------------------------------
(* A join that is the last event of a log *)
LEMMA LastIs ==
    ASSUME NEW events, NEW e \in events, IsLog(events),
           \A f \in events \ {e} : Earlier(f, e)
    PROVE  Replay(events) = Step(Replay(events \ {e}), e)
<1>1. \A f \in events : EventLike(f)
  BY DEF IsLog
<1>2. LastEvent(events) \in events
      /\ \A f \in events \ {LastEvent(events)} : Earlier(f, LastEvent(events))
  BY LastExists
<1>3. LastEvent(events) = e
  <2> SUFFICES ASSUME LastEvent(events) # e PROVE FALSE
    OBVIOUS
  <2>1. Earlier(e, LastEvent(events)) /\ Earlier(LastEvent(events), e)
    BY <1>2
  <2>2. EventLike(LastEvent(events)) /\ EventLike(e)
    BY <1>1, <1>2
  <2>3. QED BY <2>1, <2>2, EarlierIsOrder
<1>4. QED BY <1>3, ReplayEquation

(* A presence event makes nothing due. *)
LEMMA RefreshQuiet ==
    ASSUME NEW h \in Halls, NEW e, EventLike(e), Due(h, e.issuedAt) = {}
    PROVE  /\ Refresh(h, e) \in Halls /\ Due(Refresh(h, e), e.issuedAt) = {}
           /\ Participants(h) \subseteq Participants(Refresh(h, e))
<1>0. e.issuedAt \in Nat /\ e.issuedAt \in Int
  BY DEF EventLike
<1>1. PICK g : g = Refresh(h, e)
  OBVIOUS
<1>2. /\ g \in Halls /\ TakenSeats(g) = TakenSeats(h)
      /\ \A i \in TakenSeats(h) :
           /\ g.seats[i].participant.peerId = h.seats[i].participant.peerId
           /\ g.seats[i] \in {h.seats[i], RenewedSeat(h.seats[i], e)}
      /\ \A q \in g.queue : \E p \in h.queue : q.lastPresenceAt \in {p.lastPresenceAt, e.issuedAt}
      /\ \A p \in h.queue : \E q \in g.queue : q.peerId = p.peerId
  BY <1>1, RefreshSeats
<1>3. /\ \A i \in TakenSeats(h) : SeatExpiry(h.seats[i]) > e.issuedAt
      /\ \A p \in h.queue : QueueExpiry(p) > e.issuedAt
  BY <1>0, NothingIsDue
<1>4. ASSUME NEW s \in Seat, SeatExpiry(s) > e.issuedAt
      PROVE  SeatExpiry(RenewedSeat(s, e)) > e.issuedAt
  <2>1. PICK t : t = RenewedSeat(s, e)
    OBVIOUS
  <2>2. t \in Seat /\ t.seatedAt = s.seatedAt /\ t.lastSpokeAt = s.lastSpokeAt
    BY <1>0, <2>1, RefreshedSeat DEF RenewedSeat
  <2>3. t.participant.lastPresenceAt = e.issuedAt
    BY <2>1 DEF RenewedSeat, Seat, Participant
  <2>4. SeatExpiry(t) \in SeatDeadlines(t)
    BY <2>2, SeatExpiryLeast
  <2>5. \A d \in SeatDeadlines(t) : d \in SeatDeadlines(s) \/ d = e.issuedAt + PresenceTtlMs
    BY <2>2, <2>3 DEF SeatDeadlines
  <2>6. \A d \in SeatDeadlines(s) : d \in Nat /\ SeatExpiry(s) <= d /\ SeatExpiry(s) \in Nat
    BY SeatExpiryLeast
  <2>7. e.issuedAt + PresenceTtlMs > e.issuedAt
    BY <1>0, RulesAssumption
  <2>8. \A d \in SeatDeadlines(s) : d > e.issuedAt
    BY <1>0, <1>4, <2>6
  <2>9. QED BY <2>1, <2>4, <2>5, <2>7, <2>8
<1>5. \A i \in TakenSeats(g) : SeatExpiry(g.seats[i]) > e.issuedAt
  BY <1>2, <1>3, <1>4, TakenSeat
<1>6. \A q \in g.queue : QueueExpiry(q) > e.issuedAt
  <2> SUFFICES ASSUME NEW q \in g.queue PROVE QueueExpiry(q) > e.issuedAt
    OBVIOUS
  <2>1. PICK p \in h.queue : q.lastPresenceAt \in {p.lastPresenceAt, e.issuedAt}
    BY <1>2
  <2>2. QueueExpiry(p) > e.issuedAt
    BY <1>3
  <2>3. e.issuedAt + PresenceTtlMs > e.issuedAt
    BY <1>0, RulesAssumption
  <2>4. QED BY <2>1, <2>2, <2>3 DEF QueueExpiry
<1>7. Participants(h) \subseteq Participants(g)
  <2>1. \A i \in TakenSeats(h) : h.seats[i].participant.peerId \in Participants(g)
    BY <1>2 DEF Participants
  <2>2. \A p \in h.queue : p.peerId \in Participants(g)
    BY <1>2 DEF Participants
  <2>3. QED BY <2>1, <2>2 DEF Participants
<1>8. QED BY <1>0, <1>1, <1>2, <1>5, <1>6, <1>7, NothingIsDue

(* A peer that is admitted is in the hall, and nothing is due.                *)
LEMMA AdmitQuiet ==
    ASSUME NEW h \in Halls, NEW e, EventLike(e), Due(h, e.issuedAt) = {}, Single(h),
           e.origin \notin Participants(h)
    PROVE  /\ Admit(h, e) \in Halls /\ Due(Admit(h, e), e.issuedAt) = {}
           /\ e.origin \in Participants(Admit(h, e))
<1>0. e.issuedAt \in Nat /\ e.issuedAt \in Int /\ e.origin \in Peers
  BY DEF EventLike
<1>1. PICK c \in Halls, new \in Participant :
             /\ Admit(h, e) = FillSeats(c, e.issuedAt)
             /\ c.seats = h.seats /\ c.queue = h.queue \cup {new}
             /\ new.peerId = e.origin /\ new.lastPresenceAt = e.issuedAt
  BY AdmitFills
<1>2. TakenSeats(c) = TakenSeats(h)
  BY <1>1 DEF TakenSeats
<1>3. /\ \A i \in TakenSeats(h) : h.seats[i].participant.peerId # e.origin
      /\ \A p \in h.queue : p.peerId # e.origin
  BY DEF Participants
<1>4. Single(c)
  BY <1>1, <1>2, <1>3 DEF Single
<1>5. \A i \in TakenSeats(c) : SeatExpiry(c.seats[i]) > e.issuedAt
  <2>1. \A i \in TakenSeats(h) : SeatExpiry(h.seats[i]) > e.issuedAt
    BY <1>0, NothingIsDue
  <2>2. QED BY <1>1, <1>2, <2>1
<1>6. new \in Fresh(c.queue, e.issuedAt)
  <2>1. e.issuedAt + PresenceTtlMs > e.issuedAt
    BY <1>0, RulesAssumption
  <2>2. QED BY <1>1, <2>1 DEF Fresh, QueueExpiry
<1>7. PICK g : g = FillSeats(c, e.issuedAt)
  OBVIOUS
<1>8. /\ g \in Halls
      /\ new \in g.queue \/ \E i \in TakenSeats(g) : g.seats[i] = NewSeat(new, e.issuedAt)
  BY <1>0, <1>4, <1>6, <1>7, FillSeatsSeats DEF Single
<1>9. NewSeat(new, e.issuedAt).participant = new
  BY DEF NewSeat
<1>10. e.origin \in Participants(g)
  BY <1>1, <1>8, <1>9 DEF Participants
<1>11. Due(g, e.issuedAt) = {}
  BY <1>0, <1>4, <1>5, <1>7, FillSeatsQuiet
<1>12. QED BY <1>1, <1>7, <1>8, <1>10, <1>11

(* The hall of a log whose last event leaves nothing due *)
LEMMA LastApplies ==
    ASSUME NEW events, NEW e \in events, IsLog(events),
           \A f \in events \ {e} : Earlier(f, e),
           NEW h, h = Derive(events \ {e}, e.issuedAt)
    PROVE  /\ h \in Halls /\ Due(h, e.issuedAt) = {} /\ Single(h)
           /\ EventLike(e)
           /\ Apply(h, e) \in Halls /\ Due(Apply(h, e), e.issuedAt) = {}
                => Derive(events, e.issuedAt) = Apply(h, e)
<1>0. EventLike(e) /\ e.issuedAt \in Int /\ IsLog(events \ {e})
  BY SubLog DEF IsLog, EventLike
<1>1. h \in Halls /\ Due(h, e.issuedAt) = {} /\ Single(h)
  BY <1>0, ReplayType, AdvanceType, OnePlaceEach DEF Derive
<1>2. Replay(events) = Apply(h, e)
  BY LastIs DEF Step, Derive
<1>3. Apply(h, e) \in Halls /\ Due(Apply(h, e), e.issuedAt) = {}
         => Derive(events, e.issuedAt) = Apply(h, e)
  BY <1>2, AdvanceEquation DEF Derive
<1>4. QED BY <1>0, <1>1, <1>3

(* Whoever is in the hall stays in it by a further join or heartbeat. *)
LEMMA LastPresenceKeeps ==
    ASSUME NEW events, NEW e \in events, IsLog(events),
           \A f \in events \ {e} : Earlier(f, e),
           e.kind \in {"join", "heartbeat"},
           e.origin \in Participants(Derive(events \ {e}, e.issuedAt))
    PROVE  e.origin \in Participants(Derive(events, e.issuedAt))
<1>1. PICK h : h = Derive(events \ {e}, e.issuedAt)
  OBVIOUS
<1>2. /\ h \in Halls /\ Due(h, e.issuedAt) = {} /\ EventLike(e)
      /\ Apply(h, e) \in Halls /\ Due(Apply(h, e), e.issuedAt) = {}
            => Derive(events, e.issuedAt) = Apply(h, e)
  BY <1>1, LastApplies
<1>3. Apply(h, e) = Refresh(h, e)
  BY <1>1 DEF Apply
<1>4. QED BY <1>1, <1>2, <1>3, RefreshQuiet

(* What admissionError asks is enough: a join that nothing stands against,    *)
(* when it is the last event of the log, puts its peer in the hall that       *)
(* derive() returns at that moment (room-events.ts:217-325).                  *)
THEOREM LastJoinAdmits ==
    ASSUME NEW events, NEW e \in events, IsLog(events),
           \A f \in events \ {e} : Earlier(f, e),
           e.kind = "join",
           \/ e.origin \in Participants(Derive(events \ {e}, e.issuedAt))
           \/ Admissible(Derive(events \ {e}, e.issuedAt), e.origin, e.issuedAt)
    PROVE  e.origin \in Participants(Derive(events, e.issuedAt))
<1>1. CASE e.origin \in Participants(Derive(events \ {e}, e.issuedAt))
  BY <1>1, LastPresenceKeeps
<1>2. CASE e.origin \notin Participants(Derive(events \ {e}, e.issuedAt))
  <2>1. PICK h : h = Derive(events \ {e}, e.issuedAt)
    OBVIOUS
  <2>2. /\ h \in Halls /\ Due(h, e.issuedAt) = {} /\ Single(h) /\ EventLike(e)
        /\ Apply(h, e) \in Halls /\ Due(Apply(h, e), e.issuedAt) = {}
              => Derive(events, e.issuedAt) = Apply(h, e)
    BY <2>1, LastApplies
  <2>3. Apply(h, e) = Admit(h, e)
    BY <1>2, <2>1 DEF Apply
  <2>4. QED BY <1>2, <2>1, <2>2, <2>3, AdmitQuiet
<1>3. QED BY <1>1, <1>2

-----------------------------------------------------------------------------
(* Of two peers at one deadline one is sooner. *)
LEMMA SoonerIsTotal ==
    ASSUME NEW h \in Halls, Single(h), NEW time, NEW x \in Due(h, time), NEW y \in Due(h, time),
           x # y
    PROVE  Sooner(x, y) \/ Sooner(y, x)
<1>1. /\ x.at \in Nat /\ x.place[1] \in Nat /\ x.place[2] \in Nat
      /\ y.at \in Nat /\ y.place[1] \in Nat /\ y.place[2] \in Nat
  BY DueFields
<1>2. SUFFICES ASSUME x.at = y.at, x.place[1] = y.place[1], x.place[2] = y.place[2] PROVE FALSE
  BY <1>1 DEF Sooner
<1> DEFINE S(i) == [at |-> SeatExpiry(h.seats[i]), peerId |-> h.seats[i].participant.peerId,
                    cooldown |-> TRUE, place |-> <<0, i>>]
           Q(p) == [at |-> QueueExpiry(p), peerId |-> p.peerId,
                    cooldown |-> FALSE, place |-> <<p.joinedAt + 1, p.peerId>>]
<1>3. \A z \in Due(h, time) : (\E i \in TakenSeats(h) : z = S(i)) \/ (\E p \in h.queue : z = Q(p))
  BY DEF Due, SeatExpiries, QueueExpiries
<1>4. \A i : S(i).place[1] = 0 /\ S(i).place[2] = i
  OBVIOUS
<1>5. \A p \in h.queue : Q(p).place[1] # 0 /\ Q(p).place[2] = p.peerId
  BY WaitingPeer, ParticipantFields
<1> HIDE DEF S, Q
<1>6. CASE \E i \in TakenSeats(h) : x = S(i)
  BY <1>2, <1>3, <1>4, <1>5, <1>6
<1>7. CASE \E p \in h.queue : x = Q(p)
  <2>1. PICK p \in h.queue : x = Q(p)
    BY <1>7
  <2>2. PICK q \in h.queue : y = Q(q)
    BY <1>2, <1>3, <1>4, <1>5, <2>1
  <2>3. p.peerId = q.peerId
    BY <1>2, <1>5, <2>1, <2>2
  <2>4. QED BY <2>1, <2>2, <2>3 DEF Single
<1>8. QED BY <1>3, <1>6, <1>7

(* The turns that are due now come first when more time has passed. *)
LEMMA AdvanceLater ==
    ASSUME NEW h \in Halls, Single(h), NEW time \in Int, NEW later \in Int, time <= later
    PROVE  Advance(h, later) = Advance(Advance(h, time), later)
<1> DEFINE Bad == { g \in Halls : Single(g) /\ Advance(g, later) # Advance(Advance(g, time), later) }
           rank == [g \in Halls |-> Cardinality(Participants(g))]
<1>1. ASSUME NEW g \in Bad PROVE \E k \in Bad : rank[k] < rank[g]
  <2>1. g \in Halls /\ Single(g) /\ Advance(g, later) # Advance(Advance(g, time), later)
    OBVIOUS
  <2>2. Due(g, time) # {}
    BY <2>1, AdvanceEquation
  <2>3. \A x \in Due(g, time) : x \in Due(g, later)
    <3>1. \A x \in Due(g, time) : x.at \in Nat /\ x.at <= time
      BY <2>1, DueFields
    <3>2. \A x \in Due(g, time) : x.at <= later
      BY <3>1
    <3>3. QED BY <3>2 DEF Due
  <2>4. NextDue(g, later) = NextDue(g, time)
    <3>1. PICK x : x = NextDue(g, time)
      OBVIOUS
    <3>2. x \in Due(g, time) /\ x \in Due(g, later) /\ \A y \in Due(g, time) : ~Sooner(y, x)
      BY <2>1, <2>2, <2>3, <3>1, NextDueExists
    <3>3. ASSUME NEW y \in Due(g, later) PROVE y = x \/ Sooner(x, y)
      <4>1. x.at \in Nat /\ x.at <= time /\ y.at \in Nat
        BY <2>1, <3>2, DueFields
      <4>2. CASE y.at <= time
        <5>1. y \in Due(g, time)
          BY <4>2 DEF Due
        <5>2. QED BY <2>1, <3>2, <5>1, SoonerIsTotal
      <4>3. CASE ~(y.at <= time)
        BY <4>1, <4>3 DEF Sooner
      <4>4. QED BY <4>2, <4>3
    <3>4. QED BY <2>1, <3>1, <3>2, <3>3, NextDueIs
  <2>5. Turn(g, later) = Turn(g, time)
    BY <2>4 DEF Turn
  <2>6. /\ Turn(g, time) \in Halls /\ Single(Turn(g, time))
        /\ Cardinality(Participants(Turn(g, time))) < Cardinality(Participants(g))
    <3>1. NextDue(g, time).peerId \in Peers /\ NextDue(g, time).at \in Nat
          /\ NextDue(g, time).cooldown \in BOOLEAN
      BY <2>1, <2>2, NextDueExists, DueFields
    <3>2. Single(Turn(g, time))
      BY <2>1, <3>1, ReleaseSingle DEF Turn
    <3>3. QED BY <2>1, <2>2, <3>2, TurnType
  <2>7. /\ Advance(g, later) = Advance(Turn(g, time), later)
        /\ Advance(g, time) = Advance(Turn(g, time), time)
    <3>1. Due(g, later) # {}
      BY <2>2, <2>3
    <3>2. QED BY <2>1, <2>2, <2>5, <3>1, AdvanceEquation
  <2>8. Turn(g, time) \in Bad
    BY <2>1, <2>6, <2>7
  <2>9. rank[Turn(g, time)] < rank[g]
    BY <2>1, <2>6
  <2>10. QED BY <2>8, <2>9
<1>2. \A g \in Bad : rank[g] \in Nat
  BY ParticipantsFinite
<1> HIDE DEF rank, Bad
<1>3. Bad = {}
  BY <1>1, <1>2, Descent
<1>4. QED BY <1>3 DEF Bad

(* While no event is logged nobody comes into the hall. *)
LEMMA NobodyComesBack ==
    ASSUME NEW events, IsLog(events), NEW time \in Int, NEW later \in Int, time <= later
    PROVE  Participants(Derive(events, later)) \subseteq Participants(Derive(events, time))
<1>1. Replay(events) \in Halls /\ Single(Replay(events))
  BY ReplayType, ReplaySingle
<1>2. Derive(events, later) = Advance(Derive(events, time), later)
  BY <1>1, AdvanceLater DEF Derive
<1>3. Derive(events, time) \in Halls
  BY <1>1, AdvanceType DEF Derive
<1>4. QED BY <1>2, <1>3, AdvanceType

-----------------------------------------------------------------------------
(* Induction over a log, from nothing to all of it by its last event.         *)
LEMMA LogInduction ==
    ASSUME NEW events, IsLog(events), NEW Good, {} \in Good,
           \A seen \in SUBSET events :
               seen # {} /\ seen \ {LastEvent(seen)} \in Good => seen \in Good
    PROVE  SUBSET events \subseteq Good
<1> DEFINE Bad == { seen \in SUBSET events : seen \notin Good }
           rank == [seen \in SUBSET events |-> Cardinality(seen)]
<1>1. ASSUME NEW seen \in SUBSET events
      PROVE  IsFiniteSet(seen) /\ Cardinality(seen) \in Nat /\ IsLog(seen)
  BY SubLog, FS_CardinalityType DEF IsLog
<1>2. ASSUME NEW seen \in Bad PROVE \E t \in Bad : rank[t] < rank[seen]
  <2> DEFINE t == seen \ {LastEvent(seen)}
  <2>1. seen \in SUBSET events /\ seen \notin Good
    OBVIOUS
  <2>2. seen # {} /\ t \notin Good
    BY <2>1
  <2>3. LastEvent(seen) \in seen /\ t \in SUBSET events
    BY <1>1, <2>1, <2>2, LastExists
  <2>4. rank[t] = Cardinality(seen) - 1 /\ rank[seen] = Cardinality(seen) /\ Cardinality(seen) \in Nat
    BY <1>1, <2>1, <2>3, FS_RemoveElement
  <2> HIDE DEF t, rank
  <2>5. t \in Bad
    BY <2>2, <2>3
  <2>6. rank[t] < rank[seen]
    BY <2>4
  <2>7. QED BY <2>5, <2>6
<1>3. \A seen \in Bad : rank[seen] \in Nat
  BY <1>1
<1> HIDE DEF rank, Bad
<1>4. Bad = {}
  BY <1>2, <1>3, Descent
<1>5. QED BY <1>4 DEF Bad

(* Induction over the turns of advance                                       *)
LEMMA TurnInduction ==
    ASSUME NEW time, NEW Good, NEW h \in Halls, h \in Good,
           \A g \in Halls : g \in Good /\ Due(g, time) # {} => Turn(g, time) \in Good
    PROVE  Advance(h, time) \in Good
<1> DEFINE Bad == { g \in Halls : g \in Good /\ Advance(g, time) \notin Good }
           rank == [g \in Halls |-> Cardinality(Participants(g))]
<1>1. ASSUME NEW g \in Bad PROVE \E k \in Bad : rank[k] < rank[g]
  <2>1. g \in Halls /\ g \in Good /\ Advance(g, time) \notin Good
    OBVIOUS
  <2>2. Due(g, time) # {}
    BY <2>1, AdvanceEquation
  <2>3. /\ Turn(g, time) \in Halls
        /\ Cardinality(Participants(Turn(g, time))) < Cardinality(Participants(g))
        /\ Advance(g, time) = Advance(Turn(g, time), time)
    BY <2>1, <2>2, TurnType, AdvanceEquation
  <2>4. QED BY <2>1, <2>2, <2>3
<1>2. \A g \in Bad : rank[g] \in Nat
  BY ParticipantsFinite
<1> HIDE DEF rank, Bad
<1>3. Bad = {}
  BY <1>1, <1>2, Descent
<1>4. QED BY <1>3 DEF Bad

-----------------------------------------------------------------------------
(* Where everybody is in one place, those seated and those waiting are as     *)
(* many as there are participants: what the capacity is compared with.       *)
LEMMA Counted ==
    ASSUME NEW h \in Halls, Single(h)
    PROVE  /\ Cardinality(h.queue) \in Nat /\ Cardinality(TakenSeats(h)) \in Nat
           /\ Cardinality(h.queue) + Cardinality(TakenSeats(h)) = Cardinality(Participants(h))
<1> DEFINE seated == { h.seats[i].participant.peerId : i \in TakenSeats(h) }
           waiting == { p.peerId : p \in h.queue }
           f == [i \in TakenSeats(h) |-> h.seats[i].participant.peerId]
           g == [p \in h.queue |-> p.peerId]
<1>1. Participants(h) = seated \cup waiting
  BY DEF Participants
<1>2. seated \cap waiting = {}
  BY DEF Single
<1>3. IsFiniteSet(TakenSeats(h)) /\ IsFiniteSet(h.queue)
  <2>1. TakenSeats(h) \subseteq 1 .. SeatCount /\ SeatCount \in Nat
    BY RulesAssumption DEF TakenSeats, SeatIds
  <2>2. IsFiniteSet(1 .. SeatCount)
    BY <2>1, FS_Interval
  <2>3. h.queue \in SUBSET Participant
    BY DEF Halls
  <2>4. QED BY <2>1, <2>2, <2>3, FS_Subset, OneEachIsFinite DEF Single
<1>4. Cardinality(seated) = Cardinality(TakenSeats(h)) /\ IsFiniteSet(seated)
  <2>1. f \in Bijection(TakenSeats(h), seated)
    <3>1. f \in Surjection(TakenSeats(h), seated)
      BY DEF Surjection
    <3>2. \A i, j \in TakenSeats(h) : f[i] = f[j] => i = j
      BY DEF Single
    <3> HIDE DEF f, seated
    <3>3. QED BY <3>1, <3>2 DEF Bijection, Injection, Surjection, IsInjective
  <2> HIDE DEF f, seated
  <2>2. QED BY <1>3, <2>1, FS_Bijection DEF ExistsBijection
<1>5. Cardinality(waiting) = Cardinality(h.queue) /\ IsFiniteSet(waiting)
  <2>1. g \in Bijection(h.queue, waiting)
    <3>1. g \in Surjection(h.queue, waiting)
      BY DEF Surjection
    <3>2. \A p, q \in h.queue : g[p] = g[q] => p = q
      BY DEF Single
    <3> HIDE DEF g, waiting
    <3>3. QED BY <3>1, <3>2 DEF Bijection, Injection, Surjection, IsInjective
  <2> HIDE DEF g, waiting
  <2>2. QED BY <1>3, <2>1, FS_Bijection DEF ExistsBijection
<1> HIDE DEF f, g, seated, waiting
<1>6. Cardinality(seated \cup waiting) = Cardinality(seated) + Cardinality(waiting) - Cardinality({})
  BY <1>2, <1>4, <1>5, FS_Union
<1>7. Cardinality({}) = 0
  BY FS_EmptySet
<1>8. /\ Cardinality(seated) \in Nat /\ Cardinality(waiting) \in Nat
  BY <1>4, <1>5, FS_CardinalityType
<1>9. QED BY <1>1, <1>4, <1>5, <1>6, <1>7, <1>8

(* An event brings in its own origin at most, and only while there is room.   *)
LEMMA ApplyCapacity ==
    ASSUME NEW h \in Halls, NEW e, EventLike(e), Single(h),
           Cardinality(Participants(h)) <= Capacity
    PROVE  Cardinality(Participants(Apply(h, e))) <= Capacity
<1>0. /\ e.origin \in Peers /\ Capacity \in Nat
      /\ Cardinality(Participants(h)) \in Nat /\ IsFiniteSet(Participants(h))
  BY ParticipantsFinite, RulesAssumption DEF EventLike
<1>1. PICK g : g = Apply(h, e)
  OBVIOUS
<1>2. /\ g \in Halls
      /\ \A r \in Entries(g) : r.peerId = e.origin \/ r \in Entries(h)
  BY <1>1, ApplyType
<1>3. Participants(g) \subseteq Participants(h) \cup {e.origin}
  BY <1>2, EntriesAreParticipants
<1>4. CASE e.origin \in Participants(h)
  <2>1. Participants(g) \subseteq Participants(h)
    BY <1>3, <1>4
  <2>2. Cardinality(Participants(g)) <= Cardinality(Participants(h)) /\ Cardinality(Participants(g)) \in Nat
    BY <1>0, <1>2, <2>1, FS_Subset, ParticipantsFinite
  <2>3. QED BY <1>0, <1>1, <2>2
<1>5. CASE e.origin \notin Participants(h) /\ Cardinality(Participants(h)) < Capacity
  <2>1. /\ IsFiniteSet(Participants(h) \cup {e.origin})
        /\ Cardinality(Participants(h) \cup {e.origin}) = Cardinality(Participants(h)) + 1
    BY <1>0, <1>5, FS_AddElement
  <2>2. Cardinality(Participants(g)) <= Cardinality(Participants(h)) + 1 /\ Cardinality(Participants(g)) \in Nat
    BY <1>2, <1>3, <2>1, FS_Subset, ParticipantsFinite
  <2>3. QED BY <1>0, <1>1, <1>5, <2>2
<1>6. CASE e.origin \notin Participants(h) /\ ~(Cardinality(Participants(h)) < Capacity)
  <2>1. ~Admissible(h, e.origin, e.issuedAt)
    BY <1>6, Counted DEF Admissible
  <2>2. \/ g = Release(h, e.origin, e.issuedAt, FALSE)
        \/ g = Post(h, e)
        \/ g = h
    BY <1>1, <1>6, <2>1 DEF Apply
  <2>3. e.issuedAt \in Nat
    BY DEF EventLike
  <2>4. Entries(g) \subseteq Entries(h)
    BY <1>0, <2>2, <2>3, ReleaseType, PostType
  <2>5. Participants(g) \subseteq Participants(h)
    BY <1>2, <2>4, EntriesAreParticipants
  <2>6. Cardinality(Participants(g)) <= Cardinality(Participants(h)) /\ Cardinality(Participants(g)) \in Nat
    BY <1>0, <1>2, <2>5, FS_Subset, ParticipantsFinite
  <2>7. QED BY <1>0, <1>1, <2>6
<1>7. QED BY <1>4, <1>5, <1>6

(* advance brings nobody in. *)
LEMMA AdvanceCapacity ==
    ASSUME NEW h \in Halls, NEW time, Cardinality(Participants(h)) <= Capacity
    PROVE  Cardinality(Participants(Advance(h, time))) <= Capacity
<1>1. /\ Advance(h, time) \in Halls
      /\ Participants(Advance(h, time)) \subseteq Participants(h)
  BY AdvanceType
<1>2. /\ IsFiniteSet(Participants(h)) /\ Cardinality(Participants(h)) \in Nat
      /\ Cardinality(Participants(Advance(h, time))) \in Nat
      /\ Cardinality(Participants(Advance(h, time))) <= Cardinality(Participants(h))
  BY <1>1, ParticipantsFinite, FS_Subset
<1>3. QED BY <1>2, RulesAssumption

(* Whatever log derive() is given and whatever time it is, there are never    *)
(* more people in the hall that it returns than it has capacity for, seats    *)
(* and queue together (room-events.ts:217-325).                              *)
THEOREM HallWithinCapacity ==
    ASSUME NEW events, IsLog(events), NEW now \in Int
    PROVE  Cardinality(Participants(Derive(events, now))) <= Capacity
<1> DEFINE Good == { seen \in SUBSET events : Cardinality(Participants(Replay(seen))) <= Capacity }
<1>1. {} \in Good
  <2>1. IsLog({})
    BY SubLog
  <2>2. Participants(EmptyHall) = {}
    BY DEF Participants, EmptyHall, TakenSeats
  <2>3. Cardinality({}) <= Capacity
    BY FS_EmptySet, RulesAssumption
  <2>4. QED BY <2>1, <2>2, <2>3, ReplayEquation
<1>2. ASSUME NEW seen \in SUBSET events, seen # {}, seen \ {LastEvent(seen)} \in Good
      PROVE  seen \in Good
  <2>1. PICK e : e = LastEvent(seen)
    OBVIOUS
  <2>2. PICK t : t = seen \ {e}
    OBVIOUS
  <2>3. IsLog(seen) /\ IsLog(t)
    BY <2>2, SubLog
  <2>4. Replay(seen) = Step(Replay(t), e) /\ EventLike(e)
    BY <1>2, <2>1, <2>2, <2>3, ReplayEquation, LastExists DEF IsLog
  <2>5. /\ Replay(t) \in Halls /\ Single(Replay(t))
        /\ Cardinality(Participants(Replay(t))) <= Capacity
    BY <1>2, <2>1, <2>2, <2>3, ReplayType, ReplaySingle
  <2>6. Cardinality(Participants(Replay(seen))) <= Capacity
    BY <2>4, <2>5, AdvanceType, AdvanceSingle, AdvanceCapacity, ApplyCapacity DEF Step
  <2>7. QED BY <2>6
<1> HIDE DEF Good
<1>3. events \in Good
  BY <1>1, <1>2, LogInduction
<1>4. QED BY <1>3, ReplayType, AdvanceCapacity DEF Good, Derive

-----------------------------------------------------------------------------
(* A participant held since time t: nothing was due at t, and all that its    *)
(* place rests on is of time t or later.                                     *)
Held(h, p, t) ==
    /\ p \in Participants(h) /\ Due(h, t) = {}
    /\ \A r \in Entries(h) : r.peerId = p => r.lastPresenceAt >= t
    /\ \A i \in SeatOf(h, p) :
         /\ h.seats[i].seatedAt >= t
         /\ h.seats[i].lastSpokeAt # None => h.seats[i].lastSpokeAt >= t

(* The time before the first deadline of such a participant *)
Soon(t, time) == time < t + IdleMs /\ time < t + PresenceTtlMs /\ time < t + MaxLeaseMs

(* What is not due by a time was not due before. *)
LEMMA DueEarlier ==
    ASSUME NEW h \in Halls, NEW t \in Int, NEW time \in Int, t <= time, Due(h, time) = {}
    PROVE  Due(h, t) = {}
<1>1. ASSUME NEW x \in Due(h, t) PROVE FALSE
  <2>1. x.at \in Nat /\ x.at <= t
    BY <1>1, DueFields
  <2>2. x.at <= time
    BY <2>1
  <2>3. x \in Due(h, time)
    BY <1>1, <2>2 DEF Due
  <2>4. QED BY <2>3
<1>2. QED BY <1>1

(* Until then it is not due. *)
LEMMA HeldIsNotDue ==
    ASSUME NEW h \in Halls, NEW p, NEW t \in Nat, Held(h, p, t),
           NEW time \in Int, Soon(t, time), NEW x \in Due(h, time)
    PROVE  x.peerId # p
<1> SUFFICES ASSUME x.peerId = p PROVE FALSE
  OBVIOUS
<1>0. /\ {IdleMs, MaxLeaseMs, PresenceTtlMs} \subseteq Nat
      /\ x.at \in Nat /\ x.at <= time
  BY RulesAssumption, DueFields
<1>1. CASE x \in SeatExpiries(h)
  <2>1. PICK i \in TakenSeats(h) :
          x.at = SeatExpiry(h.seats[i]) /\ x.peerId = h.seats[i].participant.peerId
    BY <1>1 DEF SeatExpiries
  <2>2. PICK s : s = h.seats[i]
    OBVIOUS
  <2>3. /\ s \in Seat /\ s.seatedAt \in Nat /\ s.participant \in Participant
        /\ s.lastSpokeAt \in Nat \cup {None}
    BY <2>2, TakenSeat DEF Seat
  <2>4. s.seatedAt >= t /\ (s.lastSpokeAt # None => s.lastSpokeAt >= t)
    BY <2>1, <2>2 DEF Held, SeatOf
  <2>5. s.participant.lastPresenceAt >= t /\ s.participant.lastPresenceAt \in Nat
    BY <2>1, <2>2, <2>3, ParticipantFields DEF Held, Entries
  <2>6. \A d \in SeatDeadlines(s) : d > time
    <3>1. s.seatedAt + MaxLeaseMs > time
      BY <1>0, <2>3, <2>4 DEF Soon
    <3>2. (IF s.lastSpokeAt = None THEN s.seatedAt ELSE s.lastSpokeAt) + IdleMs > time
      BY <1>0, <2>3, <2>4 DEF Soon
    <3>3. s.participant.lastPresenceAt + PresenceTtlMs > time
      BY <1>0, <2>5 DEF Soon
    <3>4. QED BY <3>1, <3>2, <3>3 DEF SeatDeadlines
  <2>7. x.at \in SeatDeadlines(s)
    BY <2>1, <2>2, <2>3, SeatExpiryLeast
  <2>8. QED BY <1>0, <2>6, <2>7
<1>2. CASE x \in QueueExpiries(h)
  <2>1. PICK q \in h.queue : x.at = QueueExpiry(q) /\ x.peerId = q.peerId
    BY <1>2 DEF QueueExpiries
  <2>2. q.lastPresenceAt >= t
    BY <2>1 DEF Held, Entries
  <2>3. q.lastPresenceAt \in Nat /\ QueueExpiry(q) = q.lastPresenceAt + PresenceTtlMs
    BY WaitingPeer, ParticipantFields
  <2>4. QED BY <1>0, <2>1, <2>2, <2>3 DEF Soon
<1>3. QED BY <1>1, <1>2 DEF Due

(* fillSeats holds whoever has a seat or waits with a fresh presence.         *)
LEMMA FillSeatsHeld ==
    ASSUME NEW h \in Halls, Single(h), NEW at \in Nat, NEW t \in Nat, t <= at,
           at < t + PresenceTtlMs, NEW p \in Participants(h),
           \A i \in TakenSeats(h) : SeatExpiry(h.seats[i]) > t,
           \A r \in Entries(h) : r.peerId = p => r.lastPresenceAt >= t,
           \A i \in SeatOf(h, p) :
               /\ h.seats[i].seatedAt >= t
               /\ h.seats[i].lastSpokeAt # None => h.seats[i].lastSpokeAt >= t
    PROVE  Held(FillSeats(h, at), p, t)
<1>1. PICK g : g = FillSeats(h, at)
  OBVIOUS
<1>2. /\ g \in Halls
      /\ \A i \in TakenSeats(h) : i \in TakenSeats(g) /\ g.seats[i] = h.seats[i]
      /\ \A i \in TakenSeats(g) \ TakenSeats(h) :
           \E q \in Fresh(h.queue, at) : g.seats[i] = NewSeat(q, at)
      /\ \A q \in Fresh(h.queue, at) :
           q \in g.queue \/ \E i \in TakenSeats(g) : g.seats[i] = NewSeat(q, at)
  BY <1>1, FillSeatsSeats DEF Single
<1>3. Entries(g) \subseteq Entries(h)
  BY <1>1, FillSeatsType
<1>4. Due(g, t) = {}
  BY <1>1, FillSeatsQuiet
<1>5. \A q, s : s = NewSeat(q, at) =>
        s.participant = q /\ s.seatedAt = at /\ s.lastSpokeAt = None
  BY DEF NewSeat
<1>6. p \in Participants(g)
  <2>1. CASE \E i \in TakenSeats(h) : p = h.seats[i].participant.peerId
    BY <1>2, <2>1 DEF Participants
  <2>2. CASE \E q \in h.queue : p = q.peerId
    <3>1. PICK q \in h.queue : p = q.peerId
      BY <2>2
    <3>2. q.lastPresenceAt \in Nat /\ QueueExpiry(q) = q.lastPresenceAt + PresenceTtlMs
      BY WaitingPeer, ParticipantFields
    <3>3. q.lastPresenceAt >= t
      BY <3>1 DEF Entries
    <3>4. q \in Fresh(h.queue, at)
      BY <3>2, <3>3, RulesAssumption DEF Fresh
    <3>5. QED BY <1>2, <1>5, <3>1, <3>4 DEF Participants
  <2>3. QED BY <2>1, <2>2 DEF Participants
<1>7. ASSUME NEW i \in SeatOf(g, p)
      PROVE  /\ g.seats[i].seatedAt >= t
             /\ g.seats[i].lastSpokeAt # None => g.seats[i].lastSpokeAt >= t
  <2>1. i \in TakenSeats(g) /\ g.seats[i].participant.peerId = p
    BY <1>7 DEF SeatOf
  <2>2. CASE i \in TakenSeats(h)
    BY <1>2, <2>1, <2>2 DEF SeatOf
  <2>3. CASE i \notin TakenSeats(h)
    BY <1>2, <1>5, <2>1, <2>3
  <2>4. QED BY <2>2, <2>3
<1>8. QED BY <1>1, <1>3, <1>4, <1>6, <1>7 DEF Held

(* Whoever is held stays in the hall when another one is due. *)
LEMMA TurnHeld ==
    ASSUME NEW h \in Halls, Single(h), NEW p, NEW t \in Nat, Held(h, p, t),
           NEW time \in Int, Soon(t, time), Due(h, time) # {}
    PROVE  Held(Turn(h, time), p, t)
<1>1. PICK x : x = NextDue(h, time)
  OBVIOUS
<1>2. /\ x \in Due(h, time)
      /\ x.at \in Nat /\ x.at <= time /\ x.peerId \in Peers /\ x.cooldown \in BOOLEAN
      /\ x.peerId # p
  BY <1>1, NextDueExists, DueFields, HeldIsNotDue
<1>3. x.at > t
  <2>1. x \notin Due(h, t)
    BY DEF Held
  <2>2. QED BY <1>2, <2>1 DEF Due
<1>4. PICK g \in Halls :
        /\ Release(h, x.peerId, x.at, x.cooldown) = FillSeats(g, x.at)
        /\ \A i \in TakenSeats(g) :
             i \in TakenSeats(h) /\ i \notin SeatOf(h, x.peerId) /\ g.seats[i] = h.seats[i]
        /\ TakenSeats(h) \ SeatOf(h, x.peerId) \subseteq TakenSeats(g)
        /\ g.queue = h.queue \ InQueue(h, x.peerId)
  BY <1>2, ReleaseFills
<1>5. Single(g)
  BY <1>4 DEF Single
<1>6. p \in Participants(g)
  <2>1. CASE \E i \in TakenSeats(h) : p = h.seats[i].participant.peerId
    <3>1. PICK i \in TakenSeats(h) : p = h.seats[i].participant.peerId
      BY <2>1
    <3>2. i \notin SeatOf(h, x.peerId)
      BY <1>2, <3>1 DEF SeatOf
    <3>3. i \in TakenSeats(g) /\ g.seats[i] = h.seats[i]
      BY <1>4, <3>1, <3>2
    <3>4. QED BY <3>1, <3>3 DEF Participants
  <2>2. CASE \E q \in h.queue : p = q.peerId
    BY <1>2, <1>4, <2>2 DEF Participants, InQueue
  <2>3. QED BY <2>1, <2>2 DEF Held, Participants
<1>7. \A i \in TakenSeats(g) : SeatExpiry(g.seats[i]) > t
  <2>1. \A i \in TakenSeats(h) : SeatExpiry(h.seats[i]) > t
    BY NothingIsDue DEF Held
  <2>2. QED BY <1>4, <2>1
<1>8. \A r \in Entries(g) : r.peerId = p => r.lastPresenceAt >= t
  <2>1. Entries(g) \subseteq Entries(h)
    BY <1>4 DEF Entries
  <2>2. QED BY <2>1 DEF Held
<1>9. \A i \in SeatOf(g, p) :
        /\ g.seats[i].seatedAt >= t
        /\ g.seats[i].lastSpokeAt # None => g.seats[i].lastSpokeAt >= t
  <2>1. \A i \in SeatOf(g, p) : i \in SeatOf(h, p) /\ g.seats[i] = h.seats[i]
    BY <1>4 DEF SeatOf
  <2>2. QED BY <2>1 DEF Held
<1>10. t <= x.at /\ x.at < t + PresenceTtlMs
  BY <1>2, <1>3, RulesAssumption DEF Soon
<1>11. Held(FillSeats(g, x.at), p, t)
  BY <1>2, <1>5, <1>6, <1>7, <1>8, <1>9, <1>10, FillSeatsHeld
<1>12. QED BY <1>1, <1>4, <1>11 DEF Turn

(* Nor does the whole of advance remove it. *)
LEMMA AdvanceHeld ==
    ASSUME NEW h \in Halls, Single(h), NEW p, NEW t \in Nat, Held(h, p, t),
           NEW time \in Int, Soon(t, time)
    PROVE  Held(Advance(h, time), p, t)
<1> DEFINE Good == { g \in Halls : Single(g) /\ Held(g, p, t) }
<1>1. ASSUME NEW g \in Halls, g \in Good, Due(g, time) # {}
      PROVE  Turn(g, time) \in Good
  <2>1. Turn(g, time) \in Halls /\ Held(Turn(g, time), p, t)
    BY <1>1, TurnType, TurnHeld
  <2>2. NextDue(g, time).peerId \in Peers /\ NextDue(g, time).at \in Nat
        /\ NextDue(g, time).cooldown \in BOOLEAN
    BY <1>1, NextDueExists, DueFields
  <2>3. Single(Turn(g, time))
    BY <1>1, <2>2, ReleaseSingle DEF Turn
  <2>4. QED BY <2>1, <2>3
<1>2. h \in Good
  OBVIOUS
<1> HIDE DEF Good
<1>3. Advance(h, time) \in Good
  BY <1>1, <1>2, TurnInduction
<1>4. QED BY <1>3 DEF Good

(* It is held by a further presence event of anyone, *)
LEMMA RefreshHeld ==
    ASSUME NEW h \in Halls, NEW p, NEW t \in Nat, Held(h, p, t), NEW e, EventLike(e),
           e.issuedAt >= t, Due(h, e.issuedAt) = {}
    PROVE  Held(Refresh(h, e), p, t)
<1>0. e.issuedAt \in Nat
  BY DEF EventLike
<1>1. PICK g : g = Refresh(h, e)
  OBVIOUS
<1>2. /\ g \in Halls /\ TakenSeats(g) = TakenSeats(h)
      /\ \A i \in TakenSeats(h) :
           /\ g.seats[i].participant.peerId = h.seats[i].participant.peerId
           /\ g.seats[i] \in {h.seats[i], RenewedSeat(h.seats[i], e)}
  BY <1>1, RefreshSeats
<1>3. p \in Participants(g) /\ Due(g, t) = {}
  BY <1>0, <1>1, <1>2, RefreshQuiet, DueEarlier DEF Held
<1>4. \A r \in Entries(g) : r.peerId = p => r.lastPresenceAt >= t
  BY <1>1, RefreshType DEF Held
<1>5. ASSUME NEW i \in SeatOf(g, p)
      PROVE  /\ g.seats[i].seatedAt >= t
             /\ g.seats[i].lastSpokeAt # None => g.seats[i].lastSpokeAt >= t
  <2>1. i \in TakenSeats(h) /\ i \in SeatOf(h, p) /\ h.seats[i] \in Seat
    BY <1>2, TakenSeat DEF SeatOf
  <2>2. g.seats[i].seatedAt = h.seats[i].seatedAt /\ g.seats[i].lastSpokeAt = h.seats[i].lastSpokeAt
    BY <1>0, <1>2, <2>1, RefreshedSeat DEF RenewedSeat
  <2>3. QED BY <2>1, <2>2 DEF Held
<1>6. QED BY <1>1, <1>3, <1>4, <1>5 DEF Held

(* by a message of anyone, *)
LEMMA PostHeld ==
    ASSUME NEW h \in Halls, NEW p, NEW t \in Nat, Held(h, p, t), NEW e, EventLike(e),
           e.issuedAt >= t
    PROVE  Held(Post(h, e), p, t)
<1>0. e.issuedAt \in Nat
  BY DEF EventLike
<1>1. PICK g : g = Post(h, e)
  OBVIOUS
<1>2. /\ g \in Halls /\ TakenSeats(g) = TakenSeats(h) /\ g.queue = h.queue
      /\ \A i \in TakenSeats(h) :
           /\ g.seats[i].participant = h.seats[i].participant
           /\ g.seats[i] \in {h.seats[i], SpokenSeat(h.seats[i], e)}
  BY <1>1, PostSeats, PostType
<1>3. /\ \A i \in TakenSeats(h) : SeatExpiry(h.seats[i]) > t
      /\ \A q \in h.queue : QueueExpiry(q) > t
  BY NothingIsDue DEF Held
<1>4. ASSUME NEW s \in Seat, NEW s2, s2 = SpokenSeat(s, e)
      PROVE  /\ s2 \in Seat /\ s2.participant = s.participant
             /\ s2.seatedAt = s.seatedAt /\ s2.lastSpokeAt = e.issuedAt
  BY <1>0, <1>4 DEF SpokenSeat, Seat
<1>5. ASSUME NEW s \in Seat, SeatExpiry(s) > t, NEW s2, s2 = SpokenSeat(s, e)
      PROVE  SeatExpiry(s2) > t
  <2>1. /\ s2 \in Seat /\ s2.participant = s.participant
        /\ s2.seatedAt = s.seatedAt /\ s2.lastSpokeAt = e.issuedAt
    BY <1>4, <1>5
  <2>2. SeatExpiry(s2) \in SeatDeadlines(s2)
    BY <2>1, SeatExpiryLeast
  <2>3. e.issuedAt # None
    BY <1>0, RulesAssumption
  <2>4. \A d \in SeatDeadlines(s2) : d \in SeatDeadlines(s) \/ d = e.issuedAt + IdleMs
    BY <2>1, <2>3 DEF SeatDeadlines
  <2>5. \A d \in SeatDeadlines(s) : d \in Nat /\ SeatExpiry(s) <= d /\ SeatExpiry(s) \in Nat
    BY SeatExpiryLeast
  <2>6. e.issuedAt + IdleMs > t
    BY <1>0, RulesAssumption
  <2>7. QED BY <1>5, <2>2, <2>4, <2>5, <2>6
<1>6. \A i \in TakenSeats(g) : SeatExpiry(g.seats[i]) > t
  BY <1>2, <1>3, <1>5, TakenSeat
<1>7. Due(g, t) = {}
  BY <1>2, <1>3, <1>6, NothingIsDue
<1>8. p \in Participants(g)
  BY <1>2 DEF Held, Participants
<1>9. \A r \in Entries(g) : r.peerId = p => r.lastPresenceAt >= t
  BY <1>1, PostType DEF Held
<1>10. ASSUME NEW i \in SeatOf(g, p)
       PROVE  /\ g.seats[i].seatedAt >= t
              /\ g.seats[i].lastSpokeAt # None => g.seats[i].lastSpokeAt >= t
  <2>1. i \in TakenSeats(h) /\ i \in SeatOf(h, p) /\ h.seats[i] \in Seat
    BY <1>2, TakenSeat DEF SeatOf
  <2>2. CASE g.seats[i] = h.seats[i]
    BY <2>1, <2>2 DEF Held
  <2>3. CASE g.seats[i] = SpokenSeat(h.seats[i], e)
    <3>1. g.seats[i].seatedAt = h.seats[i].seatedAt /\ g.seats[i].lastSpokeAt = e.issuedAt
      BY <1>4, <2>1, <2>3
    <3>2. QED BY <2>1, <3>1 DEF Held
  <2>4. QED BY <1>2, <2>1, <2>2, <2>3
<1>11. QED BY <1>1, <1>7, <1>8, <1>9, <1>10 DEF Held

(* by the admission of another one, and from its own admission on. *)
LEMMA AdmitHeld ==
    ASSUME NEW h \in Halls, Single(h), NEW p, NEW t \in Nat, NEW e, EventLike(e),
           e.origin \notin Participants(h), t <= e.issuedAt, e.issuedAt < t + PresenceTtlMs,
           Due(h, e.issuedAt) = {}, Held(h, p, t) \/ (p = e.origin /\ t = e.issuedAt)
    PROVE  Held(Admit(h, e), p, t)
<1>0. e.issuedAt \in Nat /\ Due(h, t) = {}
  BY DueEarlier DEF EventLike
<1>1. PICK g \in Halls, new \in Participant :
             /\ Admit(h, e) = FillSeats(g, e.issuedAt)
             /\ g.seats = h.seats /\ g.queue = h.queue \cup {new}
             /\ new.peerId = e.origin /\ new.lastPresenceAt = e.issuedAt
  BY AdmitFills
<1>2. TakenSeats(g) = TakenSeats(h)
  BY <1>1 DEF TakenSeats
<1>3. /\ \A i \in TakenSeats(h) : h.seats[i].participant.peerId # e.origin
      /\ \A q \in h.queue : q.peerId # e.origin
  BY DEF Participants
<1>4. Single(g)
  BY <1>1, <1>2, <1>3 DEF Single
<1>5. Entries(g) = Entries(h) \cup {new}
  BY <1>1, <1>2 DEF Entries
<1>6. \A i \in TakenSeats(g) : SeatExpiry(g.seats[i]) > t
  BY <1>0, <1>1, <1>2, NothingIsDue
<1>7. p \in Participants(g)
  BY <1>1, <1>2 DEF Held, Participants
<1>8. \A r \in Entries(g) : r.peerId = p => r.lastPresenceAt >= t
  <2>1. new.lastPresenceAt >= t
    BY <1>0, <1>1
  <2>2. \A r \in Entries(h) : r.peerId # e.origin
    BY <1>3 DEF Entries
  <2>3. QED BY <1>5, <2>1, <2>2 DEF Held
<1>9. \A i \in SeatOf(g, p) :
        /\ g.seats[i].seatedAt >= t
        /\ g.seats[i].lastSpokeAt # None => g.seats[i].lastSpokeAt >= t
  <2>1. \A i \in SeatOf(g, p) : i \in SeatOf(h, p) /\ g.seats[i] = h.seats[i]
    BY <1>1, <1>2 DEF SeatOf
  <2>2. p = e.origin => SeatOf(g, p) = {}
    BY <1>3, <2>1 DEF SeatOf
  <2>3. QED BY <2>1, <2>2 DEF Held
<1>10. QED BY <1>0, <1>1, <1>4, <1>6, <1>7, <1>8, <1>9, FillSeatsHeld

(* Whoever is held stays in the hall by any event but a leave, while its first *)
(* deadline is ahead.                                                        *)
LEMMA StepHeld ==
    ASSUME NEW h \in Halls, Single(h), NEW p, NEW t \in Nat, Held(h, p, t), NEW e, EventLike(e),
           e.kind # "leave", t <= e.issuedAt, Soon(t, e.issuedAt)
    PROVE  Held(Step(h, e), p, t)
<1>0. e.issuedAt \in Nat /\ e.issuedAt < t + PresenceTtlMs
  BY DEF EventLike, Soon
<1>1. PICK g : g = Advance(h, e.issuedAt)
  OBVIOUS
<1>2. g \in Halls /\ Single(g) /\ Due(g, e.issuedAt) = {} /\ Held(g, p, t)
  BY <1>0, <1>1, AdvanceType, AdvanceSingle, AdvanceHeld
<1>3. \/ Apply(g, e) = Refresh(g, e)
      \/ Apply(g, e) = Admit(g, e) /\ e.origin \notin Participants(g)
      \/ Apply(g, e) = Post(g, e)
      \/ Apply(g, e) = g
  BY DEF Apply
<1>4. Held(Refresh(g, e), p, t) /\ Held(Post(g, e), p, t)
  BY <1>0, <1>2, RefreshHeld, PostHeld
<1>5. e.origin \notin Participants(g) => Held(Admit(g, e), p, t)
  BY <1>0, <1>2, AdmitHeld
<1>6. Held(Apply(g, e), p, t)
  BY <1>2, <1>3, <1>4, <1>5
<1>7. QED BY <1>1, <1>6 DEF Step

-----------------------------------------------------------------------------
(* Not in the hall, and free to come in                                      *)
Out(h, p) == p \notin Participants(h) /\ h.cooldownUntil[p] = 0

(* It stays so while others expire: a cooldown is set for who is in a seat. *)
LEMMA AdvanceOut ==
    ASSUME NEW h \in Halls, NEW p \in Peers, Out(h, p), NEW time
    PROVE  Out(Advance(h, time), p)
<1> DEFINE Good == { g \in Halls : Out(g, p) }
<1>1. ASSUME NEW g \in Halls, g \in Good, Due(g, time) # {}
      PROVE  Turn(g, time) \in Good
  <2>1. PICK x : x = NextDue(g, time)
    OBVIOUS
  <2>2. /\ x.at \in Nat /\ x.peerId \in Peers /\ x.cooldown \in BOOLEAN
        /\ x.peerId \in Participants(g)
    BY <1>1, <2>1, NextDueExists, DueFields
  <2>3. Turn(g, time) = Release(g, x.peerId, x.at, x.cooldown)
    BY <2>1 DEF Turn
  <2>4. Turn(g, time) \in Halls /\ p \notin Participants(Turn(g, time)) /\ p # x.peerId
    BY <1>1, <2>2, <2>3, ReleaseType DEF Out
  <2>5. PICK c \in Halls :
          /\ Release(g, x.peerId, x.at, x.cooldown) = FillSeats(c, x.at)
          /\ \A q \in Peers \ {x.peerId} : c.cooldownUntil[q] = g.cooldownUntil[q]
    BY <2>2, ReleaseFills
  <2>6. FillSeats(c, x.at).cooldownUntil = c.cooldownUntil
    BY FillSeatsParts
  <2>7. Turn(g, time).cooldownUntil[p] = g.cooldownUntil[p]
    BY <2>3, <2>4, <2>5, <2>6
  <2>8. QED BY <1>1, <2>4, <2>7 DEF Out
<1>2. h \in Good
  OBVIOUS
<1> HIDE DEF Good
<1>3. Advance(h, time) \in Good
  BY <1>1, <1>2, TurnInduction
<1>4. QED BY <1>3 DEF Good

(* No event of its own presence, and no leave, changes that. *)
LEMMA StepOut ==
    ASSUME NEW h \in Halls, NEW p \in Peers, Out(h, p), NEW e, EventLike(e),
           e.kind # "leave", e.origin = p => e.kind \notin {"join", "heartbeat"}
    PROVE  Out(Step(h, e), p)
<1>1. PICK g : g = Advance(h, e.issuedAt)
  OBVIOUS
<1>2. g \in Halls /\ Out(g, p)
  BY <1>1, AdvanceType, AdvanceOut
<1>3. /\ Apply(g, e) \in Halls
      /\ \A r \in Entries(Apply(g, e)) : r.peerId = p => r \in Entries(g)
  BY <1>2, ApplyType
<1>4. p \notin Participants(Apply(g, e))
  BY <1>2, <1>3, EntriesAreParticipants DEF Out
<1>5. \/ Apply(g, e) = Refresh(g, e)
      \/ Apply(g, e) = Admit(g, e)
      \/ Apply(g, e) = Post(g, e)
      \/ Apply(g, e) = g
  BY DEF Apply
<1>6. Refresh(g, e).cooldownUntil = g.cooldownUntil
  BY <1>2, RefreshSeats
<1>7. Post(g, e).cooldownUntil = g.cooldownUntil
  BY <1>2, PostSeats
<1>8. Admit(g, e).cooldownUntil = g.cooldownUntil
  <2>1. PICK c \in Halls : Admit(g, e) = FillSeats(c, e.issuedAt) /\ c.cooldownUntil = g.cooldownUntil
    BY <1>2, AdmitFills
  <2>2. QED BY <2>1, FillSeatsParts
<1>9. Apply(g, e).cooldownUntil = g.cooldownUntil
  BY <1>5, <1>6, <1>7, <1>8
<1>10. QED BY <1>1, <1>2, <1>4, <1>9 DEF Step, Out

(* Nobody is missed: in a log without leaves, of no more origins than the hall *)
(* has room for, a peer is in the hall that derive() returns if it joined so   *)
(* recently, and said nothing of its presence before, that none of its        *)
(* deadlines has come: whoever else comes, is seated or expires meanwhile     *)
(* (room-events.ts:217-325).                                                  *)
THEOREM NobodyIsMissed ==
    ASSUME NEW events, IsLog(events), NEW now \in Int,
           \A e \in events : e.issuedAt <= now /\ e.kind # "leave",
           NEW origins \in SUBSET Peers, Cardinality(origins) <= Capacity,
           \A e \in events : e.kind \in {"join", "heartbeat"} => e.origin \in origins,
           NEW b \in events, b.kind = "join", Soon(b.issuedAt, now),
           \A e \in events : e.origin = b.origin /\ e.kind \in {"join", "heartbeat"}
               => e = b \/ Earlier(b, e)
    PROVE  b.origin \in Participants(Derive(events, now))
<1> DEFINE p == b.origin
           t == b.issuedAt
           Good == { seen \in SUBSET events :
                       /\ b \in seen => Held(Replay(seen), p, t)
                       /\ (\A e \in seen : Earlier(e, b)) => Out(Replay(seen), p) }
<1>0. /\ EventLike(b) /\ p \in Peers /\ t \in Nat /\ p \in origins
      /\ IsFiniteSet(origins) /\ {IdleMs, MaxLeaseMs, PresenceTtlMs} \subseteq Nat \ {0}
  <2>1. EventLike(b)
    BY DEF IsLog
  <2>2. QED BY <2>1, FS_Subset, RulesAssumption DEF EventLike
<1>1. {} \in Good
  <2>1. Replay({}) = EmptyHall
    BY SubLog, ReplayEquation
  <2>2. Out(EmptyHall, p)
    BY <1>0 DEF Out, EmptyHall, Participants, TakenSeats
  <2>3. QED BY <2>1, <2>2
<1>2. ASSUME NEW seen \in SUBSET events, seen # {}, seen \ {LastEvent(seen)} \in Good
      PROVE  seen \in Good
  <2>1. PICK e : e = LastEvent(seen)
    OBVIOUS
  <2>2. PICK s : s = seen \ {e}
    OBVIOUS
  <2>3. IsLog(seen) /\ IsLog(s) /\ s \in SUBSET events
    BY <2>2, SubLog
  <2>4. /\ Replay(seen) = Step(Replay(s), e) /\ EventLike(e) /\ e \in seen
        /\ \A f \in s : Earlier(f, e)
    BY <1>2, <2>1, <2>2, <2>3, ReplayEquation, LastExists DEF IsLog
  <2>5. PICK h : h = Replay(s)
    OBVIOUS
  <2>6. h \in Halls /\ Single(h) /\ \A r \in Entries(h) : RestsOn(r, s)
    BY <2>3, <2>5, ReplayType, ReplaySingle, ReplayRests
  <2>7. /\ b \in s => Held(h, p, t)
        /\ (\A f \in s : Earlier(f, b)) => Out(h, p)
    BY <1>2, <2>1, <2>2, <2>5
  <2>8. e.kind # "leave" /\ e.issuedAt <= now /\ e.issuedAt \in Nat
    BY <2>4 DEF EventLike
  <2>9. Soon(t, e.issuedAt)
    BY <1>0, <2>8 DEF Soon
  <2>10. ASSUME \A f \in seen : Earlier(f, b)
         PROVE  Out(Replay(seen), p)
    <3>1. Earlier(e, b) /\ Out(h, p)
      BY <2>2, <2>4, <2>7, <2>10
    <3>2. ~Earlier(b, e) /\ e # b
      BY <1>0, <2>4, <3>1, EarlierIsOrder
    <3>3. e.origin = p => e.kind \notin {"join", "heartbeat"}
      BY <2>4, <3>2
    <3>4. QED BY <1>0, <2>4, <2>5, <2>6, <2>8, <3>1, <3>3, StepOut
  <2>11. ASSUME b \in s PROVE Held(Replay(seen), p, t)
    <3>1. t <= e.issuedAt
      BY <1>0, <2>4, <2>8, <2>11 DEF Earlier
    <3>2. QED BY <1>0, <2>4, <2>5, <2>6, <2>7, <2>8, <2>9, <2>11, <3>1, StepHeld
  <2>12. ASSUME e = b PROVE Held(Replay(seen), p, t)
    <3>1. Out(h, p)
      BY <2>4, <2>7, <2>12
    <3>2. PICK g : g = Advance(h, t)
      OBVIOUS
    <3>3. /\ g \in Halls /\ Single(g) /\ Due(g, t) = {} /\ Out(g, p)
          /\ Participants(g) \subseteq Participants(h)
      BY <1>0, <2>6, <3>1, <3>2, AdvanceType, AdvanceSingle, AdvanceOut
    <3>4. Participants(h) \subseteq origins
      <4>1. \A r \in Entries(h) : r.peerId \in origins
        BY <2>3, <2>6 DEF RestsOn
      <4>2. QED BY <2>6, <4>1, EntriesAreParticipants
    <3>5. Cardinality(Participants(g)) < Capacity
      <4>1. Participants(g) \subseteq origins \ {p}
        BY <3>3, <3>4 DEF Out
      <4>2. /\ IsFiniteSet(origins \ {p}) /\ Cardinality(origins \ {p}) = Cardinality(origins) - 1
            /\ Cardinality(origins) \in Nat
        BY <1>0, FS_RemoveElement, FS_CardinalityType
      <4>3. Cardinality(Participants(g)) <= Cardinality(origins \ {p}) /\ Cardinality(Participants(g)) \in Nat
        BY <3>3, <4>1, <4>2, FS_Subset, ParticipantsFinite
      <4>4. QED BY <4>2, <4>3, RulesAssumption
    <3>6. Admissible(g, p, t)
      BY <1>0, <3>3, <3>5, Counted DEF Admissible, Out
    <3>7. Apply(g, b) = Admit(g, b)
      BY <3>3, <3>6 DEF Apply, Out
    <3>8. t < t + PresenceTtlMs
      BY <1>0
    <3>9. Held(Admit(g, b), p, t)
      BY <1>0, <3>3, <3>8, AdmitHeld DEF Out
    <3>10. QED BY <2>4, <2>5, <2>12, <3>2, <3>7, <3>9 DEF Step
  <2>13. QED BY <2>2, <2>10, <2>11, <2>12
<1>3. events \in Good
  <2> HIDE DEF Good
  <2>1. QED BY <1>1, <1>2, LogInduction
<1>4. Held(Replay(events), p, t)
  BY <1>3
<1>5. Held(Advance(Replay(events), now), p, t)
  BY <1>0, <1>4, ReplayType, ReplaySingle, AdvanceHeld
<1>6. QED BY <1>5 DEF Held, Derive
=============================================================================
