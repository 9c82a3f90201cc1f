-------------------------- MODULE LedgerHost_proofs --------------------------
(***************************************************************************)
(* Theorems about the ledger for every set of peers, all limits that       *)
(* satisfy LimitsAssumption and any events in any order: its limits, that  *)
(* pruning never drops what its indexes point to, that whoever is in the   *)
(* hall is indexed, that a join which admissionError lets through is       *)
(* admitted, and that a late host which catches up from this one finds     *)
(* everyone in the hall.                                                   *)
(***************************************************************************)
EXTENDS Replication, Ledger_proofs

-----------------------------------------------------------------------------
(* The invariant of the host.  *)
Kept ==
    /\ Within(sent, ledger) /\ Signed(sent) /\ IsFiniteSet(sent) /\ now \in Nat

LEMMA KeptInit == Init => Kept
BY EmptyLedgerWithin, FS_EmptySet DEF Init, Kept, Signed

LEMMA KeptNext == Kept /\ [Next]_vars => Kept'
<1> SUFFICES ASSUME Kept, [Next]_vars PROVE Kept'
  OBVIOUS
<1>1. ASSUME NEW p \in Peers, NEW k \in Kinds, NEW lead \in ClockLeads, Sign(p, k, lead)
      PROVE  Kept'
  <2>1. PICK claim \in Claims(k, now + lead) :
          sent' = sent \cup
              {[origin |-> p, sequence |-> NextSequence(p), issuedAt |-> now + lead,
                kind |-> k, joinedAt |-> now + lead, claim |-> claim]}
    BY <1>1 DEF Sign
  <2>2. NextSequence(p) \in Nat \ {0}
    <3>1. IsFiniteSet({ e \in sent : e.origin = p })
      BY FS_Subset DEF Kept
    <3>2. QED BY <3>1, FS_CardinalityType DEF NextSequence
  <2>3. Signed(sent')
    BY <2>1, <2>2 DEF Signed, Kept
  <2>4. IsFiniteSet(sent')
    BY <2>1, FS_AddElement DEF Kept
  <2>5. ledger' = ledger /\ now' = now
    BY <1>1 DEF Sign
  <2>6. Within(sent', ledger)
    BY <2>1, SentGrows DEF Kept
  <2>7. QED BY <2>3, <2>4, <2>5, <2>6 DEF Kept
<1>2. ASSUME NEW e \in sent, NEW historical \in BOOLEAN, Receive(e, historical)
      PROVE  Kept'
  BY <1>2, AcceptWithin DEF Receive, Kept
<1>3. CASE Look
  BY <1>3, ForgetWithin DEF Look, Kept, ExpireIndexes
<1>4. CASE Tick
  BY <1>4 DEF Tick, Kept
<1>5. CASE UNCHANGED vars
  BY <1>5 DEF vars, Kept
<1>6. QED BY <1>1, <1>2, <1>3, <1>4, <1>5 DEF Next

(* Spec => []TypeOK: whatever arrives, and in whatever order, the log holds    *)
(* signed events only, each of them once, and every mark names a peer.       *)
THEOREM TypeCorrect == Spec => []TypeOK
<1>1. Kept => TypeOK
  <2> SUFFICES ASSUME Kept PROVE TypeOK
    OBVIOUS
  <2>1. ledger.log \in Seq(sent) /\ ledger.marks \in Seq(Mark) /\ ledger.revision \in Nat
    BY DEF Kept, Within, LedgerOf
  <2>2. Logged(ledger) \subseteq sent /\ ToSet(ledger.marks) \subseteq Mark
    BY <2>1 DEF Logged, ToSet
  <2>3. IsInjective(ledger.log) /\ now \in Nat
    BY DEF Kept, Within, Fits
  <2>4. QED BY <2>1, <2>2, <2>3 DEF TypeOK, Mark
<1>2. QED BY <1>1, KeptInit, KeptNext, PTL DEF Spec

(* Spec => []Bounded: no sequence of accepted events takes the log, the join   *)
(* bases or the marks beyond their limits: the guard of accept bounds the    *)
(* bases, and because MaxTrackedJoins <= MaxTrackedSequences one of the marks *)
(* is inactive whenever there is one too many.                               *)
THEOREM LimitsHold == Spec => []Bounded
<1>1. Kept => Bounded
  BY DEF Kept, Within, Fits, OneMark, Bounded
<1>2. QED BY <1>1, KeptInit, KeptNext, PTL DEF Spec

LEMMA PointedNext ==
    Kept /\ (None \notin sent => Pointed(ledger)) /\ [Next]_vars
        => (None \notin sent => Pointed(ledger))'
<1> SUFFICES ASSUME Kept, None \notin sent => Pointed(ledger), [Next]_vars, None \notin sent'
             PROVE  Pointed(ledger')
  OBVIOUS
<1>0. ledger \in LedgerOf(sent) /\ Signed(sent) /\ Within(sent, ledger)
  BY DEF Kept, Within
<1>1. CASE \E p \in Peers, k \in Kinds, lead \in ClockLeads : Sign(p, k, lead)
  <2>1. sent \subseteq sent' /\ ledger' = ledger
    BY <1>1 DEF Sign
  <2>2. QED BY <2>1
<1>2. CASE \E e \in sent, historical \in BOOLEAN : Receive(e, historical)
  <2>1. PICK e \in sent : ledger' = Accept(ledger, e) /\ sent' = sent
    BY <1>2 DEF Receive
  <2>2. QED BY <1>0, <2>1, AcceptPointed
<1>3. CASE Look
  <2>1. ledger' = ExpireIndexes(ledger, now) /\ sent' = sent
    BY <1>3 DEF Look
  <2>2. QED BY <1>0, <2>1, PointedForget DEF ExpireIndexes
<1>4. CASE Tick
  BY <1>4 DEF Tick
<1>5. CASE UNCHANGED vars
  BY <1>5 DEF vars
<1>6. QED BY <1>1, <1>2, <1>3, <1>4, <1>5 DEF Next

(* Spec => []IndexesLogged, if None is no event: pruning never drops the join  *)
(* basis or the latest presence of anyone active, nor the last checkpoint,   *)
(* because the limits leave something else to drop: LimitsAssumption counts  *)
(* two events per join basis, the recent chats and one checkpoint.           *)
THEOREM NothingNamedIsDropped == Spec => [](None \notin sent => IndexesLogged)
<1>1. Init => (None \notin sent => Pointed(ledger))
  BY DEF Init, EmptyLedger, Pointed, HasBasis
<1>2. Kept /\ (None \notin sent => Pointed(ledger)) => (None \notin sent => IndexesLogged)
  BY DEF Pointed, IndexesLogged, Tracked, HasBasis
<1>3. QED BY <1>1, <1>2, KeptInit, KeptNext, PointedNext, PTL DEF Spec

(* Spec => []MarksCover: among no more peers than marks, an event is never     *)
(* accepted after a later one of its origin, whatever the network does: what *)
(* the sequence check of accept is for.                                      *)
THEOREM SequencesOnlyRise == Spec => []MarksCover
<1> DEFINE Few == Cardinality(Peers) <= MaxTrackedSequences
           Inv == Kept /\ (Few => Covered(ledger))
<1>1. Init => Inv
  <2>1. Init => Covered(ledger)
    BY DEF Init, EmptyLedger, Covered, Logged, ToSet
  <2>2. QED BY <2>1, KeptInit
<1>2. Inv /\ [Next]_vars => Inv'
  <2> SUFFICES ASSUME Inv, [Next]_vars, Few PROVE Covered(ledger')
    BY KeptNext
  <2>0. /\ ledger \in LedgerOf(sent) /\ Signed(sent) /\ Within(sent, ledger) /\ Covered(ledger)
    BY DEF Kept, Within
  <2>1. CASE \E p \in Peers, k \in Kinds, lead \in ClockLeads : Sign(p, k, lead)
    <3>1. ledger' = ledger
      BY <2>1 DEF Sign
    <3>2. QED BY <2>0, <3>1
  <2>2. CASE \E e \in sent, historical \in BOOLEAN : Receive(e, historical)
    <3>1. PICK e \in sent : ledger' = Accept(ledger, e)
      BY <2>2 DEF Receive
    <3>2. QED BY <2>0, <3>1, AcceptCovered
  <2>3. CASE Look
    <3>1. ledger' = ExpireIndexes(ledger, now)
      BY <2>3 DEF Look
    <3>2. QED BY <2>0, <3>1, ForgetEffect DEF ExpireIndexes, Covered, Logged
  <2>4. CASE Tick \/ UNCHANGED vars
    <3>1. ledger' = ledger
      BY <2>4 DEF Tick, vars
    <3>2. QED BY <2>0, <3>1
  <2>. QED BY <2>1, <2>2, <2>3, <2>4 DEF Next
<1>3. Inv => MarksCover
  <2> SUFFICES ASSUME Inv, Few, NEW e \in Logged(ledger)
               PROVE  e.sequence <= HighWaterMark(ledger, e.origin)
    BY DEF MarksCover
  <2>1. PICK m \in ToSet(ledger.marks) : m.origin = e.origin /\ e.sequence <= m.sequence
    BY DEF Covered
  <2>2. QED BY <2>1, MarkIsHighWater DEF Kept, Within, Fits
<1> HIDE DEF Inv
<1>4. QED BY <1>1, <1>2, <1>3, PTL DEF Spec

(* What the peers of the host signed: the sequence numbers of an origin also    *)
(* count its events.                                                         *)
Numbered(S) ==
    /\ Ordered(S)
    /\ \A e \in S : e.sequence <= Cardinality({ f \in S : f.origin = e.origin })

LEMMA NumberedNext ==
    ASSUME ClockLeads \subseteq Nat, Kept, Numbered(sent), [Next]_vars
    PROVE  Numbered(sent')
<1>0. now \in Nat /\ IsFiniteSet(sent) /\ Signed(sent)
  BY DEF Kept
<1>1. ASSUME NEW p \in Peers, NEW k \in Kinds, NEW lead \in ClockLeads, Sign(p, k, lead)
      PROVE  Numbered(sent')
  <2> DEFINE own == { f \in sent : f.origin = p }
             at == now + lead
  <2>1. PICK claim \in Claims(k, now + lead) :
          sent' = sent \cup
              {[origin |-> p, sequence |-> NextSequence(p), issuedAt |-> now + lead,
                kind |-> k, joinedAt |-> now + lead, claim |-> claim]}
    BY <1>1 DEF Sign
  <2>2. PICK e : e = [origin |-> p, sequence |-> NextSequence(p), issuedAt |-> now + lead,
                      kind |-> k, joinedAt |-> now + lead, claim |-> claim]
    OBVIOUS
  <2>3. at \in Nat /\ \A f \in own : f.issuedAt <= at
    <3>1. at \in Nat
      BY <1>0
    <3>2. \A f \in own : f.issuedAt <= at
      BY <1>1 DEF Sign
    <3>3. QED BY <3>1, <3>2
  <2>4. IsFiniteSet(own) /\ Cardinality(own) \in Nat /\ NextSequence(p) = Cardinality(own) + 1
    BY <1>0, FS_Subset, FS_CardinalityType DEF NextSequence
  <2>5. /\ sent' = sent \cup {e} /\ e.origin = p /\ e.sequence = Cardinality(own) + 1
        /\ e.issuedAt = at /\ e.joinedAt = at
    BY <2>1, <2>2, <2>4
  <2> HIDE DEF at
  <2>6. EventLike(e)
    BY <2>3, <2>4, <2>5 DEF EventLike
  <2>7. ASSUME NEW f \in sent
        PROVE  /\ EventLike(f) /\ f.sequence \in Nat
               /\ f.sequence <= Cardinality({ g \in sent : g.origin = f.origin })
               /\ f.origin = p => f.sequence < e.sequence /\ f.issuedAt <= e.issuedAt
    <3>1. /\ EventLike(f) /\ f.sequence \in Nat
          /\ f.sequence <= Cardinality({ g \in sent : g.origin = f.origin })
      BY DEF Numbered, Ordered, EventLike
    <3>2. ASSUME f.origin = p PROVE f.sequence <= Cardinality(own)
      BY <3>1, <3>2
    <3>3. f.origin = p => f.issuedAt <= at
      BY <2>3
    <3> HIDE DEF own
    <3>4. f.origin = p => f.sequence < e.sequence
      BY <2>4, <2>5, <3>1, <3>2
    <3>5. QED BY <2>5, <3>1, <3>3, <3>4
  <2>8. ASSUME NEW f \in sent'
        PROVE  f.sequence <= Cardinality({ g \in sent' : g.origin = f.origin })
    <3> DEFINE before == { g \in sent : g.origin = f.origin }
               after == { g \in sent' : g.origin = f.origin }
    <3>1. CASE f.origin = p
      <4>1. before = own /\ after = own \cup {e}
        BY <2>5, <3>1
      <4>6. e \notin own
        <5>1. e.sequence \in Nat /\ ~(e.sequence < e.sequence)
          BY <2>4, <2>5
        <5>2. QED BY <2>7, <5>1
      <4>2. Cardinality(after) = Cardinality(own) + 1
        BY <2>4, <4>1, <4>6, FS_AddElement
      <4>3. f \in sent => f.sequence < e.sequence /\ f.sequence \in Nat
        BY <2>7, <3>1
      <4> HIDE DEF own, before, after
      <4>4. f.sequence <= Cardinality(own) + 1
        BY <2>4, <2>5, <4>3
      <4>5. QED BY <4>2, <4>4 DEF after
    <3>2. CASE f.origin # p
      <4>1. f \in sent /\ before = after
        BY <2>5, <3>2
      <4>2. QED BY <2>7, <4>1
    <3>3. QED BY <3>1, <3>2
  <2>9. ASSUME NEW f \in sent', NEW g \in sent', f.origin = g.origin, f.sequence <= g.sequence
        PROVE  f = g \/ (f.sequence < g.sequence /\ f.issuedAt <= g.issuedAt)
    <3>1. CASE f \in sent /\ g \in sent
      BY <2>9, <3>1 DEF Numbered, Ordered
    <3>2. CASE f \in sent /\ g = e
      BY <2>5, <2>7, <2>9, <3>2
    <3>3. CASE f = e /\ g \in sent
      <4>1. g.origin = p
        BY <2>5, <2>9, <3>3
      <4>2. g.sequence < e.sequence /\ g.sequence \in Nat
        BY <2>7, <3>3, <4>1
      <4>3. e.sequence \in Nat
        BY <2>4, <2>5
      <4>4. QED BY <2>9, <3>3, <4>2, <4>3
    <3>4. QED BY <2>5, <3>1, <3>2, <3>3
  <2>10. QED BY <2>5, <2>6, <2>7, <2>8, <2>9 DEF Numbered, Ordered
<1>2. CASE \E e \in sent, historical \in BOOLEAN : Receive(e, historical)
  BY <1>2 DEF Receive
<1>3. CASE Look
  BY <1>3 DEF Look
<1>4. CASE Tick
  BY <1>4 DEF Tick
<1>5. CASE UNCHANGED vars
  BY <1>5 DEF vars
<1>6. QED BY <1>1, <1>2, <1>3, <1>4, <1>5 DEF Next

LEMMA SignedByNow ==
    ASSUME ClockLeads = {0}, Kept, Numbered(sent), SignedBy(sent, now), [Next]_vars
    PROVE  Numbered(sent') /\ SignedBy(sent', now')
<1>1. now \in Nat /\ \A e \in sent : e.issuedAt \in Nat /\ e.issuedAt <= now
  BY DEF Kept, SignedBy, Ordered, EventLike
<1>2. Numbered(sent')
  BY NumberedNext
<1>3. ASSUME NEW p \in Peers, NEW k \in Kinds, NEW lead \in ClockLeads, Sign(p, k, lead)
      PROVE  \A e \in sent' : e.issuedAt <= now'
  <2>1. now + lead <= now /\ now' = now
    BY <1>1, <1>3 DEF Sign
  <2>2. \A e \in sent' : e \in sent \/ e.issuedAt = now + lead
    BY <1>3 DEF Sign
  <2>3. QED BY <1>1, <2>1, <2>2
<1>4. sent' = sent /\ (now' = now \/ now' = now + 1) => \A e \in sent' : e.issuedAt <= now'
  BY <1>1
<1>5. QED BY <1>2, <1>3, <1>4 DEF Next, Receive, Look, Tick, vars, SignedBy, Numbered

(* The invariant behind ActiveIndexed *)
Attended ==
    /\ Kept /\ Numbered(sent) /\ SignedBy(sent, now)
    /\ None \notin sent => Pointed(ledger) /\ Heeded(ledger, now)

LEMMA AttendedInit == Init => Attended
<1> SUFFICES ASSUME Init PROVE Attended
  OBVIOUS
<1>1. Numbered(sent) /\ SignedBy(sent, now)
  BY DEF Init, SignedBy, Numbered, Ordered
<1>2. Pointed(ledger) /\ Heeded(ledger, now)
  BY DEF Init, EmptyLedger, Pointed, HasBasis, Heeded
<1>3. QED BY <1>1, <1>2, KeptInit DEF Attended

LEMMA AttendedNext ==
    ASSUME ClockLeads = {0}
    PROVE  Attended /\ [Next]_vars => Attended'
<1> SUFFICES ASSUME Attended, [Next]_vars PROVE Attended'
  OBVIOUS
<1>1. Kept' /\ Numbered(sent') /\ SignedBy(sent', now')
  BY KeptNext, SignedByNow DEF Attended
<1>2. (None \notin sent => Pointed(ledger))'
  BY PointedNext DEF Attended
<1>3. ASSUME None \notin sent' PROVE Heeded(ledger', now')
  <2>0. /\ now \in Nat /\ Within(sent, ledger) /\ ledger \in LedgerOf(sent) /\ Signed(sent)
        /\ SignedBy(sent, now)
    BY DEF Attended, Kept, Within
  <2>1. CASE \E p \in Peers, k \in Kinds, lead \in ClockLeads : Sign(p, k, lead)
    <3>1. sent \subseteq sent' /\ ledger' = ledger /\ now' = now
      BY <2>1 DEF Sign
    <3>2. QED BY <1>3, <3>1 DEF Attended
  <2>2. CASE \E e \in sent, historical \in BOOLEAN : Receive(e, historical)
    <3>1. PICK e \in sent : ledger' = Accept(ledger, e) /\ sent' = sent /\ now' = now
      BY <2>2 DEF Receive
    <3>2. QED BY <1>3, <2>0, <3>1, AcceptHeeded DEF Attended
  <2>3. CASE Look
    <3>1. ledger' = ExpireIndexes(ledger, now) /\ sent' = sent /\ now' = now
      BY <2>3 DEF Look
    <3>2. now <= now
      BY <2>0
    <3>3. QED BY <1>3, <2>0, <3>1, <3>2, HeededForget DEF Attended
  <2>4. CASE Tick
    <3>1. ledger' = ledger /\ sent' = sent /\ now' = now + 1
      BY <2>4 DEF Tick
    <3>2. \A j \in DOMAIN ledger.log : ledger.log[j].issuedAt \in Nat
      <4>1. \A j \in DOMAIN ledger.log : ledger.log[j] \in sent
        BY <2>0 DEF LedgerOf
      <4>2. QED BY <2>0, <4>1 DEF SignedBy, Ordered, EventLike
    <3>3. ASSUME NEW at \in Nat, at + PresenceTtlMs > now + 1 PROVE at + PresenceTtlMs > now
      BY <2>0, <3>3, RulesAssumption
    <3>4. QED BY <1>3, <3>1, <3>2, <3>3 DEF Attended, Heeded
  <2>5. CASE UNCHANGED vars
    BY <1>3, <2>5 DEF vars, Attended
  <2>6. QED BY <2>1, <2>2, <2>3, <2>4, <2>5 DEF Next
<1>4. QED BY <1>1, <1>2, <1>3 DEF Attended

(* Whoever the hall holds is indexed with the presence that it rests on. *)
LEMMA AttendedIndexes ==
    ASSUME Attended, None \notin sent, NEW r \in Entries(Hall)
    PROVE  /\ HasBasis(ledger, r.peerId)
           /\ r.lastPresenceAt = ledger.latestPresence[r.peerId].issuedAt
BY HallIsIndexed DEF Attended, Kept, Hall

(* Spec => []ActiveIndexed, if no clock is ahead of the host's and None is no  *)
(* event: whoever derive() puts in the hall, from whatever arrived of what    *)
(* was signed, in whatever order and however much was pruned, has a join      *)
(* basis and is indexed with the presence that its place rests on.  With       *)
(* clocks ahead it is false: LedgerClockAhead.cfg.                            *)
THEOREM ActiveAreIndexed ==
    ASSUME ClockLeads = {0}
    PROVE  Spec => [](None \notin sent => ActiveIndexed)
<1>1. Attended => (None \notin sent => ActiveIndexed)
  <2> SUFFICES ASSUME Attended, None \notin sent, NEW p \in Participants(Hall)
               PROVE  /\ HasBasis(ledger, p)
                      /\ \A q \in Hall.queue : q.peerId = p =>
                           q.lastPresenceAt = ledger.latestPresence[p].issuedAt
                      /\ \A i \in SeatOf(Hall, p) : Hall.seats[i].participant.lastPresenceAt
                                                      = ledger.latestPresence[p].issuedAt
    BY DEF ActiveIndexed
  <2> HIDE DEF Hall
  <2>1. \A i \in TakenSeats(Hall) : Hall.seats[i].participant \in Entries(Hall)
    BY DEF Entries
  <2>2. Hall.queue \subseteq Entries(Hall)
    BY DEF Entries
  <2>3. \E r \in Entries(Hall) : r.peerId = p
    BY <2>1, <2>2 DEF Participants
  <2>4. QED BY <2>1, <2>2, <2>3, AttendedIndexes DEF SeatOf
<1>2. QED BY <1>1, AttendedInit, AttendedNext, PTL DEF Spec

-----------------------------------------------------------------------------
(* A step that accepts a join without an error admits its peer, if the log had *)
(* room.                                                                     *)
LEMMA AdmissionStep ==
    ASSUME None \notin {"HALL_COOLDOWN", "HALL_FULL"},
           Kept, Numbered(sent), Len(ledger.log) < MaxRetainedEvents, [Next]_vars
    PROVE  AdmissionHeld
<1>0. /\ Within(sent, ledger) /\ Signed(sent) /\ IsFiniteSet(sent) /\ now \in Nat
      /\ Ordered(sent)
  BY DEF Kept, Numbered
<1>1. ASSUME NEW f \in sent, NEW historical \in BOOLEAN, Receive(f, historical)
      PROVE  AdmissionHeld
  <2> SUFFICES ASSUME NEW e \in Logged(ledger') \ Logged(ledger),
                      e.kind = "join", e.issuedAt = now,
                      \A g \in Logged(ledger) : g.issuedAt < now,
                      AdmissionError(ledger, e.origin, now) = None
               PROVE  e.origin \in Participants(HallAt(ledger', now))
    BY DEF AdmissionHeld
  <2>1. ledger' = Accept(ledger, f)
    BY <1>1 DEF Receive
  <2>2. e = f
    BY <1>0, <2>1, AcceptLogs
  <2>3. \A g \in Logged(ledger) : Earlier(g, e)
    BY DEF Earlier
  <2>4. QED BY <1>0, <2>1, <2>2, <2>3, JoinIsAdmitted
<1>2. Logged(ledger') = Logged(ledger) => AdmissionHeld
  BY DEF AdmissionHeld
<1>3. CASE Look
  <2>1. ledger \in LedgerOf(sent) /\ ledger' = Forget(ledger, Lapsed(ledger, now))
    BY <1>0, <1>3 DEF Look, ExpireIndexes, Within
  <2>2. QED BY <1>2, <2>1, ForgetEffect DEF Logged
<1>4. CASE ledger' = ledger
  BY <1>2, <1>4
<1>5. QED BY <1>1, <1>3, <1>4 DEF Next, Sign, Tick, vars

LEMMA NumberedInit == Init => Numbered(sent)
BY DEF Init, Numbered, Ordered

(* What admissionError reports is what happens, as long as the log has room:  *)
(* if it reports nothing, and a join of that instant is accepted and is the   *)
(* latest event logged, then derive() has the peer in the hall, in the one     *)
(* place it has.  A full log may lose an older event by that very step.       *)
THEOREM AdmissionHeldWithRoom ==
    ASSUME ClockLeads \subseteq Nat, None \notin {"HALL_COOLDOWN", "HALL_FULL"}
    PROVE  Spec => [][Len(ledger.log) < MaxRetainedEvents => AdmissionHeld]_vars
<1> DEFINE Inv == Kept /\ Numbered(sent)
<1>1. Init => Inv
  BY KeptInit, NumberedInit
<1>2. Inv /\ [Next]_vars => Inv'
  BY KeptNext, NumberedNext
<1>3. Inv /\ [Next]_vars => (Len(ledger.log) < MaxRetainedEvents => AdmissionHeld)
  BY AdmissionStep
<1> HIDE DEF Inv
<1>4. QED BY <1>1, <1>2, <1>3, PTL DEF Spec

-----------------------------------------------------------------------------
(* The answer to a sync request, read by a host that has nothing: the function *)
(* in CatchUp, on the parts of the answer, as an equation.                    *)
Catches(after, l, heard) ==
    after = [seen \in SUBSET heard |->
        IF seen = {} THEN l ELSE Accept(after[seen \ {LastEvent(seen)}], LastEvent(seen))]

(* Such a function exists. *)
LEMMA CatchesExists ==
    ASSUME NEW heard, IsLog(heard), Signed(heard), NEW l, Within(heard, l)
    PROVE  \E after : Catches(after, l, heard)
<1> DEFINE S == SUBSET heard
           V == { n \in LedgerOf(heard) : Within(heard, n) }
           stop == {{}}
           step == [seen \in S |-> IF seen = {} THEN {} ELSE seen \ {LastEvent(seen)}]
           out == [seen \in S |-> l]
           op == [seen \in S |-> [n \in V |-> IF seen = {} THEN n ELSE Accept(n, LastEvent(seen))]]
           rank == [seen \in S |-> Cardinality(seen)]
           bound == Cardinality(heard)
<1>1. ASSUME NEW seen \in S
      PROVE  /\ IsFiniteSet(seen) /\ Cardinality(seen) \in Nat
             /\ Cardinality(seen) <= Cardinality(heard) /\ Cardinality(heard) \in Nat
  BY FS_Subset, FS_CardinalityType DEF IsLog
<1>2. ASSUME NEW seen \in S, seen # {}
      PROVE  /\ LastEvent(seen) \in seen
             /\ seen \ {LastEvent(seen)} \in S
             /\ Cardinality(seen \ {LastEvent(seen)}) = Cardinality(seen) - 1
  <2>1. LastEvent(seen) \in seen
    BY <1>2, SubLog, LastExists
  <2>2. QED BY <1>1, <2>1, FS_RemoveElement
<1>3. l \in V
  BY DEF Within
<1>4. /\ stop \subseteq S /\ step \in [S -> S] /\ out \in [S -> V] /\ rank \in [S -> Nat]
      /\ bound \in Nat /\ \A seen \in S : rank[seen] <= bound
  BY <1>1, <1>2, <1>3
<1>5. op \in [S -> [V -> V]]
  <2>1. ASSUME NEW seen \in S, seen # {}, NEW n \in V PROVE Accept(n, LastEvent(seen)) \in V
    <3>1. LastEvent(seen) \in heard /\ Within(heard, n)
      BY <1>2, <2>1
    <3>2. Within(heard, Accept(n, LastEvent(seen)))
      BY <3>1, AcceptWithin
    <3>3. QED BY <3>2 DEF Within
  <2> HIDE DEF V
  <2>2. QED BY <2>1
<1>6. ASSUME NEW seen \in S \ stop PROVE rank[step[seen]] < rank[seen]
  <2>1. seen \in S /\ seen # {}
    OBVIOUS
  <2>2. step[seen] = seen \ {LastEvent(seen)} /\ step[seen] \in S
    BY <1>2, <2>1
  <2>3. rank[step[seen]] = Cardinality(seen) - 1 /\ rank[seen] = Cardinality(seen)
    BY <1>2, <2>1, <2>2
  <2>4. QED BY <1>1, <2>1, <2>3
<1>7. PICK f : Solves(f, S, V, stop, step, out, op)
  <2> HIDE DEF S, V, stop, step, out, op, rank, bound
  <2>1. Recursion(S, V, stop, step, out, op, rank, bound)
    BY <1>4, <1>5, <1>6 DEF Recursion
  <2>2. QED BY <2>1, RecursionExists
<1>8. f \in [S -> V]
  BY <1>7 DEF Solves
<1>9. ASSUME NEW seen \in S
      PROVE  f[seen] = IF seen = {} THEN l ELSE Accept(f[seen \ {LastEvent(seen)}], LastEvent(seen))
  <2>1. f[seen] = IF seen \in stop THEN out[seen] ELSE op[seen][f[step[seen]]]
    BY <1>7 DEF Solves
  <2>2. CASE seen = {}
    BY <2>1, <2>2
  <2>3. CASE seen # {}
    <3>1. step[seen] = seen \ {LastEvent(seen)} /\ f[seen \ {LastEvent(seen)}] \in V
      BY <1>2, <1>8, <2>3
    <3>2. f[seen] = op[seen][f[step[seen]]]
      BY <2>1, <2>3
    <3>3. \A n \in V : op[seen][n] = Accept(n, LastEvent(seen))
      BY <2>3
    <3> HIDE DEF op, step, V
    <3>4. QED BY <2>3, <3>1, <3>2, <3>3
  <2>4. QED BY <2>2, <2>3
<1>10. f = [seen \in S |->
              IF seen = {} THEN l ELSE Accept(f[seen \ {LastEvent(seen)}], LastEvent(seen))]
  <2>1. f = [seen \in S |-> f[seen]]
    BY <1>8
  <2>2. QED BY <1>9, <2>1
<1>11. QED BY <1>10 DEF Catches

(* What such a host has after some of the events: some of them, each mark that *)
(* of one of them, and every join.                                           *)
Caught(heard, seen, l) ==
    /\ Within(heard, l) /\ Pointed(l) /\ Logged(l) \subseteq seen
    /\ \A m \in ToSet(l.marks) : \E f \in seen : f.origin = m.origin /\ f.sequence = m.sequence
    /\ \A b \in seen : b.kind = "join" => b \in Logged(l)

(* A join is always accepted next: nothing later of its origin was, and there  *)
(* are no more origins than may be tracked.                                  *)
LEMMA JoinIsAcceptable ==
    ASSUME NEW heard, Signed(heard), Ordered(heard), None \notin heard,
           NEW origins \in SUBSET Peers, Cardinality(origins) <= MaxTrackedJoins,
           \A f \in heard : f.kind = "join" => f.origin \in origins,
           NEW seen \in SUBSET heard, NEW l, Caught(heard, seen, l),
           NEW e \in heard, e.kind = "join", \A f \in seen : Earlier(f, e)
    PROVE  Acceptable(ExpireIndexes(l, e.issuedAt), e)
<1>1. PICK c : c = ExpireIndexes(l, e.issuedAt)
  OBVIOUS
<1>2. l \in LedgerOf(heard) /\ Pointed(l) /\ Fits(l)
  BY DEF Caught, Within
<1>3. c = Forget(l, Lapsed(l, e.issuedAt))
  BY <1>1 DEF ExpireIndexes
<1>4. /\ c \in LedgerOf(heard) /\ Pointed(c) /\ c.marks = l.marks /\ c.log = l.log
  BY <1>2, <1>3, ForgetEffect, PointedForget
<1>5. e.sequence > HighWaterMark(c, e.origin)
  <2> DEFINE own == { m \in ToSet(c.marks) : m.origin = e.origin }
  <2>1. e.sequence \in Nat \ {0}
    BY DEF Signed
  <2>2. ASSUME NEW m \in own PROVE m.sequence < e.sequence
    <3>1. PICK f \in seen : f.origin = m.origin /\ f.sequence = m.sequence
      BY <1>4 DEF Caught
    <3>2. f.origin = e.origin /\ f \in heard /\ Earlier(f, e)
      BY <3>1
    <3>3. /\ f.sequence \in Nat /\ e.sequence \in Nat
          /\ f.issuedAt \in Nat /\ e.issuedAt \in Nat /\ e.origin \in Nat
      BY <3>2, RulesAssumption DEF Ordered, EventLike
    <3>4. e.sequence <= f.sequence => e = f \/ (e.sequence < f.sequence /\ e.issuedAt <= f.issuedAt)
      BY <3>2 DEF Ordered
    <3>5. QED BY <3>1, <3>2, <3>3, <3>4 DEF Earlier
  <2>3. CASE own = {}
    BY <2>1, <2>3 DEF HighWaterMark
  <2>4. CASE own # {}
    <3>1. HighWaterMark(c, e.origin) = (CHOOSE m \in own : TRUE).sequence
      BY <2>4 DEF HighWaterMark
    <3>2. (CHOOSE m \in own : TRUE) \in own
      BY <2>4
    <3> HIDE DEF own
    <3>3. QED BY <2>2, <3>1, <3>2
  <2>5. QED BY <2>3, <2>4
<1>6. ASSUME ~HasBasis(c, e.origin) PROVE Cardinality(Tracked(c)) < MaxTrackedJoins
  <2>1. Tracked(c) \subseteq origins \ {e.origin}
    <3>1. ASSUME NEW q \in Tracked(c) PROVE q \in origins /\ q # e.origin
      <4>1. q \in Peers /\ HasBasis(c, q)
        BY DEF Tracked
      <4>2. c.joinBasis[q] \in Logged(c) /\ c.joinBasis[q].origin = q /\ c.joinBasis[q].kind = "join"
        BY <1>4, <4>1 DEF Pointed
      <4>3. c.joinBasis[q] \in heard
        BY <1>4, <4>2 DEF Caught, Logged
      <4>4. QED BY <1>6, <4>1, <4>2, <4>3
    <3>2. QED BY <3>1
  <2>2. /\ e.origin \in origins /\ IsFiniteSet(origins)
        /\ Cardinality(origins) \in Nat
    BY RulesAssumption, FS_Subset, FS_CardinalityType
  <2>3. /\ IsFiniteSet(origins \ {e.origin})
        /\ Cardinality(origins \ {e.origin}) = Cardinality(origins) - 1
    BY <2>2, FS_RemoveElement
  <2>4. Cardinality(Tracked(c)) <= Cardinality(origins \ {e.origin}) /\ Cardinality(Tracked(c)) \in Nat
    BY <2>1, <2>3, FS_Subset, FS_CardinalityType
  <2>5. QED BY <2>2, <2>3, <2>4, LimitsAssumption
<1>7. QED BY <1>1, <1>5, <1>6 DEF Acceptable

(* The next event of the answer is accepted or refused, and nothing is lost by *)
(* it: the log has room.                                                     *)
LEMMA CaughtNext ==
    ASSUME NEW heard, IsLog(heard), Signed(heard), Ordered(heard), None \notin heard,
           Cardinality(heard) <= MaxRetainedEvents,
           NEW origins \in SUBSET Peers, Cardinality(origins) <= MaxTrackedJoins,
           \A f \in heard : f.kind = "join" => f.origin \in origins,
           NEW seen \in SUBSET heard, NEW e \in heard, e \notin seen, \A f \in seen : Earlier(f, e),
           NEW l, Caught(heard, seen, l)
    PROVE  Caught(heard, seen \cup {e}, Accept(l, e))
<1>1. PICK n : n = Accept(l, e)
  OBVIOUS
<1>2. Within(heard, l) /\ Pointed(l) /\ e \notin Logged(l)
  BY DEF Caught
<1>3. Within(heard, n) /\ Pointed(n)
  BY <1>1, <1>2, AcceptWithin, AcceptPointed
<1>4. Len(l.log) < MaxRetainedEvents
  <2>1. IsFiniteSet(heard) /\ Cardinality(heard) \in Nat
    BY FS_CardinalityType DEF IsLog
  <2>2. IsFiniteSet(heard \ {e}) /\ Cardinality(heard \ {e}) = Cardinality(heard) - 1
    BY <2>1, FS_RemoveElement
  <2>3. Logged(l) \subseteq heard \ {e}
    BY <1>2 DEF Caught
  <2>4. Cardinality(Logged(l)) <= Cardinality(heard \ {e})
    BY <2>2, <2>3, FS_Subset
  <2>5. Cardinality(Logged(l)) = Len(l.log) /\ Len(l.log) \in Nat
    BY <1>2, LogLength
  <2>6. QED BY <2>1, <2>2, <2>4, <2>5, LimitsAssumption
<1>5. Logged(n) \in {Logged(l), Logged(l) \cup {e}}
  BY <1>1, <1>2, <1>4, AcceptLogs
<1>6. CASE e.kind = "sync"
  <2>1. n = l
    BY <1>1, <1>6 DEF Accept
  <2>2. QED BY <1>1, <1>6, <2>1 DEF Caught
<1>7. CASE e.kind # "sync"
  <2>1. PICK c : c = ExpireIndexes(l, e.issuedAt)
    OBVIOUS
  <2>2. /\ \A m \in ToSet(n.marks) :
             m \in ToSet(l.marks) \/ (m.origin = e.origin /\ m.sequence = e.sequence)
        /\ Acceptable(c, e) /\ e.kind = "join" => n.joinBasis[e.origin] = e
    BY <1>1, <1>2, <1>7, <2>1, AcceptEffect
  <2>3. \A m \in ToSet(n.marks) : \E f \in seen \cup {e} :
          f.origin = m.origin /\ f.sequence = m.sequence
    BY <2>2 DEF Caught
  <2>4. ASSUME e.kind = "join" PROVE e \in Logged(n)
    <3>1. n.joinBasis[e.origin] = e
      BY <2>1, <2>2, <2>4, JoinIsAcceptable
    <3>2. e.origin \in Peers /\ e # None
      BY DEF Signed
    <3>3. QED BY <1>3, <3>1, <3>2 DEF Pointed, HasBasis
  <2>5. \A b \in seen \cup {e} : b.kind = "join" => b \in Logged(n)
    BY <1>5, <2>4 DEF Caught
  <2>6. Logged(n) \subseteq seen \cup {e}
    BY <1>5 DEF Caught
  <2>7. QED BY <1>1, <1>3, <2>3, <2>5, <2>6 DEF Caught
<1>8. QED BY <1>6, <1>7

(* A host that catches up from nothing has every join of an answer that fits   *)
(* its limits.                                                               *)
LEMMA JoinsAreCaught ==
    ASSUME NEW heard, IsLog(heard), Signed(heard), Ordered(heard), None \notin heard,
           Cardinality(heard) <= MaxRetainedEvents,
           NEW origins \in SUBSET Peers, Cardinality(origins) <= MaxTrackedJoins,
           \A f \in heard : f.kind = "join" => f.origin \in origins,
           NEW after, Catches(after, EmptyLedger, heard)
    PROVE  Caught(heard, heard, after[heard])
<1> DEFINE Good == { seen \in SUBSET heard : Caught(heard, seen, after[seen]) }
<1>1. ASSUME NEW seen \in SUBSET heard
      PROVE  after[seen] = IF seen = {} THEN EmptyLedger
                           ELSE Accept(after[seen \ {LastEvent(seen)}], LastEvent(seen))
  BY DEF Catches
<1>2. {} \in Good
  <2>1. after[{}] = EmptyLedger
    BY <1>1
  <2>2. Pointed(EmptyLedger)
    BY DEF Pointed, EmptyLedger, HasBasis
  <2>3. Logged(EmptyLedger) = {} /\ ToSet(EmptyLedger.marks) = {}
    BY DEF Logged, ToSet, EmptyLedger
  <2>4. QED BY <2>1, <2>2, <2>3, EmptyLedgerWithin DEF Caught
<1>3. ASSUME NEW seen \in SUBSET heard, seen # {}, seen \ {LastEvent(seen)} \in Good
      PROVE  seen \in Good
  <2>1. PICK e : e = LastEvent(seen)
    OBVIOUS
  <2>2. PICK t : t = seen \ {e}
    OBVIOUS
  <2>3. e \in seen /\ \A f \in t : Earlier(f, e)
    BY <1>3, <2>1, <2>2, SubLog, LastExists
  <2>4. /\ t \in SUBSET heard /\ e \in heard /\ e \notin t /\ seen = t \cup {e}
        /\ Caught(heard, t, after[t])
    BY <1>3, <2>1, <2>2, <2>3
  <2>5. after[seen] = Accept(after[t], e)
    BY <1>1, <1>3, <2>1, <2>2
  <2>6. Caught(heard, t \cup {e}, Accept(after[t], e))
    BY <2>3, <2>4, CaughtNext
  <2>7. QED BY <2>4, <2>5, <2>6
<1> HIDE DEF Good
<1>4. heard \in Good
  BY <1>2, <1>3, LogInduction
<1>5. QED BY <1>4 DEF Good

-----------------------------------------------------------------------------
(* Of two events of the answer that one origin signed, the earlier in sequence *)
(* is the earlier in the log.                                                *)
LEMMA EarlierInSequence ==
    ASSUME NEW S, Ordered(S), NEW e \in S, NEW f \in S, e.origin = f.origin, e.sequence <= f.sequence
    PROVE  f = e \/ Earlier(e, f)
<1>1. e = f \/ (e.sequence < f.sequence /\ e.issuedAt <= f.issuedAt)
  BY DEF Ordered
<1>2. e.issuedAt \in Nat /\ f.issuedAt \in Nat
  BY DEF Ordered, EventLike
<1>3. QED BY <1>1, <1>2 DEF Earlier

(* What RecentlyJoined says of one of those in the hall, whose deadlines are   *)
(* all ahead.                                                                *)
LEMMA RecentIsSoon ==
    ASSUME IdleMs <= MaxLeaseMs, NEW t \in Nat, NEW time \in Nat,
           t > time - Min({IdleMs, PresenceTtlMs})
    PROVE  /\ Soon(t, time)
           /\ Min({IdleMs, PresenceTtlMs}) \in Nat
<1>1. {IdleMs, PresenceTtlMs} \subseteq Nat /\ {IdleMs, PresenceTtlMs} # {} /\ MaxLeaseMs \in Nat
  BY RulesAssumption
<1>2. PICK m : m = Min({IdleMs, PresenceTtlMs})
  OBVIOUS
<1>3. m \in {IdleMs, PresenceTtlMs} /\ \A y \in {IdleMs, PresenceTtlMs} : m <= y
  <2>1. \E x \in {IdleMs, PresenceTtlMs} : \A y \in {IdleMs, PresenceTtlMs} : x <= y
    BY <1>1
  <2>2. QED BY <1>2, <2>1 DEF Min
<1>4. m \in Nat /\ m <= IdleMs /\ m <= PresenceTtlMs
  BY <1>1, <1>3
<1>5. QED BY <1>1, <1>2, <1>4 DEF Soon

(* Whoever is in the hall of the sender, and what its answer says of it.      *)
LEMMA AnswerNames ==
    ASSUME Attended, None \notin sent
    PROVE  /\ \A p \in Participants(Hall) :
                /\ p \in Peers /\ HasBasis(ledger, p)
                /\ {ledger.joinBasis[p], ledger.latestPresence[p]} \subseteq Logged(ledger)
                /\ ledger.joinBasis[p].origin = p /\ ledger.joinBasis[p].kind = "join"
                /\ ledger.latestPresence[p].origin = p
                /\ ledger.latestPresence[p].kind \in Presence
                /\ ledger.joinBasis[p].sequence <= ledger.latestPresence[p].sequence
           /\ SyncEvents(ledger, now) =
                { ledger.joinBasis[p] : p \in Participants(Hall) }
                    \cup { ledger.latestPresence[p] : p \in Participants(Hall) }
                    \cup RecentChats(ledger.log) \cup {ledger.checkpoint}
<1>1. PICK A : A = Participants(Hall)
  OBVIOUS
<1>2. /\ ledger \in LedgerOf(sent) /\ Pointed(ledger) /\ now \in Nat
      /\ \A e \in sent : e.issuedAt \in Nat /\ e.issuedAt <= now
  BY DEF Attended, Kept, Within, SignedBy, Ordered, EventLike
<1>3. Hall \in Halls
  <2>1. IsLog(Logged(ledger))
    <3>1. Logged(ledger) \subseteq sent
      BY <1>2 DEF LedgerOf, Logged, ToSet
    <3>2. QED BY <3>1, OrderedIsLog DEF Attended, Kept, Numbered
  <2>2. QED BY <1>2, <2>1, PresenceBacked DEF Hall, HallAt
<1>4. ASSUME NEW p \in A
      PROVE  /\ p \in Peers /\ HasBasis(ledger, p)
             /\ ledger.latestPresence[p].issuedAt + PresenceTtlMs > now
  <2>1. PICK r \in Entries(Hall) : r.peerId = p
    BY <1>1, <1>3, EntriesAreParticipants
  <2>2. p \in Peers
    BY <1>1, <1>3, ParticipantsFinite
  <2>3. /\ HasBasis(ledger, r.peerId)
        /\ r.lastPresenceAt = ledger.latestPresence[r.peerId].issuedAt
        /\ r.lastPresenceAt + PresenceTtlMs > now
    BY <1>2, HallIsIndexed DEF Attended, Kept, Hall
  <2>4. QED BY <2>1, <2>2, <2>3
<1>5. \A p \in A :
        /\ {ledger.joinBasis[p], ledger.latestPresence[p]} \subseteq Logged(ledger)
        /\ ledger.joinBasis[p].origin = p /\ ledger.joinBasis[p].kind = "join"
        /\ ledger.latestPresence[p].origin = p
        /\ ledger.latestPresence[p].kind \in Presence
        /\ ledger.joinBasis[p].sequence <= ledger.latestPresence[p].sequence
  BY <1>2, <1>4 DEF Pointed
<1>6. A \cap Lapsed(ledger, now) = {}
  <2>1. ASSUME NEW p \in A PROVE p \notin Lapsed(ledger, now)
    <3>1. ledger.latestPresence[p] \in Logged(ledger) /\ ledger.latestPresence[p] \in sent
      BY <1>2, <1>5 DEF LedgerOf, Logged, ToSet
    <3>2. ledger.latestPresence[p].issuedAt \in Nat
      BY <1>2, <3>1
    <3>3. ~(ledger.latestPresence[p].issuedAt < now - PresenceTtlMs)
      BY <1>2, <1>4, <3>2, RulesAssumption
    <3>4. QED BY <3>1, <3>3 DEF Lapsed
  <2>2. QED BY <2>1
<1>7. PICK c : c = ExpireIndexes(ledger, now)
  OBVIOUS
<1>8. \A p \in A : c.joinBasis[p] = ledger.joinBasis[p] /\ c.latestPresence[p] = ledger.latestPresence[p]
  BY <1>2, <1>4, <1>6, <1>7, ForgetEffect DEF ExpireIndexes
<1>9. SyncEvents(ledger, now) =
        { c.joinBasis[p] : p \in A } \cup { c.latestPresence[p] : p \in A }
            \cup RecentChats(ledger.log) \cup {ledger.checkpoint}
  BY <1>1, <1>7 DEF SyncEvents, Hall
<1>10. /\ { c.joinBasis[p] : p \in A } = { ledger.joinBasis[p] : p \in A }
       /\ { c.latestPresence[p] : p \in A } = { ledger.latestPresence[p] : p \in A }
  BY <1>8
<1>11. QED BY <1>1, <1>4, <1>5, <1>9, <1>10

(* Who is in the hall fits the limits of the receiver, and so does what the    *)
(* answer says of them.                                                      *)
LEMMA AnswerFits ==
    ASSUME Attended, None \notin sent,
           NEW E, E = SyncEvents(ledger, now) \cap Logged(ledger)
    PROVE  /\ IsFiniteSet(E) /\ E \subseteq sent
           /\ Cardinality(E) <= MaxSyncEvents /\ Cardinality(E) <= MaxRetainedEvents
           /\ Cardinality(Participants(Hall)) <= Capacity
           /\ Cardinality(Participants(Hall)) <= MaxTrackedJoins
<1>1. PICK A : A = Participants(Hall)
  OBVIOUS
<1>2. /\ ledger \in LedgerOf(sent) /\ Fits(ledger) /\ now \in Nat /\ Ordered(sent)
      /\ IsFiniteSet(sent)
  BY DEF Attended, Kept, Within, SignedBy
<1>3. Logged(ledger) \subseteq sent
  BY <1>2 DEF LedgerOf, Logged, ToSet
<1>4. IsLog(Logged(ledger))
  BY <1>2, <1>3, OrderedIsLog
<1>5. /\ IsFiniteSet(A) /\ Cardinality(A) \in Nat /\ Cardinality(A) <= Capacity
  BY <1>1, <1>2, <1>4, PresenceBacked, ParticipantsFinite, HallWithinCapacity DEF Hall, HallAt
<1>6. Cardinality(A) <= MaxTrackedJoins
  <2>1. A \subseteq Tracked(ledger)
    BY <1>1, AnswerNames DEF Tracked
  <2>2. IsFiniteSet(Tracked(ledger)) /\ Cardinality(Tracked(ledger)) \in Nat
    BY RulesAssumption, FS_Subset, FS_CardinalityType DEF Tracked
  <2>3. Cardinality(A) <= Cardinality(Tracked(ledger))
    BY <2>1, <2>2, FS_Subset
  <2>4. QED BY <1>2, <1>5, <2>2, <2>3, LimitsAssumption DEF Fits
<1> DEFINE bases == { ledger.joinBasis[p] : p \in A }
           latest == { ledger.latestPresence[p] : p \in A }
           chats == RecentChats(ledger.log)
           all == bases \cup latest \cup chats \cup {ledger.checkpoint}
           n == Cardinality(A)
<1>7. E \subseteq all
  BY <1>1, AnswerNames
<1>8. /\ IsFiniteSet(bases) /\ Cardinality(bases) <= n
      /\ IsFiniteSet(latest) /\ Cardinality(latest) <= n
  BY <1>5, ImageAtMost
<1>9. IsFiniteSet(chats) /\ Cardinality(chats) <= MaxRetainedMessages
  BY <1>2, RecentChatsAtMost DEF LedgerOf
<1>10. IsFiniteSet({ledger.checkpoint}) /\ Cardinality({ledger.checkpoint}) <= 1
  <2>1. IsFiniteSet({ledger.checkpoint}) /\ Cardinality({ledger.checkpoint}) = 1
    BY FS_Singleton
  <2>2. QED BY <2>1
<1>11. n \in Nat /\ MaxRetainedMessages \in Nat /\ Capacity \in Nat
       /\ MaxSyncEvents \in Nat /\ MaxTrackedJoins \in Nat /\ MaxRetainedEvents \in Nat
  BY <1>5, RulesAssumption, LimitsAssumption, SyncAssumption
<1>12. IsFiniteSet(all) /\ Cardinality(all) <= n + n + MaxRetainedMessages + 1
  <2> HIDE DEF bases, latest, chats, n
  <2>1. IsFiniteSet(bases \cup latest) /\ Cardinality(bases \cup latest) <= n + n
    BY <1>8, <1>11, UnionAtMost
  <2>2. /\ IsFiniteSet(bases \cup latest \cup chats)
        /\ Cardinality(bases \cup latest \cup chats) <= n + n + MaxRetainedMessages
    BY <1>9, <1>11, <2>1, UnionAtMost
  <2>3. QED BY <1>10, <1>11, <2>2, UnionAtMost
<1> HIDE DEF all, bases, latest, chats
<1>13. IsFiniteSet(E) /\ Cardinality(E) <= Cardinality(all)
       /\ Cardinality(E) \in Nat /\ Cardinality(all) \in Nat
  BY <1>7, <1>12, FS_Subset, FS_CardinalityType
<1>14. 2 * n + MaxRetainedMessages + 1 <= MaxSyncEvents
       /\ 2 * n + MaxRetainedMessages + 1 <= MaxRetainedEvents
  BY <1>5, <1>6, <1>11, LimitsAssumption, SyncAssumption
<1> HIDE DEF n
<1>15. Cardinality(E) <= MaxSyncEvents /\ Cardinality(E) <= MaxRetainedEvents
  BY <1>11, <1>12, <1>13, <1>14
<1>16. QED BY <1>1, <1>3, <1>5, <1>6, <1>13, <1>15

(* Nothing is cut off the answer, and nothing of it is refused as untimely.   *)
LEMMA AnswerIsHeard ==
    ASSUME Attended, None \notin sent, RecentlyJoined, AllTimely,
           IdleMs <= MaxLeaseMs, Min({IdleMs, PresenceTtlMs}) <= MaxEventAgeMs,
           NEW E, E = SyncEvents(ledger, now) \cap Logged(ledger)
    PROVE  Late = (CHOOSE after : Catches(after, EmptyLedger, E))[E]
<1>0. /\ IsFiniteSet(E) /\ E \subseteq sent /\ Cardinality(E) <= MaxSyncEvents
      /\ MaxSyncEvents \in Nat
  BY AnswerFits, SyncAssumption
<1>1. /\ now \in Nat /\ Ordered(sent)
      /\ \A e \in sent : EventLike(e) /\ e.issuedAt \in Nat /\ e.issuedAt <= now
  BY DEF Attended, Kept, SignedBy, Ordered, EventLike
<1>2. EventsForSync(ledger, now) = E
  <2>1. ASSUME NEW e \in E
        PROVE  Cardinality({ f \in E : Earlier(e, f) }) < MaxSyncEvents
    <3>1. { f \in E : Earlier(e, f) } \subseteq E \ {e}
      BY <1>0, <1>1, EarlierIsOrder
    <3>2. /\ IsFiniteSet(E \ {e}) /\ Cardinality(E \ {e}) = Cardinality(E) - 1
          /\ Cardinality(E) \in Nat
      BY <1>0, FS_RemoveElement, FS_CardinalityType
    <3>3. /\ Cardinality({ f \in E : Earlier(e, f) }) <= Cardinality(E \ {e})
          /\ Cardinality({ f \in E : Earlier(e, f) }) \in Nat
      BY <3>1, <3>2, FS_Subset, FS_CardinalityType
    <3>4. QED BY <1>0, <3>2, <3>3
  <2>2. EventsForSync(ledger, now) =
          { e \in E : Cardinality({ f \in E : Earlier(e, f) }) < MaxSyncEvents }
    BY DEF EventsForSync
  <2>3. QED BY <2>1, <2>2
<1>3. ASSUME NEW e \in E PROVE Timely(e, now, TRUE)
  <2>1. e \in sent /\ e.issuedAt \in Nat /\ e.issuedAt <= now
    BY <1>0, <1>1
  <2>2. {MaxClockSkewMs, MaxEventAgeMs} \subseteq Nat
    BY LimitsAssumption
  <2>3. e.issuedAt <= now + MaxClockSkewMs
    BY <1>1, <2>1, <2>2
  <2>4. CASE \E p \in Participants(Hall) : e \in {ledger.joinBasis[p], ledger.latestPresence[p]}
    <3>1. PICK p \in Participants(Hall) : e \in {ledger.joinBasis[p], ledger.latestPresence[p]}
      BY <2>4
    <3>2. PICK b : b = ledger.joinBasis[p]
      OBVIOUS
    <3>3. b \in sent /\ b.origin = p /\ b.kind = "join"
      BY <1>0, <3>1, <3>2, AnswerNames DEF Attended, Kept, Within, LedgerOf, Logged, ToSet
    <3>4. b.issuedAt > now - Min({IdleMs, PresenceTtlMs})
      BY <3>1, <3>2 DEF RecentlyJoined
    <3>5. b.issuedAt \in Nat /\ Min({IdleMs, PresenceTtlMs}) \in Nat
      BY <1>1, <3>3, <3>4, RecentIsSoon
    <3>6. e = b \/ Earlier(b, e)
      BY <1>1, <2>1, <3>1, <3>2, <3>3, AnswerNames, EarlierInSequence
    <3>7. b.issuedAt <= e.issuedAt
      BY <2>1, <3>5, <3>6 DEF Earlier
    <3>8. e.issuedAt >= now - MaxEventAgeMs
      BY <1>1, <2>1, <2>2, <3>4, <3>5, <3>7
    <3>9. QED BY <2>3, <3>8 DEF Timely
  <2>5. CASE e \in RecentChats(ledger.log) \cup {ledger.checkpoint}
    <3>1. e # None
      BY <2>1
    <3>2. QED BY <2>5, <3>1 DEF AllTimely
  <2>6. QED BY <2>4, <2>5, AnswerNames
<1>4. { e \in E : \A f \in E : f = e \/ Earlier(f, e) => Timely(f, now, TRUE) } = E
  BY <1>3
<1>5. Late = CatchUp(EmptyLedger, E, now)
  BY <1>2 DEF Late
<1>6. CatchUp(EmptyLedger, E, now) = (CHOOSE after : Catches(after, EmptyLedger, E))[E]
  BY <1>4 DEF CatchUp, Catches, LastEvent
<1>7. QED BY <1>5, <1>6

(* A late host finds in the hall those who are in the hall, and nobody else.   *)
LEMMA LateHostCaughtUp ==
    ASSUME Attended, None \notin sent,
           IdleMs <= MaxLeaseMs, Min({IdleMs, PresenceTtlMs}) <= MaxEventAgeMs
    PROVE  LateHostSeesMembers
<1> SUFFICES ASSUME RecentlyJoined, AllTimely
             PROVE  Participants(LateHall) = Participants(Hall)
  BY DEF LateHostSeesMembers
<1>1. PICK E : E = SyncEvents(ledger, now) \cap Logged(ledger)
  OBVIOUS
<1>2. PICK A : A = Participants(Hall)
  OBVIOUS
<1>3. /\ IsFiniteSet(E) /\ E \subseteq sent /\ Cardinality(E) <= MaxRetainedEvents
      /\ Cardinality(A) <= Capacity /\ Cardinality(A) <= MaxTrackedJoins
  BY <1>1, <1>2, AnswerFits
<1>4. /\ now \in Nat /\ Ordered(sent) /\ Signed(sent) /\ IsFiniteSet(sent)
      /\ Pointed(ledger) /\ ledger \in LedgerOf(sent)
      /\ \A e \in sent : e.issuedAt \in Nat /\ e.issuedAt <= now
  BY DEF Attended, Kept, Within, SignedBy, Ordered, EventLike
<1>5. A \in SUBSET Peers
  BY <1>2, AnswerNames
<1>6. ASSUME NEW e \in E
      PROVE  \/ \E p \in A : e \in {ledger.joinBasis[p], ledger.latestPresence[p]}
             \/ e.kind \in {"chat", "checkpoint"}
  <2>1. e \in RecentChats(ledger.log) => e.kind = "chat"
    BY DEF RecentChats
  <2>2. e = ledger.checkpoint => e.kind = "checkpoint"
    BY <1>3, <1>4 DEF Pointed
  <2>3. QED BY <1>1, <1>2, <2>1, <2>2, AnswerNames
<1>7. ASSUME NEW p \in A
      PROVE  /\ ledger.joinBasis[p] \in E
             /\ ledger.joinBasis[p].origin = p /\ ledger.joinBasis[p].kind = "join"
             /\ ledger.latestPresence[p].origin = p /\ ledger.latestPresence[p].kind \in Presence
             /\ ledger.joinBasis[p] \in sent /\ ledger.latestPresence[p] \in sent
             /\ ledger.joinBasis[p].sequence <= ledger.latestPresence[p].sequence
  <2>1. Logged(ledger) \subseteq sent
    BY <1>4 DEF LedgerOf, Logged, ToSet
  <2>2. QED BY <1>1, <1>2, <2>1, AnswerNames
<1>8. \A e \in E : /\ e.kind \in {"join", "heartbeat"} => e.origin \in A
                   /\ e.kind # "leave"
  BY <1>6, <1>7 DEF Presence
<1>9. PICK L : L = Logged(Late)
  OBVIOUS
<1>10. L \subseteq E /\ \A p \in A : ledger.joinBasis[p] \in L
  <2>1. /\ IsLog(E) /\ Signed(E) /\ Ordered(E) /\ None \notin E
    BY <1>3, <1>4, OrderedIsLog DEF Signed, Ordered
  <2>2. PICK after : after = CHOOSE f : Catches(f, EmptyLedger, E)
    OBVIOUS
  <2>3. Catches(after, EmptyLedger, E)
    BY <2>1, <2>2, EmptyLedgerWithin, CatchesExists
  <2>4. Caught(E, E, after[E])
    BY <1>3, <1>5, <1>8, <2>1, <2>3, JoinsAreCaught
  <2>5. Late = after[E]
    BY <1>1, <2>2, AnswerIsHeard
  <2>6. QED BY <1>7, <1>9, <2>4, <2>5 DEF Caught
<1>11. IsLog(L) /\ \A e \in L : e.issuedAt <= now /\ e.kind # "leave"
  BY <1>3, <1>4, <1>8, <1>10, OrderedIsLog
<1>12. LateHall = Derive(L, now)
  BY <1>9 DEF LateHall, HallAt
<1>13. A \subseteq Participants(LateHall)
  <2> SUFFICES ASSUME NEW p \in A PROVE p \in Participants(LateHall)
    OBVIOUS
  <2>1. PICK b : b = ledger.joinBasis[p]
    OBVIOUS
  <2>2. b \in L /\ b.origin = p /\ b.kind = "join" /\ b \in sent /\ b.issuedAt \in Nat
    BY <1>4, <1>7, <1>10, <2>1
  <2>3. Soon(b.issuedAt, now)
    <3>1. b.issuedAt > now - Min({IdleMs, PresenceTtlMs})
      BY <1>2, <2>1 DEF RecentlyJoined
    <3>2. QED BY <1>4, <2>2, <3>1, RecentIsSoon
  <2>4. ASSUME NEW e \in L, e.origin = p, e.kind \in {"join", "heartbeat"}
        PROVE  e = b \/ Earlier(b, e)
    <3>1. e \in {b, ledger.latestPresence[p]}
      BY <1>6, <1>7, <1>10, <2>1, <2>4
    <3>2. b = ledger.latestPresence[p] \/ ledger.latestPresence[p] = b
             \/ Earlier(b, ledger.latestPresence[p])
      BY <1>4, <1>7, <2>1, <2>2, EarlierInSequence
    <3>3. QED BY <3>1, <3>2
  <2>5. p \in Participants(Derive(L, now))
    <3>1. \A e \in L : e.kind \in {"join", "heartbeat"} => e.origin \in A
      BY <1>8, <1>10
    <3>2. QED BY <1>3, <1>4, <1>5, <1>11, <2>2, <2>3, <2>4, <3>1, NobodyIsMissed
  <2>6. QED BY <1>12, <2>5
<1>14. Participants(LateHall) \subseteq A
  <2>1. /\ LateHall \in Halls
        /\ \A r \in Entries(LateHall) : RestsOn(r, L)
    BY <1>4, <1>11, <1>12, PresenceBacked
  <2>2. \A r \in Entries(LateHall) : r.peerId \in A
    BY <1>8, <1>10, <2>1 DEF RestsOn
  <2>3. QED BY <2>1, <2>2, EntriesAreParticipants
<1>15. QED BY <1>2, <1>13, <1>14

(* Spec => []LateHostSeesMembers, if no clock is ahead of the host's and None   *)
(* is no event, and if a silent seat is released before its lease ends and     *)
(* before its last join is too old to be verified: the limits leave room in an *)
(* answer and in an empty ledger for all that it says of those in the hall,    *)
(* every join of it is accepted, and derive() admits them all and keeps them,  *)
(* in whatever order they come, so that they are in the hall of the late host  *)
(* as they are in the sender's (room-events.ts:464-478).                       *)
THEOREM LateHostsCatchUp ==
    ASSUME ClockLeads = {0},
           IdleMs <= MaxLeaseMs, Min({IdleMs, PresenceTtlMs}) <= MaxEventAgeMs
    PROVE  Spec => [](None \notin sent => LateHostSeesMembers)
<1>1. Attended => (None \notin sent => LateHostSeesMembers)
  BY LateHostCaughtUp
<1>2. QED BY <1>1, AttendedInit, AttendedNext, PTL DEF Spec
==============================================================================
