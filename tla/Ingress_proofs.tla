---------------------------- MODULE Ingress_proofs ---------------------------
(***************************************************************************)
(* Theorems about the ingress budgets of a Host, for any origins, limits   *)
(* and ceilings: the maps keep to their ceilings, no origin exceeds its    *)
(* budget through the comings and goings of others, the queue accepts in   *)
(* the order of arrival, and answers to one peer are spaced.               *)
(***************************************************************************)
EXTENDS Ingress, FiniteSetTheorems, TLAPS

Maps == [Origins -> Windows \cup {None}]
Histories == [Origins -> Seq(Nat)]
Tasks == [origin : Origins, genuine : BOOLEAN, sequence : Nat]
Streams == [peer : Origins, n : Nat, since : Nat]

Typed ==
    /\ transportWindows \in Maps /\ inboundWindows \in Maps
    /\ syncWindows \in [Origins -> Nat \cup {None}]
    /\ pending \in Nat /\ queue \in Seq(Tasks)
    /\ streams \in SUBSET Streams
    /\ marks \in [Origins -> Nat] /\ sent \in [Origins -> Nat]
    /\ now \in Nat /\ inputs \in Nat
    /\ published \in Histories /\ handled \in Histories /\ answered \in Histories

Ceilings ==
    /\ Cardinality(Kept(transportWindows)) <= MaxRateLimitOrigins
    /\ Cardinality(Kept(inboundWindows)) <= MaxRateLimitOrigins
    /\ Cardinality(Kept(syncWindows)) <= MaxSyncOrigins

Places == pending = Len(queue) /\ pending <= QueueCapacity

LEMMA Constants ==
    /\ MinuteMs \in Nat /\ MinuteMs > 0 /\ DeadlineMs \in Nat /\ DeadlineMs < MinuteMs
    /\ MaxPublished \in Nat \ {0} /\ MaxOfOrigin \in Nat \ {0}
    /\ MaxRateLimitOrigins \in Nat \ {0} /\ MaxSyncOrigins \in Nat \ {0}
    /\ QueueCapacity \in Nat \ {0}
    /\ None \notin Nat /\ None \notin Windows
BY IngressAssumption DEF Windows

-----------------------------------------------------------------------------
(* The windows after a message: well typed, running or no longer kept.        *)
LEMMA ChargedTyped ==
    ASSUME NEW map \in Maps, NEW o \in Origins, now \in Nat
    PROVE  Charged(map, o) \in Maps
<1>1. Pruned(map) \in Maps
  BY DEF Pruned, Maps
<1>2. [startedAt |-> now, count |-> 1] \in Windows
  BY DEF Windows
<1>3. CASE Opens(map, o)
  BY <1>1, <1>2, <1>3 DEF Charged, Maps
<1>4. CASE ~Opens(map, o)
  <2>1. map[o] \in Windows
    BY <1>4 DEF Opens, Running, Maps
  <2>2. [map[o] EXCEPT !.count = @ + 1] \in Windows
    BY <2>1 DEF Windows
  <2>3. [map EXCEPT ![o].count = @ + 1] \in Maps
    BY <2>2 DEF Maps
  <2>4. Pruned([map EXCEPT ![o].count = @ + 1]) \in Maps
    BY <2>3 DEF Pruned, Maps
  <2>5. QED BY <1>4, <2>3, <2>4 DEF Charged
<1>5. QED BY <1>3, <1>4

(* What Charged does to each origin.                                          *)
LEMMA ChargedElsewhere ==
    ASSUME NEW map \in Maps, NEW o \in Origins, now \in Nat, NEW p \in Origins, p # o
    PROVE  \/ Charged(map, o)[p] = map[p]
           \/ (Charged(map, o)[p] = None /\ ~Running(map[p]))
<1>1. Pruned(map)[p] = map[p] \/ (Pruned(map)[p] = None /\ ~Running(map[p]))
  BY DEF Pruned
<1>2. Pruned(map) \in Maps
  BY DEF Pruned, Maps
<1>3. CASE Opens(map, o)
  BY <1>1, <1>2, <1>3 DEF Charged, Maps
<1>4. CASE ~Opens(map, o)
  <2>1. [map EXCEPT ![o].count = @ + 1][p] = map[p]
    BY DEF Maps
  <2>2. \/ Pruned([map EXCEPT ![o].count = @ + 1])[p] = map[p]
        \/ (Pruned([map EXCEPT ![o].count = @ + 1])[p] = None /\ ~Running(map[p]))
    BY <2>1 DEF Pruned
  <2>3. QED BY <1>4, <2>1, <2>2 DEF Charged
<1>5. QED BY <1>3, <1>4

LEMMA ChargedHere ==
    ASSUME NEW map \in Maps, NEW o \in Origins, now \in Nat
    PROVE  /\ Opens(map, o) /\ HasRoom(map, o)
                => Charged(map, o)[o] = [startedAt |-> now, count |-> 1]
           /\ Opens(map, o) /\ ~HasRoom(map, o) => Charged(map, o)[o] = None
           /\ ~Opens(map, o)
                => /\ map[o] \in Windows
                   /\ Charged(map, o)[o] = [map[o] EXCEPT !.count = @ + 1]
<1>1. Pruned(map) \in Maps
  BY DEF Pruned, Maps
<1>2. ASSUME Opens(map, o) PROVE Pruned(map)[o] = None
  BY <1>2 DEF Opens, Pruned
<1>3. ASSUME ~Opens(map, o)
      PROVE  map[o] \in Windows /\ Charged(map, o)[o] = [map[o] EXCEPT !.count = @ + 1]
  <2>1. map[o] \in Windows
    BY <1>3 DEF Opens, Running, Maps
  <2>2. [map EXCEPT ![o].count = @ + 1][o] = [map[o] EXCEPT !.count = @ + 1]
    BY DEF Maps
  <2>3. Running([map[o] EXCEPT !.count = @ + 1])
    <3>1. [map[o] EXCEPT !.count = @ + 1] \in Windows
      BY <2>1 DEF Windows
    <3>2. [map[o] EXCEPT !.count = @ + 1].startedAt = map[o].startedAt
      BY <2>1 DEF Windows
    <3>3. Running(map[o])
      BY <1>3 DEF Opens
    <3>4. QED BY <3>1, <3>2, <3>3, Constants DEF Running
  <2>4. Pruned([map EXCEPT ![o].count = @ + 1])[o] = [map[o] EXCEPT !.count = @ + 1]
    BY <2>2, <2>3 DEF Pruned
  <2>5. QED BY <1>3, <2>1, <2>2, <2>4 DEF Charged
<1>4. QED BY <1>1, <1>2, <1>3 DEF Charged, Maps

LEMMA KeptFinite ==
    ASSUME NEW map
    PROVE  IsFiniteSet(Kept(map)) /\ Cardinality(Kept(map)) \in Nat
<1>1. Kept(map) \subseteq Origins
  BY DEF Kept
<1>2. QED BY <1>1, IngressAssumption, FS_Subset, FS_CardinalityType

(* A full map takes no newcomer.                                              *)
LEMMA ChargedFits ==
    ASSUME NEW map \in Maps, NEW o \in Origins, now \in Nat,
           Cardinality(Kept(map)) <= MaxRateLimitOrigins
    PROVE  Cardinality(Kept(Charged(map, o))) <= MaxRateLimitOrigins
<1>0. /\ IsFiniteSet(Kept(map)) /\ Cardinality(Kept(map)) \in Nat
      /\ IsFiniteSet(Kept(Pruned(map))) /\ Cardinality(Kept(Pruned(map))) \in Nat
      /\ IsFiniteSet(Kept(Charged(map, o))) /\ Cardinality(Kept(Charged(map, o))) \in Nat
      /\ MaxRateLimitOrigins \in Nat
  BY KeptFinite, Constants
<1>1. ASSUME map[o] # None \/ (Opens(map, o) /\ ~HasRoom(map, o))
      PROVE  Kept(Charged(map, o)) \subseteq Kept(map)
  <2>1. SUFFICES ASSUME NEW p \in Origins, Charged(map, o)[p] # None PROVE map[p] # None
    BY DEF Kept
  <2>2. CASE p # o
    BY <2>1, <2>2, ChargedElsewhere
  <2>3. CASE p = o
    BY <1>1, <2>1, <2>3, ChargedHere
  <2>4. QED BY <2>2, <2>3
<1>2. ASSUME map[o] = None, HasRoom(map, o)
      PROVE  Cardinality(Kept(Charged(map, o))) <= MaxRateLimitOrigins
  <2>1. Opens(map, o)
    BY <1>2 DEF Opens, Running
  <2>2. Cardinality(Kept(Pruned(map))) < MaxRateLimitOrigins
    BY <1>2 DEF HasRoom
  <2>3. Pruned(map) \in Maps
    BY DEF Pruned, Maps
  <2>4. Kept(Charged(map, o)) \subseteq Kept(Pruned(map)) \cup {o}
    BY <1>2, <2>1, <2>3 DEF Charged, Kept, Maps
  <2>5. /\ IsFiniteSet(Kept(Pruned(map)) \cup {o})
        /\ Cardinality(Kept(Pruned(map)) \cup {o}) <= Cardinality(Kept(Pruned(map))) + 1
    BY <1>0, FS_AddElement
  <2>6. /\ Cardinality(Kept(Charged(map, o))) <= Cardinality(Kept(Pruned(map)) \cup {o})
        /\ Cardinality(Kept(Pruned(map)) \cup {o}) \in Nat
    BY <2>4, <2>5, FS_Subset, FS_CardinalityType
  <2>7. QED BY <1>0, <2>2, <2>5, <2>6
<1>3. CASE map[o] # None \/ (Opens(map, o) /\ ~HasRoom(map, o))
  BY <1>0, <1>1, <1>3, FS_Subset
<1>4. QED
  <2>1. map[o] = None => Opens(map, o)
    BY DEF Opens, Running
  <2>2. QED BY <1>2, <1>3, <2>1

-----------------------------------------------------------------------------
(* The types, the ceilings and the places, over every step.                   *)
Sound == Typed /\ Ceilings /\ Places

LEMMA PassedTyped ==
    ASSUME NEW history \in Histories, NEW o \in Origins, NEW allowed, now \in Nat
    PROVE  Passed(history, o, allowed) \in Histories
<1>1. Append(history[o], now) \in Seq(Nat)
  BY DEF Histories
<1>2. QED BY <1>1 DEF Passed, Histories

(* What a task that is over leaves in the queue.                              *)
LEMMA FirstTaken ==
    ASSUME queue \in Seq(Tasks), NEW k \in DOMAIN queue, Turn(k)
    PROVE  /\ RemoveAt(queue, k) \in Seq(Tasks)
           /\ Len(RemoveAt(queue, k)) = Len(queue) - 1
           /\ \A j \in 1 .. Len(queue) - 1 : RemoveAt(queue, k)[j] = queue[j + 1]
<1>1. k = 1 /\ Len(queue) \in Nat /\ Len(queue) >= 1
  BY DEF Turn
<1>2. RemoveAt(queue, k) = SubSeq(queue, 1, 0) \o SubSeq(queue, 2, Len(queue))
  BY <1>1 DEF RemoveAt
<1>3. SubSeq(queue, 1, 0) = <<>>
  OBVIOUS
<1>4. /\ SubSeq(queue, 2, Len(queue)) \in Seq(Tasks)
      /\ Len(SubSeq(queue, 2, Len(queue))) = Len(queue) - 1
      /\ \A j \in 1 .. Len(queue) - 1 : SubSeq(queue, 2, Len(queue))[j] = queue[j + 1]
  <2>1. \A j \in 2 .. Len(queue) : queue[j] \in Tasks
    BY <1>1
  <2>2. Len(queue) < 2 => SubSeq(queue, 2, Len(queue)) = <<>>
    BY <1>1
  <2>3. CASE Len(queue) = 1
    BY <1>1, <2>2, <2>3
  <2>4. CASE Len(queue) > 1
    BY <1>1, <2>1, <2>4
  <2>5. Len(queue) = 1 \/ Len(queue) > 1
    <3>1. \A n \in Nat : n >= 1 => n = 1 \/ n > 1
      OBVIOUS
    <3>2. QED BY <1>1, <3>1, Zenon
  <2>6. QED BY <2>3, <2>4, <2>5, Zenon
<1>5. <<>> \o SubSeq(queue, 2, Len(queue)) = SubSeq(queue, 2, Len(queue))
  BY <1>4
<1>6. QED BY <1>2, <1>3, <1>4, <1>5

LEMMA InitSound == Init => Sound
<1>1. SUFFICES ASSUME Init PROVE Sound
  OBVIOUS
<1>2. Typed
  BY <1>1 DEF Init, Typed, Maps, Histories
<1>3. /\ Kept(transportWindows) = {} /\ Kept(inboundWindows) = {} /\ Kept(syncWindows) = {}
  BY <1>1 DEF Init, Kept
<1>4. Ceilings
  BY <1>3, FS_EmptySet, Constants DEF Ceilings
<1>5. Places
  BY <1>1, Constants DEF Init, Places
<1>6. QED BY <1>2, <1>4, <1>5 DEF Sound

LEMMA MessageSound ==
    ASSUME Sound, NEW from \in Origins, NEW origin \in Origins, NEW genuine \in BOOLEAN,
           MessageArrives(from, origin, genuine)
    PROVE  Sound'
<1>0. Typed /\ Ceilings /\ Places
  BY DEF Sound
<1>1. now \in Nat /\ now' = now /\ transportWindows \in Maps /\ queue \in Seq(Tasks)
  BY <1>0 DEF Typed, MessageArrives
<1>2. sent' \in [Origins -> Nat]
  BY <1>0 DEF Typed, MessageArrives
<1>3. transportWindows' = Charged(transportWindows, from)
  BY DEF MessageArrives
<1>4. transportWindows' \in Maps
  BY <1>1, <1>3, ChargedTyped
<1>5. Cardinality(Kept(transportWindows')) <= MaxRateLimitOrigins
  BY <1>0, <1>1, <1>3, ChargedFits DEF Ceilings
<1>7. published' \in Histories
  <2>1. published' = Passed(published, from, Allowed(transportWindows, from, MaxPublished))
    BY DEF MessageArrives
  <2>2. QED BY <1>0, <1>1, <2>1, PassedTyped DEF Typed
<1>8. [origin |-> origin, genuine |-> genuine, sequence |-> sent'[origin]] \in Tasks
  BY <1>2 DEF Tasks
<1>9. queue' \in Seq(Tasks) /\ pending' \in Nat /\ Places'
  <2>1. CASE Allowed(transportWindows, from, MaxPublished) /\ pending < QueueCapacity
    <3>1. /\ pending' = pending + 1
          /\ queue' = Append(queue, [origin |-> origin, genuine |-> genuine, sequence |-> sent'[origin]])
      BY <2>1 DEF MessageArrives
    <3>2. QED BY <1>0, <1>1, <1>8, <2>1, <3>1, Constants DEF Typed, Places
  <2>2. CASE ~(Allowed(transportWindows, from, MaxPublished) /\ pending < QueueCapacity)
    <3>1. pending' = pending /\ queue' = queue
      BY <2>2 DEF MessageArrives
    <3>2. QED BY <1>0, <3>1 DEF Typed, Places
  <2>3. QED BY <2>1, <2>2
<1>10. /\ inboundWindows' = inboundWindows /\ marks' = marks /\ syncWindows' = syncWindows
       /\ streams' = streams /\ answered' = answered /\ handled' = handled
       /\ inputs' = inputs + 1
  BY DEF MessageArrives, catchUp
<1>11. Typed'
  BY <1>0, <1>1, <1>2, <1>4, <1>7, <1>9, <1>10 DEF Typed
<1>12. Ceilings'
  BY <1>0, <1>5, <1>10 DEF Ceilings
<1>13. QED BY <1>9, <1>11, <1>12 DEF Sound

LEMMA VerifiedSound ==
    ASSUME Sound, Verified
    PROVE  Sound'
<1>0. Typed /\ Ceilings /\ Places
  BY DEF Sound
<1> DEFINE Task(k) == queue[k]
           May(k) == Task(k).genuine /\ Allowed(inboundWindows, Task(k).origin, MaxOfOrigin)
<1>1. PICK k \in DOMAIN queue :
        /\ Turn(k)
        /\ queue' = RemoveAt(queue, k) /\ pending' = pending - 1
        /\ inboundWindows' =
             IF Task(k).genuine THEN Charged(inboundWindows, Task(k).origin) ELSE inboundWindows
        /\ handled' = Passed(handled, Task(k).origin, May(k))
        /\ marks' = IF May(k) /\ Task(k).sequence > marks[Task(k).origin]
                    THEN [marks EXCEPT ![Task(k).origin] = Task(k).sequence] ELSE marks
        /\ UNCHANGED <<transportWindows, catchUp, now, inputs, sent, published>>
  BY DEF Verified
<1>2. /\ now \in Nat /\ inboundWindows \in Maps /\ queue \in Seq(Tasks) /\ pending \in Nat
      /\ handled \in Histories /\ marks \in [Origins -> Nat]
  BY <1>0 DEF Typed
<1>3. Task(k) \in Tasks
  BY <1>2
<1>4. Task(k).origin \in Origins /\ Task(k).sequence \in Nat /\ Task(k).genuine \in BOOLEAN
  BY <1>3 DEF Tasks
<1>5. inboundWindows' \in Maps
  BY <1>1, <1>2, <1>4, ChargedTyped
<1>6. Cardinality(Kept(inboundWindows')) <= MaxRateLimitOrigins
  BY <1>0, <1>1, <1>2, <1>4, ChargedFits DEF Ceilings
<1>8. handled' \in Histories
  BY <1>1, <1>2, <1>4, PassedTyped
<1>9. marks' \in [Origins -> Nat]
  BY <1>1, <1>2, <1>4
<1>10. queue' \in Seq(Tasks) /\ Len(queue') = Len(queue) - 1
  BY <1>1, <1>2, FirstTaken
<1>11. pending' \in Nat /\ Places'
  <2>1. pending = Len(queue) /\ pending <= QueueCapacity
    BY <1>0 DEF Places
  <2>2. Len(queue) \in Nat /\ Len(queue) >= 1
    BY <1>1, <1>2
  <2>3. QED BY <1>1, <1>10, <2>1, <2>2, Constants DEF Places
<1>12. /\ transportWindows' = transportWindows /\ syncWindows' = syncWindows
       /\ streams' = streams /\ answered' = answered /\ now' = now /\ inputs' = inputs
       /\ sent' = sent /\ published' = published
  BY <1>1 DEF catchUp
<1>13. Typed'
  BY <1>0, <1>5, <1>8, <1>9, <1>10, <1>11, <1>12 DEF Typed
<1>14. Ceilings'
  BY <1>0, <1>6, <1>12 DEF Ceilings
<1>15. QED BY <1>11, <1>13, <1>14 DEF Sound

LEMMA RequestSound ==
    ASSUME Sound, NEW peer \in Origins, SyncRequested(peer)
    PROVE  Sound'
<1>0. Typed /\ Ceilings /\ Places
  BY DEF Sound
<1>1. /\ now \in Nat /\ inputs \in Nat /\ syncWindows \in [Origins -> Nat \cup {None}]
      /\ streams \in SUBSET Streams
  BY <1>0 DEF Typed
<1>2. Remembered \in [Origins -> Nat \cup {None}]
  BY <1>1 DEF Remembered
<1>3. Kept(Remembered) \subseteq Kept(syncWindows)
  BY DEF Remembered, Kept
<1>4. /\ IsFiniteSet(Kept(Remembered)) /\ Cardinality(Kept(Remembered)) \in Nat
      /\ IsFiniteSet(Kept(syncWindows)) /\ Cardinality(Kept(syncWindows)) \in Nat
      /\ MaxSyncOrigins \in Nat
  BY KeptFinite, Constants
<1>5. Cardinality(Kept(Remembered)) <= MaxSyncOrigins
  <2>1. Cardinality(Kept(Remembered)) <= Cardinality(Kept(syncWindows))
    BY <1>3, <1>4, FS_Subset
  <2>2. QED BY <1>0, <1>4, <2>1 DEF Ceilings
<1>6. /\ syncWindows' \in [Origins -> Nat \cup {None}]
      /\ streams' \in SUBSET Streams
      /\ Cardinality(Kept(syncWindows')) <= MaxSyncOrigins
  <2>1. CASE AllowSync(peer)
    <3>1. /\ syncWindows' = [Remembered EXCEPT ![peer] = now]
          /\ streams' = streams \cup {[peer |-> peer, n |-> inputs, since |-> now]}
      BY <2>1 DEF SyncRequested
    <3>2. Kept(syncWindows') \subseteq Kept(Remembered) \cup {peer}
      BY <1>2, <3>1 DEF Kept
    <3>3. /\ IsFiniteSet(Kept(Remembered) \cup {peer})
          /\ Cardinality(Kept(Remembered) \cup {peer})
                = IF peer \in Kept(Remembered) THEN Cardinality(Kept(Remembered))
                  ELSE Cardinality(Kept(Remembered)) + 1
      BY <1>4, FS_AddElement
    <3>4. Cardinality(Kept(syncWindows')) <= Cardinality(Kept(Remembered) \cup {peer})
      BY <3>2, <3>3, FS_Subset
    <3>5. IsFiniteSet(Kept(syncWindows')) /\ Cardinality(Kept(syncWindows')) \in Nat
      BY KeptFinite
    <3>6. Remembered[peer] # None \/ Cardinality(Kept(Remembered)) < MaxSyncOrigins
      BY <2>1 DEF AllowSync
    <3>7. Remembered[peer] # None => peer \in Kept(Remembered)
      BY DEF Kept
    <3>8. Cardinality(Kept(syncWindows')) <= MaxSyncOrigins
      BY <1>4, <1>5, <3>3, <3>4, <3>5, <3>6, <3>7
    <3>9. [peer |-> peer, n |-> inputs, since |-> now] \in Streams
      BY <1>1 DEF Streams
    <3>10. QED BY <1>1, <1>2, <3>1, <3>8, <3>9
  <2>2. CASE ~AllowSync(peer)
    BY <1>1, <1>2, <1>5, <2>2 DEF SyncRequested
  <2>3. QED BY <2>1, <2>2
<1>7. /\ inputs' = inputs + 1 /\ UNCHANGED <<windows, tasks, answered, now, sent, published, handled>>
  BY DEF SyncRequested
<1>8. QED BY <1>0, <1>1, <1>6, <1>7 DEF Sound, Typed, Ceilings, Places, windows, tasks

LEMMA StreamSound ==
    ASSUME Sound, NEW s \in streams, SyncAnswered(s) \/ SyncAborted(s)
    PROVE  Sound'
<1>0. Typed /\ Ceilings /\ Places
  BY DEF Sound
<1>1. s.peer \in Origins /\ now \in Nat /\ answered \in Histories
  BY <1>0 DEF Typed, Streams
<1>2. answered' \in Histories
  BY <1>1, PassedTyped DEF SyncAnswered, SyncAborted
<1>3. /\ streams' = streams \ {s}
      /\ UNCHANGED <<windows, tasks, syncWindows, now, inputs, sent, published, handled>>
  BY DEF SyncAnswered, SyncAborted
<1>4. QED BY <1>0, <1>2, <1>3 DEF Sound, Typed, Ceilings, Places, windows, tasks

LEMMA TickSound == Sound /\ Tick => Sound'
BY DEF Sound, Typed, Ceilings, Places, Tick, windows, tasks, catchUp

LEMMA SoundStep == Sound /\ [Next]_vars => Sound'
<1>1. SUFFICES ASSUME Sound, [Next]_vars PROVE Sound'
  OBVIOUS
<1>2. CASE \/ \E from, origin \in Origins : MessageArrives(from, origin, TRUE)
            \/ \E o \in Origins : MessageArrives(o, o, FALSE)
  BY <1>1, <1>2, MessageSound
<1>3. CASE Verified
  BY <1>1, <1>3, VerifiedSound
<1>4. CASE \E p \in Origins : SyncRequested(p)
  BY <1>1, <1>4, RequestSound
<1>5. CASE \E s \in streams : SyncAnswered(s) \/ SyncAborted(s)
  BY <1>1, <1>5, StreamSound
<1>6. CASE Tick
  BY <1>1, <1>6, TickSound
<1>7. CASE UNCHANGED vars
  BY <1>1, <1>7 DEF vars, windows, tasks, catchUp, Sound, Typed, Ceilings, Places
<1>8. QED BY <1>1, <1>2, <1>3, <1>4, <1>5, <1>6, <1>7 DEF Next

(* The maps keep to their ceilings (node.ts:682, node.ts:696) and every place *)
(* of the queue is given back (resource-budget.ts:9).                         *)
THEOREM TypeCorrect == Spec => []TypeOK
<1>1. Sound => TypeOK
  BY DEF Sound, Typed, Ceilings, Places, TypeOK, Maps
<1>2. QED BY <1>1, InitSound, SoundStep, PTL DEF Spec

-----------------------------------------------------------------------------
(* The budget.  In the history h of one origin, q is the message that opened  *)
(* its last window and p the one that opened the window before (0: none).     *)
Expired(w, at) == w = None \/ at - w.startedAt >= MinuteMs

Opened(w, h, limit, at, q, p) ==
    /\ p < q /\ q - p <= limit /\ Len(h) - q < limit
    /\ p # 0 => h[q] - h[p] >= MinuteMs
    /\ w # None => w.startedAt = h[q] /\ Len(h) - q + 1 <= w.count
    /\ w = None => at - h[q] >= MinuteMs

LastWindow(w, h, limit, at) ==
    \/ Len(h) = 0 /\ w = None
    \/ \E q \in 1 .. Len(h), p \in 0 .. Len(h) : Opened(w, h, limit, at, q, p)

InTime(h, at) ==
    /\ \A i \in 1 .. Len(h) : h[i] <= at
    /\ \A i, j \in 1 .. Len(h) : i <= j => h[i] <= h[j]

SpreadOf(h, limit) ==
    \A k \in 1 .. Len(h) : k > 2 * limit => h[k] - h[k - 2 * limit] >= MinuteMs

Meets(w, h, limit, at) ==
    InTime(h, at) /\ SpreadOf(h, limit) /\ LastWindow(w, h, limit, at)

Measured(map, history, limit, at) ==
    \A o \in Origins : Meets(map[o], history[o], limit, at)

LEMMA WindowAges ==
    ASSUME NEW w, NEW h \in Seq(Nat), NEW limit \in Nat \ {0}, NEW at \in Nat,
           NEW later \in Nat, at <= later, Meets(w, h, limit, at)
    PROVE  Meets(w, h, limit, later)
<1>1. InTime(h, later)
  BY DEF Meets, InTime
<1>2. LastWindow(w, h, limit, later)
  <2>1. CASE Len(h) = 0 /\ w = None
    BY <2>1 DEF LastWindow
  <2>2. CASE \E q \in 1 .. Len(h), p \in 0 .. Len(h) : Opened(w, h, limit, at, q, p)
    <3>1. PICK q \in 1 .. Len(h), p \in 0 .. Len(h) : Opened(w, h, limit, at, q, p)
      BY <2>2
    <3>2. h[q] \in Nat
      OBVIOUS
    <3>3. Opened(w, h, limit, later, q, p)
      BY <3>1, <3>2, Constants DEF Opened
    <3>4. QED BY <3>3 DEF LastWindow
  <2>3. QED BY <2>1, <2>2 DEF Meets, LastWindow
<1>3. QED BY <1>1, <1>2 DEF Meets

LEMMA WindowForgotten ==
    ASSUME NEW w, NEW h \in Seq(Nat), NEW limit \in Nat \ {0}, NEW at \in Nat,
           Expired(w, at), Meets(w, h, limit, at)
    PROVE  Meets(None, h, limit, at)
<1>1. LastWindow(None, h, limit, at)
  <2>1. CASE Len(h) = 0 /\ w = None
    BY <2>1 DEF LastWindow
  <2>2. CASE \E q \in 1 .. Len(h), p \in 0 .. Len(h) : Opened(w, h, limit, at, q, p)
    <3>1. PICK q \in 1 .. Len(h), p \in 0 .. Len(h) : Opened(w, h, limit, at, q, p)
      BY <2>2
    <3>2. Opened(None, h, limit, at, q, p)
      BY <3>1 DEF Opened, Expired
    <3>3. QED BY <3>2 DEF LastWindow
  <2>3. QED BY <2>1, <2>2 DEF Meets, LastWindow
<1>2. QED BY <1>1 DEF Meets

LEMMA OneMore ==
    ASSUME NEW h \in Seq(Nat), NEW at \in Nat
    PROVE  /\ Append(h, at) \in Seq(Nat)
           /\ Len(Append(h, at)) = Len(h) + 1 /\ Len(h) \in Nat
           /\ Append(h, at)[Len(h) + 1] = at
           /\ \A i \in 1 .. Len(h) : Append(h, at)[i] = h[i] /\ h[i] \in Nat
OBVIOUS

LEMMA StillInTime ==
    ASSUME NEW h \in Seq(Nat), NEW at \in Nat, InTime(h, at)
    PROVE  InTime(Append(h, at), at)
BY OneMore DEF InTime

LEMMA StillSpread ==
    ASSUME NEW h \in Seq(Nat), NEW at \in Nat, NEW limit \in Nat \ {0},
           InTime(h, at), SpreadOf(h, limit),
           NEW p \in 1 .. Len(h), Len(h) + 1 - p <= 2 * limit, at - h[p] >= MinuteMs
    PROVE  SpreadOf(Append(h, at), limit)
<1>1. SUFFICES ASSUME NEW k \in 1 .. Len(h) + 1, k > 2 * limit
               PROVE  Append(h, at)[k] - Append(h, at)[k - 2 * limit] >= MinuteMs
  BY OneMore DEF SpreadOf
<1>2. k - 2 * limit \in 1 .. Len(h) /\ Len(h) \in Nat
  BY <1>1, OneMore
<1>3. CASE k \in 1 .. Len(h)
  BY <1>1, <1>2, <1>3, OneMore DEF SpreadOf
<1>4. CASE k = Len(h) + 1
  <2>1. k - 2 * limit <= p
    BY <1>2, <1>4
  <2>2. h[k - 2 * limit] <= h[p] /\ h[p] \in Nat /\ h[k - 2 * limit] \in Nat
    BY <1>2, <2>1, OneMore DEF InTime
  <2>3. Append(h, at)[k] = at /\ Append(h, at)[k - 2 * limit] = h[k - 2 * limit]
    BY <1>2, <1>4, OneMore
  <2>4. \A x, y \in Nat : y <= x /\ at - x >= MinuteMs => at - y >= MinuteMs
    BY Constants
  <2>5. at - h[k - 2 * limit] >= MinuteMs
    BY <2>2, <2>4
  <2>6. QED BY <2>3, <2>5, Zenon
<1>5. k \in 1 .. Len(h) \/ k = Len(h) + 1
  BY <1>2
<1>6. QED BY <1>3, <1>4, <1>5

LEMMA WindowOpens ==
    ASSUME NEW w, NEW h \in Seq(Nat), NEW limit \in Nat \ {0}, NEW at \in Nat,
           Expired(w, at), Meets(w, h, limit, at)
    PROVE  Meets([startedAt |-> at, count |-> 1], Append(h, at), limit, at)
<1> DEFINE new == [startedAt |-> at, count |-> 1]
<1>0. new \in Windows /\ new # None /\ new.startedAt = at /\ new.count = 1
  BY Constants DEF Windows
<1>1. InTime(h, at) /\ SpreadOf(h, limit) /\ InTime(Append(h, at), at)
  BY StillInTime DEF Meets
<1>2. CASE Len(h) = 0
  <2>1. Opened(new, Append(h, at), limit, at, 1, 0)
    BY <1>0, <1>2, OneMore DEF Opened
  <2>2. LastWindow(new, Append(h, at), limit, at)
    BY <1>2, <2>1, OneMore DEF LastWindow
  <2>3. SpreadOf(Append(h, at), limit)
    BY <1>2, OneMore DEF SpreadOf
  <2>4. QED BY <1>1, <2>2, <2>3 DEF Meets
<1>3. CASE Len(h) # 0
  <2>1. PICK q \in 1 .. Len(h), p \in 0 .. Len(h) : Opened(w, h, limit, at, q, p)
    BY <1>3 DEF Meets, LastWindow
  <2>2. at - h[q] >= MinuteMs /\ h[q] \in Nat
    BY <2>1, OneMore DEF Opened, Expired
  <2>3. Len(h) - q < limit
    BY <2>1 DEF Opened
  <2>4. Opened(new, Append(h, at), limit, at, Len(h) + 1, q)
    BY <1>0, <2>2, <2>3, OneMore DEF Opened
  <2>5. LastWindow(new, Append(h, at), limit, at)
    BY <2>4, OneMore DEF LastWindow
  <2>6. SpreadOf(Append(h, at), limit)
    BY <1>1, <2>2, <2>3, OneMore, StillSpread
  <2>7. QED BY <1>1, <2>5, <2>6 DEF Meets
<1>4. QED BY <1>2, <1>3

LEMMA WindowCounts ==
    ASSUME NEW w \in Windows, NEW h \in Seq(Nat), NEW limit \in Nat \ {0}, NEW at \in Nat,
           Meets(w, h, limit, at)
    PROVE  /\ Meets([w EXCEPT !.count = @ + 1], h, limit, at)
           /\ w.count < limit => Meets([w EXCEPT !.count = @ + 1], Append(h, at), limit, at)
<1> DEFINE new == [w EXCEPT !.count = @ + 1]
<1>0. /\ new \in Windows /\ new.startedAt = w.startedAt /\ new.count = w.count + 1
      /\ w.count \in Nat /\ w # None /\ new # None
  BY Constants DEF Windows
<1> HIDE DEF new
<1>1. InTime(h, at) /\ SpreadOf(h, limit) /\ InTime(Append(h, at), at)
  BY StillInTime DEF Meets
<1>2. PICK q \in 1 .. Len(h), p \in 0 .. Len(h) : Opened(w, h, limit, at, q, p)
  BY <1>0 DEF Meets, LastWindow
<1>3. Meets(new, h, limit, at)
  <2>1. Opened(new, h, limit, at, q, p)
    BY <1>0, <1>2, OneMore DEF Opened
  <2>2. QED BY <1>1, <2>1 DEF Meets, LastWindow
<1>4. ASSUME w.count < limit PROVE Meets(new, Append(h, at), limit, at)
  <2>1. /\ p < q /\ q - p <= limit /\ Len(h) - q + 1 < limit
        /\ p # 0 => h[q] - h[p] >= MinuteMs
        /\ w.startedAt = h[q] /\ Len(h) - q + 1 <= w.count
    BY <1>0, <1>2, <1>4, OneMore DEF Opened
  <2>2. Opened(new, Append(h, at), limit, at, q, p)
    <3>1. /\ Append(h, at)[q] = h[q] /\ Len(Append(h, at)) = Len(h) + 1 /\ Len(h) \in Nat
          /\ p # 0 => Append(h, at)[p] = h[p]
      BY OneMore
    <3>2. Len(Append(h, at)) - q < limit /\ Len(Append(h, at)) - q + 1 <= new.count
      BY <1>0, <2>1, <3>1
    <3>3. QED BY <1>0, <2>1, <3>1, <3>2 DEF Opened
  <2>3. LastWindow(new, Append(h, at), limit, at)
    BY <2>2, OneMore DEF LastWindow
  <2>4. SpreadOf(Append(h, at), limit)
    <3>1. CASE p = 0
      <4>1. Len(h) + 1 <= 2 * limit
        BY <2>1, <3>1, OneMore
      <4>2. SUFFICES ASSUME NEW k \in 1 .. Len(h) + 1, k > 2 * limit PROVE FALSE
        BY OneMore DEF SpreadOf
      <4>3. QED BY <4>1, <4>2, OneMore
    <3>2. CASE p # 0
      <4>1. p \in 1 .. Len(h) /\ h[p] \in Nat /\ h[q] \in Nat /\ h[q] <= at
        BY <1>1, <3>2, OneMore DEF InTime
      <4>2. at - h[p] >= MinuteMs
        BY <2>1, <3>2, <4>1, Constants
      <4>3. Len(h) + 1 - p <= 2 * limit
        BY <2>1, <4>1, OneMore
      <4>4. QED BY <1>1, <4>1, <4>2, <4>3, StillSpread
    <3>3. QED BY <3>1, <3>2
  <2>5. QED BY <1>1, <2>3, <2>4 DEF Meets
<1>5. QED BY <1>3, <1>4 DEF new

-----------------------------------------------------------------------------
(* A message charged to one origin leaves every origin within its budget.     *)
LEMMA ChargedMeasured ==
    ASSUME NEW map \in Maps, NEW history \in Histories, NEW limit \in Nat \ {0},
           NEW o \in Origins, now \in Nat, Measured(map, history, limit, now)
    PROVE  Measured(Charged(map, o), Passed(history, o, Allowed(map, o, limit)), limit, now)
<1> DEFINE allowed == Allowed(map, o, limit)
<1>1. SUFFICES ASSUME NEW p \in Origins
               PROVE  Meets(Charged(map, o)[p], Passed(history, o, allowed)[p], limit, now)
  BY DEF Measured
<1>2. /\ Meets(map[p], history[p], limit, now) /\ history[p] \in Seq(Nat)
      /\ map[p] \in Windows \/ map[p] = None
  BY DEF Measured, Histories, Maps
<1>3. ~Running(map[p]) => Expired(map[p], now)
  <2>1. map[p] \in Windows => map[p].startedAt \in Nat
    BY DEF Windows
  <2>2. QED BY <1>2, <2>1, Constants DEF Running, Expired
<1>4. Passed(history, o, allowed)[p] = IF allowed /\ p = o THEN Append(history[p], now) ELSE history[p]
  BY DEF Passed, Histories
<1>5. CASE p # o
  <2>1. \/ Charged(map, o)[p] = map[p]
        \/ (Charged(map, o)[p] = None /\ ~Running(map[p]))
    BY <1>5, ChargedElsewhere
  <2>2. Meets(Charged(map, o)[p], history[p], limit, now)
    BY <1>2, <1>3, <2>1, WindowForgotten
  <2>3. QED BY <1>4, <1>5, <2>2
<1>6. CASE p = o /\ Opens(map, o)
  <2>1. Expired(map[p], now)
    BY <1>3, <1>6 DEF Opens
  <2>2. allowed <=> HasRoom(map, o)
    BY <1>6 DEF Allowed
  <2>3. CASE HasRoom(map, o)
    <3>1. Charged(map, o)[p] = [startedAt |-> now, count |-> 1]
      BY <1>6, <2>3, ChargedHere
    <3>2. Passed(history, o, allowed)[p] = Append(history[p], now)
      BY <1>4, <1>6, <2>2, <2>3
    <3>3. Meets([startedAt |-> now, count |-> 1], Append(history[p], now), limit, now)
      BY <1>2, <2>1, WindowOpens
    <3>4. QED BY <3>1, <3>2, <3>3
  <2>4. CASE ~HasRoom(map, o)
    <3>1. Charged(map, o)[p] = None
      BY <1>6, <2>4, ChargedHere
    <3>2. Passed(history, o, allowed)[p] = history[p]
      BY <1>4, <2>2, <2>4
    <3>3. QED BY <1>2, <2>1, <3>1, <3>2, WindowForgotten
  <2>5. QED BY <2>3, <2>4
<1>7. CASE p = o /\ ~Opens(map, o)
  <2>1. map[p] \in Windows /\ Charged(map, o)[p] = [map[p] EXCEPT !.count = @ + 1]
    BY <1>7, ChargedHere
  <2>2. allowed <=> map[p].count < limit
    BY <1>7 DEF Allowed
  <2>3. CASE allowed
    BY <1>2, <1>4, <1>7, <2>1, <2>2, <2>3, WindowCounts
  <2>4. CASE ~allowed
    BY <1>2, <1>4, <2>1, <2>4, WindowCounts
  <2>5. QED BY <2>3, <2>4
<1>8. QED BY <1>5, <1>6, <1>7

Budgets ==
    /\ Measured(transportWindows, published, MaxPublished, now)
    /\ Measured(inboundWindows, handled, MaxOfOrigin, now)

LEMMA InitBudgets == Init => Budgets
<1>1. ASSUME NEW limit \in Nat \ {0} PROVE Meets(None, <<>>, limit, 1)
  <2>1. Len(<<>>) = 0
    OBVIOUS
  <2>2. QED BY <2>1 DEF Meets, InTime, SpreadOf, LastWindow
<1>2. QED BY <1>1, Constants DEF Init, Budgets, Measured

LEMMA BudgetsStep == Sound /\ Budgets /\ [Next]_vars => Budgets'
<1>1. SUFFICES ASSUME Sound, Budgets, [Next]_vars PROVE Budgets'
  OBVIOUS
<1>2. /\ transportWindows \in Maps /\ inboundWindows \in Maps /\ now \in Nat
      /\ published \in Histories /\ handled \in Histories /\ queue \in Seq(Tasks)
      /\ MaxPublished \in Nat \ {0} /\ MaxOfOrigin \in Nat \ {0}
  BY <1>1, Constants DEF Sound, Typed
<1>3. /\ Measured(transportWindows, published, MaxPublished, now)
      /\ Measured(inboundWindows, handled, MaxOfOrigin, now)
  BY <1>1 DEF Budgets
<1>4. ASSUME NEW from \in Origins, NEW origin \in Origins, NEW genuine \in BOOLEAN,
             MessageArrives(from, origin, genuine)
      PROVE  Budgets'
  <2>1. /\ transportWindows' = Charged(transportWindows, from)
        /\ published' = Passed(published, from, Allowed(transportWindows, from, MaxPublished))
        /\ inboundWindows' = inboundWindows /\ handled' = handled /\ now' = now
    BY <1>4 DEF MessageArrives
  <2>2. Measured(transportWindows', published', MaxPublished, now)
    BY <1>2, <1>3, <2>1, ChargedMeasured
  <2>3. QED BY <1>3, <2>1, <2>2 DEF Budgets
<1>5. CASE Verified
  <2>1. PICK k \in DOMAIN queue :
          LET task == queue[k]
              allowed == task.genuine /\ Allowed(inboundWindows, task.origin, MaxOfOrigin)
          IN /\ inboundWindows' =
                  IF task.genuine THEN Charged(inboundWindows, task.origin) ELSE inboundWindows
             /\ handled' = Passed(handled, task.origin, allowed)
             /\ UNCHANGED <<transportWindows, now, published>>
    BY <1>5 DEF Verified
  <2>2. queue[k] \in Tasks
    BY <1>2
  <2>3. queue[k].origin \in Origins
    BY <2>2 DEF Tasks
  <2>4. Measured(inboundWindows', handled', MaxOfOrigin, now)
    <3>1. CASE queue[k].genuine
      <4>1. inboundWindows' = Charged(inboundWindows, queue[k].origin)
        BY <2>1, <3>1
      <4>2. handled' = Passed(handled, queue[k].origin, Allowed(inboundWindows, queue[k].origin, MaxOfOrigin))
        BY <2>1, <3>1 DEF Passed
      <4>3. QED BY <1>2, <1>3, <2>3, <4>1, <4>2, ChargedMeasured
    <3>2. CASE ~queue[k].genuine
      <4>1. inboundWindows' = inboundWindows /\ handled' = handled
        BY <2>1, <3>2 DEF Passed
      <4>2. QED BY <1>3, <4>1
    <3>3. QED BY <3>1, <3>2
  <2>5. QED BY <1>3, <2>1, <2>4 DEF Budgets
<1>6. CASE Tick
  <2>1. now' \in Nat /\ now <= now' /\ now' = now + 1
        /\ UNCHANGED <<transportWindows, inboundWindows, published, handled>>
    BY <1>2, <1>6 DEF Tick, windows
  <2>2. ASSUME NEW map, NEW history \in Histories, NEW limit \in Nat \ {0},
               Measured(map, history, limit, now)
        PROVE  Measured(map, history, limit, now')
    <3>1. \A o \in Origins : history[o] \in Seq(Nat)
      BY <2>2 DEF Histories
    <3>2. QED BY <1>2, <2>1, <2>2, <3>1, WindowAges DEF Measured
  <2>3. QED BY <1>2, <1>3, <2>1, <2>2 DEF Budgets
<1>7. ASSUME UNCHANGED <<windows, now, published, handled>> PROVE Budgets'
  BY <1>3, <1>7 DEF Budgets, windows
<1>8. CASE \E p \in Origins : SyncRequested(p)
  BY <1>7, <1>8 DEF SyncRequested
<1>9. CASE \E s \in streams : SyncAnswered(s) \/ SyncAborted(s)
  BY <1>7, <1>9 DEF SyncAnswered, SyncAborted
<1>10. CASE UNCHANGED vars
  BY <1>7, <1>10 DEF vars
<1>11. QED BY <1>1, <1>4, <1>5, <1>6, <1>8, <1>9, <1>10 DEF Next

(* Messages of one origin that pass its budget, 2 * limit + 1 of them, take a  *)
(* minute or more, whoever else comes and goes (node.ts:660, node.ts:677).    *)
THEOREM BudgetsHold == Spec => []WorkBounded
<1>1. Sound /\ Budgets => WorkBounded
  <2>1. SUFFICES ASSUME Sound, Budgets PROVE WorkBounded
    OBVIOUS
  <2>2. ASSUME NEW map, NEW history \in Histories, NEW limit, Measured(map, history, limit, now)
        PROVE  Spread(history, limit)
    BY <2>2 DEF Measured, Meets, SpreadOf, Spread, Histories
  <2>3. QED BY <2>1, <2>2 DEF Sound, Typed, Budgets, WorkBounded
<1>2. QED BY <1>1, InitSound, SoundStep, InitBudgets, BudgetsStep, PTL DEF Spec

-----------------------------------------------------------------------------
(* The order.  What waits in the queue is ahead of the mark of its origin, and *)
(* stands in the order in which it was signed.                                *)
Ordered ==
    /\ overtaken = {}
    /\ \A i \in 1 .. Len(queue) :
          queue[i].genuine => /\ marks[queue[i].origin] < queue[i].sequence
                              /\ queue[i].sequence <= sent[queue[i].origin]
    /\ \A i, j \in 1 .. Len(queue) :
          i < j /\ queue[i].genuine /\ queue[j].genuine /\ queue[i].origin = queue[j].origin
          => queue[i].sequence < queue[j].sequence
    /\ \A o \in Origins : marks[o] <= sent[o]

LEMMA InitOrdered == Init => Ordered
BY DEF Init, Ordered

LEMMA MessageOrdered ==
    ASSUME Sound, Ordered, NEW from \in Origins, NEW origin \in Origins, NEW genuine \in BOOLEAN,
           MessageArrives(from, origin, genuine)
    PROVE  Ordered'
<1> DEFINE task == [origin |-> origin, genuine |-> genuine, sequence |-> sent'[origin]]
<1>1. /\ sent \in [Origins -> Nat] /\ marks \in [Origins -> Nat] /\ queue \in Seq(Tasks)
  BY DEF Sound, Typed
<1>2. /\ sent' = IF genuine THEN [sent EXCEPT ![origin] = @ + 1] ELSE sent
      /\ marks' = marks /\ overtaken' = overtaken
      /\ queue' = Append(queue, task) \/ queue' = queue
  BY DEF MessageArrives
<1>3. /\ \A o \in Origins : sent[o] \in Nat /\ sent'[o] \in Nat /\ marks[o] \in Nat
      /\ \A o \in Origins : sent[o] <= sent'[o]
      /\ genuine => sent'[origin] = sent[origin] + 1
  BY <1>1, <1>2
<1>4. \A i \in 1 .. Len(queue) : queue[i].origin \in Origins /\ queue[i].sequence \in Nat
  <2>1. \A i \in 1 .. Len(queue) : queue[i] \in Tasks
    BY <1>1
  <2>2. QED BY <2>1 DEF Tasks
<1>5. /\ overtaken' = {}
      /\ \A o \in Origins : marks'[o] <= sent'[o]
      /\ \A i \in 1 .. Len(queue) :
            queue[i].genuine => /\ marks'[queue[i].origin] < queue[i].sequence
                                /\ queue[i].sequence <= sent'[queue[i].origin]
  BY <1>2, <1>3, <1>4 DEF Ordered
<1>6. CASE queue' = queue
  BY <1>5, <1>6 DEF Ordered
<1>7. CASE queue' = Append(queue, task)
  <2>1. /\ Len(queue') = Len(queue) + 1 /\ Len(queue) \in Nat
        /\ queue'[Len(queue) + 1] = task
        /\ \A i \in 1 .. Len(queue) : queue'[i] = queue[i]
    BY <1>1, <1>7
  <2>2. /\ task.origin = origin /\ task.genuine = genuine /\ task.sequence = sent'[origin]
    OBVIOUS
  <2> HIDE DEF task
  <2>3. ASSUME NEW i \in 1 .. Len(queue'), queue'[i].genuine
        PROVE  /\ marks'[queue'[i].origin] < queue'[i].sequence
               /\ queue'[i].sequence <= sent'[queue'[i].origin]
    <3>1. CASE i \in 1 .. Len(queue)
      BY <1>5, <2>1, <2>3, <3>1
    <3>2. CASE i = Len(queue) + 1
      <4>1. marks[origin] <= sent[origin] /\ genuine
        BY <2>1, <2>2, <2>3, <3>2 DEF Ordered
      <4>2. QED BY <1>2, <1>3, <2>1, <2>2, <3>2, <4>1
    <3>3. QED BY <2>1, <3>1, <3>2
  <2>4. ASSUME NEW i \in 1 .. Len(queue'), NEW j \in 1 .. Len(queue'), i < j,
               queue'[i].genuine, queue'[j].genuine, queue'[i].origin = queue'[j].origin
        PROVE  queue'[i].sequence < queue'[j].sequence
    <3>1. i \in 1 .. Len(queue) /\ queue'[i] = queue[i]
      BY <2>1, <2>4
    <3>2. CASE j \in 1 .. Len(queue)
      BY <2>1, <2>4, <3>1, <3>2 DEF Ordered
    <3>3. CASE j = Len(queue) + 1
      <4>1. /\ queue[i].origin = origin /\ genuine /\ queue'[j].sequence = sent'[origin]
        BY <2>1, <2>2, <2>4, <3>1, <3>3
      <4>2. queue[i].sequence <= sent[origin] /\ queue[i].sequence \in Nat
        BY <1>4, <2>4, <3>1, <4>1 DEF Ordered
      <4>3. QED BY <1>3, <3>1, <4>1, <4>2
    <3>4. QED BY <2>1, <3>2, <3>3
  <2>5. QED BY <1>5, <2>3, <2>4 DEF Ordered
<1>8. QED BY <1>2, <1>6, <1>7

LEMMA VerifiedOrdered ==
    ASSUME Sound, Ordered, Verified
    PROVE  Ordered'
<1>1. /\ sent \in [Origins -> Nat] /\ marks \in [Origins -> Nat] /\ queue \in Seq(Tasks)
  BY DEF Sound, Typed
<1>2. PICK k \in DOMAIN queue :
        LET task == queue[k]
            allowed == task.genuine /\ Allowed(inboundWindows, task.origin, MaxOfOrigin)
            fresh == task.sequence > marks[task.origin]
        IN /\ Turn(k) /\ queue' = RemoveAt(queue, k)
           /\ marks' = IF allowed /\ fresh THEN [marks EXCEPT ![task.origin] = task.sequence] ELSE marks
           /\ overtaken' = IF allowed /\ ~fresh THEN overtaken \cup {task} ELSE overtaken
           /\ sent' = sent
  BY DEF Verified
<1>3. k = 1 /\ Len(queue) \in Nat /\ 1 \in 1 .. Len(queue)
  BY <1>1, <1>2 DEF Turn
<1>4. /\ Len(queue') = Len(queue) - 1
      /\ \A i \in 1 .. Len(queue) - 1 : queue'[i] = queue[i + 1]
  BY <1>1, <1>2, FirstTaken
<1>5. \A i \in 1 .. Len(queue) :
         queue[i].origin \in Origins /\ queue[i].sequence \in Nat
  <2>1. \A i \in 1 .. Len(queue) : queue[i] \in Tasks
    BY <1>1
  <2>2. QED BY <2>1 DEF Tasks
<1>6. queue[1].genuine => queue[1].sequence > marks[queue[1].origin]
  BY <1>1, <1>3, <1>5 DEF Ordered
<1>7. overtaken' = {}
  BY <1>2, <1>3, <1>6 DEF Ordered
<1>8. \/ marks' = marks
      \/ queue[1].genuine /\ marks' = [marks EXCEPT ![queue[1].origin] = queue[1].sequence]
  BY <1>2, <1>3
<1>9. \A o \in Origins : marks'[o] <= sent'[o]
  <2>1. CASE marks' = marks
    BY <1>2, <2>1 DEF Ordered
  <2>2. CASE queue[1].genuine /\ marks' = [marks EXCEPT ![queue[1].origin] = queue[1].sequence]
    BY <1>1, <1>2, <1>3, <1>5, <2>2 DEF Ordered
  <2>3. QED BY <1>8, <2>1, <2>2
<1>10. ASSUME NEW i \in 1 .. Len(queue'), queue'[i].genuine
       PROVE  /\ marks'[queue'[i].origin] < queue'[i].sequence
              /\ queue'[i].sequence <= sent'[queue'[i].origin]
  <2>1. /\ i + 1 \in 1 .. Len(queue) /\ 1 < i + 1
        /\ queue'[i] = queue[i + 1] /\ queue[i + 1].genuine
    BY <1>3, <1>4, <1>10
  <2>2. /\ marks[queue[i + 1].origin] < queue[i + 1].sequence
        /\ queue[i + 1].sequence <= sent[queue[i + 1].origin]
        /\ queue[1].genuine /\ queue[1].origin = queue[i + 1].origin
             => queue[1].sequence < queue[i + 1].sequence
    BY <1>3, <2>1 DEF Ordered
  <2>3. queue[i + 1].origin \in Origins
    BY <1>5, <2>1
  <2>4. CASE marks' = marks
    BY <1>2, <2>1, <2>2, <2>4
  <2>5. CASE queue[1].genuine /\ marks' = [marks EXCEPT ![queue[1].origin] = queue[1].sequence]
    <3>1. marks'[queue[i + 1].origin] =
             IF queue[i + 1].origin = queue[1].origin THEN queue[1].sequence
             ELSE marks[queue[i + 1].origin]
      BY <1>1, <2>3, <2>5
    <3>2. marks'[queue[i + 1].origin] < queue[i + 1].sequence
      BY <2>2, <2>5, <3>1
    <3>3. QED BY <1>2, <2>1, <2>2, <3>2
  <2>6. QED BY <1>8, <2>4, <2>5
<1>11. ASSUME NEW i \in 1 .. Len(queue'), NEW j \in 1 .. Len(queue'), i < j,
              queue'[i].genuine, queue'[j].genuine, queue'[i].origin = queue'[j].origin
       PROVE  queue'[i].sequence < queue'[j].sequence
  <2>1. /\ i + 1 \in 1 .. Len(queue) /\ j + 1 \in 1 .. Len(queue) /\ i + 1 < j + 1
        /\ queue'[i] = queue[i + 1] /\ queue'[j] = queue[j + 1]
    BY <1>3, <1>4, <1>11
  <2>2. QED BY <1>11, <2>1 DEF Ordered
<1>12. QED BY <1>7, <1>9, <1>10, <1>11 DEF Ordered

LEMMA OrderedStep == Sound /\ Ordered /\ [Next]_vars => Ordered'
<1>1. SUFFICES ASSUME Sound, Ordered, [Next]_vars PROVE Ordered'
  OBVIOUS
<1>2. CASE \/ \E from, origin \in Origins : MessageArrives(from, origin, TRUE)
            \/ \E o \in Origins : MessageArrives(o, o, FALSE)
  BY <1>1, <1>2, MessageOrdered
<1>3. CASE Verified
  BY <1>1, <1>3, VerifiedOrdered
<1>4. ASSUME UNCHANGED <<tasks, sent, overtaken>> PROVE Ordered'
  BY <1>1, <1>4 DEF tasks, Ordered
<1>5. CASE \E p \in Origins : SyncRequested(p)
  BY <1>4, <1>5 DEF SyncRequested
<1>6. CASE \E s \in streams : SyncAnswered(s) \/ SyncAborted(s)
  BY <1>4, <1>6 DEF SyncAnswered, SyncAborted
<1>7. CASE Tick
  BY <1>4, <1>7 DEF Tick
<1>8. CASE UNCHANGED vars
  BY <1>4, <1>8 DEF vars
<1>9. QED BY <1>1, <1>2, <1>3, <1>5, <1>6, <1>7, <1>8 DEF Next

(* The queue verifies one event at a time (resource-budget.ts:11), and so no   *)
(* event that its origin signed and the budgets let pass is refused because a *)
(* later one was faster.                                                      *)
THEOREM OrderKept == Spec => []AcceptedInOrder
<1>1. Ordered => AcceptedInOrder
  BY DEF Ordered, AcceptedInOrder
<1>2. QED BY <1>1, InitSound, SoundStep, InitOrdered, OrderedStep, PTL DEF Spec

-----------------------------------------------------------------------------
(* The answers.  An open stream belongs to the remembered request of its peer, *)
(* which cannot be forgotten before the deadline ends the stream.             *)
OneStream ==
    /\ \A s \in streams :
          /\ syncWindows[s.peer] = s.since
          /\ s.since <= now /\ now <= s.since + DeadlineMs
    /\ \A s, t \in streams : s.peer = t.peer => s = t

LastAnswer(p) == answered[p][Len(answered[p])]

LastAnswered ==
    \A p \in Origins : Len(answered[p]) > 0 =>
        /\ LastAnswer(p) <= now
        /\ syncWindows[p] # None => LastAnswer(p) <= syncWindows[p] + DeadlineMs
        /\ syncWindows[p] = None => now - LastAnswer(p) >= MinuteMs
        /\ \A s \in streams :
              s.peer = p => s.since - LastAnswer(p) >= MinuteMs - DeadlineMs

Answers == OneStream /\ LastAnswered /\ AnswersSpaced

LEMMA InitAnswers == Init => Answers
BY DEF Init, Answers, OneStream, LastAnswered, AnswersSpaced

LEMMA AnswerTypes ==
    ASSUME Sound
    PROVE  /\ now \in Nat /\ syncWindows \in [Origins -> Nat \cup {None}]
           /\ \A s \in streams : s.peer \in Origins /\ s.since \in Nat
           /\ \A p \in Origins : answered[p] \in Seq(Nat) /\ Len(answered[p]) \in Nat
           /\ \A p \in Origins : Len(answered[p]) > 0 => LastAnswer(p) \in Nat
<1>1. /\ now \in Nat /\ syncWindows \in [Origins -> Nat \cup {None}]
      /\ answered \in [Origins -> Seq(Nat)] /\ streams \in SUBSET Streams
  BY DEF Sound, Typed, Histories
<1>2. \A p \in Origins : answered[p] \in Seq(Nat) /\ Len(answered[p]) \in Nat
  BY <1>1
<1>3. \A h \in Seq(Nat) : Len(h) > 0 => h[Len(h)] \in Nat
  OBVIOUS
<1>4. QED BY <1>1, <1>2, <1>3 DEF Streams, LastAnswer

LEMMA RequestAnswers ==
    ASSUME Sound, Answers, NEW peer \in Origins, SyncRequested(peer)
    PROVE  Answers'
<1>1. /\ OneStream /\ LastAnswered /\ AnswersSpaced
  BY DEF Answers
<1>2. now' = now /\ answered' = answered
  BY DEF SyncRequested
<1>3. \A p \in Origins :
         \/ Remembered[p] = syncWindows[p]
         \/ (Remembered[p] = None /\ syncWindows[p] \in Nat /\ now - syncWindows[p] > 2 * MinuteMs)
  BY AnswerTypes, Constants DEF Remembered
<1>4. \A s \in streams : Remembered[s.peer] = s.since
  BY <1>1, <1>3, AnswerTypes, Constants DEF OneStream
<1>5. ASSUME NEW p \in Origins, Len(answered[p]) > 0
      PROVE  /\ LastAnswer(p) \in Nat /\ LastAnswer(p) <= now
             /\ Remembered[p] # None => LastAnswer(p) <= Remembered[p] + DeadlineMs
             /\ Remembered[p] = None => now - LastAnswer(p) >= MinuteMs
             /\ \A s \in streams :
                   s.peer = p => s.since - LastAnswer(p) >= MinuteMs - DeadlineMs
  <2>1. /\ LastAnswer(p) \in Nat /\ LastAnswer(p) <= now
        /\ syncWindows[p] # None => LastAnswer(p) <= syncWindows[p] + DeadlineMs
        /\ syncWindows[p] = None => now - LastAnswer(p) >= MinuteMs
        /\ \A s \in streams :
              s.peer = p => s.since - LastAnswer(p) >= MinuteMs - DeadlineMs
    BY <1>1, <1>5, AnswerTypes DEF LastAnswered
  <2>2. CASE Remembered[p] = syncWindows[p]
    BY <2>1, <2>2
  <2>3. CASE Remembered[p] = None /\ syncWindows[p] \in Nat /\ now - syncWindows[p] > 2 * MinuteMs
    <3>1. now - LastAnswer(p) >= MinuteMs
      BY <2>1, <2>3, AnswerTypes, Constants
    <3>2. QED BY <2>1, <2>3, <3>1
  <2>4. QED BY <1>3, <2>2, <2>3
<1>6. CASE ~AllowSync(peer)
  <2>1. syncWindows' = Remembered /\ streams' = streams
    BY <1>6 DEF SyncRequested
  <2>2. OneStream'
    BY <1>1, <1>2, <1>4, <2>1 DEF OneStream
  <2>3. LastAnswered'
    BY <1>2, <1>5, <2>1 DEF LastAnswered, LastAnswer
  <2>4. QED BY <1>1, <1>2, <2>2, <2>3 DEF Answers, AnswersSpaced
<1>7. CASE AllowSync(peer)
  <2> DEFINE new == [peer |-> peer, n |-> inputs, since |-> now]
  <2>1. /\ syncWindows' = [Remembered EXCEPT ![peer] = now]
        /\ streams' = streams \cup {new}
    BY <1>7 DEF SyncRequested
  <2>2. new.peer = peer /\ new.since = now
    OBVIOUS
  <2> HIDE DEF new
  <2>3. \A p \in Origins : syncWindows'[p] = IF p = peer THEN now ELSE Remembered[p]
    BY <2>1 DEF Remembered
  <2>4. Remembered[peer] # None => now - Remembered[peer] >= MinuteMs
    BY <1>7 DEF AllowSync
  <2>5. \A s \in streams : s.peer # peer
    BY <1>1, <1>4, <2>4, AnswerTypes, Constants DEF OneStream
  <2>6. OneStream'
    <3>1. \A s \in streams' : /\ syncWindows'[s.peer] = s.since
                              /\ s.since <= now /\ now <= s.since + DeadlineMs
      BY <1>1, <1>4, <2>1, <2>2, <2>3, <2>5, AnswerTypes, Constants DEF OneStream
    <3>2. \A s, t \in streams' : s.peer = t.peer => s = t
      BY <1>1, <2>1, <2>2, <2>5 DEF OneStream
    <3>3. QED BY <1>2, <3>1, <3>2 DEF OneStream
  <2>7. LastAnswered'
    <3>1. SUFFICES ASSUME NEW p \in Origins, Len(answered[p]) > 0
                   PROVE  /\ LastAnswer(p) <= now
                          /\ syncWindows'[p] # None => LastAnswer(p) <= syncWindows'[p] + DeadlineMs
                          /\ syncWindows'[p] = None => now - LastAnswer(p) >= MinuteMs
                          /\ \A s \in streams' :
                                s.peer = p => s.since - LastAnswer(p) >= MinuteMs - DeadlineMs
      BY <1>2 DEF LastAnswered, LastAnswer
    <3>2. CASE p # peer
      BY <1>5, <2>1, <2>2, <2>3, <3>1, <3>2
    <3>3. CASE p = peer
      <4>1. now - LastAnswer(p) >= MinuteMs - DeadlineMs
        <5>1. CASE Remembered[p] = None
          BY <1>5, <3>1, <5>1, AnswerTypes, Constants
        <5>2. CASE Remembered[p] # None
          <6>1. Remembered[p] \in Nat
            BY <1>3, <5>2, AnswerTypes
          <6>2. QED BY <1>5, <2>4, <3>1, <3>3, <5>2, <6>1, AnswerTypes, Constants
        <5>3. QED BY <5>1, <5>2
      <4>2. /\ LastAnswer(p) \in Nat /\ LastAnswer(p) <= now /\ syncWindows'[p] = now
            /\ now # None
        BY <1>5, <2>3, <3>1, <3>3, AnswerTypes, Constants
      <4>3. \A s \in streams' : s.peer = p => s.since = now
        BY <2>1, <2>2, <2>5, <3>3
      <4>4. LastAnswer(p) <= now + DeadlineMs
        BY <4>2, AnswerTypes, Constants
      <4>5. QED BY <4>1, <4>2, <4>3, <4>4
    <3>4. QED BY <3>2, <3>3
  <2>8. QED BY <1>1, <1>2, <2>6, <2>7 DEF Answers, AnswersSpaced
<1>8. QED BY <1>6, <1>7

LEMMA StreamAnswers ==
    ASSUME Sound, Answers, NEW s \in streams, SyncAnswered(s) \/ SyncAborted(s)
    PROVE  Answers'
<1>1. /\ OneStream /\ LastAnswered /\ AnswersSpaced
  BY DEF Answers
<1>2. now' = now /\ syncWindows' = syncWindows /\ streams' = streams \ {s}
  BY DEF SyncAnswered, SyncAborted
<1>3. OneStream'
  BY <1>1, <1>2 DEF OneStream
<1>4. CASE SyncAborted(s)
  <2>1. answered' = answered
    BY <1>4 DEF SyncAborted
  <2>2. LastAnswered'
    BY <1>1, <1>2, <2>1 DEF LastAnswered, LastAnswer
  <2>3. QED BY <1>1, <1>3, <2>1, <2>2 DEF Answers, AnswersSpaced
<1>5. CASE SyncAnswered(s)
  <2> DEFINE h == answered[s.peer]
  <2>1. s.peer \in Origins /\ s.since \in Nat /\ h \in Seq(Nat) /\ now \in Nat
    BY AnswerTypes
  <2>2. /\ \A p \in Origins : p # s.peer => answered'[p] = answered[p]
        /\ answered'[s.peer] = Append(h, now)
    BY <1>5, <2>1 DEF SyncAnswered, Passed, Sound, Typed, Histories
  <2>3. /\ Len(Append(h, now)) = Len(h) + 1 /\ Len(h) \in Nat
        /\ Append(h, now)[Len(h) + 1] = now
        /\ \A i \in 1 .. Len(h) : Append(h, now)[i] = h[i] /\ h[i] \in Nat
    BY <2>1, OneMore
  <2>4. /\ syncWindows[s.peer] = s.since /\ s.since <= now /\ now <= s.since + DeadlineMs
        /\ syncWindows[s.peer] # None
    BY <1>1, <2>1, Constants DEF OneStream
  <2>5. Len(h) > 0 => now - h[Len(h)] >= MinuteMs - DeadlineMs
    <3>1. SUFFICES ASSUME Len(h) > 0 PROVE now - h[Len(h)] >= MinuteMs - DeadlineMs
      OBVIOUS
    <3>2. h[Len(h)] \in Nat
      BY <2>3, <3>1
    <3>3. s.since - h[Len(h)] >= MinuteMs - DeadlineMs
      BY <1>1, <2>1, <3>1 DEF LastAnswered, LastAnswer
    <3>4. QED BY <2>1, <2>4, <3>2, <3>3, Constants
  <2>6. AnswersSpaced'
    <3>1. SUFFICES ASSUME NEW p \in Origins, NEW k \in DOMAIN answered'[p], k > 1
                   PROVE  answered'[p][k] - answered'[p][k - 1] >= MinuteMs - DeadlineMs
      BY DEF AnswersSpaced
    <3>2. CASE p # s.peer
      BY <1>1, <2>2, <3>1, <3>2 DEF AnswersSpaced
    <3>3. CASE p = s.peer
      <4>1. k \in 1 .. Len(h) + 1 /\ answered'[p] = Append(h, now)
        BY <2>1, <2>2, <2>3, <3>1, <3>3, OneMore
      <4>2. CASE k \in 1 .. Len(h)
        <5>1. k - 1 \in 1 .. Len(h) /\ k \in DOMAIN h
          BY <2>1, <2>3, <3>1, <4>2
        <5>2. h[k] - h[k - 1] >= MinuteMs - DeadlineMs
          BY <1>1, <2>1, <3>1, <5>1 DEF AnswersSpaced
        <5>3. QED BY <2>3, <4>1, <4>2, <5>1, <5>2
      <4>3. CASE k = Len(h) + 1
        <5>1. Len(h) > 0 /\ k - 1 = Len(h) /\ Len(h) \in 1 .. Len(h)
          BY <2>3, <3>1, <4>3
        <5>2. Append(h, now)[k] = now /\ Append(h, now)[k - 1] = h[Len(h)]
          BY <2>3, <4>3, <5>1
        <5>3. now - h[Len(h)] >= MinuteMs - DeadlineMs
          BY <2>5, <5>1
        <5>4. QED BY <4>1, <5>2, <5>3, Zenon
      <4>4. k \in 1 .. Len(h) \/ k = Len(h) + 1
        <5>1. \A n \in Nat : \A i \in 1 .. n + 1 : i \in 1 .. n \/ i = n + 1
          OBVIOUS
        <5>2. QED BY <2>3, <4>1, <5>1, Zenon
      <4>5. QED BY <4>2, <4>3, <4>4, Zenon
    <3>4. QED BY <3>2, <3>3
  <2>7. LastAnswered'
    <3>1. SUFFICES ASSUME NEW p \in Origins, Len(answered'[p]) > 0
                   PROVE  /\ LastAnswer(p)' <= now
                          /\ syncWindows[p] # None => LastAnswer(p)' <= syncWindows[p] + DeadlineMs
                          /\ syncWindows[p] = None => now - LastAnswer(p)' >= MinuteMs
                          /\ \A t \in streams \ {s} :
                                t.peer = p => t.since - LastAnswer(p)' >= MinuteMs - DeadlineMs
      BY <1>2 DEF LastAnswered
    <3>2. CASE p # s.peer
      BY <1>1, <2>2, <3>1, <3>2 DEF LastAnswered, LastAnswer
    <3>3. CASE p = s.peer
      <4>1. LastAnswer(p)' = now
        BY <2>2, <2>3, <3>3 DEF LastAnswer
      <4>2. \A t \in streams \ {s} : t.peer # p
        BY <1>1, <3>3 DEF OneStream
      <4>3. QED BY <2>1, <2>4, <3>3, <4>1, <4>2
    <3>4. QED BY <3>2, <3>3
  <2>8. QED BY <1>3, <2>6, <2>7 DEF Answers
<1>6. QED BY <1>4, <1>5

LEMMA TickAnswers ==
    ASSUME Sound, Answers, Tick
    PROVE  Answers'
<1>1. /\ OneStream /\ LastAnswered /\ AnswersSpaced
  BY DEF Answers
<1>2. /\ now' = now + 1 /\ syncWindows' = syncWindows /\ streams' = streams /\ answered' = answered
      /\ \A s \in streams : now < s.since + DeadlineMs
  BY DEF Tick, catchUp
<1>3. OneStream'
  BY <1>1, <1>2, AnswerTypes, Constants DEF OneStream
<1>4. LastAnswered'
  <2>1. ASSUME NEW p \in Origins, Len(answered[p]) > 0
        PROVE  /\ LastAnswer(p) <= now + 1
               /\ syncWindows[p] # None => LastAnswer(p) <= syncWindows[p] + DeadlineMs
               /\ syncWindows[p] = None => now + 1 - LastAnswer(p) >= MinuteMs
               /\ \A s \in streams :
                     s.peer = p => s.since - LastAnswer(p) >= MinuteMs - DeadlineMs
    <3>1. LastAnswer(p) \in Nat /\ now \in Nat
      BY <2>1, AnswerTypes
    <3>2. QED BY <1>1, <2>1, <3>1, Constants DEF LastAnswered
  <2>2. SUFFICES ASSUME NEW p \in Origins, Len(answered'[p]) > 0
                 PROVE  /\ LastAnswer(p)' <= now'
                        /\ syncWindows'[p] # None => LastAnswer(p)' <= syncWindows'[p] + DeadlineMs
                        /\ syncWindows'[p] = None => now' - LastAnswer(p)' >= MinuteMs
                        /\ \A s \in streams' :
                              s.peer = p => s.since - LastAnswer(p)' >= MinuteMs - DeadlineMs
    BY DEF LastAnswered
  <2>3. LastAnswer(p)' = LastAnswer(p) /\ Len(answered[p]) > 0
    BY <1>2, <2>2 DEF LastAnswer
  <2>4. /\ LastAnswer(p) <= now'
        /\ syncWindows'[p] # None => LastAnswer(p) <= syncWindows'[p] + DeadlineMs
        /\ syncWindows'[p] = None => now' - LastAnswer(p) >= MinuteMs
        /\ \A s \in streams' :
              s.peer = p => s.since - LastAnswer(p) >= MinuteMs - DeadlineMs
    <3>1. /\ LastAnswer(p) <= now + 1
          /\ syncWindows[p] # None => LastAnswer(p) <= syncWindows[p] + DeadlineMs
          /\ syncWindows[p] = None => now + 1 - LastAnswer(p) >= MinuteMs
          /\ \A s \in streams :
                s.peer = p => s.since - LastAnswer(p) >= MinuteMs - DeadlineMs
      BY <2>1, <2>3, Zenon
    <3>2. now' = now + 1 /\ syncWindows' = syncWindows /\ streams' = streams
      BY <1>2
    <3>3. LastAnswer(p) <= now' /\ now' - LastAnswer(p) = now + 1 - LastAnswer(p)
      <4>1. LastAnswer(p) \in Nat /\ now \in Nat /\ now' \in Nat
        BY <2>3, <3>2, AnswerTypes
      <4>2. QED BY <3>1, <3>2, <4>1
    <3>4. QED BY <3>1, <3>2, <3>3
  <2>5. QED BY <2>3, <2>4
<1>5. QED BY <1>1, <1>2, <1>3, <1>4 DEF Answers, AnswersSpaced

LEMMA AnswersStep == Sound /\ Answers /\ [Next]_vars => Answers'
<1>1. SUFFICES ASSUME Sound, Answers, [Next]_vars PROVE Answers'
  OBVIOUS
<1>2. ASSUME UNCHANGED <<catchUp, now>> PROVE Answers'
  BY <1>1, <1>2 DEF catchUp, Answers, OneStream, LastAnswered, LastAnswer, AnswersSpaced
<1>3. CASE \/ \E from, origin \in Origins : MessageArrives(from, origin, TRUE)
            \/ \E o \in Origins : MessageArrives(o, o, FALSE)
  BY <1>2, <1>3 DEF MessageArrives
<1>4. CASE Verified
  BY <1>2, <1>4 DEF Verified
<1>5. CASE \E p \in Origins : SyncRequested(p)
  BY <1>1, <1>5, RequestAnswers
<1>6. CASE \E s \in streams : SyncAnswered(s) \/ SyncAborted(s)
  BY <1>1, <1>6, StreamAnswers
<1>7. CASE Tick
  BY <1>1, <1>7, TickAnswers
<1>8. CASE UNCHANGED vars
  BY <1>2, <1>8 DEF vars
<1>9. QED BY <1>1, <1>3, <1>4, <1>5, <1>6, <1>7, <1>8 DEF Next

(* Answers to one peer are a minute apart, less the deadline of a stream, even *)
(* though the request is still read after it was let in (node.ts:180) and the *)
(* entry is forgotten after two minutes (node.ts:695).                        *)
THEOREM AnswersAreSpaced == Spec => []AnswersSpaced
<1>1. Answers => AnswersSpaced
  BY DEF Answers
<1>2. QED BY <1>1, InitSound, SoundStep, InitAnswers, AnswersStep, PTL DEF Spec
=============================================================================
