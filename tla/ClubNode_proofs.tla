--------------------------- MODULE ClubNode_proofs ---------------------------
(***************************************************************************)
(* Theorems about ClubNode for every set of peers, every period of the     *)
(* timers and every bound.  The first three leave open what the ledger      *)
(* answers to an event.  The others need it: they follow the events of     *)
(* this node through its own ledger, and the last one through the room's.  *)
(***************************************************************************)
EXTENDS ClubNode, Ledger_proofs

-----------------------------------------------------------------------------
(* The next sequence number is above all that were given out. *)
LEMMA NextSequenceAbove ==
    ASSUME now \in Nat, localSequence \in Nat
    PROVE  NextSequence \in Nat /\ NextSequence > localSequence
<1> DEFINE a == now * 1000
           b == localSequence + 1
<1>1. a \in Nat /\ b \in Nat /\ b > localSequence
  OBVIOUS
<1> HIDE DEF a, b
<1>2. \E x \in {a, b} : \A y \in {a, b} : x >= y
  BY <1>1
<1>3. Max({a, b}) \in {a, b} /\ \A y \in {a, b} : Max({a, b}) >= y
  BY <1>2 DEF Max
<1>4. NextSequence = Max({a, b})
  BY DEF NextSequence, a, b
<1>5. QED BY <1>1, <1>3, <1>4

-----------------------------------------------------------------------------
(* What TypeOK says of the calls, with what it rests on: `calls` is a function *)
(* on Callers and sequence numbers are natural numbers.                      *)
Underway ==
    /\ now \in Nat /\ localSequence \in Nat
    /\ calls = [c \in Callers |-> calls[c]]
    /\ \A c \in Callers : ~Idle(c) =>
          /\ calls[c].pc \in {"mine", "publish"}
          /\ calls[c].event.sequence \in Nat
          /\ calls[c].event.sequence <= localSequence
    /\ \A c \in Callers : calls[c].pc = "mine" => calls[c].op = "join"
    /\ \A c, d \in Callers :
          ~Idle(c) /\ ~Idle(d) /\ c # d
              => calls[c].event.sequence # calls[d].event.sequence

(* A call ends. *)
LEMMA CallEnds ==
    ASSUME Underway, NEW c \in Callers, calls' = [calls EXCEPT ![c] = NoCall],
           localSequence' = localSequence, now' = now
    PROVE  Underway'
<1>1. calls' = [d \in Callers |-> calls'[d]]
  BY DEF Underway
<1>2. \A d \in Callers : calls'[d] = IF d = c THEN NoCall ELSE calls[d]
  BY DEF Underway
<1>3. NoCall.op = "none" /\ NoCall.pc = "none"
  BY DEF NoCall, Call
<1>4. QED BY <1>1, <1>2, <1>3 DEF Underway, Idle

(* A call goes on with the event it has. *)
LEMMA CallGoesOn ==
    ASSUME Underway, NEW c \in Callers, ~Idle(c), NEW op,
           calls' = [calls EXCEPT ![c] = Call(op, "publish", calls[c].event)],
           localSequence' = localSequence, now' = now
    PROVE  Underway'
<1>1. calls' = [d \in Callers |-> calls'[d]]
  BY DEF Underway
<1>2. \A d \in Callers : calls'[d] = IF d = c THEN Call(op, "publish", calls[c].event) ELSE calls[d]
  BY DEF Underway
<1>3. calls'[c].event = calls[c].event /\ calls'[c].pc = "publish"
  BY <1>2 DEF Call
<1>4. QED BY <1>1, <1>2, <1>3 DEF Underway, Idle

(* A call begins, or is over at once, with the next sequence number. *)
LEMMA CallBegins ==
    ASSUME Underway, NEW c \in Callers, NEW e, NEW call, e.sequence = NextSequence,
           \/ call = NoCall
           \/ \E op : call = Call(op, "publish", e)
           \/ call = Call("join", "mine", e),
           calls' = [calls EXCEPT ![c] = call],
           localSequence' = e.sequence, now' = now
    PROVE  Underway'
<1>1. calls' = [d \in Callers |-> calls'[d]]
  BY DEF Underway
<1>2. \A d \in Callers : calls'[d] = IF d = c THEN call ELSE calls[d]
  BY DEF Underway
<1>3. localSequence' \in Nat /\ localSequence' > localSequence
  BY NextSequenceAbove DEF Underway
<1>4. CASE call = NoCall
  <2>1. calls'[c].op = "none" /\ calls'[c].pc = "none"
    BY <1>2, <1>4 DEF NoCall, Call
  <2>2. QED BY <1>1, <1>2, <1>3, <2>1 DEF Underway, Idle
<1>5. CASE (\E op : call = Call(op, "publish", e)) \/ call = Call("join", "mine", e)
  <2>1. /\ calls'[c].event.sequence = localSequence' /\ calls'[c].pc \in {"mine", "publish"}
        /\ calls'[c].pc = "mine" => calls'[c].op = "join"
    BY <1>2, <1>5 DEF Call
  <2>2. \A d \in Callers \ {c} : ~Idle(d) => calls[d].event.sequence < localSequence'
    BY <1>3 DEF Underway
  <2>3. QED BY <1>1, <1>2, <1>3, <2>1, <2>2 DEF Underway, Idle
<1>6. QED BY <1>4, <1>5

(* A sequence number is used up without a call. *)
LEMMA NoCallBegins ==
    ASSUME Underway, calls' = calls, localSequence' = NextSequence, now' = now
    PROVE  Underway'
BY NextSequenceAbove DEF Underway, Idle

(* The event of every call has the next sequence number. *)
LEMMA NewEventSequence ==
    ASSUME NEW kind, NEW claim
    PROVE  NewEvent(kind, claim).sequence = NextSequence
BY DEF NewEvent

(* publishEvent of a new event is a call that begins, or is over at once. *)
LEMMA PublishingBegins ==
    ASSUME Underway, NEW c \in Callers, NEW op, NEW kind, NEW claim,
           Publishing(c, op, NewEvent(kind, claim)),
           localSequence' = NewEvent(kind, claim).sequence, now' = now
    PROVE  Underway'
<1> DEFINE e == NewEvent(kind, claim)
           call == IF Online THEN Call(op, "publish", e) ELSE NoCall
<1>1. calls' = [calls EXCEPT ![c] = call]
  BY DEF Publishing
<1>2. e.sequence = NextSequence /\ localSequence' = e.sequence
  BY NewEventSequence
<1>3. call = NoCall \/ \E op2 : call = Call(op2, "publish", e)
  OBVIOUS
<1> HIDE DEF e, call
<1>4. QED BY <1>1, <1>2, <1>3, CallBegins

(* joinHall lets the call begin, whatever the ledger makes of it. *)
LEMMA JoinBeginsCall ==
    ASSUME Underway, NEW c \in Callers, NEW beat, JoinBegins(c, beat)
    PROVE  Underway'
<1> DEFINE member == Here(Logged(ledger), now)
           kind == PresenceActionFor(present /\ member)
           event == NewEvent(kind, None)
<1>1. localSequence' = event.sequence /\ now' = now
  BY DEF JoinBegins, world
<1>2. CASE event.kind = "join"
  <2>1. calls' = [calls EXCEPT ![c] = Call("join", "mine", event)]
    BY <1>2 DEF JoinBegins
  <2>2. event.sequence = NextSequence
    BY NewEventSequence
  <2> HIDE DEF event
  <2>3. QED BY <1>1, <2>1, <2>2, CallBegins
<1>3. CASE event.kind # "join"
  <2>1. Publishing(c, "join", event)
    BY <1>3 DEF JoinBegins
  <2>2. QED BY <1>1, <2>1, PublishingBegins
<1>4. QED BY <1>2, <1>3

-----------------------------------------------------------------------------
(* Every step preserves Underway: calls begin, go on or end one at a time. *)
LEMMA UnderwayInvariant ==
    ASSUME Underway, [Next]_vars
    PROVE  Underway'
<1> USE DEF lifecycle, presence, budget, world
<1>1. CASE UNCHANGED vars
  BY <1>1 DEF vars, Underway, Idle
<1>2. CASE KeysLoaded \/ StartFails \/ Created \/ TransportsUp \/ LinkChanges
  <2>1. calls' = calls /\ localSequence' = localSequence /\ now' = now
    BY <1>2 DEF KeysLoaded, StartFails, Created, TransportsUp, LinkChanges
  <2>2. QED BY <2>1 DEF Underway, Idle
<1>3. ASSUME NEW c \in Callers, JoinRefused(c)
      PROVE  Underway'
  BY <1>3 DEF JoinRefused, Underway, Idle
<1>4. CASE UserJoin
  BY <1>4, <1>3, JoinBeginsCall DEF UserJoin, Callers
<1>5. CASE UserLeave
  <2>1. CASE present
    <3>1. LeaveBegins("user", "leave") /\ now' = now
      BY <1>5, <2>1 DEF UserLeave
    <3>2. QED BY <3>1, PublishingBegins DEF LeaveBegins, Callers
  <2>2. CASE ~present
    BY <1>5, <2>2 DEF UserLeave, Underway, Idle
  <2>3. QED BY <2>1, <2>2
<1>6. CASE Beat
  <2>1. CASE present /\ node
    BY <1>6, <2>1, <1>3, JoinBeginsCall DEF Beat, Callers
  <2>2. CASE ~(present /\ node)
    BY <1>6, <2>2 DEF Beat, Underway, Idle
  <2>3. QED BY <2>1, <2>2
<1>7. CASE Say
  <2> DEFINE event == NewEvent("chat", None)
  <2>1. localSequence' = event.sequence /\ now' = now
    BY <1>7 DEF Say
  <2>2. Publishing("user", "say", event) \/ calls' = calls
    BY <1>7 DEF Say
  <2>3. CASE Publishing("user", "say", event)
    BY <2>1, <2>3, PublishingBegins DEF Callers
  <2>4. CASE calls' = calls
    BY <2>1, <2>4, NoCallBegins, NewEventSequence
  <2>5. QED BY <2>2, <2>3, <2>4
<1>8. CASE Checkpoint
  <2> DEFINE event == NewEvent("checkpoint", CheckpointPayload(Logged(ledger), now))
  <2>1. localSequence' = event.sequence /\ now' = now /\ Publishing("steward", "say", event)
    BY <1>8 DEF Checkpoint
  <2>2. QED BY <2>1, PublishingBegins DEF Callers
<1>9. ASSUME NEW c \in Callers, Mined(c)
      PROVE  Underway'
  <2>1. localSequence' = localSequence /\ now' = now
    BY <1>9 DEF Mined
  <2>2. ~Idle(c)
    BY <1>9 DEF Mined, Underway, Idle
  <2>3. CASE Online
    BY <1>9, <2>1, <2>2, <2>3, CallGoesOn DEF Mined, Publishing
  <2>4. CASE ~Online
    BY <1>9, <2>1, <2>4, CallEnds DEF Mined, Publishing
  <2>5. QED BY <2>3, <2>4
<1>10. ASSUME NEW c \in Callers, Joined(c) \/ Left(c) \/ Said(c) \/ PublishFails(c)
       PROVE  Underway'
  <2>1. /\ calls' = [calls EXCEPT ![c] = NoCall]
        /\ localSequence' = localSequence /\ now' = now
    BY <1>10 DEF Joined, Left, Said, PublishFails
  <2>2. QED BY <2>1, CallEnds
<1>11. CASE Dispose
  <2>1. CASE node /\ present
    <3>1. LeaveBegins("stop", "stop") /\ now' = now
      BY <1>11, <2>1 DEF Dispose
    <3>2. QED BY <3>1, PublishingBegins DEF LeaveBegins, Callers
  <2>2. CASE ~(node /\ present)
    BY <1>11, <2>2 DEF Dispose, Underway, Idle
  <2>3. QED BY <2>1, <2>2
<1>12. CASE Stopped
  BY <1>12, CallEnds DEF Stopped, Callers
<1>13. CASE Tick
  <2>1. calls' = calls /\ localSequence' = localSequence /\ now' = now + 1
    BY <1>13 DEF Tick
  <2>2. QED BY <2>1 DEF Underway, Idle
<1>14. QED
  BY <1>1, <1>2, <1>4, <1>5, <1>6, <1>7, <1>8, <1>9, <1>10, <1>11, <1>12, <1>13 DEF Next

-----------------------------------------------------------------------------
(* The rest of TypeOK. *)
Typed ==
    /\ {node, disposed, present, checkpointTimer} \subseteq BOOLEAN
    /\ phase \in {"starting", "online", "error"}
    /\ startPc \in {"loading", "creating", "transports", "done"}
    /\ nextBeat \in Nat \cup {None}

(* joinHall leaves the timer off, or due at the beat it was given. *)
LEMMA JoinTyped ==
    ASSUME Typed, NEW c, NEW beat \in Nat \cup {None}, JoinBegins(c, beat) \/ JoinRefused(c)
    PROVE  Typed'
<1> USE DEF lifecycle, world
<1>1. CASE JoinBegins(c, beat)
  <2>1. present' = TRUE /\ nextBeat' \in {beat, None}
    BY <1>1 DEF JoinBegins
  <2>2. UNCHANGED lifecycle
    BY <1>1 DEF JoinBegins
  <2>3. QED BY <2>1, <2>2 DEF Typed
<1>2. CASE JoinRefused(c)
  BY <1>2 DEF JoinRefused, ClearLocalPresence, Typed
<1>3. QED BY <1>1, <1>2

(* Every step preserves it. *)
LEMMA TypedInvariant ==
    ASSUME Typed, now \in Nat, [Next]_vars
    PROVE  Typed'
<1> USE DEF lifecycle, presence, budget, world
<1>0. ASSUME NEW at \in Nat
      PROVE  NextFiring(at) \in Nat
  BY NodeAssumption DEF NextFiring
<1>1. CASE UNCHANGED vars
  BY <1>1 DEF vars, Typed
<1>2. CASE KeysLoaded \/ StartFails \/ Created \/ TransportsUp
  BY <1>2 DEF KeysLoaded, StartFails, Created, TransportsUp, Typed
<1>3. CASE UserJoin
  BY <1>3, JoinTyped DEF UserJoin, Typed
<1>4. CASE UserLeave
  <2>1. CASE present
    BY <1>4, <2>1 DEF UserLeave, LeaveBegins, Typed
  <2>2. CASE ~present
    BY <1>4, <2>2 DEF UserLeave, Typed
  <2>3. QED BY <2>1, <2>2
<1>5. CASE Beat
  <2>1. nextBeat \in Nat
    BY <1>5 DEF Beat, Typed
  <2>2. NextFiring(nextBeat) \in Nat
    BY <1>0, <2>1
  <2>3. CASE present /\ node
    BY <1>5, <2>2, <2>3, JoinTyped DEF Beat
  <2>4. CASE ~(present /\ node)
    BY <1>5, <2>2, <2>4 DEF Beat, Typed
  <2>5. QED BY <2>3, <2>4
<1>6. CASE Say \/ Checkpoint \/ LinkChanges \/ Tick
  <2>1. UNCHANGED lifecycle /\ UNCHANGED presence
    BY <1>6 DEF Say, Checkpoint, LinkChanges, Tick
  <2>2. QED BY <2>1 DEF Typed
<1>7. ASSUME NEW c \in Callers, Mined(c) \/ Said(c) \/ PublishFails(c)
      PROVE  Typed'
  BY <1>7 DEF Mined, Said, PublishFails, Typed
<1>8. ASSUME NEW c \in Callers, Joined(c)
      PROVE  Typed'
  <2>1. UNCHANGED lifecycle
    BY <1>8 DEF Joined
  <2>2. NextFiring(now) \in Nat
    BY <1>0
  <2>3. present' \in {present, FALSE} /\ nextBeat' \in {nextBeat, NextFiring(now), None}
    BY <1>8 DEF Joined, ClearLocalPresence
  <2>4. QED BY <2>1, <2>2, <2>3 DEF Typed
<1>9. ASSUME NEW c \in Callers, Left(c)
      PROVE  Typed'
  BY <1>9 DEF Left, ClearLocalPresence, Typed
<1>10. CASE Dispose
  <2>1. CASE node /\ present
    BY <1>10, <2>1 DEF Dispose, LeaveBegins, Typed
  <2>2. CASE ~(node /\ present)
    BY <1>10, <2>2 DEF Dispose, StopEnds, Typed
  <2>3. QED BY <2>1, <2>2
<1>11. CASE Stopped
  BY <1>11 DEF Stopped, StopEnds, Typed
<1>12. QED
  BY <1>1, <1>2, <1>3, <1>4, <1>5, <1>6, <1>7, <1>8, <1>9, <1>10, <1>11 DEF Next

(* The initial state. *)
LEMMA InitTyped ==
    ASSUME Init
    PROVE  Underway /\ Typed
<1>1. NoCall.op = "none" /\ NoCall.pc = "none"
  BY DEF NoCall, Call
<1>2. calls = [c \in Callers |-> NoCall] /\ now = 1 /\ localSequence = 0
  BY DEF Init
<1>3. Underway
  BY <1>1, <1>2 DEF Underway, Idle
<1>4. Typed
  BY DEF Init, Typed
<1>5. QED BY <1>3, <1>4

(* Types are kept, and no two calls under way hold the same sequence number:  *)
(* it is taken in the step that begins the call (node.ts:413), never after an *)
(* await, so that nothing can come in between.                               *)
THEOREM TypeCorrect == Spec => []TypeOK
<1>1. Init => Underway /\ Typed
  BY InitTyped
<1>2. Underway /\ Typed /\ [Next]_vars => Underway' /\ Typed'
  BY UnderwayInvariant, TypedInvariant DEF Underway
<1>3. Underway /\ Typed => TypeOK
  BY DEF Underway, Typed, TypeOK
<1>4. QED BY <1>1, <1>2, <1>3, PTL DEF Spec

-----------------------------------------------------------------------------
(* Until start() is done the node is not online, and nothing that needs an    *)
(* online node has happened.                                                 *)
Early == startPc # "done" => ~checkpointTimer /\ phase # "online" /\ ~present

Reachable == Early /\ OnlineReachable

(* A join cannot be refused or begin before the node is online.               *)
LEMMA JoinReachable ==
    ASSUME Reachable, NEW c, NEW beat, JoinBegins(c, beat) \/ JoinRefused(c)
    PROVE  Reachable'
<1>1. Online /\ UNCHANGED lifecycle
  BY DEF JoinBegins, JoinRefused
<1>2. startPc = "done"
  BY <1>1 DEF Online, Reachable, Early
<1>3. QED BY <1>1, <1>2 DEF lifecycle, Reachable, Early, OnlineReachable

LEMMA ReachableInvariant ==
    ASSUME Typed, Reachable, [Next]_vars
    PROVE  Reachable'
<1> USE DEF lifecycle, presence, budget, world
<1>0. present \in BOOLEAN /\ checkpointTimer \in BOOLEAN /\ node \in BOOLEAN
  BY DEF Typed
<1>1. CASE UNCHANGED vars
  BY <1>1 DEF vars, Reachable, Early, OnlineReachable
<1>2. CASE KeysLoaded
  BY <1>2 DEF KeysLoaded, Reachable, Early, OnlineReachable
<1>3. CASE StartFails
  <2>1. ~checkpointTimer
    BY <1>3 DEF StartFails, Reachable, Early
  <2>2. QED BY <1>3, <2>1 DEF StartFails, Reachable, Early, OnlineReachable
<1>4. CASE Created
  BY <1>4 DEF Created, Reachable, Early, OnlineReachable
<1>5. CASE TransportsUp
  BY <1>5 DEF TransportsUp, Reachable, Early, OnlineReachable
<1>6. CASE UserJoin
  BY <1>6, JoinReachable DEF UserJoin
<1>7. CASE UserLeave
  <2>1. Online /\ UNCHANGED lifecycle
    BY <1>7 DEF UserLeave
  <2>2. QED BY <2>1 DEF Online, Reachable, Early, OnlineReachable
<1>8. CASE Beat
  <2>1. CASE present /\ node
    BY <1>8, <2>1, JoinReachable DEF Beat
  <2>2. CASE ~(present /\ node)
    BY <1>8, <2>2 DEF Beat, Reachable, Early, OnlineReachable
  <2>3. QED BY <2>1, <2>2
<1>9. CASE Say \/ Checkpoint \/ LinkChanges \/ Tick
  <2>1. UNCHANGED lifecycle /\ UNCHANGED presence
    BY <1>9 DEF Say, Checkpoint, LinkChanges, Tick
  <2>2. QED BY <2>1 DEF Reachable, Early, OnlineReachable
<1>10. ASSUME NEW c \in Callers, Mined(c) \/ Said(c) \/ PublishFails(c)
       PROVE  Reachable'
  BY <1>10 DEF Mined, Said, PublishFails, Reachable, Early, OnlineReachable
<1>11. ASSUME NEW c \in Callers, Joined(c) \/ Left(c)
       PROVE  Reachable'
  <2>1. UNCHANGED lifecycle /\ (present' => present)
    BY <1>11 DEF Joined, Left, ClearLocalPresence
  <2>2. QED BY <2>1 DEF Reachable, Early, OnlineReachable
<1>12. CASE Dispose
  <2>1. CASE node /\ present
    BY <1>12, <2>1 DEF Dispose, LeaveBegins, Reachable, Early, OnlineReachable
  <2>2. CASE node /\ ~present
    <3>1. StopEnds /\ startPc' = startPc /\ present' = present
      BY <1>12, <2>2 DEF Dispose
    <3>2. QED BY <2>2, <3>1 DEF StopEnds, Reachable, Early, OnlineReachable
  <2>4. CASE ~node
    BY <1>12, <2>4 DEF Dispose, Reachable, Early, OnlineReachable
  <2>3. QED BY <2>1, <2>2, <2>4
<1>13. CASE Stopped
  BY <1>13 DEF Stopped, StopEnds, Reachable, Early, OnlineReachable
<1>14. QED
  BY <1>1, <1>2, <1>3, <1>4, <1>5, <1>6, <1>7, <1>8, <1>9, <1>10, <1>11, <1>12, <1>13 DEF Next

(* A node that is online, or whose checkpoint timer runs, is always one that  *)
(* stop() can reach: for every interleaving of start(), stop() and the calls. *)
THEOREM OnlineIsReachable == Spec => []OnlineReachable
<1>1. Init => Underway /\ Typed /\ Reachable
  <2>1. Init => Reachable
    BY DEF Init, Reachable, Early, OnlineReachable
  <2>2. QED BY <2>1, InitTyped
<1>2. Underway /\ Typed /\ Reachable /\ [Next]_vars => Underway' /\ Typed' /\ Reachable'
  BY UnderwayInvariant, TypedInvariant, ReachableInvariant DEF Underway
<1>3. Reachable => OnlineReachable
  BY DEF Reachable
<1>4. QED BY <1>1, <1>2, <1>3, PTL DEF Spec

-----------------------------------------------------------------------------
(* The presence of a running node has its timer, or a join on its way that    *)
(* will start it.                                                            *)
Joining == \E c \in Callers : calls[c].op = "join"

Beating == node /\ present => phase = "online" /\ (nextBeat # None \/ Joining)

(* A call of joinHall stays until it sees the outcome.                        *)
LEMMA JoinBeats ==
    ASSUME Underway, NEW c \in Callers, NEW beat, JoinBegins(c, beat)
    PROVE  Beating'
<1>1. Online /\ UNCHANGED lifecycle
  BY DEF JoinBegins
<1> DEFINE event == NewEvent(PresenceActionFor(present /\ Here(Logged(ledger), now)), None)
<1>2. CASE event.kind = "join"
  <2>1. calls' = [calls EXCEPT ![c] = Call("join", "mine", event)]
    BY <1>2 DEF JoinBegins
  <2>2. calls'[c].op = "join"
    BY <2>1 DEF Underway, Call
  <2>3. QED BY <1>1, <2>2 DEF Beating, Joining, Online, lifecycle
<1>3. CASE event.kind # "join"
  <2>1. Publishing(c, "join", event)
    BY <1>3 DEF JoinBegins
  <2>2. calls' = [calls EXCEPT ![c] = Call("join", "publish", event)]
    BY <1>1, <2>1 DEF Publishing
  <2>3. calls'[c].op = "join"
    BY <2>2 DEF Underway, Call
  <2>4. QED BY <1>1, <2>3 DEF Beating, Joining, Online, lifecycle
<1>4. QED BY <1>2, <1>3

(* A call of another operation begins or ends.                                *)
LEMMA OtherCall ==
    ASSUME Underway, Beating, NEW c \in Callers, calls[c].op # "join", NEW call,
           calls' = [calls EXCEPT ![c] = call], UNCHANGED lifecycle, UNCHANGED presence
    PROVE  Beating'
<1>1. \A d \in Callers \ {c} : calls'[d] = calls[d]
  BY DEF Underway
<1>2. Joining => Joining'
  BY <1>1 DEF Joining
<1>3. QED BY <1>2 DEF Beating, lifecycle, presence

LEMMA BeatingInvariant ==
    ASSUME Underway, Typed, Reachable, Beating, [Next]_vars
    PROVE  Beating'
<1> USE DEF lifecycle, presence, budget, world
<1>0. present \in BOOLEAN /\ node \in BOOLEAN
  BY DEF Typed
<1>1. CASE UNCHANGED vars
  BY <1>1 DEF vars, Beating, Joining
<1>2. CASE KeysLoaded \/ LinkChanges \/ Tick
  BY <1>2 DEF KeysLoaded, LinkChanges, Tick, Beating, Joining
<1>3. CASE StartFails
  BY <1>3 DEF StartFails, Beating
<1>4. CASE Created
  <2>1. ~present /\ present' = present
    BY <1>4 DEF Created, Reachable, Early
  <2>2. QED BY <2>1 DEF Beating
<1>5. CASE TransportsUp
  <2>1. ~present /\ present' = present
    BY <1>5 DEF TransportsUp, Reachable, Early
  <2>2. QED BY <2>1 DEF Beating
<1>6. ASSUME NEW c \in Callers, JoinRefused(c)
      PROVE  Beating'
  BY <1>6 DEF JoinRefused, ClearLocalPresence, Beating
<1>7. CASE UserJoin
  BY <1>7, <1>6, JoinBeats DEF UserJoin, Callers
<1>8. CASE UserLeave
  <2>1. CASE present
    BY <1>8, <2>1 DEF UserLeave, LeaveBegins, Beating
  <2>2. CASE ~present
    BY <1>8, <2>2 DEF UserLeave, Beating
  <2>3. QED BY <2>1, <2>2
<1>9. CASE Beat
  <2>1. CASE present /\ node
    BY <1>9, <2>1, <1>6, JoinBeats DEF Beat, Callers
  <2>2. CASE ~(present /\ node)
    BY <1>9, <2>2 DEF Beat, Beating
  <2>3. QED BY <2>1, <2>2
<1>10. CASE Say
  <2>1. UNCHANGED lifecycle /\ UNCHANGED presence /\ calls["user"].op # "join"
    BY <1>10 DEF Say, Idle
  <2>2. (\E call : calls' = [calls EXCEPT !["user"] = call]) \/ calls' = calls
    BY <1>10 DEF Say, Publishing
  <2>3. CASE \E call : calls' = [calls EXCEPT !["user"] = call]
    BY <2>1, <2>3, OtherCall DEF Callers
  <2>4. CASE calls' = calls
    BY <2>1, <2>4 DEF Beating, Joining
  <2>5. QED BY <2>2, <2>3, <2>4
<1>11. CASE Checkpoint
  <2>1. UNCHANGED lifecycle /\ UNCHANGED presence /\ calls["steward"].op # "join"
    BY <1>11 DEF Checkpoint, Idle
  <2>2. \E call : calls' = [calls EXCEPT !["steward"] = call]
    BY <1>11 DEF Checkpoint, Publishing
  <2>3. QED BY <2>1, <2>2, OtherCall DEF Callers
<1>12. ASSUME NEW c \in Callers, Mined(c)
       PROVE  Beating'
  <2>1. UNCHANGED lifecycle /\ UNCHANGED presence
    BY <1>12 DEF Mined
  <2>2. CASE Online
    <3>1. calls' = [calls EXCEPT ![c] = Call("join", "publish", calls[c].event)]
      BY <1>12, <2>2 DEF Mined, Publishing
    <3>2. calls'[c].op = "join"
      BY <3>1 DEF Underway, Call
    <3>3. QED BY <2>1, <2>2, <3>2 DEF Beating, Joining, Online
  <2>3. CASE ~Online
    BY <2>1, <2>3 DEF Beating, Online
  <2>4. QED BY <2>2, <2>3
<1>13. ASSUME NEW c \in Callers, Joined(c)
       PROVE  Beating'
  <2>1. UNCHANGED lifecycle
    BY <1>13 DEF Joined
  <2>2. (nextBeat' # None /\ UNCHANGED present) \/ present' = FALSE
    <3>1. now \in Nat /\ NextFiring(now) \in Nat
      BY NodeAssumption DEF Underway, NextFiring
    <3>2. NextFiring(now) # None
      BY <3>1, RulesAssumption
    <3>3. QED BY <1>13, <3>2 DEF Joined, ClearLocalPresence
  <2>3. QED BY <2>1, <2>2 DEF Beating
<1>14. ASSUME NEW c \in Callers, Left(c)
       PROVE  Beating'
  BY <1>14 DEF Left, ClearLocalPresence, Beating
<1>15. ASSUME NEW c \in Callers, Said(c)
       PROVE  Beating'
  <2>1. UNCHANGED lifecycle /\ UNCHANGED presence /\ calls[c].op # "join"
    BY <1>15 DEF Said, Publishes
  <2>2. calls' = [calls EXCEPT ![c] = NoCall]
    BY <1>15 DEF Said
  <2>3. QED BY <2>1, <2>2, OtherCall
<1>16. ASSUME NEW c \in Callers, PublishFails(c)
       PROVE  Beating'
  BY <1>16 DEF PublishFails, Beating
<1>17. CASE Dispose
  <2>1. CASE node /\ present
    BY <1>17, <2>1 DEF Dispose, LeaveBegins, Beating
  <2>2. CASE ~(node /\ present)
    BY <1>17, <2>2 DEF Dispose, StopEnds, Beating
  <2>3. QED BY <2>1, <2>2
<1>18. CASE Stopped
  BY <1>18 DEF Stopped, StopEnds, Beating
<1>19. QED
  BY <1>1, <1>2, <1>3, <1>4, <1>5, <1>7, <1>8, <1>9, <1>10, <1>11, <1>12, <1>13, <1>14,
     <1>15, <1>16, <1>17, <1>18 DEF Next

(* With no call under way, the presence of a running node has its heartbeat:  *)
(* whatever joins, leaves, heartbeats and stops were interleaved before.      *)
THEOREM PresenceHasItsBeat == Spec => []PresenceBeats
<1> DEFINE BInv == Underway /\ Typed /\ Reachable /\ Beating
<1>1. Init => BInv
  <2>1. Init => Reachable /\ Beating
    BY DEF Init, Reachable, Early, OnlineReachable, Beating
  <2>2. QED BY <2>1, InitTyped
<1>2. BInv /\ [Next]_vars => BInv'
  BY UnderwayInvariant, TypedInvariant, ReachableInvariant, BeatingInvariant DEF Underway
<1>3. BInv => PresenceBeats
  BY DEF Beating, Joining, PresenceBeats, Settled, Idle
<1>4. QED BY <1>1, <1>2, <1>3, PTL DEF Spec

-----------------------------------------------------------------------------
(* The events of this node, `last` the last sequence number it gave out *)
Own(S, last, at) ==
    /\ IsFiniteSet(S) /\ Signed(S) /\ SignedBy(S, at) /\ None \notin S
    /\ \A e \in S : e.origin = Self /\ e.sequence <= last

OwnMarks(l, last) == \A m \in ToSet(l.marks) : m.origin = Self /\ m.sequence <= last

(* A ledger over them *)
Sound(l, S, last, at) ==
    /\ last \in Nat /\ at \in Nat
    /\ Own(S, last, at) /\ Within(S, l) /\ Pointed(l) /\ Heeded(l, at) /\ OwnMarks(l, last)

(* The empty ledger. *)
LEMMA SoundInit == Sound(EmptyLedger, {}, 0, 1)
<1>1. Own({}, 0, 1)
  BY FS_EmptySet DEF Own, Signed, SignedBy, Ordered
<1>2. Pointed(EmptyLedger) /\ Heeded(EmptyLedger, 1)
  BY DEF EmptyLedger, Pointed, HasBasis, Heeded
<1>3. OwnMarks(EmptyLedger, 0)
  BY DEF OwnMarks, EmptyLedger, ToSet
<1>4. QED BY <1>1, <1>2, <1>3, EmptyLedgerWithin DEF Sound

(* Forgetting what lapsed keeps it. *)
LEMMA SoundExpire ==
    ASSUME NEW l, NEW S, NEW last, NEW at, Sound(l, S, last, at)
    PROVE  Sound(ExpireIndexes(l, at), S, last, at)
<1>0. l \in LedgerOf(S) /\ at \in Nat /\ at <= at
  BY DEF Sound, Within
<1>1. Within(S, ExpireIndexes(l, at)) /\ Pointed(ExpireIndexes(l, at))
  BY <1>0, ForgetWithin, PointedForget DEF ExpireIndexes, Sound
<1>2. Heeded(ExpireIndexes(l, at), at)
  BY <1>0, HeededForget DEF Sound, Own
<1>3. OwnMarks(ExpireIndexes(l, at), last)
  BY <1>0, ForgetEffect DEF ExpireIndexes, OwnMarks, Sound
<1>4. QED BY <1>1, <1>2, <1>3 DEF Sound

(* So does an event of the node, accepted or refused. *)
LEMMA SoundAccept ==
    ASSUME NEW l, NEW S, NEW last, NEW at, Sound(l, S, last, at), NEW e \in S
    PROVE  Sound(Accept(l, e), S, last, at)
<1>1. Within(S, Accept(l, e)) /\ Pointed(Accept(l, e))
  BY AcceptWithin, AcceptPointed DEF Sound, Own
<1>2. Heeded(Accept(l, e), at)
  BY AcceptHeeded DEF Sound, Own
<1>3. OwnMarks(Accept(l, e), last)
  <2>1. CASE e.kind = "sync" \/ e \in Logged(l)
    BY <2>1 DEF Accept, Sound
  <2>2. CASE ~(e.kind = "sync" \/ e \in Logged(l))
    <3>1. \A m \in ToSet(Accept(l, e).marks) :
             m \in ToSet(l.marks) \/ (m.origin = e.origin /\ m.sequence = e.sequence)
      BY <2>2, AcceptEffect DEF Sound, Own
    <3>2. QED BY <3>1 DEF OwnMarks, Sound, Own
  <2>3. QED BY <2>1, <2>2
<1>4. QED BY <1>1, <1>2, <1>3 DEF Sound

(* Fewer events may be left to come. *)
LEMMA SoundShrinks ==
    ASSUME NEW l, NEW S, NEW last, NEW at, Sound(l, S, last, at),
           NEW T \in SUBSET S, Logged(l) \subseteq T
    PROVE  Sound(l, T, last, at)
<1>1. Own(T, last, at)
  BY FS_Subset DEF Sound, Own, Signed, SignedBy, Ordered
<1>2. l \in LedgerOf(T)
  <2>1. l \in LedgerOf(S) /\ Pointed(l)
    BY DEF Sound, Within
  <2>2. l.log \in Seq(T)
    <3>1. l.log \in Seq(S) /\ \A k \in 1 .. Len(l.log) : l.log[k] \in T
      BY <2>1 DEF LedgerOf, Logged, ToSet
    <3>2. QED BY <3>1
  <2>3. \A p \in Peers : l.joinBasis[p] \in T \cup {None} /\ l.latestPresence[p] \in T \cup {None}
    BY <2>1 DEF Pointed, HasBasis
  <2>4. l.checkpoint \in T \cup {None}
    BY <2>1 DEF Pointed
  <2>5. QED BY <2>1, <2>2, <2>3, <2>4 DEF LedgerOf
<1>3. QED BY <1>1, <1>2 DEF Sound, Within

(* The node signs an event. *)
LEMMA SoundSigns ==
    ASSUME NEW l, NEW S, NEW last, NEW at, Sound(l, S, last, at),
           NEW e, EventLike(e), e # None, e.origin = Self, e.sequence > last, e.issuedAt = at
    PROVE  Sound(l, S \cup {e}, e.sequence, at) /\ e \notin S
<1>0. last \in Nat /\ at \in Nat /\ e.sequence \in Nat \ {0} /\ e.origin \in Peers
  BY DEF Sound, EventLike
<1>1. \A f \in S : /\ f.sequence \in Nat /\ f.issuedAt \in Nat /\ f.sequence < e.sequence
                   /\ f.issuedAt <= e.issuedAt
  BY <1>0 DEF Sound, Own, SignedBy, Ordered, EventLike
<1>2. IsFiniteSet(S \cup {e}) /\ None \notin S \cup {e}
  BY FS_AddElement DEF Sound, Own
<1>3. Signed(S \cup {e})
  BY <1>0 DEF Sound, Own, Signed
<1>4. SignedBy(S \cup {e}, at)
  <2>1. SignedBy(S, at)
    BY DEF Sound, Own
  <2>2. QED BY <1>0, <1>1, <2>1 DEF SignedBy, Ordered
<1>5. \A f \in S \cup {e} : f.origin = Self /\ f.sequence <= e.sequence
  BY <1>0, <1>1 DEF Sound, Own
<1>6. Own(S \cup {e}, e.sequence, at)
  BY <1>2, <1>3, <1>4, <1>5 DEF Own
<1>7. Within(S \cup {e}, l)
  BY SentGrows DEF Sound
<1>8. OwnMarks(l, e.sequence)
  <2>1. \A m \in ToSet(l.marks) : m.sequence \in Nat
    <3>1. l.marks \in Seq(Mark)
      BY DEF Sound, Within, LedgerOf
    <3>2. \A k \in DOMAIN l.marks : l.marks[k] \in Mark
      BY <3>1
    <3>3. QED BY <3>2 DEF ToSet, Mark
  <2>2. QED BY <1>0, <2>1 DEF OwnMarks, Sound
<1>9. e \notin S
  BY <1>0, <1>1
<1>10. QED BY <1>0, <1>6, <1>7, <1>8, <1>9 DEF Sound

(* Time passes. *)
LEMMA SoundLater ==
    ASSUME NEW l, NEW S, NEW last, NEW at, Sound(l, S, last, at)
    PROVE  Sound(l, S, last, at + 1)
<1>0. at \in Nat /\ SignedBy(S, at) /\ l \in LedgerOf(S)
  BY DEF Sound, Own, Within
<1>1. \A e \in S : e.issuedAt \in Nat /\ e.issuedAt <= at + 1
  BY <1>0 DEF SignedBy, Ordered, EventLike
<1>2. SignedBy(S, at + 1)
  BY <1>0, <1>1 DEF SignedBy
<1>3. \A j \in DOMAIN l.log : l.log[j].issuedAt \in Nat
  <2>1. \A j \in DOMAIN l.log : l.log[j] \in S
    BY <1>0 DEF LedgerOf
  <2>2. QED BY <1>1, <2>1
<1>4. ASSUME NEW t \in Nat, t + PresenceTtlMs > at + 1 PROVE t + PresenceTtlMs > at
  BY <1>0, <1>4, RulesAssumption
<1>5. Heeded(l, at + 1)
  BY <1>3, <1>4 DEF Sound, Heeded
<1>6. QED BY <1>0, <1>2, <1>5 DEF Sound, Own

(* The mark of this node *)
LEMMA OwnHighWaterMark ==
    ASSUME NEW l, NEW S, NEW last, NEW at, Sound(l, S, last, at)
    PROVE  HighWaterMark(l, Self) \in Nat /\ HighWaterMark(l, Self) <= last
<1> DEFINE own == { m \in ToSet(l.marks) : m.origin = Self }
<1>1. \A m \in own : m.sequence \in Nat /\ m.sequence <= last
  <2>1. l.marks \in Seq(Mark)
    BY DEF Sound, Within, LedgerOf
  <2>2. \A k \in DOMAIN l.marks : l.marks[k] \in Mark
    BY <2>1
  <2>3. QED BY <2>2 DEF Sound, OwnMarks, ToSet, Mark
<1>2. HighWaterMark(l, Self) = IF own = {} THEN 0 ELSE (CHOOSE m \in own : TRUE).sequence
  BY DEF HighWaterMark
<1>3. own # {} => (CHOOSE m \in own : TRUE) \in own
  OBVIOUS
<1> HIDE DEF own
<1>4. last \in Nat
  BY DEF Sound
<1>5. QED BY <1>1, <1>2, <1>3, <1>4

(* A node in its own hall is indexed, with a presence that is fresh. *)
LEMMA HereIsIndexed ==
    ASSUME NEW l, NEW S, NEW last, NEW at, Sound(l, S, last, at), Here(Logged(l), at)
    PROVE  /\ HasBasis(l, Self) /\ Self \notin Lapsed(l, at)
           /\ l.latestPresence[Self].issuedAt + PresenceTtlMs > at
<1> DEFINE hall == HallAt(l, at)
<1>0. /\ at \in Nat /\ at \in Int /\ IsFiniteSet(S) /\ SignedBy(S, at) /\ Within(S, l)
      /\ Pointed(l) /\ Heeded(l, at) /\ Logged(l) \subseteq S
  BY DEF Sound, Own, Within, LedgerOf, Logged, ToSet
<1>1. IsLog(Logged(l))
  BY <1>0, OrderedIsLog DEF SignedBy
<1>2. hall \in Halls /\ Self \in Participants(hall)
  BY <1>0, <1>1, PresenceBacked DEF HallAt, Here
<1>3. PICK r \in Entries(hall) : r.peerId = Self
  BY <1>2, EntriesAreParticipants
<1> HIDE DEF hall
<1>4. /\ HasBasis(l, Self) /\ r.lastPresenceAt = l.latestPresence[Self].issuedAt
      /\ r.lastPresenceAt + PresenceTtlMs > at
  BY <1>0, <1>3, HallIsIndexed DEF hall
<1>5. l.latestPresence[Self] \in Logged(l)
  BY <1>0, <1>4, NodeAssumption DEF Pointed
<1>6. l.latestPresence[Self].issuedAt \in Nat
  BY <1>0, <1>5 DEF SignedBy, Ordered, EventLike
<1>7. ~(l.latestPresence[Self].issuedAt < at - PresenceTtlMs)
  <2> DEFINE i == l.latestPresence[Self].issuedAt
  <2>1. i \in Nat /\ i + PresenceTtlMs > at /\ at \in Nat /\ PresenceTtlMs \in Nat
    BY <1>0, <1>4, <1>6, RulesAssumption
  <2> HIDE DEF i
  <2>2. ~(i < at - PresenceTtlMs)
    BY <2>1
  <2>3. QED BY <2>2 DEF i
<1>8. Self \notin Lapsed(l, at)
  BY <1>5, <1>7 DEF Lapsed
<1>9. QED BY <1>4, <1>8

(* The presence of this node in its own ledger: how old it is at most.        *)
LatestAt(l) == l.latestPresence[Self].issuedAt
Refreshed(l, at) == HasBasis(l, Self) => LatestAt(l) = at

(* Expiry changes nothing of an index that has not lapsed.                    *)
LEMMA ExpireKeeps ==
    ASSUME NEW l, NEW S, NEW last, NEW at, Sound(l, S, last, at), NEW n, n = ExpireIndexes(l, at)
    PROVE  /\ Logged(n) = Logged(l) /\ HighWaterMark(n, Self) = HighWaterMark(l, Self)
           /\ Self \notin Lapsed(l, at) => HasBasis(n, Self) = HasBasis(l, Self)
           /\ HasBasis(n, Self) => HasBasis(l, Self) /\ LatestAt(n) = LatestAt(l)
           /\ Refreshed(l, at) => Refreshed(n, at)
<1>0. l \in LedgerOf(S) /\ Self \in Peers
  BY NodeAssumption DEF Sound, Within
<1>1. /\ n.log = l.log /\ n.marks = l.marks
      /\ n.joinBasis[Self] = IF Self \in Lapsed(l, at) THEN None ELSE l.joinBasis[Self]
      /\ n.latestPresence[Self] = IF Self \in Lapsed(l, at) THEN None ELSE l.latestPresence[Self]
  BY <1>0, ForgetEffect DEF ExpireIndexes
<1>2. QED BY <1>1 DEF Logged, HighWaterMark, HasBasis, LatestAt, Refreshed

(* The node's basis has not lapsed as long as its presence is young enough.   *)
LEMMA YoungIsLive ==
    ASSUME NEW l, NEW S, NEW last, NEW at, Sound(l, S, last, at), HasBasis(l, Self)
    PROVE  /\ LatestAt(l) \in Nat
           /\ at <= LatestAt(l) + PresenceTtlMs <=> Self \notin Lapsed(l, at)
<1>0. /\ at \in Nat /\ SignedBy(S, at) /\ Pointed(l) /\ Logged(l) \subseteq S /\ Self \in Peers
      /\ None \notin S
  BY NodeAssumption DEF Sound, Own, Within, LedgerOf, Logged, ToSet
<1>1. l.latestPresence[Self] \in Logged(l)
  BY <1>0 DEF Pointed
<1>2. LatestAt(l) \in Nat /\ l.latestPresence[Self] # None
  BY <1>0, <1>1 DEF SignedBy, Ordered, EventLike, LatestAt
<1>3. at <= LatestAt(l) + PresenceTtlMs <=> ~(LatestAt(l) < at - PresenceTtlMs)
  BY <1>0, <1>2, RulesAssumption
<1>4. QED BY <1>0, <1>1, <1>2, <1>3 DEF Lapsed, LatestAt

(* What the ledger makes of an event that the node signed at this time.       *)
LEMMA OwnAccepted ==
    ASSUME NEW l, NEW S, NEW last, NEW at, Sound(l, S, last, at), NEW e \in S,
           e \notin Logged(l), e.kind \in {"join", "heartbeat", "leave"}, e.issuedAt = at,
           NEW n, n = Accept(l, e)
    PROVE  /\ Logged(n) \subseteq Logged(l) \cup {e}
           /\ e.sequence > HighWaterMark(l, Self) \/ Refreshed(l, at) => Refreshed(n, at)
           /\ \/ n = ExpireIndexes(l, at)
              \/ Refreshed(n, at) /\ (e.kind # "leave" => HasBasis(n, Self))
           /\ e.sequence > HighWaterMark(l, Self) /\ e.kind = "join" => HasBasis(n, Self)
           /\ e.sequence > HighWaterMark(l, Self) /\ e.kind = "heartbeat"
                /\ HasBasis(l, Self) /\ Self \notin Lapsed(l, at) => HasBasis(n, Self)
           /\ e.kind = "join" /\ HasBasis(l, Self) /\ Self \notin Lapsed(l, at)
                => HasBasis(n, Self)
<1> DEFINE c == ExpireIndexes(l, at)
<1>0. /\ Within(S, l) /\ Signed(S) /\ e.origin = Self /\ Self \in Peers /\ e # None
      /\ e.kind # "sync" /\ l \in LedgerOf(S)
  BY NodeAssumption DEF Sound, Own, Within
<1>1. /\ ~Acceptable(c, e) => n = c
      /\ Logged(n) \subseteq Logged(l) \cup {e}
      /\ Acceptable(c, e) =>
           /\ n.joinBasis[Self] = IF e.kind = "join" THEN e ELSE IF e.kind = "leave" THEN None
                                  ELSE c.joinBasis[Self]
           /\ n.latestPresence[Self] = IF e.kind \in Presence THEN e
                                       ELSE IF e.kind = "leave" THEN None
                                       ELSE c.latestPresence[Self]
  BY <1>0, AcceptEffect
<1>2. Sound(c, S, last, at) /\ HighWaterMark(c, Self) = HighWaterMark(l, Self)
  BY SoundExpire, ExpireKeeps
<1>3. Refreshed(l, at) => Refreshed(c, at)
  BY ExpireKeeps
<1>4. Self \notin Lapsed(l, at) => HasBasis(c, Self) = HasBasis(l, Self)
  BY ExpireKeeps
<1>5. c = ExpireIndexes(l, at)
  OBVIOUS
<1> HIDE DEF c
<1>6. Acceptable(c, e) => Refreshed(n, at)
  BY <1>0, <1>1 DEF Refreshed, HasBasis, LatestAt, Presence
<1>7. ~HasBasis(c, Self) => Cardinality(Tracked(c)) < MaxTrackedJoins
  <2>1. \A p \in Peers : HasBasis(c, p) => p = Self
    BY <1>2 DEF Sound, Own, Pointed, Within, LedgerOf, Logged, ToSet
  <2>2. ~HasBasis(c, Self) => Tracked(c) = {}
    BY <2>1 DEF Tracked
  <2>3. Cardinality({}) = 0 /\ MaxTrackedJoins \in Nat \ {0}
    BY FS_EmptySet, LimitsAssumption
  <2>4. 0 < MaxTrackedJoins
    BY <2>3
  <2>5. QED BY <2>2, <2>3, <2>4
<1>8. e.sequence > HighWaterMark(l, Self) /\ e.kind = "join" => Acceptable(c, e)
  BY <1>0, <1>2, <1>7 DEF Acceptable
<1>9. e.sequence > HighWaterMark(l, Self) /\ e.kind = "heartbeat" /\ HasBasis(l, Self)
        /\ Self \notin Lapsed(l, at) => Acceptable(c, e)
  BY <1>0, <1>2, <1>4 DEF Acceptable
<1>10. e.kind = "join" /\ Acceptable(c, e) => HasBasis(n, Self)
  BY <1>0, <1>1 DEF HasBasis
<1>11. e.kind = "heartbeat" /\ Acceptable(c, e) => HasBasis(n, Self)
  BY <1>0, <1>1 DEF HasBasis, Acceptable
<1>12. e.sequence > HighWaterMark(l, Self) /\ ~Acceptable(c, e) => Refreshed(c, at)
  BY <1>0, <1>2, <1>8 DEF Acceptable, Refreshed
<1>13. e.kind = "join" /\ HasBasis(l, Self) /\ Self \notin Lapsed(l, at) => HasBasis(n, Self)
  BY <1>1, <1>4, <1>10
<1>14. QED BY <1>1, <1>3, <1>5, <1>6, <1>8, <1>9, <1>10, <1>11, <1>12, <1>13

-----------------------------------------------------------------------------
(* The events that the node has: those logged, and the joins being mined      *)
MiningCallers == { c \in Callers : calls[c].pc = "mine" }
Known == Logged(ledger) \cup { calls[c].event : c \in MiningCallers }

Recorded ==
    /\ Sound(ledger, Known, localSequence, now)
    /\ MiningCallers \subseteq {"user", "heartbeat"}
    /\ \A c \in MiningCallers :
         /\ calls[c].event.kind = "join" /\ calls[c].event.issuedAt = now
         /\ calls[c].event \notin Logged(ledger)

(* None is mistaken for no event of this node.                                *)
NoneIsNoEvent ==
    \A s, i, k, j, claim :
        None # [origin |-> Self, sequence |-> s, issuedAt |-> i, kind |-> k,
                joinedAt |-> j, claim |-> claim]

(* What a new event is. *)
LEMMA NewEventFields ==
    ASSUME NoneIsNoEvent, Underway, NEW kind, NEW claim, NEW e, e = NewEvent(kind, claim)
    PROVE  /\ EventLike(e) /\ e # None /\ e.origin = Self /\ e.kind = kind
           /\ e.sequence = NextSequence /\ e.sequence > localSequence /\ e.issuedAt = now
<1>1. now \in Nat /\ localSequence \in Nat /\ Self \in Peers
  BY NodeAssumption DEF Underway
<1>2. NextSequence \in Nat /\ NextSequence > localSequence
  BY <1>1, NextSequenceAbove
<1>3. /\ e.origin = Self /\ e.kind = kind /\ e.sequence = NextSequence /\ e.issuedAt = now
      /\ e.joinedAt = now
  BY DEF NewEvent
<1>4. e # None
  BY DEF NewEvent, NoneIsNoEvent
<1>5. QED BY <1>1, <1>2, <1>3, <1>4 DEF EventLike

(* The node looks at its ledger; a call that was being published may end.     *)
LEMMA RecordedLooks ==
    ASSUME Recorded, now' = now, localSequence' = localSequence,
           ledger' = ledger \/ ledger' = ExpireIndexes(ledger, now),
           \A c \in Callers : calls'[c].pc = "mine" => calls'[c] = calls[c]
    PROVE  Recorded'
<1>1. Sound(ledger', Known, localSequence, now) /\ Logged(ledger') = Logged(ledger)
  BY SoundExpire, ExpireKeeps DEF Recorded
<1>2. MiningCallers' \subseteq MiningCallers /\ \A c \in MiningCallers' : calls'[c] = calls[c]
  BY DEF MiningCallers
<1>3. Known' \subseteq Known /\ Logged(ledger') \subseteq Known'
  BY <1>1, <1>2 DEF Known
<1>4. Sound(ledger', Known', localSequence', now')
  BY <1>1, <1>3, SoundShrinks
<1>5. QED BY <1>1, <1>2, <1>4 DEF Recorded

(* An event of its own is handed to its ledger.                               *)
LEMMA RecordedTakes ==
    ASSUME Recorded, now' = now,
           NEW current, Logged(current) = Logged(ledger),
           NEW S, Known \subseteq S, NEW e \in S, Sound(current, S, localSequence', now),
           e.kind # "sync", e \notin Logged(ledger), ledger' = Accept(current, e),
           \A c \in Callers : calls'[c].pc = "mine" => calls'[c] = calls[c] /\ calls[c].event # e
    PROVE  Recorded'
<1>1. Sound(ledger', S, localSequence', now)
  BY SoundAccept
<1>2. Logged(ledger') \subseteq Logged(ledger) \cup {e}
  BY AcceptEffect DEF Sound, Own
<1>3. Logged(ledger') \subseteq S
  BY <1>2 DEF Known
<1>4. MiningCallers' \subseteq MiningCallers
      /\ \A c \in MiningCallers' : calls'[c] = calls[c] /\ calls[c].event # e
  BY DEF MiningCallers
<1>5. Known' \subseteq S /\ Logged(ledger') \subseteq Known'
  BY <1>3, <1>4 DEF Known
<1>6. Sound(ledger', Known', localSequence', now')
  BY <1>1, <1>5, SoundShrinks
<1>7. QED BY <1>2, <1>4, <1>6 DEF Recorded

(* A new event that takes no mining.                                          *)
LEMMA RecordedSigns ==
    ASSUME NoneIsNoEvent, Underway, Recorded, now' = now,
           NEW kind, NEW claim, kind # "sync",
           localSequence' = NewEvent(kind, claim).sequence,
           NEW current, current = ledger \/ current = ExpireIndexes(ledger, now),
           ledger' = Accept(current, NewEvent(kind, claim)),
           \A c \in Callers : calls'[c].pc = "mine" => calls'[c] = calls[c]
    PROVE  Recorded'
<1>1. PICK e : e = NewEvent(kind, claim)
  OBVIOUS
<1>2. Sound(current, Known, localSequence, now) /\ Logged(current) = Logged(ledger)
  BY SoundExpire, ExpireKeeps DEF Recorded
<1>3. /\ EventLike(e) /\ e # None /\ e.origin = Self /\ e.kind = kind
      /\ e.sequence > localSequence /\ e.issuedAt = now
  BY <1>1, NewEventFields
<1>4. Sound(current, Known \cup {e}, e.sequence, now) /\ e \notin Known
  BY <1>2, <1>3, SoundSigns
<1>5. \A c \in Callers : calls'[c].pc = "mine" => calls[c].event # e
  BY <1>4 DEF Known, MiningCallers
<1>6. e \notin Logged(ledger) /\ Known \subseteq Known \cup {e} /\ e \in Known \cup {e}
  BY <1>4 DEF Known
<1>7. localSequence' = e.sequence /\ ledger' = Accept(current, e)
  BY <1>1
<1>8. QED BY <1>2, <1>3, <1>4, <1>5, <1>6, <1>7, RecordedTakes

(* A new join that has to be mined first.                                     *)
LEMMA RecordedMines ==
    ASSUME NoneIsNoEvent, Underway, Recorded, now' = now,
           NEW claim, NEW c \in {"user", "heartbeat"},
           localSequence' = NewEvent("join", claim).sequence,
           ledger' = ExpireIndexes(ledger, now),
           calls' = [calls EXCEPT ![c] = Call("join", "mine", NewEvent("join", claim))]
    PROVE  Recorded'
<1>0. c \in Callers
  BY DEF Callers
<1>1. PICK e : e = NewEvent("join", claim)
  OBVIOUS
<1>2. Sound(ledger', Known, localSequence, now) /\ Logged(ledger') = Logged(ledger)
  BY SoundExpire, ExpireKeeps DEF Recorded
<1>3. /\ EventLike(e) /\ e # None /\ e.origin = Self /\ e.kind = "join"
      /\ e.sequence > localSequence /\ e.issuedAt = now
  BY <1>1, NewEventFields
<1>4. Sound(ledger', Known \cup {e}, e.sequence, now) /\ e \notin Known
  BY <1>2, <1>3, SoundSigns
<1>5. \A d \in Callers : calls'[d] = IF d = c THEN Call("join", "mine", e) ELSE calls[d]
  BY <1>0, <1>1 DEF Underway
<1>6. calls'[c].event = e /\ calls'[c].pc = "mine"
  BY <1>0, <1>5 DEF Call
<1>7. \A d \in MiningCallers' : (d = c /\ calls'[d].event = e) \/ (d \in MiningCallers /\ calls'[d] = calls[d])
  BY <1>5, <1>6 DEF MiningCallers
<1>8. Known' \subseteq Known \cup {e} /\ Logged(ledger') \subseteq Known'
  BY <1>2, <1>7 DEF Known
<1>9. Sound(ledger', Known', localSequence', now')
  BY <1>1, <1>4, <1>8, SoundShrinks
<1>10. e \notin Logged(ledger')
  BY <1>2, <1>4 DEF Known
<1>11. QED BY <1>2, <1>3, <1>7, <1>9, <1>10 DEF Recorded

(* The join of a caller is mined.                                             *)
LEMMA RecordedMined ==
    ASSUME Underway, Recorded, now' = now, localSequence' = localSequence,
           NEW c \in MiningCallers, ledger' = Accept(ledger, calls[c].event),
           \A d \in Callers : calls'[d].pc = "mine" => d # c /\ calls'[d] = calls[d]
    PROVE  Recorded'
<1>1. PICK e : e = calls[c].event
  OBVIOUS
<1>2. c \in Callers /\ calls[c].pc = "mine" /\ e \in Known /\ e.kind = "join" /\ e \notin Logged(ledger)
  BY <1>1 DEF Recorded, Known, MiningCallers
<1>3. ASSUME NEW d \in Callers, calls'[d].pc = "mine"
      PROVE  calls'[d] = calls[d] /\ calls[d].event # e
  <2>1. calls'[d] = calls[d] /\ d # c
    BY <1>3
  <2>2. ~Idle(c) /\ ~Idle(d)
    BY <1>2, <1>3, <2>1 DEF Underway, Idle
  <2>3. QED BY <1>1, <1>2, <2>1, <2>2 DEF Underway
<1>4. Sound(ledger, Known, localSequence', now)
  BY DEF Recorded
<1>5. QED BY <1>1, <1>2, <1>3, <1>4, RecordedTakes

(* Publishing mines nothing, and no more does a call that ends.               *)
LEMMA PublishingMinesNothing ==
    ASSUME Underway, NEW c \in Callers, NEW op, NEW e,
           Publishing(c, op, e) \/ calls' = [calls EXCEPT ![c] = NoCall]
    PROVE  /\ \A d \in Callers : calls'[d].pc = "mine" => d # c /\ calls'[d] = calls[d]
           /\ \A d \in Callers : d # c => calls'[d] = calls[d]
           /\ calls'[c] = NoCall \/ calls'[c] = Call(op, "publish", e)
<1>1. \A d \in Callers : d # c => calls'[d] = calls[d]
  BY DEF Underway, Publishing
<1>2. calls'[c] = NoCall \/ calls'[c] = Call(op, "publish", e)
  BY DEF Underway, Publishing
<1>3. calls'[c].pc # "mine"
  BY <1>2 DEF NoCall, Call
<1>4. QED BY <1>1, <1>2, <1>3

(* joinHall records a heartbeat, or leaves a join to be mined. *)
LEMMA JoinRecorded ==
    ASSUME NoneIsNoEvent, Underway, Recorded, NEW c \in {"user", "heartbeat"}, NEW beat,
           JoinBegins(c, beat) \/ JoinRefused(c)
    PROVE  Recorded'
<1> USE DEF world
<1>0. c \in Callers
  BY DEF Callers
<1>1. CASE JoinRefused(c)
  <2>1. /\ ledger' = ledger /\ calls' = calls /\ localSequence' = localSequence /\ now' = now
    BY <1>1 DEF JoinRefused
  <2>2. QED BY <2>1, RecordedLooks
<1>2. CASE JoinBegins(c, beat)
  <2> DEFINE kind == PresenceActionFor(present /\ Here(Logged(ledger), now))
             event == NewEvent(kind, None)
             current == ExpireIndexes(ledger, now)
  <2>1. /\ now' = now /\ localSequence' = event.sequence
        /\ IF event.kind = "join"
           THEN ledger' = current /\ calls' = [calls EXCEPT ![c] = Call("join", "mine", event)]
           ELSE ledger' = Accept(current, event) /\ Publishing(c, "join", event)
    BY <1>2 DEF JoinBegins
  <2>2. event.kind = kind /\ kind \in {"join", "heartbeat"}
    BY DEF NewEvent, PresenceActionFor
  <2>3. CASE kind = "join"
    <3> HIDE DEF kind
    <3>1. QED BY <2>1, <2>2, <2>3, RecordedMines
  <2>4. CASE kind = "heartbeat"
    <3>1. \A d \in Callers : calls'[d].pc = "mine" => calls'[d] = calls[d]
      BY <1>0, <2>1, <2>2, <2>4, PublishingMinesNothing
    <3>2. kind # "sync" /\ ledger' = Accept(current, event)
      BY <2>1, <2>2, <2>4
    <3> HIDE DEF kind
    <3>3. QED BY <2>1, <3>1, <3>2, RecordedSigns
  <2>5. QED BY <2>2, <2>3, <2>4
<1>3. QED BY <1>1, <1>2

(* leaveHall records a leave. *)
LEMMA LeaveRecorded ==
    ASSUME NoneIsNoEvent, Underway, Recorded, NEW c \in Callers, NEW op, LeaveBegins(c, op),
           now' = now
    PROVE  Recorded'
<1>1. /\ localSequence' = NewEvent("leave", None).sequence
      /\ ledger' = Accept(ledger, NewEvent("leave", None))
      /\ Publishing(c, op, NewEvent("leave", None))
  BY DEF LeaveBegins
<1>2. \A d \in Callers : calls'[d].pc = "mine" => calls'[d] = calls[d]
  BY <1>1, PublishingMinesNothing
<1>3. QED BY <1>1, <1>2, RecordedSigns

(* Every step keeps the record, whatever is said or published.                *)
LEMMA RecordedInvariant ==
    ASSUME NoneIsNoEvent, Underway, Recorded, [Next]_vars
    PROVE  Recorded'
<1> USE DEF lifecycle, presence, budget, world
<1>1. CASE UNCHANGED vars
  <2>1. ledger' = ledger /\ calls' = calls /\ localSequence' = localSequence /\ now' = now
    BY <1>1 DEF vars
  <2>2. QED BY <2>1, RecordedLooks
<1>2. CASE KeysLoaded \/ StartFails \/ Created \/ TransportsUp \/ LinkChanges
  <2>1. ledger' = ledger /\ calls' = calls /\ localSequence' = localSequence /\ now' = now
    BY <1>2 DEF KeysLoaded, StartFails, Created, TransportsUp, LinkChanges
  <2>2. QED BY <2>1, RecordedLooks
<1>3. CASE UserJoin
  BY <1>3, JoinRecorded DEF UserJoin, Callers
<1>4. CASE UserLeave
  <2>1. CASE present
    BY <1>4, <2>1, LeaveRecorded DEF UserLeave, Callers
  <2>2. CASE ~present
    <3>1. /\ ledger' = ExpireIndexes(ledger, now) /\ calls' = calls
          /\ localSequence' = localSequence /\ now' = now
      BY <1>4, <2>2 DEF UserLeave
    <3>2. QED BY <3>1, RecordedLooks
  <2>3. QED BY <2>1, <2>2
<1>5. CASE Beat
  <2>1. CASE present /\ node
    BY <1>5, <2>1, JoinRecorded DEF Beat, Callers
  <2>2. CASE ~(present /\ node)
    <3>1. ledger' = ledger /\ calls' = calls /\ localSequence' = localSequence /\ now' = now
      BY <1>5, <2>2 DEF Beat
    <3>2. QED BY <3>1, RecordedLooks
  <2>3. QED BY <2>1, <2>2
<1>6. CASE Say
  <2>1. /\ now' = now /\ localSequence' = NewEvent("chat", None).sequence
        /\ ledger' = Accept(ExpireIndexes(ledger, now), NewEvent("chat", None))
        /\ Publishing("user", "say", NewEvent("chat", None)) \/ calls' = calls
    BY <1>6 DEF Say
  <2>2. \A d \in Callers : calls'[d].pc = "mine" => calls'[d] = calls[d]
    BY <2>1, PublishingMinesNothing DEF Callers
  <2>3. QED BY <2>1, <2>2, RecordedSigns
<1>7. CASE Checkpoint
  <2> DEFINE claim == CheckpointPayload(Logged(ledger), now)
  <2>1. /\ now' = now /\ localSequence' = NewEvent("checkpoint", claim).sequence
        /\ ledger' = Accept(ledger, NewEvent("checkpoint", claim))
        /\ Publishing("steward", "say", NewEvent("checkpoint", claim))
    BY <1>7 DEF Checkpoint
  <2> HIDE DEF claim
  <2>2. \A d \in Callers : calls'[d].pc = "mine" => calls'[d] = calls[d]
    BY <2>1, PublishingMinesNothing DEF Callers
  <2>3. QED BY <2>1, <2>2, RecordedSigns
<1>8. ASSUME NEW c \in Callers, Mined(c) PROVE Recorded'
  <2>1. /\ now' = now /\ localSequence' = localSequence /\ c \in MiningCallers
        /\ ledger' = Accept(ledger, calls[c].event) /\ Publishing(c, "join", calls[c].event)
    BY <1>8 DEF Mined, MiningCallers
  <2>2. \A d \in Callers : calls'[d].pc = "mine" => d # c /\ calls'[d] = calls[d]
    BY <2>1, PublishingMinesNothing
  <2>3. QED BY <2>1, <2>2, RecordedMined
<1>9. ASSUME NEW c \in Callers, Joined(c) \/ Left(c) \/ Said(c) \/ PublishFails(c) PROVE Recorded'
  <2>1. /\ calls' = [calls EXCEPT ![c] = NoCall] /\ now' = now /\ localSequence' = localSequence
        /\ ledger' = ledger \/ ledger' = ExpireIndexes(ledger, now)
    BY <1>9 DEF Joined, Left, Said, PublishFails
  <2>2. \A d \in Callers : calls'[d].pc = "mine" => calls'[d] = calls[d]
    BY <2>1, PublishingMinesNothing
  <2>3. QED BY <2>1, <2>2, RecordedLooks
<1>10. CASE Dispose
  <2>1. CASE node /\ present
    BY <1>10, <2>1, LeaveRecorded DEF Dispose, Callers
  <2>2. CASE ~(node /\ present)
    <3>1. /\ ledger' = ledger \/ ledger' = ExpireIndexes(ledger, now)
          /\ calls' = calls /\ localSequence' = localSequence /\ now' = now
      BY <1>10, <2>2 DEF Dispose
    <3>2. QED BY <3>1, RecordedLooks
  <2>3. QED BY <2>1, <2>2
<1>11. CASE Stopped
  <2>1. /\ calls' = [calls EXCEPT !["stop"] = NoCall] /\ now' = now
        /\ localSequence' = localSequence /\ ledger' = ExpireIndexes(ledger, now)
    BY <1>11 DEF Stopped
  <2>2. \A d \in Callers : calls'[d].pc = "mine" => calls'[d] = calls[d]
    BY <2>1, PublishingMinesNothing DEF Callers
  <2>3. QED BY <2>1, <2>2, RecordedLooks
<1>12. CASE Tick
  <2>1. /\ calls' = calls /\ ledger' = ledger /\ localSequence' = localSequence /\ now' = now + 1
        /\ Settled
    BY <1>12 DEF Tick
  <2>2. MiningCallers = {} /\ MiningCallers' = {}
    BY <2>1 DEF MiningCallers, Settled, Idle, Underway
  <2>3. Known' = Known
    BY <2>1 DEF Known, MiningCallers
  <2>4. Sound(ledger', Known', localSequence', now')
    BY <2>1, <2>3, SoundLater DEF Recorded
  <2>5. QED BY <2>2, <2>4 DEF Recorded
<1>13. QED
  BY <1>1, <1>2, <1>3, <1>4, <1>5, <1>6, <1>7, <1>8, <1>9, <1>10, <1>11, <1>12 DEF Next

-----------------------------------------------------------------------------
(* The invariant behind PresenceKept.  A join that is being mined and has a    *)
(* higher sequence than all that was accepted will renew the presence; one   *)
(* that was overtaken will be refused, but what overtook it was a join or a   *)
(* heartbeat of the same moment, or a leave: unless the node talks.           *)
Ahead(c) == calls[c].pc = "mine" /\ calls[c].event.sequence > HighWaterMark(ledger, Self)

Renewing ==
    /\ \A c \in Callers : calls[c].pc = "mine" /\ ~Ahead(c) => Refreshed(ledger, now)
    /\ \A c \in Callers : calls[c].pc = "publish" /\ calls[c].op = "join"
            => Refreshed(ledger, now)
    /\ nextBeat # None => nextBeat <= now + PresenceHeartbeatMs
    /\ node /\ present /\ nextBeat # None =>
         /\ HasBasis(ledger, Self) /\ now <= LatestAt(ledger) + PresenceTtlMs
         /\ \/ nextBeat <= LatestAt(ledger) + PresenceHeartbeatMs
            \/ \E c \in Callers : Ahead(c)

(* The presence has just been renewed, or there is none.                      *)
LEMMA RenewingRefreshed ==
    ASSUME now \in Nat, now' = now, Refreshed(ledger', now),
           nextBeat' # None => nextBeat' <= now + PresenceHeartbeatMs,
           node' /\ present' /\ nextBeat' # None => HasBasis(ledger', Self)
    PROVE  Renewing'
<1>1. PresenceTtlMs \in Nat
  BY RulesAssumption
<1>2. HasBasis(ledger', Self) => LatestAt(ledger') = now /\ now <= now + PresenceTtlMs
  BY <1>1 DEF Refreshed
<1>3. QED BY <1>2 DEF Renewing, Refreshed

(* The node looks at its ledger; no call begins that joins.                   *)
LEMMA RenewingLooks ==
    ASSUME Recorded, Renewing, now' = now,
           ledger' = ledger \/ ledger' = ExpireIndexes(ledger, now),
           \A c \in Callers : calls'[c].pc = "mine" <=> calls[c].pc = "mine",
           \A c \in Callers : calls'[c].pc = "mine" => calls'[c] = calls[c],
           \A c \in Callers : calls'[c].pc = "publish" /\ calls'[c].op = "join"
                => calls'[c] = calls[c],
           nextBeat' # None => nextBeat' <= now + PresenceHeartbeatMs,
           node' /\ present' /\ nextBeat' # None => node /\ present /\ nextBeat' = nextBeat
    PROVE  Renewing'
<1>1. /\ HighWaterMark(ledger', Self) = HighWaterMark(ledger, Self)
      /\ Self \notin Lapsed(ledger, now) => HasBasis(ledger', Self) = HasBasis(ledger, Self)
      /\ HasBasis(ledger', Self) => LatestAt(ledger') = LatestAt(ledger)
      /\ Refreshed(ledger, now) => Refreshed(ledger', now)
  BY ExpireKeeps DEF Recorded
<1>2. \A c \in Callers : Ahead(c)' = Ahead(c)
  BY <1>1 DEF Ahead
<1>3. HasBasis(ledger, Self) /\ now <= LatestAt(ledger) + PresenceTtlMs
         => Self \notin Lapsed(ledger, now)
  BY YoungIsLive DEF Recorded
<1>4. ASSUME node', present', nextBeat' # None
      PROVE  /\ HasBasis(ledger', Self) /\ now <= LatestAt(ledger') + PresenceTtlMs
             /\ \/ nextBeat' <= LatestAt(ledger') + PresenceHeartbeatMs
                \/ \E c \in Callers : Ahead(c)'
  BY <1>1, <1>2, <1>3, <1>4 DEF Renewing
<1>5. QED BY <1>1, <1>2, <1>4 DEF Renewing

(* An event of the node that is no message and no checkpoint: refused, it     *)
(* leaves an expired ledger, and accepted it renews the presence or ends it.  *)
LEMMA RenewingTakes ==
    ASSUME Recorded, Renewing, now \in Nat, now' = now,
           NEW S, NEW last, Sound(ledger, S, last, now),
           NEW e \in S, e \notin Logged(ledger), e.kind = "leave", e.issuedAt = now,
           ledger' = Accept(ledger, e),
           \A c \in Callers : calls'[c].pc = "mine" <=> calls[c].pc = "mine",
           \A c \in Callers : calls'[c].pc = "mine" => calls'[c] = calls[c],
           \A c \in Callers : calls'[c].pc = "publish" /\ calls'[c].op = "join"
                => calls'[c] = calls[c],
           nextBeat' # None => nextBeat' <= now + PresenceHeartbeatMs,
           ~present'
    PROVE  Renewing'
<1>1. ledger' = ExpireIndexes(ledger, now) \/ Refreshed(ledger', now)
  BY OwnAccepted
<1>2. CASE ledger' = ExpireIndexes(ledger, now)
  BY <1>2, RenewingLooks
<1>3. CASE Refreshed(ledger', now)
  BY <1>3, RenewingRefreshed
<1>4. QED BY <1>1, <1>2, <1>3

(* leaveHall ends the presence. *)
LEMMA LeaveRenewing ==
    ASSUME NoneIsNoEvent, Underway, Recorded, Renewing, NEW c \in Callers,
           calls[c].pc # "mine",
           NEW op \in {"leave", "stop"}, LeaveBegins(c, op), now' = now
    PROVE  Renewing'
<1>1. PICK e : e = NewEvent("leave", None)
  OBVIOUS
<1>2. /\ ledger' = Accept(ledger, e) /\ Publishing(c, op, e)
      /\ present' = FALSE /\ nextBeat' = nextBeat
  BY <1>1 DEF LeaveBegins
<1>3. /\ EventLike(e) /\ e # None /\ e.origin = Self /\ e.kind = "leave"
      /\ e.sequence > localSequence /\ e.issuedAt = now /\ now \in Nat
  BY <1>1, NewEventFields DEF Underway
<1>4. Sound(ledger, Known \cup {e}, e.sequence, now) /\ e \notin Known
  BY <1>3, SoundSigns DEF Recorded
<1>5. e \notin Logged(ledger) /\ e \in Known \cup {e}
  BY <1>4 DEF Known
<1>6. /\ \A d \in Callers : calls'[d].pc = "mine" => d # c /\ calls'[d] = calls[d]
      /\ \A d \in Callers : d # c => calls'[d] = calls[d]
      /\ calls'[c] = NoCall \/ calls'[c] = Call(op, "publish", e)
  BY <1>2, PublishingMinesNothing
<1>8. calls'[c].op # "join"
  BY <1>6 DEF NoCall, Call
<1>9. \A d \in Callers : calls'[d].pc = "publish" /\ calls'[d].op = "join" => calls'[d] = calls[d]
  BY <1>6, <1>8
<1>10. \A d \in Callers : calls'[d].pc = "mine" <=> calls[d].pc = "mine"
  BY <1>6
<1>11. nextBeat' # None => nextBeat' <= now + PresenceHeartbeatMs
  BY <1>2 DEF Renewing
<1>12. QED BY <1>2, <1>3, <1>4, <1>5, <1>6, <1>9, <1>10, <1>11, RenewingTakes

(* joinHall begins. *)
LEMMA JoinRenewing ==
    ASSUME NoneIsNoEvent, Underway, Recorded, Renewing, NEW c \in Callers,
           NEW beat, beat # None => beat <= now + PresenceHeartbeatMs,
           JoinBegins(c, beat) \/ JoinRefused(c)
    PROVE  Renewing'
<1> USE DEF world, lifecycle
<1>1. CASE JoinRefused(c)
  <2>1. /\ ledger' = ledger /\ calls' = calls /\ now' = now
        /\ present' = FALSE /\ nextBeat' = None
    BY <1>1 DEF JoinRefused, ClearLocalPresence
  <2>2. QED BY <2>1, RenewingLooks
<1>2. CASE JoinBegins(c, beat)
  <2> DEFINE member == Here(Logged(ledger), now)
             kind == PresenceActionFor(present /\ member)
             current == ExpireIndexes(ledger, now)
  <2>1. PICK e : e = NewEvent(kind, None)
    OBVIOUS
  <2>2. /\ now' = now /\ now \in Nat
        /\ nextBeat' = IF member THEN beat ELSE None
        /\ IF e.kind = "join"
           THEN ledger' = current /\ calls' = [calls EXCEPT ![c] = Call("join", "mine", e)]
           ELSE ledger' = Accept(current, e) /\ Publishing(c, "join", e)
    BY <1>2, <2>1 DEF JoinBegins, Underway
  <2>3. /\ EventLike(e) /\ e # None /\ e.origin = Self /\ e.kind = kind
        /\ e.sequence > localSequence /\ e.issuedAt = now
    BY <2>1, NewEventFields
  <2>4. kind = "join" \/ (kind = "heartbeat" /\ member)
    BY DEF PresenceActionFor
  <2>5. /\ Sound(current, Known, localSequence, now) /\ Logged(current) = Logged(ledger)
        /\ HighWaterMark(current, Self) = HighWaterMark(ledger, Self)
        /\ Self \notin Lapsed(ledger, now) => HasBasis(current, Self) = HasBasis(ledger, Self)
        /\ HasBasis(current, Self) => LatestAt(current) = LatestAt(ledger)
        /\ Refreshed(ledger, now) => Refreshed(current, now)
    BY SoundExpire, ExpireKeeps DEF Recorded
  <2>6. member => /\ HasBasis(current, Self) /\ Self \notin Lapsed(current, now)
                  /\ now <= LatestAt(current) + PresenceTtlMs
    BY <2>5, HereIsIndexed, YoungIsLive
  <2>7. HighWaterMark(current, Self) \in Nat /\ HighWaterMark(current, Self) <= localSequence
        /\ localSequence \in Nat /\ e.sequence \in Nat
    BY <2>3, <2>5, OwnHighWaterMark DEF Underway, EventLike
  <2>8. e.sequence > HighWaterMark(current, Self)
    BY <2>3, <2>7
  <2>9. nextBeat' # None => nextBeat' <= now + PresenceHeartbeatMs /\ member
    BY <2>2
  <2> HIDE DEF member, current
  <2>10. CASE kind = "join"
    <3>0. e.kind = "join"
      BY <2>3, <2>10
    <3> HIDE DEF kind
    <3>1. \A d \in Callers : calls'[d] = IF d = c THEN Call("join", "mine", e) ELSE calls[d]
      BY <2>2, <3>0 DEF Underway
    <3>2. ledger' = current /\ calls'[c].event = e /\ calls'[c].pc = "mine"
      BY <2>2, <3>0, <3>1 DEF Call
    <3>3. Ahead(c)'
      BY <2>8, <3>2 DEF Ahead
    <3>4. \A d \in Callers \ {c} : Ahead(d)' = Ahead(d) /\ calls'[d] = calls[d]
      BY <2>5, <3>1, <3>2 DEF Ahead
    <3>5. \A d \in Callers : calls'[d].pc = "mine" /\ ~Ahead(d)' => Refreshed(ledger', now)
      BY <2>5, <3>2, <3>3, <3>4 DEF Renewing
    <3>6. \A d \in Callers : calls'[d].pc = "publish" /\ calls'[d].op = "join"
             => Refreshed(ledger', now)
      BY <2>5, <3>2, <3>4 DEF Renewing
    <3>7. QED BY <2>2, <2>6, <2>9, <3>2, <3>3, <3>5, <3>6 DEF Renewing
  <2>11. CASE kind = "heartbeat" /\ member
    <3>0. e.kind = "heartbeat"
      BY <2>3, <2>11
    <3>1. Sound(current, Known \cup {e}, e.sequence, now) /\ e \notin Known
      BY <2>3, <2>5, SoundSigns
    <3>2. e \in Known \cup {e} /\ e \notin Logged(current)
      BY <2>5, <3>1 DEF Known
    <3>3. ledger' = Accept(current, e)
      BY <2>2, <3>0
    <3>4. Refreshed(ledger', now) /\ HasBasis(ledger', Self)
      BY <2>3, <2>6, <2>8, <2>11, <3>0, <3>1, <3>2, <3>3, OwnAccepted
    <3>5. QED BY <2>2, <2>9, <3>4, RenewingRefreshed
  <2>12. QED BY <2>4, <2>10, <2>11
<1>3. QED BY <1>1, <1>2

(* The join is mined: it renews the presence, or what overtook it did.        *)
LEMMA MinedRenewing ==
    ASSUME Underway, Recorded, Renewing, NEW c \in Callers, Mined(c)
    PROVE  Renewing'
<1> USE DEF world, lifecycle, presence
<1>1. PICK e : e = calls[c].event
  OBVIOUS
<1>2. /\ calls[c].pc = "mine" /\ ledger' = Accept(ledger, e) /\ now' = now /\ now \in Nat
      /\ nextBeat' = nextBeat /\ present' = present /\ node' = node
  BY <1>1 DEF Mined, Underway
<1>3. /\ e \in Known /\ e.kind = "join" /\ e.issuedAt = now /\ e \notin Logged(ledger)
  BY <1>1, <1>2 DEF Recorded, Known, MiningCallers
<1>4. Sound(ledger, Known, localSequence, now)
  BY DEF Recorded
<1>5. Refreshed(ledger', now)
  <2>1. CASE Ahead(c)
    <3>1. e.sequence > HighWaterMark(ledger, Self)
      BY <1>1, <2>1 DEF Ahead
    <3>2. QED BY <1>2, <1>3, <1>4, <3>1, OwnAccepted
  <2>2. CASE ~Ahead(c)
    <3>1. Refreshed(ledger, now)
      BY <1>2, <2>2 DEF Renewing
    <3>2. QED BY <1>2, <1>3, <1>4, <3>1, OwnAccepted
  <2>3. QED BY <2>1, <2>2
<1>6. HasBasis(ledger', Self) \/ ~(node /\ present /\ nextBeat # None)
  <2> SUFFICES ASSUME node, present, nextBeat # None PROVE HasBasis(ledger', Self)
    OBVIOUS
  <2>1. CASE Ahead(c)
    <3>1. e.sequence > HighWaterMark(ledger, Self)
      BY <1>1, <2>1 DEF Ahead
    <3>2. QED BY <1>2, <1>3, <1>4, <3>1, OwnAccepted
  <2>2. CASE ~Ahead(c)
    <3>1. HasBasis(ledger, Self) /\ now <= LatestAt(ledger) + PresenceTtlMs
      BY DEF Renewing
    <3>2. Self \notin Lapsed(ledger, now)
      BY <1>4, <3>1, YoungIsLive
    <3>3. QED BY <1>2, <1>3, <1>4, <3>1, <3>2, OwnAccepted
  <2>3. QED BY <2>1, <2>2
<1>7. nextBeat' # None => nextBeat' <= now + PresenceHeartbeatMs
  BY <1>2 DEF Renewing
<1>8. QED BY <1>2, <1>5, <1>6, <1>7, RenewingRefreshed

(* The rest of joinHall sees what was renewed.                                *)
LEMMA JoinedRenewing ==
    ASSUME Underway, Typed, Recorded, Renewing, NEW c \in Callers, Joined(c)
    PROVE  Renewing'
<1> USE DEF world, lifecycle
<1>1. /\ calls[c].pc = "publish" /\ calls[c].op = "join"
      /\ ledger' = ExpireIndexes(ledger, now) /\ now' = now /\ now \in Nat
  BY DEF Joined, Publishes, Underway
<1>2. /\ Refreshed(ledger', now)
      /\ Self \notin Lapsed(ledger, now) => HasBasis(ledger', Self) = HasBasis(ledger, Self)
  BY <1>1, ExpireKeeps DEF Renewing, Recorded
<1>3. CASE Here(Logged(ledger), now)
  <2>1. HasBasis(ledger', Self)
    BY <1>2, <1>3, HereIsIndexed DEF Recorded
  <2>2. nextBeat' = IF nextBeat = None THEN NextFiring(now) ELSE nextBeat
    BY <1>3 DEF Joined
  <2>3. NextFiring(now) <= now + PresenceHeartbeatMs
    BY <1>1, NodeAssumption DEF NextFiring
  <2>4. nextBeat' # None => nextBeat' <= now + PresenceHeartbeatMs
    BY <2>2, <2>3 DEF Renewing
  <2>5. QED BY <1>1, <1>2, <2>1, <2>4, RenewingRefreshed
<1>4. CASE ~Here(Logged(ledger), now)
  <2>1. nextBeat' = None
    BY <1>4 DEF Joined, ClearLocalPresence
  <2>2. QED BY <1>1, <1>2, <2>1, RenewingRefreshed
<1>5. QED BY <1>3, <1>4

(* A tick takes place with no call under way, and before the heartbeat is due. *)
LEMMA TickRenewing ==
    ASSUME PresenceHeartbeatMs <= PresenceTtlMs, Underway, Typed, Recorded, Renewing, Tick
    PROVE  Renewing'
<1> USE DEF lifecycle, presence
<1>0. /\ now \in Nat /\ now' = now + 1 /\ Settled /\ calls' = calls /\ ledger' = ledger
      /\ nextBeat' = nextBeat /\ present' = present /\ node' = node
      /\ nextBeat # None => now < nextBeat /\ nextBeat \in Nat
      /\ PresenceHeartbeatMs \in Nat /\ PresenceTtlMs \in Nat
  BY NodeAssumption, RulesAssumption DEF Tick, Underway, Typed
<1>1. \A c \in Callers : calls[c].pc \notin {"mine", "publish"} \/ calls[c].op = "none"
  BY <1>0 DEF Settled, Idle
<1>2. \A c \in Callers : calls[c].pc # "mine"
  BY <1>1 DEF Underway
<1>3. \A c \in Callers : ~(calls[c].pc = "publish" /\ calls[c].op = "join")
  BY <1>0 DEF Settled, Idle
<1>4. nextBeat' # None => nextBeat' <= now' + PresenceHeartbeatMs
  <2>1. nextBeat # None => nextBeat \in Nat /\ nextBeat <= now + PresenceHeartbeatMs
    BY <1>0 DEF Renewing
  <2>2. QED BY <1>0, <2>1
<1>5. ASSUME node', present', nextBeat' # None
      PROVE  /\ HasBasis(ledger', Self) /\ now' <= LatestAt(ledger') + PresenceTtlMs
             /\ nextBeat' <= LatestAt(ledger') + PresenceHeartbeatMs
  <2>1. /\ HasBasis(ledger, Self)
        /\ nextBeat <= LatestAt(ledger) + PresenceHeartbeatMs
    BY <1>0, <1>2, <1>5 DEF Renewing, Ahead
  <2>2. LatestAt(ledger) \in Nat
    BY <2>1, YoungIsLive DEF Recorded
  <2>3. now + 1 <= LatestAt(ledger) + PresenceTtlMs
    <3> DEFINE latest == LatestAt(ledger)
    <3>1. now < nextBeat /\ nextBeat <= latest + PresenceHeartbeatMs /\ latest \in Nat
          /\ nextBeat \in Nat
      BY <1>0, <1>5, <2>1, <2>2
    <3> HIDE DEF latest
    <3>2. now + 1 <= latest + PresenceTtlMs
      BY <1>0, <3>1
    <3>3. QED BY <3>2 DEF latest
  <2>4. QED BY <1>0, <2>1, <2>3
<1>6. \A c \in Callers : calls'[c].pc # "mine"
                         /\ ~(calls'[c].pc = "publish" /\ calls'[c].op = "join")
  BY <1>0, <1>2, <1>3
<1>7. QED BY <1>4, <1>5, <1>6 DEF Renewing

(* Every step of a node that says nothing keeps it.                           *)
LEMMA RenewingInvariant ==
    ASSUME NoneIsNoEvent, PresenceHeartbeatMs <= PresenceTtlMs,
           Underway, Typed, Reachable, Recorded, Renewing, [Next]_vars,
           talk \in Nat, talk' = talk
    PROVE  Renewing'
<1> USE DEF lifecycle, presence, budget, world
<1>0. /\ present \in BOOLEAN /\ node \in BOOLEAN /\ now \in Nat
      /\ nextBeat # None => nextBeat <= now + PresenceHeartbeatMs
  BY DEF Typed, Underway, Renewing
<1>1. CASE UNCHANGED vars
  BY <1>1, <1>0, RenewingLooks DEF vars
<1>2. CASE KeysLoaded \/ TransportsUp \/ LinkChanges
  <2>1. /\ ledger' = ledger /\ calls' = calls /\ now' = now /\ node' = node
        /\ present' = present /\ nextBeat' = nextBeat
    BY <1>2 DEF KeysLoaded, TransportsUp, LinkChanges
  <2>2. QED BY <1>0, <2>1, RenewingLooks
<1>3. CASE StartFails
  <2>1. /\ ledger' = ledger /\ calls' = calls /\ now' = now /\ node' = FALSE
        /\ nextBeat' = nextBeat
    BY <1>3 DEF StartFails
  <2>2. QED BY <1>0, <2>1, RenewingLooks
<1>4. CASE Created
  <2>1. /\ ledger' = ledger /\ calls' = calls /\ now' = now /\ present' = FALSE
        /\ nextBeat' = nextBeat
    BY <1>0, <1>4 DEF Created, Reachable, Early
  <2>2. QED BY <1>0, <2>1, RenewingLooks
<1>5. CASE UserJoin
  <2>1. JoinBegins("user", nextBeat) \/ JoinRefused("user")
    BY <1>5 DEF UserJoin
  <2>2. QED BY <1>0, <2>1, JoinRenewing DEF Callers
<1>6. CASE UserLeave
  <2>1. CASE present
    <3>1. LeaveBegins("user", "leave") /\ Idle("user") /\ now' = now
      BY <1>6, <2>1 DEF UserLeave
    <3>2. calls["user"].pc # "mine"
      BY <3>1 DEF Underway, Idle, Callers
    <3>3. QED BY <3>1, <3>2, LeaveRenewing DEF Callers
  <2>2. CASE ~present
    <3>1. /\ ledger' = ExpireIndexes(ledger, now) /\ calls' = calls /\ now' = now
          /\ present' = FALSE /\ nextBeat' = nextBeat
      BY <1>0, <1>6, <2>2 DEF UserLeave
    <3>2. QED BY <1>0, <3>1, RenewingLooks
  <2>3. QED BY <2>1, <2>2
<1>7. CASE Beat
  <2>1. nextBeat # None /\ nextBeat <= now /\ nextBeat \in Nat
    BY <1>7 DEF Beat, Typed
  <2>2. NextFiring(nextBeat) <= now + PresenceHeartbeatMs
    BY <1>0, <2>1, NodeAssumption DEF NextFiring
  <2>3. CASE present /\ node
    <3>1. JoinBegins("heartbeat", NextFiring(nextBeat)) \/ JoinRefused("heartbeat")
      BY <1>7, <2>3 DEF Beat
    <3>2. QED BY <2>2, <3>1, JoinRenewing DEF Callers
  <2>4. CASE ~(present /\ node)
    <3>1. /\ ledger' = ledger /\ calls' = calls /\ now' = now
          /\ present' = present /\ node' = node /\ nextBeat' = NextFiring(nextBeat)
      BY <1>7, <2>4 DEF Beat
    <3>2. QED BY <1>0, <2>2, <2>4, <3>1, RenewingLooks
  <2>5. QED BY <2>3, <2>4
<1>8. CASE Say \/ Checkpoint
  <2>1. talk' = talk + 1
    BY <1>8 DEF Say, Checkpoint
  <2>2. QED BY <2>1
<1>9. ASSUME NEW c \in Callers, Mined(c) \/ Joined(c) PROVE Renewing'
  BY <1>9, MinedRenewing, JoinedRenewing
<1>10. ASSUME NEW c \in Callers, Left(c) \/ Said(c) \/ PublishFails(c) PROVE Renewing'
  <2>1. /\ calls' = [calls EXCEPT ![c] = NoCall] /\ now' = now
        /\ ledger' = ledger \/ ledger' = ExpireIndexes(ledger, now)
        /\ calls[c].pc # "mine"
    BY <1>10 DEF Left, Said, PublishFails, Publishes
  <2>2. /\ \A d \in Callers : calls'[d].pc = "mine" => d # c /\ calls'[d] = calls[d]
        /\ \A d \in Callers : d # c => calls'[d] = calls[d]
    BY <2>1, PublishingMinesNothing
  <2>3. calls'[c].pc = "none"
    BY <2>1 DEF Underway, NoCall, Call
  <2>4. /\ \A d \in Callers : calls'[d].pc = "mine" <=> calls[d].pc = "mine"
        /\ \A d \in Callers : calls'[d].pc = "publish" /\ calls'[d].op = "join"
              => calls'[d] = calls[d]
    BY <2>1, <2>2, <2>3
  <2>5. \/ nextBeat' = None
        \/ nextBeat' = nextBeat /\ present' = present /\ node' = node
    BY <1>10 DEF Left, Said, PublishFails, ClearLocalPresence
  <2>6. /\ nextBeat' # None => nextBeat' <= now + PresenceHeartbeatMs
        /\ node' /\ present' /\ nextBeat' # None => node /\ present /\ nextBeat' = nextBeat
    BY <1>0, <2>5
  <2>7. QED BY <2>1, <2>2, <2>4, <2>6, RenewingLooks
<1>11. CASE Dispose
  <2>1. CASE node /\ present
    <3>1. LeaveBegins("stop", "stop") /\ now' = now
      BY <1>11, <2>1 DEF Dispose
    <3>2. calls["stop"].pc # "mine"
      BY DEF Recorded, MiningCallers, Callers
    <3>3. QED BY <3>1, <3>2, LeaveRenewing DEF Callers
  <2>2. CASE ~(node /\ present)
    <3>1. /\ ledger' = ledger \/ ledger' = ExpireIndexes(ledger, now)
          /\ calls' = calls /\ now' = now
          /\ nextBeat' = None \/ (nextBeat' = nextBeat /\ present' = present /\ node' = node)
      BY <1>11, <2>2 DEF Dispose, StopEnds
    <3>2. QED BY <1>0, <3>1, RenewingLooks
  <2>3. QED BY <2>1, <2>2
<1>12. CASE Stopped
  <2>1. /\ calls' = [calls EXCEPT !["stop"] = NoCall] /\ now' = now
        /\ ledger' = ExpireIndexes(ledger, now) /\ nextBeat' = None
        /\ calls["stop"].pc # "mine" /\ "stop" \in Callers
    BY <1>12 DEF Stopped, StopEnds, Publishes, Callers
  <2>2. \A d \in Callers : calls'[d] = IF d = "stop" THEN NoCall ELSE calls[d]
    BY <2>1 DEF Underway
  <2>3. NoCall.pc = "none"
    BY DEF NoCall, Call
  <2>4. /\ \A d \in Callers : calls'[d].pc = "mine" => calls'[d] = calls[d]
        /\ \A d \in Callers : calls'[d].pc = "mine" <=> calls[d].pc = "mine"
        /\ \A d \in Callers : calls'[d].pc = "publish" /\ calls'[d].op = "join"
              => calls'[d] = calls[d]
    BY <2>1, <2>2, <2>3
  <2>5. QED BY <2>1, <2>4, RenewingLooks
<1>13. CASE Tick
  BY <1>13, TickRenewing
<1>14. QED
  BY <1>1, <1>2, <1>3, <1>4, <1>5, <1>6, <1>7, <1>8, <1>9, <1>10, <1>11, <1>12, <1>13 DEF Next

(* Messages and checkpoints are only ever counted up. *)
LEMMA TalkCounts ==
    ASSUME talk \in Nat, [Next]_vars
    PROVE  talk' \in Nat /\ (talk' = 0 => talk' = talk)
<1> USE DEF budget
<1>1. talk' = talk \/ talk' = talk + 1
  <2>1. CASE Say \/ Checkpoint
    BY <2>1 DEF Say, Checkpoint
  <2>2. CASE UserJoin \/ UserLeave \/ Beat
    BY <2>2 DEF UserJoin, UserLeave, Beat
  <2>3. CASE \E c \in Callers : Mined(c) \/ Joined(c) \/ Left(c) \/ Said(c) \/ PublishFails(c)
    BY <2>3 DEF Mined, Joined, Left, Said, PublishFails
  <2>4. CASE KeysLoaded \/ StartFails \/ Created \/ TransportsUp \/ Dispose \/ Stopped
    BY <2>4 DEF KeysLoaded, StartFails, Created, TransportsUp, Dispose, Stopped
  <2>5. CASE LinkChanges \/ Tick \/ UNCHANGED vars
    BY <2>5 DEF LinkChanges, Tick, vars
  <2>. QED BY <2>1, <2>2, <2>3, <2>4, <2>5 DEF Next
<1>2. QED BY <1>1

(* The initial state. *)
LEMMA InitRecorded == Init => Recorded
<1> SUFFICES ASSUME Init PROVE Recorded
  OBVIOUS
<1>1. MiningCallers = {}
  BY DEF Init, MiningCallers, NoCall, Call
<1>2. Logged(ledger) = {} /\ ledger = EmptyLedger /\ localSequence = 0 /\ now = 1
  BY DEF Init, Logged, EmptyLedger, ToSet
<1>3. Known = {}
  BY <1>1, <1>2 DEF Known
<1>4. QED BY <1>1, <1>2, <1>3, SoundInit DEF Recorded

LEMMA InitRenewing == Init => Renewing
BY DEF Init, Renewing, NoCall, Call

(* The presence of a node that renews it has its basis and has not lapsed.    *)
LEMMA RenewingKeeps ==
    ASSUME Recorded, Renewing
    PROVE  PresenceKept
<1> SUFFICES ASSUME node, present, nextBeat # None
             PROVE  HasBasis(ledger, Self) /\ Self \notin Lapsed(ledger, now)
  BY DEF PresenceKept
<1>1. HasBasis(ledger, Self) /\ now <= LatestAt(ledger) + PresenceTtlMs
  BY DEF Renewing
<1>2. QED BY <1>1, YoungIsLive DEF Recorded

(* PresenceKeptInSilence: the presence of a node that beats does not lapse in  *)
(* its own ledger, however its user's joins and leaves overtake the join that *)
(* its heartbeat is mining, as long as it signs no message and no checkpoint, *)
(* and its timer's period is no longer than the TTL.                          *)
THEOREM PresenceIsKept ==
    ASSUME NoneIsNoEvent, PresenceHeartbeatMs <= PresenceTtlMs
    PROVE  Spec => []PresenceKeptInSilence
<1> DEFINE Kept == Underway /\ Typed /\ Reachable /\ Recorded /\ talk \in Nat
                   /\ (talk = 0 => Renewing)
<1>1. Init => Kept
  <2>1. Init => Underway /\ Typed /\ Reachable
    BY InitTyped DEF Init, Reachable, Early, OnlineReachable
  <2>2. Init => talk \in Nat
    BY DEF Init
  <2>3. QED BY <2>1, <2>2, InitRecorded, InitRenewing
<1>2. Kept /\ [Next]_vars => Kept'
  <2> SUFFICES ASSUME Kept, [Next]_vars PROVE Kept'
    OBVIOUS
  <2>1. Underway' /\ Typed' /\ Reachable' /\ Recorded'
    BY UnderwayInvariant, TypedInvariant, ReachableInvariant, RecordedInvariant DEF Underway
  <2>2. talk' \in Nat /\ (talk' = 0 => talk' = talk)
    BY TalkCounts
  <2>3. ASSUME talk' = 0 PROVE Renewing'
    <3>1. talk' = talk /\ talk = 0
      BY <2>2, <2>3
    <3>2. QED BY <3>1, RenewingInvariant
  <2>4. QED BY <2>1, <2>2, <2>3
<1>3. Kept => PresenceKeptInSilence
  BY RenewingKeeps DEF PresenceKeptInSilence
<1>4. QED BY <1>1, <1>2, <1>3, PTL DEF Spec
-----------------------------------------------------------------------------
(* What the node's own ledger makes of its events while the log has room.     *)
LogHasRoom == Len(ledger.log) < MaxRetainedEvents

(* No sequence number in the log is above the node's mark.                    *)
Topped(l) == \A f \in Logged(l) : f.sequence <= HighWaterMark(l, Self)

(* An event above the mark is replayed after all that is logged.              *)
LEMMA AboveIsLater ==
    ASSUME NEW l, NEW S, NEW last, NEW at, Sound(l, S, last, at), Topped(l), NEW e \in S,
           e.sequence > HighWaterMark(l, Self), e.issuedAt = at
    PROVE  \A f \in Logged(l) : Earlier(f, e)
<1> SUFFICES ASSUME NEW f \in Logged(l) PROVE Earlier(f, e)
  OBVIOUS
<1>1. f \in S
  BY DEF Sound, Within, LedgerOf, Logged, ToSet
<1>2. /\ f.origin = Self /\ e.origin = Self /\ f.issuedAt <= at
      /\ f.issuedAt \in Nat /\ f.sequence \in Nat /\ e.sequence \in Nat /\ at \in Nat
  BY <1>1 DEF Sound, Own, SignedBy, Ordered, EventLike
<1>3. HighWaterMark(l, Self) \in Nat
  BY OwnHighWaterMark
<1>4. f.sequence < e.sequence
  BY <1>2, <1>3 DEF Topped
<1>5. f.issuedAt < e.issuedAt \/ f.issuedAt = e.issuedAt
  BY <1>2
<1>6. QED BY <1>2, <1>4, <1>5 DEF Earlier

(* An event that is accepted is logged and raises the mark; a join above the   *)
(* mark is accepted, and any other event if the basis is alive.               *)
LEMMA OwnTaken ==
    ASSUME NEW l, NEW S, NEW last, NEW at, Sound(l, S, last, at), Topped(l),
           Len(l.log) < MaxRetainedEvents, NEW e \in S, e \notin Logged(l),
           e.kind \in {"join", "heartbeat", "leave"}, e.issuedAt = at,
           NEW c, c = ExpireIndexes(l, at), NEW n, n = Accept(l, e)
    PROVE  /\ HighWaterMark(l, Self) \in Nat /\ HighWaterMark(n, Self) \in Nat
           /\ HighWaterMark(l, Self) <= HighWaterMark(n, Self) /\ Topped(n)
           /\ ~Acceptable(c, e) => n = c
           /\ Acceptable(c, e) =>
                /\ e.sequence > HighWaterMark(l, Self) /\ HighWaterMark(n, Self) = e.sequence
                /\ Logged(n) = Logged(l) \cup {e}
           /\ e.kind = "join" /\ e.sequence > HighWaterMark(l, Self) => Acceptable(c, e)
           /\ HasBasis(l, Self) /\ Self \notin Lapsed(l, at)
                /\ e.sequence > HighWaterMark(l, Self) => Acceptable(c, e)
<1>0. /\ Within(S, l) /\ Signed(S) /\ e.origin = Self /\ e.kind # "sync"
      /\ e.kind # "checkpoint" /\ e.sequence \in Nat
      /\ \A f \in S : f.sequence \in Nat
      /\ Logged(l) \subseteq S
      /\ \A m \in ToSet(l.marks) : m.origin = e.origin
  BY DEF Sound, Own, OwnMarks, Signed, Within, LedgerOf, Logged, ToSet
<1>1. /\ Sound(c, S, last, at) /\ Logged(c) = Logged(l)
      /\ HighWaterMark(c, Self) = HighWaterMark(l, Self)
      /\ Self \notin Lapsed(l, at) => HasBasis(c, Self) = HasBasis(l, Self)
  BY SoundExpire, ExpireKeeps
<1>2. HighWaterMark(l, Self) \in Nat
  BY OwnHighWaterMark
<1>3. ~Acceptable(c, e) => n = c
  BY <1>0, AcceptEffect
<1>4. Acceptable(c, e) =>
         /\ e.sequence > HighWaterMark(l, Self) /\ HighWaterMark(n, Self) = e.sequence
         /\ Logged(n) = Logged(l) \cup {e}
  <2> SUFFICES ASSUME Acceptable(c, e)
               PROVE  /\ e.sequence > HighWaterMark(l, Self)
                      /\ HighWaterMark(n, Self) = e.sequence /\ Logged(n) = Logged(l) \cup {e}
    OBVIOUS
  <2>1. Logged(n) = Logged(l) \cup {e} /\ HighWaterMark(n, e.origin) = e.sequence
    BY <1>0, AcceptRecords
  <2>2. e.sequence > HighWaterMark(c, e.origin)
    BY DEF Acceptable
  <2>3. QED BY <1>0, <1>1, <2>1, <2>2
<1>5. ~HasBasis(c, Self) => Cardinality(Tracked(c)) < MaxTrackedJoins
  <2>0. Pointed(c) /\ Logged(c) \subseteq S /\ \A f \in S : f.origin = Self
    BY <1>0, <1>1 DEF Sound, Own
  <2>1. \A p \in Peers : HasBasis(c, p) => p = Self
    BY <2>0 DEF Pointed
  <2>2. ~HasBasis(c, Self) => Tracked(c) = {}
    BY <2>1 DEF Tracked
  <2>3. Cardinality({}) = 0 /\ MaxTrackedJoins \in Nat \ {0}
    BY FS_EmptySet, LimitsAssumption
  <2>4. 0 < MaxTrackedJoins
    BY <2>3
  <2>5. QED BY <2>2, <2>3, <2>4
<1>6. e.kind = "join" /\ e.sequence > HighWaterMark(l, Self) => Acceptable(c, e)
  BY <1>0, <1>1, <1>5 DEF Acceptable
<1>7. HasBasis(l, Self) /\ Self \notin Lapsed(l, at) /\ e.sequence > HighWaterMark(l, Self)
         => Acceptable(c, e)
  BY <1>0, <1>1 DEF Acceptable
<1>8. CASE Acceptable(c, e)
  <2>1. \A f \in Logged(l) : f.sequence \in Nat /\ f.sequence <= HighWaterMark(l, Self)
    BY <1>0 DEF Topped
  <2>2. HighWaterMark(l, Self) <= HighWaterMark(n, Self) /\ HighWaterMark(n, Self) \in Nat
    BY <1>0, <1>2, <1>4, <1>8
  <2>3. Topped(n)
    BY <1>0, <1>2, <1>4, <1>8, <2>1 DEF Topped
  <2>4. QED BY <1>2, <1>3, <1>4, <1>6, <1>7, <2>2, <2>3
<1>9. CASE ~Acceptable(c, e)
  <2>1. HighWaterMark(n, Self) = HighWaterMark(l, Self) /\ Logged(n) = Logged(l)
    BY <1>1, <1>3, <1>9
  <2>2. Topped(n)
    BY <2>1 DEF Topped
  <2>3. QED BY <1>2, <1>3, <1>6, <1>7, <1>9, <2>1, <2>2
<1>10. QED BY <1>8, <1>9

(* A node in its own hall stays in it by a further join or heartbeat.          *)
LEMMA HereStays ==
    ASSUME NEW l, NEW S, NEW last, NEW at, Sound(l, S, last, at), Topped(l),
           Len(l.log) < MaxRetainedEvents, NEW e \in S, e \notin Logged(l),
           e.kind \in {"join", "heartbeat"}, e.issuedAt = at, Here(Logged(l), at)
    PROVE  Here(Logged(Accept(l, e)), at)
<1>0. /\ Within(S, l) /\ Signed(S) /\ IsFiniteSet(S) /\ Ordered(S) /\ at \in Nat
      /\ e.origin = Self
  BY DEF Sound, Own, SignedBy
<1>1. PICK c : c = ExpireIndexes(l, at)
  OBVIOUS
<1>2. PICK n : n = Accept(l, e)
  OBVIOUS
<1>3. CASE Acceptable(c, e)
  <2>1. e.sequence > HighWaterMark(l, Self)
    BY <1>1, <1>2, <1>3, OwnTaken
  <2>2. \A f \in Logged(l) : Earlier(f, e)
    BY <2>1, AboveIsLater
  <2>3. e.origin \in Participants(HallAt(l, at))
    BY <1>0 DEF Here, HallAt
  <2>4. e.origin \in Participants(HallAt(Accept(l, e), at))
    BY <1>0, <2>2, <2>3, PresenceStays
  <2>5. QED BY <1>0, <2>4 DEF Here, HallAt
<1>4. CASE ~Acceptable(c, e)
  <2>1. n = c
    BY <1>1, <1>2, <1>4, OwnTaken
  <2>2. Logged(n) = Logged(l)
    BY <1>1, <2>1, ExpireKeeps
  <2>3. QED BY <1>2, <2>2
<1>5. QED BY <1>3, <1>4

(* A join that admissionError has nothing against, and that nothing overtook, *)
(* brings the node into its own hall.                                        *)
LEMMA JoinLetsIn ==
    ASSUME None \notin {"HALL_COOLDOWN", "HALL_FULL"},
           NEW l, NEW S, NEW last, NEW at, Sound(l, S, last, at), Topped(l),
           Len(l.log) < MaxRetainedEvents, NEW e \in S, e \notin Logged(l),
           e.kind = "join", e.issuedAt = at, e.sequence > HighWaterMark(l, Self),
           AdmissionError(l, Self, at) = None
    PROVE  Here(Logged(Accept(l, e)), at)
<1>0. /\ Within(S, l) /\ Signed(S) /\ IsFiniteSet(S) /\ Ordered(S) /\ at \in Nat
      /\ e.origin = Self
  BY DEF Sound, Own, SignedBy
<1>1. PICK c : c = ExpireIndexes(l, at)
  OBVIOUS
<1>2. PICK n : n = Accept(l, e)
  OBVIOUS
<1>3. Logged(n) = Logged(l) \cup {e}
  BY <1>1, <1>2, OwnTaken
<1>4. e \in Logged(Accept(l, e))
  BY <1>2, <1>3
<1>5. \A f \in Logged(l) : Earlier(f, e)
  BY AboveIsLater
<1>6. AdmissionError(l, e.origin, at) = None
  BY <1>0
<1>7. e.origin \in Participants(HallAt(Accept(l, e), at))
  BY <1>0, <1>4, <1>5, <1>6, JoinIsAdmitted
<1>8. QED BY <1>0, <1>7 DEF Here, HallAt

(* Nothing stands against a node that is in the hall; and what admissionError  *)
(* says rests on the log alone.                                              *)
LEMMA HereAdmits ==
    ASSUME NEW l, NEW at
    PROVE  /\ Here(Logged(l), at) => AdmissionError(l, Self, at) = None
           /\ \A n : Logged(n) = Logged(l) =>
                 AdmissionError(n, Self, at) = AdmissionError(l, Self, at)
BY DEF Here, HallAt, AdmissionError
-----------------------------------------------------------------------------
(* None is mistaken for no answer of the node.                                *)
NoneIsNoAnswer == None \notin {"out", "HALL_COOLDOWN", "HALL_FULL"}

(* The invariant behind LeftStaysLeft.  The join that a heartbeat is mining    *)
(* can still be accepted only while the node is present: a leave that the      *)
(* user gives in the meantime is accepted, and overtakes it.  A join of the   *)
(* user's own was let in at the door, or finds the node in the hall already.  *)
HereNow == Here(Logged(ledger), now)
Admits == AdmissionError(ledger, Self, now) = None
Alive == HasBasis(ledger, Self) /\ now <= LatestAt(ledger) + PresenceTtlMs

Departing ==
    /\ Topped(ledger) /\ Idle("stop")
    /\ \A c \in Callers : calls[c].op = "join" => c \in {"user", "heartbeat"}
    /\ \A c \in Callers : calls[c].op = "leave" => c = "user" /\ ~present
    /\ answer # None => Idle("user")
    /\ answer = "out" => ~present /\ ~HereNow
    /\ Ahead("heartbeat") => present /\ Admits /\ Alive
    /\ calls["user"].pc = "mine" => (Ahead("user") /\ Admits) \/ HereNow
    /\ Publishes("user", "join") => HereNow

(* The node looks at its ledger, and a call may end.                          *)
LEMMA DepartingLooks ==
    ASSUME Recorded, Departing, now' = now,
           ledger' = ledger \/ ledger' = ExpireIndexes(ledger, now),
           \A c \in Callers : calls'[c] = calls[c] \/ calls'[c] = NoCall,
           present' = present \/ present' = FALSE,
           present /\ Ahead("heartbeat") => present' \/ calls'["heartbeat"] = NoCall,
           answer' = answer \/ (Idle("user")' /\ (answer' = "out" => ~present' /\ ~HereNow))
    PROVE  Departing'
<1>0. "user" \in Callers /\ "heartbeat" \in Callers /\ "stop" \in Callers
  BY DEF Callers
<1>1. NoCall.op = "none" /\ NoCall.pc = "none"
  BY DEF NoCall, Call
<1>2. /\ Logged(ledger') = Logged(ledger)
      /\ HighWaterMark(ledger', Self) = HighWaterMark(ledger, Self)
      /\ Self \notin Lapsed(ledger, now) => HasBasis(ledger', Self) = HasBasis(ledger, Self)
      /\ HasBasis(ledger', Self) => LatestAt(ledger') = LatestAt(ledger)
  BY ExpireKeeps DEF Recorded
<1>3. Alive => Self \notin Lapsed(ledger, now)
  BY YoungIsLive DEF Recorded, Alive
<1>4. Alive => Alive'
  BY <1>2, <1>3 DEF Alive
<1>5. (HereNow' <=> HereNow) /\ (Admits' <=> Admits) /\ Topped(ledger')
  BY <1>2, HereAdmits DEF HereNow, Admits, Topped, Departing
<1>6. \A c \in Callers : Ahead(c)' => Ahead(c) /\ calls'[c] # NoCall
  BY <1>1, <1>2 DEF Ahead
<1>7. \A c \in Callers : Ahead(c) /\ calls'[c] = calls[c] => Ahead(c)'
  BY <1>2 DEF Ahead
<1>8. \A c \in Callers : /\ calls'[c].op = "join" => calls[c].op = "join"
                         /\ calls'[c].op = "leave" => calls[c].op = "leave"
                         /\ calls'[c].pc = "mine" => calls'[c] = calls[c]
                         /\ calls'[c].pc = "publish" => calls'[c] = calls[c]
                         /\ calls[c].op = "none" => calls'[c].op = "none"
  BY <1>1
<1>9. Idle("stop")' /\ (answer' # None => Idle("user")')
  BY <1>0, <1>8 DEF Departing, Idle
<1>10. /\ \A c \in Callers : calls'[c].op = "join" => c \in {"user", "heartbeat"}
       /\ \A c \in Callers : calls'[c].op = "leave" => c = "user" /\ ~present'
  BY <1>8 DEF Departing
<1>11. answer' = "out" => ~present' /\ ~HereNow'
  BY <1>5 DEF Departing
<1>12. Ahead("heartbeat")' => present' /\ Admits' /\ Alive'
  BY <1>0, <1>4, <1>5, <1>6 DEF Departing
<1>13. calls'["user"].pc = "mine" => (Ahead("user")' /\ Admits') \/ HereNow'
  BY <1>0, <1>5, <1>7, <1>8 DEF Departing
<1>14. Publishes("user", "join")' => HereNow'
  BY <1>0, <1>5, <1>8 DEF Departing, Publishes
<1>15. QED
  BY <1>5, <1>9, <1>10, <1>11, <1>12, <1>13, <1>14 DEF Departing

(* A leave that the user gives overtakes the join of a heartbeat.             *)
LEMMA UserLeaveDeparting ==
    ASSUME NoneIsNoEvent, NoneIsNoAnswer, LogHasRoom, Underway, Recorded, Departing,
           Idle("user"), now' = now,
           LeaveBegins("user", "leave"), answer' = None
    PROVE  Departing'
<1>0. "user" \in Callers /\ "heartbeat" \in Callers /\ "stop" \in Callers
  BY DEF Callers
<1>1. PICK e : e = NewEvent("leave", None)
  OBVIOUS
<1>2. /\ ledger' = Accept(ledger, e) /\ Publishing("user", "leave", e) /\ present' = FALSE
  BY <1>1 DEF LeaveBegins
<1>3. /\ EventLike(e) /\ e # None /\ e.origin = Self /\ e.kind = "leave"
      /\ e.sequence > localSequence /\ e.issuedAt = now
  BY <1>1, NewEventFields
<1>4. Sound(ledger, Known \cup {e}, e.sequence, now) /\ e \notin Known
  BY <1>3, SoundSigns DEF Recorded
<1>5. e \notin Logged(ledger) /\ e \in Known \cup {e}
  BY <1>4 DEF Known
<1>6. PICK c : c = ExpireIndexes(ledger, now)
  OBVIOUS
<1>7. /\ HighWaterMark(ledger, Self) \in Nat /\ HighWaterMark(ledger', Self) \in Nat
      /\ HighWaterMark(ledger, Self) <= HighWaterMark(ledger', Self) /\ Topped(ledger')
      /\ Acceptable(c, e) => HighWaterMark(ledger', Self) = e.sequence
      /\ HasBasis(ledger, Self) /\ Self \notin Lapsed(ledger, now)
           /\ e.sequence > HighWaterMark(ledger, Self) => Acceptable(c, e)
  BY <1>2, <1>3, <1>4, <1>5, <1>6, OwnTaken DEF LogHasRoom, Departing
<1>8. /\ localSequence \in Nat /\ e.sequence \in Nat
      /\ HighWaterMark(ledger, Self) <= localSequence
  BY <1>3, OwnHighWaterMark DEF Recorded, Underway, EventLike
<1>9. /\ \A d \in Callers : calls'[d].pc = "mine" => d # "user" /\ calls'[d] = calls[d]
      /\ \A d \in Callers : d # "user" => calls'[d] = calls[d]
      /\ calls'["user"] = NoCall \/ calls'["user"] = Call("leave", "publish", e)
  BY <1>0, <1>2, PublishingMinesNothing
<1>10. calls'["user"].op \in {"none", "leave"} /\ calls'["user"].pc \in {"none", "publish"}
  BY <1>9 DEF NoCall, Call
<1>11. ~Ahead("heartbeat")'
  <2> SUFFICES ASSUME Ahead("heartbeat")' PROVE FALSE
    OBVIOUS
  <2>1. calls'["heartbeat"] = calls["heartbeat"] /\ calls["heartbeat"].pc = "mine"
    BY <1>0, <1>9 DEF Ahead
  <2>2. /\ calls["heartbeat"].event.sequence \in Nat
        /\ calls["heartbeat"].event.sequence <= localSequence
    BY <1>0, <2>1 DEF Underway, Idle
  <2>3. calls["heartbeat"].event.sequence > HighWaterMark(ledger', Self)
    BY <2>1 DEF Ahead
  <2>4. calls["heartbeat"].event.sequence > HighWaterMark(ledger, Self)
    BY <1>7, <2>2, <2>3
  <2>5. Alive
    BY <2>1, <2>4 DEF Ahead, Departing
  <2>6. HasBasis(ledger, Self) /\ Self \notin Lapsed(ledger, now)
    BY <2>5, YoungIsLive DEF Recorded, Alive
  <2>7. HighWaterMark(ledger', Self) = e.sequence
    BY <1>3, <1>7, <1>8, <2>6
  <2>8. QED BY <1>3, <1>8, <2>2, <2>3, <2>7
<1>12. Idle("stop")'
  BY <1>0, <1>9 DEF Departing, Idle
<1>13. /\ \A d \in Callers : calls'[d].op = "join" => d \in {"user", "heartbeat"}
       /\ \A d \in Callers : calls'[d].op = "leave" => d = "user" /\ ~present'
  BY <1>2, <1>9, <1>10 DEF Departing
<1>14. calls'["user"].pc # "mine" /\ ~Publishes("user", "join")'
  BY <1>10 DEF Publishes
<1>15. answer' # "out"
  BY DEF NoneIsNoAnswer
<1>16. QED
  BY <1>7, <1>11, <1>12, <1>13, <1>14, <1>15 DEF Departing
(* The door is closed: the node was not in its hall, and no join is ahead.     *)
LEMMA RefusedDeparting ==
    ASSUME NoneIsNoAnswer, Underway, Recorded, Departing, NEW c, JoinRefused(c)
    PROVE  Departing'
<1> USE DEF world, lifecycle
<1>1. /\ ledger' = ledger /\ calls' = calls /\ now' = now /\ present' = FALSE /\ Idle(c)
      /\ answer' = (IF c = "user" THEN None ELSE answer)
  BY DEF JoinRefused, ClearLocalPresence, Answer
<1>2. ~Admits
  BY DEF JoinRefused, Admits
<1>3. ~Ahead("heartbeat")
  BY <1>2 DEF Departing
<1>4. answer' = answer \/ (Idle("user")' /\ (answer' = "out" => ~present' /\ ~HereNow))
  BY <1>1 DEF NoneIsNoAnswer, Idle
<1>5. QED BY <1>1, <1>3, <1>4, DepartingLooks

(* joinHall of the user or of the heartbeat begins.  A heartbeat is only due   *)
(* of a node that is present, with a basis that is alive.                    *)
LEMMA JoinDeparting ==
    ASSUME NoneIsNoEvent, NoneIsNoAnswer, LogHasRoom, Underway, Recorded, Departing,
           NEW c \in {"user", "heartbeat"}, NEW beat, JoinBegins(c, beat),
           c = "heartbeat" => present /\ Alive
    PROVE  Departing'
<1> USE DEF world, lifecycle
<1> DEFINE member == Here(Logged(ledger), now)
           kind == PresenceActionFor(present /\ member)
           current == ExpireIndexes(ledger, now)
<1>0. "user" \in Callers /\ "heartbeat" \in Callers /\ "stop" \in Callers /\ c \in Callers
  BY DEF Callers
<1>1. PICK e : e = NewEvent(kind, None)
  OBVIOUS
<1>2. /\ now' = now /\ now \in Nat /\ Idle(c) /\ Admits /\ present' = TRUE
      /\ answer' = (IF c = "user" THEN None ELSE answer)
      /\ IF e.kind = "join"
         THEN ledger' = current /\ calls' = [calls EXCEPT ![c] = Call("join", "mine", e)]
         ELSE ledger' = Accept(current, e) /\ Publishing(c, "join", e)
  BY <1>1 DEF JoinBegins, Underway, Admits, Answer
<1>3. /\ EventLike(e) /\ e # None /\ e.origin = Self /\ e.kind = kind
      /\ e.sequence > localSequence /\ e.issuedAt = now
  BY <1>1, NewEventFields
<1>4. kind = "join" \/ (kind = "heartbeat" /\ member)
  BY DEF PresenceActionFor
<1>5. /\ Sound(current, Known, localSequence, now) /\ Logged(current) = Logged(ledger)
      /\ HighWaterMark(current, Self) = HighWaterMark(ledger, Self)
      /\ Self \notin Lapsed(ledger, now) => HasBasis(current, Self) = HasBasis(ledger, Self)
      /\ HasBasis(current, Self) => LatestAt(current) = LatestAt(ledger)
  BY SoundExpire, ExpireKeeps DEF Recorded
<1>6. Topped(current) /\ Len(current.log) < MaxRetainedEvents
  <2>1. current.log = ledger.log
    <3>1. ledger \in LedgerOf(Known)
      BY DEF Recorded, Sound, Within
    <3>2. QED BY <3>1, ForgetEffect DEF ExpireIndexes
  <2>2. QED BY <1>5, <2>1 DEF Topped, Departing, LogHasRoom
<1>7. HighWaterMark(current, Self) \in Nat /\ HighWaterMark(current, Self) <= localSequence
      /\ localSequence \in Nat /\ e.sequence \in Nat
  BY <1>3, <1>5, OwnHighWaterMark DEF Underway, EventLike
<1>8. e.sequence > HighWaterMark(current, Self)
  BY <1>3, <1>7
<1>9. member <=> HereNow
  BY DEF HereNow
<1> HIDE DEF member, current
<1>10. \A d \in Callers : d # c => calls'[d] = calls[d]
  <2>1. CASE e.kind = "join"
    BY <1>2, <2>1 DEF Underway
  <2>2. CASE e.kind # "join"
    BY <1>0, <1>2, <2>2, PublishingMinesNothing
  <2>3. QED BY <2>1, <2>2
<1>11. calls'[c].op \in {"join", "none"}
  <2>1. CASE e.kind = "join"
    <3>1. calls'[c] = Call("join", "mine", e)
      BY <1>0, <1>2, <2>1 DEF Underway
    <3>2. QED BY <3>1 DEF Call
  <2>2. CASE e.kind # "join"
    <3>1. calls'[c] = NoCall \/ calls'[c] = Call("join", "publish", e)
      BY <1>0, <1>2, <2>2, PublishingMinesNothing
    <3>2. QED BY <3>1 DEF NoCall, Call
  <2>3. QED BY <2>1, <2>2
<1>12. \A d \in Callers : calls[d].op # "leave"
  <2>1. CASE c = "user"
    BY <1>2, <2>1 DEF Departing, Idle
  <2>2. CASE c = "heartbeat"
    BY <2>2 DEF Departing
  <2>3. QED BY <2>1, <2>2
<1>13. /\ Idle("stop")'
       /\ \A d \in Callers : calls'[d].op = "join" => d \in {"user", "heartbeat"}
       /\ \A d \in Callers : calls'[d].op # "leave"
  BY <1>0, <1>10, <1>11, <1>12 DEF Departing, Idle
<1>14. (answer' # None => Idle("user")') /\ answer' # "out"
  <2>1. CASE c = "user"
    BY <1>2, <2>1 DEF NoneIsNoAnswer
  <2>2. CASE c = "heartbeat"
    BY <1>0, <1>2, <1>10, <2>2 DEF Departing, Idle
  <2>3. QED BY <2>1, <2>2
<1>15. CASE kind = "join"
  <2>0. e.kind = "join"
    BY <1>3, <1>15
  <2>1. ledger' = current /\ calls'[c].event = e /\ calls'[c].pc = "mine"
    BY <1>0, <1>2, <2>0 DEF Underway, Call
  <2>2. Ahead(c)'
    BY <1>8, <2>1 DEF Ahead
  <2>3. \A d \in Callers : d # c => Ahead(d)' = Ahead(d)
    BY <1>5, <1>10, <2>1 DEF Ahead
  <2>4. Admits' /\ (HereNow' <=> HereNow) /\ Topped(ledger')
    BY <1>2, <1>5, <1>6, <2>1, HereAdmits DEF Admits, HereNow
  <2>5. Alive => Self \notin Lapsed(ledger, now)
    BY YoungIsLive DEF Recorded, Alive
  <2>6. Alive => Alive'
    BY <1>2, <1>5, <2>1, <2>5 DEF Alive
  <2>7. Ahead("heartbeat")' => present' /\ Admits' /\ Alive'
    <3>1. CASE c = "heartbeat"
      BY <1>2, <2>4, <2>6, <3>1
    <3>2. CASE c = "user"
      BY <1>0, <1>2, <2>3, <2>4, <2>6, <3>2 DEF Departing
    <3>3. QED BY <3>1, <3>2
  <2>8. calls'["user"].pc = "mine" => (Ahead("user")' /\ Admits') \/ HereNow'
    <3>1. CASE c = "user"
      BY <2>2, <2>4, <3>1
    <3>2. CASE c = "heartbeat"
      BY <1>0, <1>10, <2>3, <2>4, <3>2 DEF Departing
    <3>3. QED BY <3>1, <3>2
  <2>9. Publishes("user", "join")' => HereNow'
    <3>1. CASE c = "user"
      BY <2>1, <3>1 DEF Publishes
    <3>2. CASE c = "heartbeat"
      BY <1>0, <1>10, <2>4, <3>2 DEF Departing, Publishes
    <3>3. QED BY <3>1, <3>2
  <2>10. QED
    BY <1>13, <1>14, <2>4, <2>7, <2>8, <2>9 DEF Departing
<1>16. CASE kind = "heartbeat" /\ member
  <2>0. e.kind = "heartbeat"
    BY <1>3, <1>16
  <2>1. Sound(current, Known \cup {e}, e.sequence, now) /\ e \notin Known
    BY <1>3, <1>5, SoundSigns
  <2>2. e \in Known \cup {e} /\ e \notin Logged(current)
    BY <1>5, <2>1 DEF Known
  <2>3. ledger' = Accept(current, e)
    BY <1>2, <2>0
  <2>4. PICK x : x = ExpireIndexes(current, now)
    OBVIOUS
  <2>5. Topped(ledger')
    BY <1>3, <1>6, <2>0, <2>1, <2>2, <2>3, <2>4, OwnTaken
  <2>6. Here(Logged(current), now)
    BY <1>5, <1>16 DEF member
  <2>7. Here(Logged(ledger'), now)
    BY <1>3, <1>6, <2>0, <2>1, <2>2, <2>3, <2>6, HereStays
  <2>8. HereNow' /\ Admits'
    BY <1>2, <2>7, HereAdmits DEF HereNow, Admits
  <2>9. HasBasis(current, Self) /\ Self \notin Lapsed(current, now)
    BY <1>5, <2>6, HereIsIndexed
  <2>10. Refreshed(ledger', now) /\ HasBasis(ledger', Self)
    BY <1>3, <1>8, <2>0, <2>1, <2>2, <2>3, <2>9, OwnAccepted
  <2>11. Alive'
    <3>1. PresenceTtlMs \in Nat
      BY RulesAssumption
    <3>2. LatestAt(ledger') = now /\ now <= now + PresenceTtlMs
      BY <1>2, <2>10, <3>1 DEF Refreshed
    <3>3. QED BY <1>2, <2>10, <3>2 DEF Alive
  <2>12. QED
    BY <1>2, <1>13, <1>14, <2>5, <2>8, <2>11 DEF Departing
<1>17. QED BY <1>4, <1>15, <1>16

(* The join is mined.  One that nothing overtook brings the node into its hall, *)
(* and one that was overtaken changes nothing there.                         *)
LEMMA MinedDeparting ==
    ASSUME NoneIsNoAnswer, LogHasRoom, Underway, Recorded, Departing,
           NEW c \in Callers, Mined(c)
    PROVE  Departing'
<1> USE DEF world, lifecycle, presence
<1>0. "user" \in Callers /\ "heartbeat" \in Callers /\ "stop" \in Callers
  BY DEF Callers
<1>1. PICK e : e = calls[c].event
  OBVIOUS
<1>2. /\ calls[c].pc = "mine" /\ ledger' = Accept(ledger, e) /\ now' = now /\ now \in Nat
      /\ Publishing(c, "join", e) /\ present' = present /\ answer' = answer
  BY <1>1 DEF Mined, Underway
<1>3. /\ e \in Known /\ e.kind = "join" /\ e.issuedAt = now /\ e \notin Logged(ledger)
      /\ c \in {"user", "heartbeat"} /\ Sound(ledger, Known, localSequence, now)
  BY <1>1, <1>2 DEF Recorded, Known, MiningCallers
<1>4. /\ \A d \in Callers : calls'[d].pc = "mine" => d # c /\ calls'[d] = calls[d]
      /\ \A d \in Callers : d # c => calls'[d] = calls[d]
      /\ calls'[c] = NoCall \/ calls'[c] = Call("join", "publish", e)
  BY <1>2, PublishingMinesNothing
<1>5. calls'[c].op \in {"join", "none"}
  BY <1>4 DEF NoCall, Call
<1>6. /\ Idle("stop")'
      /\ \A d \in Callers : calls'[d].op = "join" => d \in {"user", "heartbeat"}
      /\ \A d \in Callers : calls'[d].op = "leave" => d = "user" /\ ~present'
  BY <1>0, <1>2, <1>3, <1>4, <1>5 DEF Departing, Idle
<1>7. answer' # None => Idle("user")'
  <2>1. CASE c = "user"
    BY <1>2, <2>1 DEF Departing, Underway, Idle, Callers
  <2>2. CASE c # "user"
    BY <1>0, <1>2, <1>4, <2>2 DEF Departing, Idle
  <2>3. QED BY <2>1, <2>2
<1>8. PICK x : x = ExpireIndexes(ledger, now)
  OBVIOUS
<1>9. /\ HighWaterMark(ledger, Self) \in Nat /\ HighWaterMark(ledger', Self) \in Nat
      /\ HighWaterMark(ledger, Self) <= HighWaterMark(ledger', Self) /\ Topped(ledger')
      /\ ~Acceptable(x, e) => ledger' = x
      /\ e.sequence > HighWaterMark(ledger, Self) <=> Acceptable(x, e)
  BY <1>2, <1>3, <1>8, OwnTaken DEF LogHasRoom, Departing
<1>10. /\ Logged(x) = Logged(ledger) /\ HighWaterMark(x, Self) = HighWaterMark(ledger, Self)
       /\ Self \notin Lapsed(ledger, now) => HasBasis(x, Self) = HasBasis(ledger, Self)
       /\ HasBasis(x, Self) => LatestAt(x) = LatestAt(ledger)
  BY <1>3, <1>8, ExpireKeeps
<1>11. Alive => Self \notin Lapsed(ledger, now)
  BY <1>3, YoungIsLive DEF Alive
<1>12. Ahead(c) <=> Acceptable(x, e)
  BY <1>1, <1>2, <1>9 DEF Ahead
<1>13. Here(Logged(ledger'), now) => HereNow' /\ Admits'
  BY <1>2, HereAdmits DEF HereNow, Admits
<1>14. HereNow => HereNow' /\ Admits'
  <2> SUFFICES ASSUME HereNow PROVE Here(Logged(ledger'), now)
    BY <1>13
  <2>1. QED BY <1>2, <1>3, HereStays DEF HereNow, LogHasRoom, Departing
<1>15. \A d \in Callers : d # c /\ Ahead(d)' => Ahead(d)
  <2> SUFFICES ASSUME NEW d \in Callers, d # c, Ahead(d)' PROVE Ahead(d)
    OBVIOUS
  <2>1. calls'[d] = calls[d] /\ calls[d].pc = "mine"
    BY <1>4 DEF Ahead
  <2>2. calls[d].event.sequence \in Nat
    BY <2>1 DEF Underway, Idle
  <2>3. calls[d].event.sequence > HighWaterMark(ledger', Self)
    BY <2>1 DEF Ahead
  <2>4. calls[d].event.sequence > HighWaterMark(ledger, Self)
    BY <1>9, <2>2, <2>3
  <2>5. QED BY <2>1, <2>4 DEF Ahead
<1>16. ~Ahead(c)'
  BY <1>4 DEF Ahead
<1>17. CASE Ahead(c)
  <2>1. e.sequence > HighWaterMark(ledger, Self)
    BY <1>9, <1>12, <1>17
  <2>2. Admits \/ HereNow
    BY <1>2, <1>3, <1>17 DEF Departing
  <2>3. HereNow' /\ Admits'
    <3>1. CASE Admits
      <4>1. Here(Logged(ledger'), now)
        BY <1>2, <1>3, <2>1, <3>1, JoinLetsIn DEF LogHasRoom, Departing, Admits, NoneIsNoAnswer
      <4>2. QED BY <1>13, <4>1
    <3>2. QED BY <1>14, <2>2, <3>1
  <2>4. Refreshed(ledger', now) /\ HasBasis(ledger', Self)
    BY <1>2, <1>3, <2>1, OwnAccepted
  <2>5. Alive'
    <3>1. PresenceTtlMs \in Nat
      BY RulesAssumption
    <3>2. LatestAt(ledger') = now /\ now <= now + PresenceTtlMs
      BY <1>2, <2>4, <3>1 DEF Refreshed
    <3>3. QED BY <1>2, <2>4, <3>2 DEF Alive
  <2>6. Ahead("heartbeat")' => present'
    BY <1>0, <1>2, <1>15, <1>16 DEF Departing
  <2>7. answer' # "out"
    <3>1. CASE c = "heartbeat"
      BY <1>2, <1>17, <3>1 DEF Departing
    <3>2. CASE c = "user"
      BY <1>2, <3>2 DEF Departing, Underway, Idle, Callers, NoneIsNoAnswer
    <3>3. QED BY <1>3, <3>1, <3>2
  <2>8. QED
    BY <1>6, <1>7, <1>9, <2>3, <2>5, <2>6, <2>7 DEF Departing
<1>18. CASE ~Ahead(c)
  <2>1. ledger' = x
    BY <1>9, <1>12, <1>18
  <2>2. (HereNow' <=> HereNow) /\ (Admits' <=> Admits)
    BY <1>2, <1>10, <2>1, HereAdmits DEF HereNow, Admits
  <2>3. Alive => Alive'
    BY <1>2, <1>10, <1>11, <2>1 DEF Alive
  <2>4. Ahead("heartbeat")' => present' /\ Admits' /\ Alive'
    BY <1>0, <1>2, <1>15, <1>16, <2>2, <2>3 DEF Departing
  <2>5. answer' = "out" => ~present' /\ ~HereNow'
    BY <1>2, <2>2 DEF Departing
  <2>6. calls'["user"].pc = "mine" => (Ahead("user")' /\ Admits') \/ HereNow'
    <3>1. calls'["user"].pc = "mine" => calls'["user"] = calls["user"]
      BY <1>0, <1>4
    <3>2. HighWaterMark(ledger', Self) = HighWaterMark(ledger, Self)
      BY <1>10, <2>1
    <3>3. calls'["user"].pc = "mine" => Ahead("user")' = Ahead("user")
      BY <3>1, <3>2 DEF Ahead
    <3>4. QED BY <2>2, <3>1, <3>3 DEF Departing
  <2>7. Publishes("user", "join")' => HereNow'
    <3>1. CASE c = "user"
      BY <1>2, <1>18, <2>2, <3>1 DEF Departing
    <3>2. CASE c # "user"
      BY <1>0, <1>4, <2>2, <3>2 DEF Departing, Publishes
    <3>3. QED BY <3>1, <3>2
  <2>8. QED
    BY <1>6, <1>7, <1>9, <2>2, <2>4, <2>5, <2>6, <2>7 DEF Departing
<1>19. QED BY <1>17, <1>18
(* Time passes with no call under way: nobody comes back into the hall.        *)
LEMMA TickDeparting ==
    ASSUME Underway, Recorded, Departing, Tick
    PROVE  Departing'
<1> USE DEF lifecycle, presence
<1>0. /\ now \in Nat /\ now' = now + 1 /\ Settled /\ calls' = calls /\ ledger' = ledger
      /\ present' = present /\ answer' = answer
      /\ "user" \in Callers /\ "heartbeat" \in Callers /\ "stop" \in Callers
  BY DEF Tick, Underway, Callers
<1>1. \A c \in Callers : calls'[c].op = "none" /\ calls'[c].pc # "mine"
  BY <1>0 DEF Settled, Idle, Underway
<1>2. HereNow' => HereNow
  <2>1. /\ IsFiniteSet(Known) /\ Ordered(Known) /\ Logged(ledger) \in SUBSET Known
    BY DEF Recorded, Sound, Own, SignedBy, Known
  <2>2. IsLog(Logged(ledger))
    BY <2>1, OrderedIsLog
  <2>3. now \in Int /\ now + 1 \in Int /\ now <= now + 1
    BY <1>0
  <2>4. Participants(Derive(Logged(ledger), now + 1)) \subseteq Participants(Derive(Logged(ledger), now))
    BY <2>2, <2>3, NobodyComesBack
  <2>5. QED BY <1>0, <2>4 DEF HereNow, Here
<1>3. Topped(ledger')
  BY <1>0 DEF Departing
<1>4. answer' = "out" => ~present' /\ ~HereNow'
  BY <1>0, <1>2 DEF Departing
<1>5. ~Ahead("heartbeat")' /\ calls'["user"].pc # "mine" /\ ~Publishes("user", "join")'
  BY <1>0, <1>1 DEF Ahead, Publishes
<1>6. Idle("stop")' /\ Idle("user")'
  BY <1>0, <1>1 DEF Idle
<1>7. \A c \in Callers : calls'[c].op # "join" /\ calls'[c].op # "leave"
  BY <1>1
<1>8. QED BY <1>3, <1>4, <1>5, <1>6, <1>7 DEF Departing

(* A call that was publishing ends, with what it found in the hall.            *)
LEMMA EndsDeparting ==
    ASSUME NoneIsNoAnswer, Underway, Typed, Recorded, Departing,
           NEW c \in Callers, Joined(c) \/ Left(c) \/ Said(c) \/ PublishFails(c)
    PROVE  Departing'
<1> USE DEF lifecycle, presence, world
<1>0. "user" \in Callers /\ "heartbeat" \in Callers
  BY DEF Callers
<1>1. /\ calls' = [calls EXCEPT ![c] = NoCall] /\ now' = now
      /\ ledger' = ledger \/ ledger' = ExpireIndexes(ledger, now)
      /\ present' = present \/ present' = FALSE
  BY DEF Joined, Left, Said, PublishFails, ClearLocalPresence
<1>2. calls'[c] = NoCall /\ \A d \in Callers : calls'[d] = calls[d] \/ calls'[d] = NoCall
  BY <1>1 DEF Underway
<1>3. c = "user" => Idle("user")'
  BY <1>2 DEF Idle, NoCall, Call
<1>4. CASE Joined(c)
  <2>1. calls[c].pc = "publish" /\ calls[c].op = "join" /\ c \in {"user", "heartbeat"}
    BY <1>4 DEF Joined, Publishes, Departing
  <2>2. CASE HereNow
    <3>1. present' = present /\ answer' = (IF c = "user" THEN "in" ELSE answer)
      BY <1>4, <2>2 DEF Joined, Answer, HereNow
    <3>2. answer' = answer \/ (Idle("user")' /\ (answer' = "out" => ~present' /\ ~HereNow))
      BY <1>3, <3>1
    <3>3. QED BY <1>1, <1>2, <3>1, <3>2, DepartingLooks
  <2>3. CASE ~HereNow
    <3>1. present' = FALSE /\ answer' = (IF c = "user" THEN None ELSE answer)
      BY <1>4, <2>3 DEF Joined, Answer, HereNow, ClearLocalPresence
    <3>2. answer' = answer \/ (Idle("user")' /\ (answer' = "out" => ~present' /\ ~HereNow))
      BY <1>3, <2>3, <3>1
    <3>3. c = "heartbeat"
      BY <2>1, <2>3 DEF Departing, Publishes
    <3>4. calls'["heartbeat"] = NoCall
      BY <1>2, <3>3
    <3>5. QED BY <1>1, <1>2, <3>1, <3>2, <3>4, DepartingLooks
  <2>4. QED BY <2>2, <2>3
<1>5. CASE Left(c)
  <2>1. c = "user" /\ ~present
    BY <1>5 DEF Left, Publishes, Departing
  <2>2. present' = FALSE /\ answer' = Shown
    BY <1>5, <2>1 DEF Left, ClearLocalPresence, Answer
  <2>3. answer' = "out" => ~HereNow
    BY <2>2 DEF Shown, HereNow
  <2>4. QED BY <1>1, <1>2, <1>3, <2>1, <2>2, <2>3, DepartingLooks
<1>6. CASE Said(c) \/ PublishFails(c)
  <2>1. present' = present /\ answer' = answer
    BY <1>6 DEF Said, PublishFails
  <2>2. QED BY <1>1, <1>2, <2>1, DepartingLooks
<1>7. QED BY <1>4, <1>5, <1>6

(* Every step of a node that says nothing, and is not disposed of, keeps it.   *)
LEMMA DepartingInvariant ==
    ASSUME NoneIsNoEvent, NoneIsNoAnswer, LogHasRoom, Underway, Typed, Reachable, Recorded,
           Renewing, Departing, [Next]_vars, ~disposed', talk \in Nat, talk' = talk
    PROVE  Departing'
<1> USE DEF lifecycle, presence, budget, world
<1>1. CASE UNCHANGED vars
  <2>1. /\ ledger' = ledger /\ calls' = calls /\ now' = now /\ present' = present
        /\ answer' = answer
    BY <1>1 DEF vars
  <2>2. QED BY <2>1, DepartingLooks
<1>2. CASE KeysLoaded \/ StartFails \/ Created \/ TransportsUp \/ LinkChanges
  <2>1. /\ ledger' = ledger /\ calls' = calls /\ now' = now /\ present' = present
        /\ answer' = answer
    BY <1>2 DEF KeysLoaded, StartFails, Created, TransportsUp, LinkChanges
  <2>2. QED BY <2>1, DepartingLooks
<1>3. CASE UserJoin
  <2>1. JoinBegins("user", nextBeat) \/ JoinRefused("user")
    BY <1>3 DEF UserJoin
  <2>2. "user" \in {"user", "heartbeat"} /\ ("user" = "heartbeat" => present /\ Alive)
    OBVIOUS
  <2>3. QED BY <2>1, <2>2, JoinDeparting, RefusedDeparting
<1>4. CASE UserLeave
  <2>1. Idle("user") /\ now' = now
    BY <1>4 DEF UserLeave
  <2>2. CASE present
    <3>1. LeaveBegins("user", "leave") /\ answer' = None
      BY <1>4, <2>2 DEF UserLeave
    <3>2. QED BY <2>1, <3>1, UserLeaveDeparting
  <2>3. CASE ~present
    <3>1. /\ ledger' = ExpireIndexes(ledger, now) /\ calls' = calls /\ present' = present
          /\ answer' = Shown
      BY <1>4, <2>3 DEF UserLeave
    <3>2. Idle("user")' /\ (answer' = "out" => ~present' /\ ~HereNow)
      BY <2>1, <2>3, <3>1 DEF Idle, Shown, HereNow
    <3>3. QED BY <2>1, <3>1, <3>2, DepartingLooks
  <2>4. QED BY <2>2, <2>3
<1>5. CASE Beat
  <2>1. CASE present /\ node
    <3>1. JoinBegins("heartbeat", NextFiring(nextBeat)) \/ JoinRefused("heartbeat")
      BY <1>5, <2>1 DEF Beat
    <3>2. Alive
      BY <1>5, <2>1 DEF Beat, Renewing, Alive
    <3>3. "heartbeat" \in {"user", "heartbeat"}
      OBVIOUS
    <3>4. QED BY <2>1, <3>1, <3>2, <3>3, JoinDeparting, RefusedDeparting
  <2>2. CASE ~(present /\ node)
    <3>1. /\ ledger' = ledger /\ calls' = calls /\ now' = now /\ present' = present
          /\ answer' = answer
      BY <1>5, <2>2 DEF Beat
    <3>2. QED BY <3>1, DepartingLooks
  <2>3. QED BY <2>1, <2>2
<1>6. CASE Say \/ Checkpoint
  <2>1. talk' = talk + 1
    BY <1>6 DEF Say, Checkpoint
  <2>2. QED BY <2>1
<1>7. ASSUME NEW c \in Callers,
             Mined(c) \/ Joined(c) \/ Left(c) \/ Said(c) \/ PublishFails(c)
      PROVE  Departing'
  BY <1>7, MinedDeparting, EndsDeparting
<1>8. CASE Dispose
  BY <1>8 DEF Dispose
<1>9. CASE Stopped
  <2>1. calls["stop"].op = "stop" /\ calls["stop"].op = "none"
    BY <1>9 DEF Stopped, Publishes, Departing, Idle
  <2>2. QED BY <2>1
<1>10. CASE Tick
  BY <1>10, TickDeparting
<1>11. QED
  BY <1>1, <1>2, <1>3, <1>4, <1>5, <1>6, <1>7, <1>8, <1>9, <1>10 DEF Next

(* A node that was disposed of stays so. *)
LEMMA DisposedStays ==
    ASSUME [Next]_vars, disposed
    PROVE  disposed'
<1> USE DEF lifecycle
<1>1. CASE UserJoin \/ UserLeave \/ Beat \/ Say \/ Checkpoint
  <2>1. ASSUME NEW c, NEW beat, JoinBegins(c, beat) \/ JoinRefused(c) PROVE disposed'
    BY <2>1 DEF JoinBegins, JoinRefused
  <2>2. QED BY <1>1, <2>1 DEF UserJoin, UserLeave, Beat, Say, Checkpoint
<1>2. CASE KeysLoaded \/ StartFails \/ Created \/ TransportsUp \/ LinkChanges \/ Tick
  BY <1>2 DEF KeysLoaded, StartFails, Created, TransportsUp, LinkChanges, Tick
<1>3. CASE Dispose \/ Stopped
  BY <1>3 DEF Dispose, Stopped
<1>4. ASSUME NEW c \in Callers, Mined(c) \/ Joined(c) \/ Left(c) \/ Said(c) \/ PublishFails(c)
      PROVE  disposed'
  BY <1>4 DEF Mined, Joined, Left, Said, PublishFails
<1>5. CASE UNCHANGED vars
  BY <1>5 DEF vars
<1>6. QED BY <1>1, <1>2, <1>3, <1>4, <1>5 DEF Next

(* The initial state. *)
LEMMA InitDeparting ==
    ASSUME NoneIsNoAnswer, Init
    PROVE  Departing
<1>1. NoCall.op = "none" /\ NoCall.pc = "none"
  BY DEF NoCall, Call
<1>2. /\ calls = [c \in Callers |-> NoCall] /\ answer = None /\ Logged(ledger) = {}
      /\ "user" \in Callers /\ "heartbeat" \in Callers /\ "stop" \in Callers
  BY DEF Init, EmptyLedger, Logged, ToSet, Callers
<1>3. \A c \in Callers : calls[c].op = "none" /\ calls[c].pc = "none"
  BY <1>1, <1>2
<1>4. answer # "out"
  BY <1>2 DEF NoneIsNoAnswer
<1>5. QED BY <1>2, <1>3, <1>4 DEF Departing, Topped, Idle, Ahead, Publishes

(* LeftStaysLeft: a browser that was shown that it left is out of the hall of  *)
(* its own Host until the user joins again, whatever joins were being mined   *)
(* when leaveHall (node.ts:429-447) signed the leave.  This is of a node that *)
(* signs no message and no checkpoint, whose log has room (an eviction may     *)
(* take an event that a later one rests on) and whose timer's period is no    *)
(* longer than the TTL.                                                       *)
THEOREM LeavingIsFinal ==
    ASSUME NoneIsNoEvent, NoneIsNoAnswer, PresenceHeartbeatMs <= PresenceTtlMs
    PROVE  Spec /\ []LogHasRoom => []LeftStaysLeft
<1> DEFINE Kept == Underway /\ Typed /\ Reachable /\ Recorded /\ talk \in Nat
                   /\ (talk = 0 => Renewing) /\ (talk = 0 /\ ~disposed => Departing)
<1>1. Init => Kept
  <2>1. Init => Underway /\ Typed /\ Reachable
    BY InitTyped DEF Init, Reachable, Early, OnlineReachable
  <2>2. Init => talk \in Nat
    BY DEF Init
  <2>3. QED BY <2>1, <2>2, InitRecorded, InitRenewing, InitDeparting
<1>2. Kept /\ LogHasRoom /\ [Next]_vars => Kept'
  <2> SUFFICES ASSUME Kept, LogHasRoom, [Next]_vars PROVE Kept'
    OBVIOUS
  <2>1. Underway' /\ Typed' /\ Reachable' /\ Recorded'
    BY UnderwayInvariant, TypedInvariant, ReachableInvariant, RecordedInvariant DEF Underway
  <2>2. talk' \in Nat /\ (talk' = 0 => talk' = talk)
    BY TalkCounts
  <2>3. ASSUME talk' = 0 PROVE Renewing'
    <3>1. talk' = talk /\ talk = 0
      BY <2>2, <2>3
    <3>2. QED BY <3>1, RenewingInvariant
  <2>4. ASSUME talk' = 0, ~disposed' PROVE Departing'
    <3>1. talk' = talk /\ talk = 0
      BY <2>2, <2>4
    <3>2. ~disposed
      BY <2>4, DisposedStays
    <3>3. QED BY <2>4, <3>1, <3>2, DepartingInvariant
  <2>5. QED BY <2>1, <2>2, <2>3, <2>4
<1>3. Kept => LeftStaysLeft
  BY DEF LeftStaysLeft, Departing, HereNow
<1>4. QED BY <1>1, <1>2, <1>3, PTL DEF Spec
-----------------------------------------------------------------------------
(* The room at the far end of the link: it has heard events of this node, and *)
(* those of the calls under way are still to be published.                    *)
Busy == { c \in Callers : ~Idle(c) }
Heard == Logged(room) \cup { calls[c].event : c \in Busy }

Hearing ==
    /\ Sound(room, Heard, localSequence, now)
    /\ \A c \in Busy :
         /\ calls[c].event \notin Logged(room) /\ calls[c].event.issuedAt = now
         /\ calls[c].op = "join" => calls[c].event.kind \in {"join", "heartbeat"}
         /\ calls[c].op # "say"

(* The room hears nothing; calls go on with the event they have, or end.      *)
LEMMA HearingKeeps ==
    ASSUME Hearing, room' = room, now' = now, localSequence' = localSequence,
           \A c \in Callers : ~Idle(c)' =>
               ~Idle(c) /\ calls'[c].event = calls[c].event /\ calls'[c].op = calls[c].op
    PROVE  Hearing'
<1>1. \A c \in Busy' : /\ c \in Busy /\ calls'[c].event = calls[c].event
                       /\ calls'[c].op = calls[c].op
  BY DEF Busy
<1>2. Heard' \subseteq Heard /\ Logged(room') \subseteq Heard'
  BY <1>1 DEF Heard
<1>3. Sound(room', Heard', localSequence', now')
  BY <1>2, SoundShrinks DEF Hearing
<1>4. QED BY <1>1, <1>3 DEF Hearing

(* A call begins with a new event, or is over at once. *)
LEMMA HearingSigns ==
    ASSUME NoneIsNoEvent, Underway, Hearing, room' = room, now' = now,
           NEW kind, NEW claim, NEW e, e = NewEvent(kind, claim), localSequence' = e.sequence,
           NEW c \in Callers,
           \A d \in Callers : d # c => calls'[d] = calls[d],
           \/ calls'[c].op = "none"
           \/ /\ calls'[c].event = e /\ calls'[c].op # "say"
              /\ calls'[c].op = "join" => kind \in {"join", "heartbeat"}
    PROVE  Hearing'
<1>1. /\ EventLike(e) /\ e # None /\ e.origin = Self /\ e.kind = kind
      /\ e.sequence > localSequence /\ e.issuedAt = now
  BY NewEventFields
<1>2. Sound(room, Heard \cup {e}, e.sequence, now) /\ e \notin Heard
  BY <1>1, SoundSigns DEF Hearing
<1>3. \A d \in Busy' : \/ d \in Busy /\ calls'[d] = calls[d]
                       \/ /\ calls'[d].event = e /\ calls'[d].op # "say"
                          /\ calls'[d].op = "join" => kind \in {"join", "heartbeat"}
  BY DEF Busy, Idle
<1>4. Heard' \subseteq Heard \cup {e} /\ Logged(room') \subseteq Heard'
  BY <1>3 DEF Heard
<1>5. Sound(room', Heard', localSequence', now')
  BY <1>2, <1>4, SoundShrinks
<1>6. e \notin Logged(room)
  BY <1>2 DEF Heard
<1>7. ASSUME NEW d \in Busy'
      PROVE  /\ calls'[d].event \notin Logged(room') /\ calls'[d].event.issuedAt = now'
             /\ calls'[d].op = "join" => calls'[d].event.kind \in {"join", "heartbeat"}
             /\ calls'[d].op # "say"
  BY <1>1, <1>3, <1>6, <1>7 DEF Hearing
<1>8. QED BY <1>5, <1>7 DEF Hearing

(* The event of a call is published: heard, or lost with the link.            *)
LEMMA HearingDelivers ==
    ASSUME Underway, Hearing, now' = now, localSequence' = localSequence,
           NEW c \in Busy, Deliver(calls[c].event), calls' = [calls EXCEPT ![c] = NoCall]
    PROVE  Hearing'
<1>1. PICK e : e = calls[c].event
  OBVIOUS
<1>2. \A d \in Callers : calls'[d] = IF d = c THEN NoCall ELSE calls[d]
  BY DEF Underway
<1>3. \A d \in Busy' : d \in Busy /\ d # c /\ calls'[d] = calls[d]
  BY <1>2 DEF Busy, Idle, NoCall, Call
<1>4. c \in Callers /\ e \in Heard
  BY <1>1 DEF Busy, Heard
<1>5. room' = room \/ room' = Accept(room, e)
  BY <1>1 DEF Deliver
<1>6. Sound(room', Heard, localSequence, now)
  BY <1>4, <1>5, SoundAccept DEF Hearing
<1>7. Logged(room') \subseteq Logged(room) \cup {e}
  <2>1. CASE e.kind = "sync"
    BY <1>5, <2>1 DEF Accept
  <2>2. CASE e.kind # "sync"
    <3>1. /\ Within(Heard, room) /\ Signed(Heard) /\ e \in Heard
          /\ e \notin Logged(room)
      BY <1>1, <1>4 DEF Hearing, Sound, Own
    <3>2. Logged(Accept(room, e)) \subseteq Logged(room) \cup {e}
      BY <2>2, <3>1, AcceptEffect
    <3>3. QED BY <1>5, <3>2
  <2>3. QED BY <2>1, <2>2
<1>8. \A d \in Busy' : calls[d].event # e
  BY <1>1, <1>3, <1>4 DEF Underway, Busy
<1>9. Heard' \subseteq Heard /\ Logged(room') \subseteq Heard'
  BY <1>1, <1>3, <1>4, <1>7 DEF Heard
<1>10. Sound(room', Heard', localSequence', now')
  BY <1>6, <1>9, SoundShrinks
<1>11. ASSUME NEW d \in Busy'
       PROVE  /\ calls'[d].event \notin Logged(room') /\ calls'[d].event.issuedAt = now'
              /\ calls'[d].op = "join" => calls'[d].event.kind \in {"join", "heartbeat"}
              /\ calls'[d].op # "say"
  BY <1>3, <1>7, <1>8, <1>11 DEF Hearing
<1>12. QED BY <1>10, <1>11 DEF Hearing

(* publishEvent: the call waits to publish the event, or is over.             *)
LEMMA HearingPublishes ==
    ASSUME NoneIsNoEvent, Underway, Hearing, room' = room, now' = now,
           NEW kind, NEW claim, localSequence' = NewEvent(kind, claim).sequence,
           NEW c \in Callers, NEW op, op # "say", op = "join" => kind \in {"join", "heartbeat"},
           Publishing(c, op, NewEvent(kind, claim))
    PROVE  Hearing'
<1>1. PICK e : e = NewEvent(kind, claim)
  OBVIOUS
<1>2. Publishing(c, op, e) /\ localSequence' = e.sequence
  BY <1>1
<1>3. /\ \A d \in Callers : d # c => calls'[d] = calls[d]
      /\ calls'[c] = NoCall \/ calls'[c] = Call(op, "publish", e)
  BY <1>2, PublishingMinesNothing
<1>4. calls'[c].op = "none" \/ (calls'[c].event = e /\ calls'[c].op = op)
  BY <1>3 DEF NoCall, Call
<1>5. QED BY <1>1, <1>2, <1>3, <1>4, HearingSigns

(* joinHall: whatever it signs is still to be published.                      *)
LEMMA JoinHearing ==
    ASSUME NoneIsNoEvent, Underway, Hearing, NEW c \in Callers, NEW beat,
           JoinBegins(c, beat) \/ JoinRefused(c)
    PROVE  Hearing'
<1> USE DEF world
<1>1. CASE JoinRefused(c)
  <2>1. /\ room' = room /\ calls' = calls /\ localSequence' = localSequence /\ now' = now
    BY <1>1 DEF JoinRefused
  <2>2. QED BY <2>1, HearingKeeps DEF Idle
<1>2. CASE JoinBegins(c, beat)
  <2> DEFINE kind == PresenceActionFor(present /\ Here(Logged(ledger), now))
             event == NewEvent(kind, None)
  <2>1. /\ now' = now /\ room' = room /\ localSequence' = event.sequence
        /\ IF event.kind = "join" THEN calls' = [calls EXCEPT ![c] = Call("join", "mine", event)]
                                  ELSE Publishing(c, "join", event)
    BY <1>2 DEF JoinBegins
  <2>2. event.kind = kind /\ kind \in {"join", "heartbeat"}
    BY DEF NewEvent, PresenceActionFor
  <2>3. CASE kind = "join"
    <3>1. PICK e : e = event
      OBVIOUS
    <3> HIDE DEF kind
    <3>2. \A d \in Callers : calls'[d] = IF d = c THEN Call("join", "mine", e) ELSE calls[d]
      BY <2>1, <2>2, <2>3, <3>1 DEF Underway
    <3>3. calls'[c].event = e /\ calls'[c].op = "join"
      BY <3>2 DEF Call
    <3>4. QED BY <2>1, <2>2, <3>1, <3>2, <3>3, HearingSigns
  <2>4. CASE kind # "join"
    <3> HIDE DEF kind
    <3>1. QED BY <2>1, <2>2, <2>4, HearingPublishes
  <2>5. QED BY <2>3, <2>4
<1>3. QED BY <1>1, <1>2

(* leaveHall: so is its leave. *)
LEMMA LeaveHearing ==
    ASSUME NoneIsNoEvent, Underway, Hearing, NEW c \in Callers, NEW op \in {"leave", "stop"},
           LeaveBegins(c, op), now' = now
    PROVE  Hearing'
<1>1. /\ localSequence' = NewEvent("leave", None).sequence /\ room' = room
      /\ Publishing(c, op, NewEvent("leave", None))
  BY DEF LeaveBegins
<1>2. QED BY <1>1, HearingPublishes

(* Every step of a node that says nothing keeps it.                           *)
LEMMA HearingInvariant ==
    ASSUME NoneIsNoEvent, Underway, Hearing, talk \in Nat, [Next]_vars, talk' = talk
    PROVE  Hearing'
<1> USE DEF lifecycle, presence, budget, world
<1>1. CASE UNCHANGED vars \/ KeysLoaded \/ StartFails \/ Created \/ TransportsUp \/ LinkChanges
  <2>1. room' = room /\ calls' = calls /\ localSequence' = localSequence /\ now' = now
    BY <1>1 DEF vars, KeysLoaded, StartFails, Created, TransportsUp, LinkChanges
  <2>2. QED BY <2>1, HearingKeeps DEF Idle
<1>2. CASE UserJoin
  BY <1>2, JoinHearing DEF UserJoin, Callers
<1>3. CASE UserLeave
  <2>1. CASE present
    BY <1>3, <2>1, LeaveHearing DEF UserLeave, Callers
  <2>2. CASE ~present
    <3>1. room' = room /\ calls' = calls /\ localSequence' = localSequence /\ now' = now
      BY <1>3, <2>2 DEF UserLeave
    <3>2. QED BY <3>1, HearingKeeps DEF Idle
  <2>3. QED BY <2>1, <2>2
<1>4. CASE Beat
  <2>1. CASE present /\ node
    BY <1>4, <2>1, JoinHearing DEF Beat, Callers
  <2>2. CASE ~(present /\ node)
    <3>1. room' = room /\ calls' = calls /\ localSequence' = localSequence /\ now' = now
      BY <1>4, <2>2 DEF Beat
    <3>2. QED BY <3>1, HearingKeeps DEF Idle
  <2>3. QED BY <2>1, <2>2
<1>5. CASE Say \/ Checkpoint
  <2>1. talk' = talk + 1
    BY <1>5 DEF Say, Checkpoint
  <2>2. QED BY <2>1
<1>6. ASSUME NEW c \in Callers, Mined(c) PROVE Hearing'
  <2>1. PICK e : e = calls[c].event
    OBVIOUS
  <2>2. /\ now' = now /\ localSequence' = localSequence /\ room' = room /\ calls[c].pc = "mine"
        /\ Publishing(c, "join", e)
    BY <1>6, <2>1 DEF Mined
  <2>3. /\ \A d \in Callers : d # c => calls'[d] = calls[d]
        /\ calls'[c] = NoCall \/ calls'[c] = Call("join", "publish", e)
    BY <2>2, PublishingMinesNothing
  <2>4. calls'[c].op = "none" \/ (calls'[c].event = e /\ calls'[c].op = "join")
    BY <2>3 DEF NoCall, Call
  <2>5. calls[c].op = "join"
    BY <2>2 DEF Underway
  <2>6. QED BY <2>1, <2>2, <2>3, <2>4, <2>5, HearingKeeps DEF Idle
<1>7. ASSUME NEW c \in Callers, Joined(c) \/ Left(c) \/ Said(c) PROVE Hearing'
  <2>1. /\ calls[c].op \in {"join", "leave", "say"} /\ now' = now /\ localSequence' = localSequence
        /\ Deliver(calls[c].event) /\ calls' = [calls EXCEPT ![c] = NoCall]
    BY <1>7 DEF Joined, Left, Said, Publishes
  <2>2. c \in Busy
    BY <2>1 DEF Busy, Idle
  <2>3. QED BY <2>1, <2>2, HearingDelivers
<1>8. ASSUME NEW c \in Callers, PublishFails(c) PROVE Hearing'
  <2>1. /\ calls' = [calls EXCEPT ![c] = NoCall] /\ room' = room /\ now' = now
        /\ localSequence' = localSequence
    BY <1>8 DEF PublishFails
  <2>2. \A d \in Callers : calls'[d] = calls[d] \/ calls'[d] = NoCall
    BY <2>1 DEF Underway
  <2>3. QED BY <2>1, <2>2, HearingKeeps DEF Idle, NoCall, Call
<1>9. CASE Dispose
  <2>1. CASE node /\ present
    BY <1>9, <2>1, LeaveHearing DEF Dispose, Callers
  <2>2. CASE ~(node /\ present)
    <3>1. room' = room /\ calls' = calls /\ localSequence' = localSequence /\ now' = now
      BY <1>9, <2>2 DEF Dispose
    <3>2. QED BY <3>1, HearingKeeps DEF Idle
  <2>3. QED BY <2>1, <2>2
<1>10. CASE Stopped
  <2>1. /\ calls["stop"].op = "stop" /\ now' = now /\ localSequence' = localSequence
        /\ Deliver(calls["stop"].event) /\ calls' = [calls EXCEPT !["stop"] = NoCall]
    BY <1>10 DEF Stopped, Publishes
  <2>2. "stop" \in Busy
    BY <2>1 DEF Busy, Idle, Callers
  <2>3. QED BY <2>1, <2>2, HearingDelivers
<1>11. CASE Tick
  <2>1. /\ calls' = calls /\ room' = room /\ localSequence' = localSequence /\ now' = now + 1
        /\ Settled
    BY <1>11 DEF Tick
  <2>2. Busy = {} /\ Busy' = {}
    BY <2>1 DEF Busy, Settled, Idle
  <2>3. Heard' = Heard
    BY <2>1, <2>2 DEF Heard
  <2>4. Sound(room', Heard', localSequence', now')
    BY <2>1, <2>3, SoundLater DEF Hearing
  <2>5. QED BY <2>2, <2>4 DEF Hearing
<1>12. QED
  BY <1>1, <1>2, <1>3, <1>4, <1>5, <1>6, <1>7, <1>8, <1>9, <1>10, <1>11 DEF Next

-----------------------------------------------------------------------------
(* The invariant behind RoomRegained.  The room's basis has just been renewed, *)
(* or is alive with a heartbeat due in time; or a join is on its way that it   *)
(* will accept; or it has had no join since the link returned, and the        *)
(* heartbeat that follows the half of the TTL will bring one.                 *)
Newer(c) == calls[c].op = "join" /\ calls[c].event.sequence > HighWaterMark(room, Self)

OnItsWay == \E c \in Callers : Newer(c) /\ calls[c].event.kind = "join"

RoomRenewed == HasBasis(room, Self) /\ LatestAt(room) = now

RoomAlive ==
    /\ HasBasis(room, Self) /\ now <= LatestAt(room) + PresenceTtlMs
    /\ nextBeat <= LatestAt(room) + PresenceHeartbeatMs \/ \E c \in Callers : Newer(c)

Awaited ==
    /\ lastJoinAt <= linkUpSince
    /\ nextBeat <= linkUpSince + PresenceTtlMs \div 2 + PresenceHeartbeatMs

Regaining ==
    /\ lastJoinAt \in Nat /\ lastJoinAt <= now
    /\ linkUpSince \in Nat \cup {None}
    /\ node /\ present /\ nextBeat = None => OnItsWay
    /\ node /\ present /\ linkUpSince # None =>
         OnItsWay \/ RoomRenewed \/ (nextBeat # None /\ (RoomAlive \/ Awaited))

(* Half of the TTL is a number. *)
LEMMA HalfOfTtl == PresenceTtlMs \div 2 \in Nat
<1>1. PresenceTtlMs \in Nat
  BY RulesAssumption
<1>2. QED BY <1>1

(* The presence is over, or the node is. *)
LEMMA RegainingEnds ==
    ASSUME Regaining, ~(node' /\ present'), UNCHANGED <<lastJoinAt, now, linkUpSince>>
    PROVE  Regaining'
BY DEF Regaining

(* The room hears nothing, the timer stays and the joins go on. *)
LEMMA RegainingKeeps ==
    ASSUME Regaining, UNCHANGED <<room, node, present, nextBeat, lastJoinAt, linkUpSince, now>>,
           \A c \in Callers : calls[c].op = "join" =>
               calls'[c].op = "join" /\ calls'[c].event = calls[c].event
    PROVE  Regaining'
<1>1. \A c \in Callers : Newer(c) => Newer(c)' /\ calls'[c].event = calls[c].event
  BY DEF Newer
<1>2. OnItsWay => OnItsWay'
  BY <1>1 DEF OnItsWay
<1>3. RoomRenewed' = RoomRenewed /\ Awaited' = Awaited
  BY DEF RoomRenewed, Awaited, LatestAt
<1>4. RoomAlive => RoomAlive'
  BY <1>1 DEF RoomAlive, LatestAt
<1>5. QED BY <1>2, <1>3, <1>4 DEF Regaining

(* joinHall signs a join that the room will accept, or a heartbeat that keeps  *)
(* what there was.                                                            *)
LEMMA JoinRegaining ==
    ASSUME NoneIsNoEvent, Underway, Typed, Hearing, Regaining, NEW c \in Callers,
           NEW beat, \/ beat = nextBeat
                     \/ nextBeat # None /\ nextBeat <= now /\ beat = NextFiring(nextBeat),
           JoinBegins(c, beat)
    PROVE  Regaining'
<1> USE DEF world, lifecycle
<1> DEFINE member == Here(Logged(ledger), now)
           kind == PresenceActionFor(present /\ member)
<1>1. PICK e : e = NewEvent(kind, None)
  OBVIOUS
<1>2. /\ e.kind = kind /\ e.sequence > localSequence /\ e.sequence \in Nat
  BY <1>1, NewEventFields DEF EventLike
<1>3. /\ Online /\ Idle(c) /\ UNCHANGED <<room, node, phase, linkUpSince, now>>
      /\ present' = TRUE /\ nextBeat' = IF member THEN beat ELSE None
      /\ lastJoinAt' = IF e.kind = "join" THEN now ELSE lastJoinAt
      /\ IF e.kind = "join" THEN calls' = [calls EXCEPT ![c] = Call("join", "mine", e)]
                            ELSE Publishing(c, "join", e)
  BY <1>1 DEF JoinBegins
<1>4. /\ \A d \in Callers : d # c => calls'[d] = calls[d]
      /\ \/ calls'[c] = Call("join", "mine", e)
         \/ calls'[c] = Call("join", "publish", e)
  BY <1>3 DEF Publishing, Underway
<1>5. calls'[c].op = "join" /\ calls'[c].event = e
  BY <1>4 DEF Call
<1>6. e.sequence > HighWaterMark(room', Self)
  <2>1. /\ HighWaterMark(room, Self) \in Nat /\ HighWaterMark(room, Self) <= localSequence
        /\ localSequence \in Nat
    BY OwnHighWaterMark DEF Hearing, Underway
  <2>2. QED BY <1>2, <1>3, <2>1
<1>7. Newer(c)'
  BY <1>5, <1>6 DEF Newer
<1>8. now \in Nat /\ lastJoinAt' \in Nat /\ lastJoinAt' <= now'
      /\ linkUpSince' \in Nat \cup {None}
  BY <1>3 DEF Underway, Regaining
<1>9. kind = "join" \/ (kind = "heartbeat" /\ present /\ member
                          /\ now - lastJoinAt < PresenceTtlMs \div 2)
  BY DEF PresenceActionFor
<1> HIDE DEF kind
<1>10. CASE kind = "join"
  <2>1. OnItsWay'
    BY <1>2, <1>5, <1>7, <1>10 DEF OnItsWay
  <2>2. QED BY <1>8, <2>1 DEF Regaining
<1>11. CASE kind = "heartbeat" /\ present /\ member
              /\ now - lastJoinAt < PresenceTtlMs \div 2
  <2>0. node /\ lastJoinAt' = lastJoinAt /\ nextBeat' = beat
    BY <1>2, <1>3, <1>11 DEF Online
  <2>1. \A d \in Callers : Newer(d) => Newer(d)' /\ calls'[d].event = calls[d].event
    BY <1>3, <1>4 DEF Newer, Idle
  <2>2. OnItsWay => OnItsWay'
    BY <2>1 DEF OnItsWay
  <2>3. RoomRenewed => RoomRenewed'
    BY <1>3 DEF RoomRenewed, LatestAt
  <2>4. RoomAlive => RoomAlive'
    BY <1>3, <1>7 DEF RoomAlive, LatestAt
  <2>5. nextBeat \in Nat \cup {None} /\ PresenceHeartbeatMs \in Nat /\ None \notin Nat
    BY NodeAssumption, RulesAssumption DEF Typed
  <2>6. nextBeat # None <=> beat # None
    <3>1. nextBeat \in Nat => NextFiring(nextBeat) \in Nat
      BY <2>5 DEF NextFiring
    <3>2. QED BY <2>5, <3>1
  <2>7. ASSUME linkUpSince # None, nextBeat # None, Awaited PROVE Awaited'
    <3> DEFINE half == PresenceTtlMs \div 2
    <3>1. /\ half \in Nat /\ linkUpSince \in Nat /\ nextBeat \in Nat /\ now \in Nat
          /\ lastJoinAt \in Nat /\ now - lastJoinAt < half
      BY <1>8, <1>11, <2>5, <2>7, HalfOfTtl DEF Regaining
    <3>2. lastJoinAt <= linkUpSince /\ nextBeat <= linkUpSince + half + PresenceHeartbeatMs
      BY <2>7 DEF Awaited
    <3>3. beat = nextBeat \/ (nextBeat <= now /\ beat = nextBeat + PresenceHeartbeatMs)
      BY DEF NextFiring
    <3> HIDE DEF half
    <3>4. beat <= linkUpSince + half + PresenceHeartbeatMs
      BY <2>5, <3>1, <3>2, <3>3
    <3>5. QED BY <1>3, <2>0, <3>2, <3>4 DEF Awaited, half
  <2>8. nextBeat' = None => OnItsWay'
    BY <1>11, <2>0, <2>2, <2>6 DEF Regaining
  <2>9. linkUpSince' # None =>
          OnItsWay' \/ RoomRenewed' \/ (nextBeat' # None /\ (RoomAlive' \/ Awaited'))
    BY <1>3, <1>11, <2>0, <2>2, <2>3, <2>4, <2>6, <2>7 DEF Regaining
  <2>10. QED BY <1>8, <2>8, <2>9 DEF Regaining
<1>12. QED BY <1>9, <1>10, <1>11

(* A join that is mined goes on to be published.                              *)
LEMMA MinedRegaining ==
    ASSUME Underway, Beating, Regaining, NEW c \in Callers, Mined(c)
    PROVE  Regaining'
<1> USE DEF lifecycle, presence, world
<1>1. /\ UNCHANGED <<room, node, phase, present, nextBeat, lastJoinAt, linkUpSince, now>>
      /\ calls[c].pc = "mine" /\ Publishing(c, "join", calls[c].event)
  BY DEF Mined
<1>2. CASE node /\ present
  <2>1. Online
    BY <1>2 DEF Beating, Online
  <2>2. \A d \in Callers : calls'[d] = IF d = c THEN Call("join", "publish", calls[c].event)
                                                ELSE calls[d]
    BY <1>1, <2>1 DEF Publishing, Underway
  <2>3. \A d \in Callers : calls[d].op = "join" =>
           calls'[d].op = "join" /\ calls'[d].event = calls[d].event
    BY <2>2 DEF Call
  <2>4. QED BY <1>1, <2>3, RegainingKeeps
<1>3. CASE ~(node /\ present)
  BY <1>1, <1>3, RegainingEnds
<1>4. QED BY <1>2, <1>3

(* What is published at once is in time.                                      *)
LEMMA NowIsTimely ==
    ASSUME NEW e, NEW at \in Nat, e.issuedAt = at
    PROVE  Timely(e, at, FALSE)
<1>1. {MaxClockSkewMs, MaxEventAgeMs, JoinFreshnessMs} \subseteq Nat
  BY LimitsAssumption
<1>2. at <= at + MaxClockSkewMs /\ at >= at - MaxEventAgeMs /\ at >= at - JoinFreshnessMs
  BY <1>1
<1>3. QED BY <1>2 DEF Timely

(* The join or heartbeat is published: the room takes it, or the link is down, *)
(* or something newer has reached the room.                                   *)
LEMMA JoinedRegaining ==
    ASSUME Underway, Hearing, Regaining, NEW c \in Callers, Joined(c)
    PROVE  Regaining'
<1> USE DEF lifecycle, world
<1>1. PICK e : e = calls[c].event
  OBVIOUS
<1>2. /\ calls[c].op = "join" /\ Deliver(e) /\ calls' = [calls EXCEPT ![c] = NoCall]
      /\ UNCHANGED <<node, lastJoinAt, linkUpSince, now>> /\ now \in Nat
  BY <1>1 DEF Joined, Publishes, Underway
<1>3. CASE ~Here(Logged(ledger), now)
  <2>1. present' = FALSE
    BY <1>3 DEF Joined, ClearLocalPresence
  <2>2. QED BY <1>2, <2>1, RegainingEnds
<1>4. CASE Here(Logged(ledger), now)
  <2>1. present' = present /\ nextBeat' = (IF nextBeat = None THEN NextFiring(now) ELSE nextBeat)
    BY <1>4 DEF Joined
  <2>2. nextBeat' # None
    <3>1. NextFiring(now) \in Nat /\ None \notin Nat
      BY <1>2, NodeAssumption, RulesAssumption DEF NextFiring
    <3>2. QED BY <2>1, <3>1
  <2>3. c \in Busy /\ e \in Heard
    BY <1>1, <1>2 DEF Busy, Idle, Heard
  <2>4. /\ e \notin Logged(room) /\ e.issuedAt = now /\ e.kind \in {"join", "heartbeat"}
        /\ Sound(room, Heard, localSequence, now)
    BY <1>1, <1>2, <2>3 DEF Hearing
  <2>5. ASSUME node, present, linkUpSince # None
        PROVE  OnItsWay' \/ RoomRenewed' \/ RoomAlive' \/ Awaited'
    <3>1. room' = Accept(room, e)
      BY <1>2, <2>4, <2>5, NowIsTimely DEF Deliver
    <3>2. CASE HasBasis(room', Self) /\ Refreshed(room', now)
      BY <1>2, <3>2 DEF RoomRenewed, Refreshed
    <3>3. CASE ~(HasBasis(room', Self) /\ Refreshed(room', now))
      <4>1. room' = ExpireIndexes(room, now)
        BY <2>3, <2>4, <3>1, <3>3, OwnAccepted
      <4>2. /\ e.sequence > HighWaterMark(room, Self) => e.kind # "join"
            /\ e.sequence > HighWaterMark(room, Self)
                 => ~(HasBasis(room, Self) /\ Self \notin Lapsed(room, now))
        BY <2>3, <2>4, <3>1, <3>3, OwnAccepted
      <4>3. /\ HighWaterMark(room', Self) = HighWaterMark(room, Self)
            /\ Self \notin Lapsed(room, now) => HasBasis(room', Self) = HasBasis(room, Self)
            /\ HasBasis(room', Self) => LatestAt(room') = LatestAt(room)
        BY <2>4, <4>1, ExpireKeeps
      <4>4. \A d \in Callers : Newer(d) /\ d # c => Newer(d)' /\ calls'[d].event = calls[d].event
        BY <1>2, <4>3 DEF Newer, Underway
      <4>5. Newer(c) => /\ e.kind # "join"
                        /\ ~(HasBasis(room, Self) /\ Self \notin Lapsed(room, now))
        BY <1>1, <4>2 DEF Newer
      <4>6. CASE OnItsWay
        BY <1>1, <4>4, <4>5, <4>6 DEF OnItsWay
      <4>7. CASE RoomRenewed
        <5>1. HasBasis(room, Self) /\ LatestAt(room) = now /\ now <= now + PresenceTtlMs
          BY <1>2, <4>7, RulesAssumption DEF RoomRenewed
        <5>2. Self \notin Lapsed(room, now)
          BY <2>4, <5>1, YoungIsLive
        <5>3. QED BY <1>2, <4>3, <5>1, <5>2 DEF RoomRenewed
      <4>8. CASE nextBeat # None /\ RoomAlive
        <5>1. HasBasis(room, Self) /\ now <= LatestAt(room) + PresenceTtlMs
          BY <4>8 DEF RoomAlive
        <5>2. Self \notin Lapsed(room, now)
          BY <2>4, <5>1, YoungIsLive
        <5>3. HasBasis(room', Self) /\ LatestAt(room') = LatestAt(room) /\ nextBeat' = nextBeat
          BY <2>1, <4>3, <4>8, <5>1, <5>2
        <5>4. \A d \in Callers : Newer(d) => Newer(d)'
          BY <4>4, <4>5, <5>1, <5>2
        <5>5. QED BY <1>2, <4>8, <5>1, <5>3, <5>4 DEF RoomAlive
      <4>9. CASE nextBeat # None /\ Awaited
        BY <1>2, <2>1, <4>9 DEF Awaited
      <4>10. QED BY <2>5, <4>6, <4>7, <4>8, <4>9 DEF Regaining
    <3>4. QED BY <3>2, <3>3
  <2>6. QED BY <1>2, <2>1, <2>2, <2>5 DEF Regaining
<1>5. QED BY <1>3, <1>4

(* The link returns: a join is on its way, or the timer is set.               *)
LEMMA LinkRegaining ==
    ASSUME Underway, Typed, Renewing, Regaining, LinkChanges
    PROVE  Regaining'
<1> USE DEF lifecycle, presence
<1>1. /\ UNCHANGED <<node, present, nextBeat, lastJoinAt, now, room, calls>>
      /\ linkUpSince' = IF linkUpSince = None THEN now ELSE None
      /\ now \in Nat /\ lastJoinAt \in Nat /\ lastJoinAt <= now
  BY DEF LinkChanges, Underway, Regaining
<1>2. OnItsWay' = OnItsWay
  BY <1>1 DEF OnItsWay, Newer
<1>3. ASSUME nextBeat # None, linkUpSince' # None PROVE Awaited'
  <2> DEFINE half == PresenceTtlMs \div 2
  <2>1. half \in Nat /\ nextBeat \in Nat /\ PresenceHeartbeatMs \in Nat
        /\ nextBeat <= now + PresenceHeartbeatMs
    BY <1>3, HalfOfTtl, NodeAssumption DEF Typed, Renewing
  <2> HIDE DEF half
  <2>2. nextBeat <= now + half + PresenceHeartbeatMs
    BY <1>1, <2>1
  <2>3. linkUpSince' = now
    BY <1>1, <1>3
  <2>4. QED BY <1>1, <2>2, <2>3 DEF Awaited, half
<1>4. QED BY <1>1, <1>2, <1>3 DEF Regaining

(* A tick comes before the heartbeat is due, and no call is under way.        *)
LEMMA TickRegaining ==
    ASSUME PresenceHeartbeatMs + PresenceTtlMs \div 2 <= PresenceTtlMs,
           Underway, Typed, Hearing, Renewing, Regaining, Tick
    PROVE  Regaining'
<1> USE DEF lifecycle, presence
<1>0. PresenceHeartbeatMs \in Nat /\ PresenceTtlMs \in Nat /\ PresenceTtlMs > 0
      /\ PresenceHeartbeatMs <= PresenceTtlMs
  <2>1. PresenceHeartbeatMs \in Nat /\ PresenceTtlMs \in Nat \ {0}
    BY NodeAssumption, RulesAssumption
  <2> DEFINE half == PresenceTtlMs \div 2
  <2>2. half \in Nat /\ PresenceHeartbeatMs + half <= PresenceTtlMs
    BY HalfOfTtl
  <2> HIDE DEF half
  <2>3. QED BY <2>1, <2>2
<1>1. /\ now \in Nat /\ now' = now + 1 /\ Settled
      /\ UNCHANGED <<node, present, nextBeat, lastJoinAt, linkUpSince, room, calls>>
      /\ nextBeat # None => now < nextBeat /\ nextBeat \in Nat
                            /\ nextBeat <= now + PresenceHeartbeatMs
  BY DEF Tick, Underway, Typed, Renewing
<1>2. \A c \in Callers : ~Newer(c)
  BY <1>1 DEF Settled, Idle, Newer
<1>3. ~OnItsWay
  BY <1>2 DEF OnItsWay
<1>4. node /\ present => nextBeat # None
  BY <1>3 DEF Regaining
<1>5. ASSUME node, present, nextBeat # None, RoomRenewed \/ RoomAlive PROVE RoomAlive'
  <2> DEFINE latest == LatestAt(room)
  <2>1. HasBasis(room, Self)
    BY <1>5 DEF RoomRenewed, RoomAlive
  <2>2. latest \in Nat
    BY <2>1, YoungIsLive DEF Hearing
  <2>3. latest = now \/ nextBeat <= latest + PresenceHeartbeatMs
    BY <1>2, <1>5 DEF RoomRenewed, RoomAlive
  <2>4. HasBasis(room, Self)' /\ LatestAt(room)' = latest /\ nextBeat' = nextBeat
    BY <1>1, <2>1 DEF LatestAt
  <2> HIDE DEF latest
  <2>5. nextBeat <= latest + PresenceHeartbeatMs /\ now + 1 <= latest + PresenceTtlMs
    BY <1>0, <1>1, <1>5, <2>2, <2>3
  <2>6. QED BY <1>1, <2>4, <2>5 DEF RoomAlive
<1>6. Awaited' = Awaited
  BY <1>1 DEF Awaited
<1>7. lastJoinAt' \in Nat /\ lastJoinAt' <= now' /\ linkUpSince' \in Nat \cup {None}
  <2>1. lastJoinAt \in Nat /\ lastJoinAt <= now /\ linkUpSince \in Nat \cup {None}
    BY DEF Regaining
  <2>2. QED BY <1>1, <2>1
<1>8. QED BY <1>1, <1>3, <1>4, <1>5, <1>6, <1>7 DEF Regaining

(* Every step of a node that says nothing keeps it.                           *)
LEMMA RegainingInvariant ==
    ASSUME NoneIsNoEvent, PresenceHeartbeatMs + PresenceTtlMs \div 2 <= PresenceTtlMs,
           Underway, Typed, Reachable, Beating, Renewing, Hearing, Regaining, [Next]_vars,
           talk \in Nat, talk' = talk
    PROVE  Regaining'
<1> USE DEF lifecycle, presence, budget, world
<1>0. present \in BOOLEAN /\ node \in BOOLEAN
  BY DEF Typed
<1>1. CASE UNCHANGED vars \/ KeysLoaded \/ TransportsUp
  <2>1. UNCHANGED <<room, node, present, nextBeat, lastJoinAt, linkUpSince, now, calls>>
    BY <1>1 DEF vars, KeysLoaded, TransportsUp
  <2>2. QED BY <2>1, RegainingKeeps
<1>2. CASE StartFails \/ Created
  <2>1. ~(node' /\ present') /\ UNCHANGED <<lastJoinAt, now, linkUpSince>>
    BY <1>2 DEF StartFails, Created, Reachable, Early
  <2>2. QED BY <2>1, RegainingEnds
<1>3. ASSUME NEW c \in Callers, JoinRefused(c) PROVE Regaining'
  <2>1. ~(node' /\ present') /\ UNCHANGED <<lastJoinAt, now, linkUpSince>>
    BY <1>3 DEF JoinRefused, ClearLocalPresence
  <2>2. QED BY <2>1, RegainingEnds
<1>4. CASE UserJoin
  <2>1. JoinBegins("user", nextBeat) \/ JoinRefused("user")
    BY <1>4 DEF UserJoin
  <2>2. QED BY <1>3, <2>1, JoinRegaining DEF Callers
<1>5. CASE UserLeave
  <2>1. ~(node' /\ present') /\ UNCHANGED <<lastJoinAt, now, linkUpSince>>
    <3>1. CASE present
      BY <1>5, <3>1 DEF UserLeave, LeaveBegins
    <3>2. CASE ~present
      BY <1>5, <3>2 DEF UserLeave
    <3>3. QED BY <3>1, <3>2
  <2>2. QED BY <2>1, RegainingEnds
<1>6. CASE Beat
  <2>1. CASE present /\ node
    <3>1. nextBeat # None /\ nextBeat <= now
      BY <1>6 DEF Beat
    <3>2. JoinBegins("heartbeat", NextFiring(nextBeat)) \/ JoinRefused("heartbeat")
      BY <1>6, <2>1 DEF Beat
    <3>3. QED BY <1>3, <3>1, <3>2, JoinRegaining DEF Callers
  <2>2. CASE ~(present /\ node)
    <3>1. ~(node' /\ present') /\ UNCHANGED <<lastJoinAt, now, linkUpSince>>
      BY <1>6, <2>2 DEF Beat
    <3>2. QED BY <3>1, RegainingEnds
  <2>3. QED BY <2>1, <2>2
<1>7. CASE Say \/ Checkpoint
  <2>1. talk' = talk + 1
    BY <1>7 DEF Say, Checkpoint
  <2>2. QED BY <2>1
<1>8. ASSUME NEW c \in Callers, Mined(c) \/ Joined(c) PROVE Regaining'
  BY <1>8, MinedRegaining, JoinedRegaining
<1>9. ASSUME NEW c \in Callers, Left(c) \/ PublishFails(c) PROVE Regaining'
  <2>1. ~(node' /\ present') /\ UNCHANGED <<lastJoinAt, now, linkUpSince>>
    BY <1>9 DEF Left, PublishFails, ClearLocalPresence
  <2>2. QED BY <2>1, RegainingEnds
<1>10. ASSUME NEW c \in Callers, Said(c) PROVE Regaining'
  <2>1. calls[c].op = "say" /\ c \in Busy
    BY <1>10 DEF Said, Publishes, Busy, Idle
  <2>2. QED BY <2>1 DEF Hearing
<1>11. CASE Dispose
  <2>1. CASE node /\ present
    <3>1. present' = FALSE /\ UNCHANGED <<lastJoinAt, now, linkUpSince>>
      BY <1>11, <2>1 DEF Dispose, LeaveBegins
    <3>2. QED BY <3>1, RegainingEnds
  <2>2. CASE ~(node /\ present)
    <3>1. ~(node' /\ present') /\ UNCHANGED <<lastJoinAt, now, linkUpSince>>
      BY <1>11, <2>2 DEF Dispose, StopEnds
    <3>2. QED BY <3>1, RegainingEnds
  <2>3. QED BY <2>1, <2>2
<1>12. CASE Stopped
  <2>1. present' = FALSE /\ UNCHANGED <<lastJoinAt, now, linkUpSince>>
    BY <1>12 DEF Stopped
  <2>2. QED BY <2>1, RegainingEnds
<1>13. CASE LinkChanges
  BY <1>13, LinkRegaining
<1>14. CASE Tick
  BY <1>14, TickRegaining
<1>15. QED
  BY <1>1, <1>2, <1>4, <1>5, <1>6, <1>7, <1>8, <1>9, <1>10, <1>11, <1>12, <1>13, <1>14 DEF Next

(* The initial state. *)
LEMMA InitRegaining ==
    ASSUME Init
    PROVE  Hearing /\ Regaining
<1>1. Busy = {}
  BY DEF Init, Busy, Idle, NoCall, Call
<1>2. Logged(room) = {} /\ room = EmptyLedger /\ localSequence = 0 /\ now = 1
  BY DEF Init, Logged, EmptyLedger, ToSet
<1>3. Heard = {}
  BY <1>1, <1>2 DEF Heard
<1>4. Hearing
  BY <1>1, <1>2, <1>3, SoundInit DEF Hearing
<1>5. lastJoinAt = 0 /\ now = 1 /\ linkUpSince = 1 /\ node = FALSE
  BY DEF Init
<1>6. lastJoinAt \in Nat /\ lastJoinAt <= now /\ linkUpSince \in Nat
  BY <1>5
<1>7. QED BY <1>4, <1>5, <1>6 DEF Regaining

(* A whole TTL after the link returned nothing is awaited any more.           *)
LEMMA RegainingRegains ==
    ASSUME PresenceHeartbeatMs + PresenceTtlMs \div 2 <= PresenceTtlMs,
           Underway, Typed, Hearing, Regaining
    PROVE  RoomRegained
<1> SUFFICES ASSUME Settled, node, present, nextBeat # None, now < nextBeat,
                    linkUpSince # None, now >= linkUpSince + PresenceTtlMs
             PROVE  HasBasis(room, Self) /\ Self \notin Lapsed(room, now)
  BY DEF RoomRegained
<1>1. ~OnItsWay
  BY DEF Settled, Idle, OnItsWay, Newer
<1>2. ~Awaited
  <2> DEFINE half == PresenceTtlMs \div 2
  <2>1. /\ half \in Nat /\ linkUpSince \in Nat /\ nextBeat \in Nat /\ now \in Nat
        /\ PresenceHeartbeatMs \in Nat /\ PresenceTtlMs \in Nat
        /\ PresenceHeartbeatMs + half <= PresenceTtlMs
    BY HalfOfTtl, NodeAssumption, RulesAssumption DEF Regaining, Typed, Underway
  <2> HIDE DEF half
  <2>2. ~(nextBeat <= linkUpSince + half + PresenceHeartbeatMs)
    BY <2>1
  <2>3. QED BY <2>2 DEF Awaited, half
<1>3. HasBasis(room, Self) /\ now <= LatestAt(room) + PresenceTtlMs
  <2>1. RoomRenewed \/ RoomAlive
    BY <1>1, <1>2 DEF Regaining
  <2>2. now <= now + PresenceTtlMs
    BY RulesAssumption DEF Underway
  <2>3. QED BY <2>1, <2>2 DEF RoomRenewed, RoomAlive
<1>4. QED BY <1>3, YoungIsLive DEF Hearing

(* RoomRegainedInSilence: what the comment of node.ts:41-42 promises.  The      *)
(* room holds the basis of a node that has been present, and linked to it, for *)
(* a TTL, whatever was lost before: when the node signs no message and no     *)
(* checkpoint, and one period of the heartbeat (45 s) and the half of the TTL  *)
(* after which it sends a join (60 s) fit in the TTL (120 s).                  *)
THEOREM RoomIsRegained ==
    ASSUME NoneIsNoEvent, PresenceHeartbeatMs + PresenceTtlMs \div 2 <= PresenceTtlMs
    PROVE  Spec => []RoomRegainedInSilence
<1> DEFINE Kept == Underway /\ Typed /\ Reachable /\ Beating /\ Recorded /\ talk \in Nat
                   /\ (talk = 0 => Renewing /\ Hearing /\ Regaining)
<1>0. PresenceHeartbeatMs <= PresenceTtlMs
  <2> DEFINE half == PresenceTtlMs \div 2
  <2>1. half \in Nat /\ PresenceHeartbeatMs + half <= PresenceTtlMs
        /\ PresenceHeartbeatMs \in Nat /\ PresenceTtlMs \in Nat
    BY HalfOfTtl, NodeAssumption, RulesAssumption
  <2> HIDE DEF half
  <2>2. QED BY <2>1
<1>1. Init => Kept
  <2>1. Init => Underway /\ Typed /\ Reachable /\ Beating
    BY InitTyped DEF Init, Reachable, Early, OnlineReachable, Beating
  <2>2. Init => talk \in Nat
    BY DEF Init
  <2>3. QED BY <2>1, <2>2, InitRecorded, InitRenewing, InitRegaining
<1>2. Kept /\ [Next]_vars => Kept'
  <2> SUFFICES ASSUME Kept, [Next]_vars PROVE Kept'
    OBVIOUS
  <2>1. Underway' /\ Typed' /\ Reachable' /\ Beating' /\ Recorded'
    BY UnderwayInvariant, TypedInvariant, ReachableInvariant, BeatingInvariant, RecordedInvariant
       DEF Underway
  <2>2. talk' \in Nat /\ (talk' = 0 => talk' = talk)
    BY TalkCounts
  <2>3. ASSUME talk' = 0 PROVE Renewing' /\ Hearing' /\ Regaining'
    <3>1. talk' = talk /\ talk = 0
      BY <2>2, <2>3
    <3>2. QED BY <1>0, <3>1, RenewingInvariant, HearingInvariant, RegainingInvariant
  <2>4. QED BY <2>1, <2>2, <2>3
<1>3. Kept => RoomRegainedInSilence
  BY RegainingRegains DEF RoomRegainedInSilence
<1>4. QED BY <1>1, <1>2, <1>3, PTL DEF Spec
==============================================================================
