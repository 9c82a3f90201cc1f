------------------------------- MODULE Ingress -------------------------------
(***************************************************************************)
(* The budgets of a Host for what comes from its neighbours: the messages  *)
(* of the hall's topic, counted by publisher, verified one at a time in a  *)
(* bounded queue, and counted again by the origin that signed them; and    *)
(* the requests for direct catch-up, one a minute from each peer.          *)
(*                                                                         *)
(* A window is kept in a Map of the code; here an origin without one has   *)
(* None.  A message is its publisher, the origin it claims, whether that   *)
(* signature is genuine, and its place among the events of that origin,    *)
(* which arrive in the order in which they were signed.  Of the ledger     *)
(* only the sequence marks are kept.                                       *)
(***************************************************************************)
EXTENDS Integers, Sequences, FiniteSets, SequencesExt

CONSTANTS
    Origins,              \* publishers, origins and neighbours
    MinuteMs,             \* the length of a window                    (60 s)
    MaxPublished,         \* messages per publisher and window          (120)
    MaxOfOrigin,          \* verified events per origin and window       (20)
    MaxRateLimitOrigins,  \* windows in one map                        (1024)
    PruneAbove,           \* a larger map is pruned at every message    (512)
    QueueCapacity,        \* tasks in BoundedSerialQueue                 (64)
    MaxSyncOrigins,       \* remembered requests for catch-up           (128)
    DeadlineMs,           \* withStreamDeadline aborts a stream         (10 s)
    MaxTime, MaxInputs,   \* bounds
    None

ASSUME IngressAssumption ==
    /\ {MinuteMs, MaxPublished, MaxOfOrigin, MaxRateLimitOrigins, QueueCapacity,
        MaxSyncOrigins, DeadlineMs} \subseteq Nat \ {0}
    /\ {PruneAbove, MaxTime, MaxInputs} \subseteq Nat
    /\ IsFiniteSet(Origins)
    /\ DeadlineMs < MinuteMs
    /\ None \notin Nat /\ None \notin [startedAt : Nat, count : Nat]

VARIABLES
    transportWindows, inboundWindows,  \* per origin, its window or None
    pending, queue,       \* BoundedSerialQueue: its count, its tasks in order
    syncWindows,          \* per peer, when it was last let in, or None
    streams,              \* catch-up requests being read or answered
    marks,                \* per origin, the last sequence the ledger accepted
    now, inputs, sent,    \* inputs is a bound; per origin, events that arrived
    published, handled,   \* history: per origin, when its messages passed
    answered, overtaken   \* history: when a peer was answered; events out of order

windows == <<transportWindows, inboundWindows>>
tasks == <<pending, queue, marks>>
catchUp == <<syncWindows, streams, answered>>
vars == <<windows, tasks, catchUp, now, inputs, sent, published, handled, overtaken>>

Init ==
    /\ transportWindows = [o \in Origins |-> None] /\ inboundWindows = [o \in Origins |-> None]
    /\ pending = 0 /\ queue = <<>> /\ marks = [o \in Origins |-> 0]
    /\ syncWindows = [o \in Origins |-> None] /\ streams = {}
    /\ now = 1 /\ inputs = 0 /\ sent = [o \in Origins |-> 0]
    /\ published = [o \in Origins |-> <<>>] /\ handled = [o \in Origins |-> <<>>]
    /\ answered = [o \in Origins |-> <<>>] /\ overtaken = {}

-----------------------------------------------------------------------------
(* allowInbound and allowTransportInbound: fixed windows in a bounded map     *)
Kept(map) == { o \in Origins : map[o] # None }
Running(window) == window # None /\ now - window.startedAt < MinuteMs
Pruned(map) == [o \in Origins |-> IF Running(map[o]) THEN map[o] ELSE None]

Opens(map, o) == ~Running(map[o])

(* Mutant of HasRoom: a full map makes room for whoever comes                 *)
AlwaysRoom(map, o) == TRUE

HasRoom(map, o) == map[o] # None \/ Cardinality(Kept(Pruned(map))) < MaxRateLimitOrigins

Allowed(map, o, limit) ==
    IF Opens(map, o) THEN HasRoom(map, o) ELSE map[o].count < limit

(* Mutant of Charged: a new window takes the place of all others              *)
ChargedAlone(map, o) ==
    IF Opens(map, o)
    THEN [p \in Origins |-> IF p = o THEN [startedAt |-> now, count |-> 1] ELSE None]
    ELSE [map EXCEPT ![o].count = @ + 1]

Charged(map, o) ==
    IF Opens(map, o)
    THEN IF HasRoom(map, o)
         THEN [Pruned(map) EXCEPT ![o] = [startedAt |-> now, count |-> 1]]
         ELSE Pruned(map)
    ELSE LET counted == [map EXCEPT ![o].count = @ + 1]
         IN IF Cardinality(Kept(map)) > PruneAbove THEN Pruned(counted) ELSE counted

Passed(history, o, allowed) ==
    IF allowed THEN [history EXCEPT ![o] = Append(@, now)] ELSE history

-----------------------------------------------------------------------------
(* The message listener of start, with the queue's enqueue                    *)
MessageArrives(from, origin, genuine) ==
    LET allowed == Allowed(transportWindows, from, MaxPublished)
        task == [origin |-> origin, genuine |-> genuine, sequence |-> sent'[origin]]
    IN /\ inputs < MaxInputs /\ inputs' = inputs + 1
       /\ sent' = IF genuine THEN [sent EXCEPT ![origin] = @ + 1] ELSE sent
       /\ transportWindows' = Charged(transportWindows, from)
       /\ published' = Passed(published, from, allowed)
       /\ IF allowed /\ pending < QueueCapacity
          THEN pending' = pending + 1 /\ queue' = Append(queue, task)
          ELSE UNCHANGED <<pending, queue>>
       /\ UNCHANGED <<inboundWindows, marks, catchUp, now, handled, overtaken>>

(* Mutant of Turn: the tasks run side by side                                 *)
AnyTurn(k) == k \in DOMAIN queue

Turn(k) == k = 1 /\ queue # <<>>

(* A task is over: its event is verified, charged and accepted, or dropped    *)
Verified ==
    \E k \in DOMAIN queue :
        LET task == queue[k]
            allowed == task.genuine /\ Allowed(inboundWindows, task.origin, MaxOfOrigin)
            fresh == task.sequence > marks[task.origin]
        IN /\ Turn(k)
           /\ queue' = RemoveAt(queue, k) /\ pending' = pending - 1
           /\ inboundWindows' =
                IF task.genuine THEN Charged(inboundWindows, task.origin) ELSE inboundWindows
           /\ handled' = Passed(handled, task.origin, allowed)
           /\ marks' = IF allowed /\ fresh THEN [marks EXCEPT ![task.origin] = task.sequence] ELSE marks
           /\ overtaken' = IF allowed /\ ~fresh THEN overtaken \cup {task} ELSE overtaken
           /\ UNCHANGED <<transportWindows, catchUp, now, inputs, sent, published>>

-----------------------------------------------------------------------------
(* allowSync                                                                 *)
(* Mutant of Remembered: a request is forgotten with its stream               *)
RememberedForDeadline ==
    [o \in Origins |->
        IF syncWindows[o] # None /\ now - syncWindows[o] >= DeadlineMs THEN None ELSE syncWindows[o]]

Remembered ==
    [o \in Origins |->
        IF syncWindows[o] # None /\ now - syncWindows[o] > 2 * MinuteMs THEN None ELSE syncWindows[o]]

AllowSync(peer) ==
    /\ Remembered[peer] # None => now - Remembered[peer] >= MinuteMs
    /\ Remembered[peer] # None \/ Cardinality(Kept(Remembered)) < MaxSyncOrigins

(* A neighbour opens a stream; its request is still to be read and verified   *)
SyncRequested(peer) ==
    /\ inputs < MaxInputs /\ inputs' = inputs + 1
    /\ IF AllowSync(peer)
       THEN /\ syncWindows' = [Remembered EXCEPT ![peer] = now]
            /\ streams' = streams \cup {[peer |-> peer, n |-> inputs, since |-> now]}
       ELSE syncWindows' = Remembered /\ UNCHANGED streams
    /\ UNCHANGED <<windows, tasks, answered, now, sent, published, handled, overtaken>>

SyncAnswered(s) ==
    /\ streams' = streams \ {s}
    /\ answered' = Passed(answered, s.peer, TRUE)
    /\ UNCHANGED <<windows, tasks, syncWindows, now, inputs, sent, published, handled, overtaken>>

(* The request was not valid, or the deadline came first                      *)
SyncAborted(s) ==
    /\ streams' = streams \ {s}
    /\ UNCHANGED <<windows, tasks, syncWindows, answered, now, inputs, sent,
                   published, handled, overtaken>>

(* No stream outlives its deadline                                           *)
Tick ==
    /\ now < MaxTime
    /\ \A s \in streams : now < s.since + DeadlineMs
    /\ now' = now + 1
    /\ UNCHANGED <<windows, tasks, catchUp, inputs, sent, published, handled, overtaken>>

(* Anybody may publish what an origin signed.  Whom a false signature claims   *)
(* is not read: verifyRoomEvent throws before.                               *)
Next ==
    \/ \E from, origin \in Origins : MessageArrives(from, origin, TRUE)
    \/ \E o \in Origins : MessageArrives(o, o, FALSE)
    \/ Verified
    \/ \E p \in Origins : SyncRequested(p)
    \/ \E s \in streams : SyncAnswered(s) \/ SyncAborted(s)
    \/ Tick

Spec == Init /\ [][Next]_vars

-----------------------------------------------------------------------------
Windows == [startedAt : Nat, count : Nat \ {0}]

(* Type invariant: the maps keep to their ceilings, and every place of the    *)
(* queue taken is one of a task in it.                                        *)
TypeOK ==
    /\ {transportWindows, inboundWindows} \subseteq [Origins -> Windows \cup {None}]
    /\ syncWindows \in [Origins -> Nat \cup {None}]
    /\ \A map \in {transportWindows, inboundWindows} :
          Cardinality(Kept(map)) <= MaxRateLimitOrigins
    /\ Cardinality(Kept(syncWindows)) <= MaxSyncOrigins
    /\ pending = Len(queue) /\ pending <= QueueCapacity

(* Any 2 * limit + 1 messages of one origin that passed its budget took a      *)
(* minute or more, whoever else came and went: "at most 120 candidate events  *)
(* per minute" and "at most 20 accepted events per minute"                    *)
(* (docs/PROTOCOL.md:33), but for two windows that meet.                      *)
Spread(history, limit) ==
    \A o \in Origins : \A k \in DOMAIN history[o] :
        k > 2 * limit => history[o][k] - history[o][k - 2 * limit] >= MinuteMs

WorkBounded == Spread(published, MaxPublished) /\ Spread(handled, MaxOfOrigin)

(* An event that keeps within the budgets is never refused for its order: what *)
(* arrives in order, from whatever neighbour, is accepted in order, however   *)
(* long each verification takes.  (What a catch-up brings is accepted beside   *)
(* the queue, node.ts:525, and may overtake what waits in it: left out.)       *)
AcceptedInOrder == overtaken = {}

(* "A Host responds only once per minute per connected Peer ID" (PROTOCOL.md: *)
(* 71): two answers to one peer are a minute apart, less the time a stream    *)
(* may take, although the request is read and verified after it is let in.    *)
AnswersSpaced ==
    \A p \in Origins : \A k \in DOMAIN answered[p] :
        k > 1 => answered[p][k] - answered[p][k - 1] >= MinuteMs - DeadlineMs
=============================================================================
