# Carbon Club in TLA+

Carbon Club is a peer-to-peer meeting hall: eight speaking seats, a queue, at
most 500 participants, and no server that decides. Every host keeps a log of
signed events and *replays* it to find out who sits where. These modules are the
verification project kept beside that code: TLA+ models of its components, TLC
runs that check them on small instances, and TLAPS proofs of what matters most
for every instance.

Source references are to the repository root (`src/network/room-events.ts` is
the TypeScript file, `docs/PROTOCOL.md` the protocol document).

## 1. The system

| component | code | state | operations |
|---|---|---|---|
| hall state machine | `derive` and its helpers, `room-events.ts:192-326` | seats, queue, cooldowns, retained messages; rebuilt on each call | replay of the log, `advance`, `fillSeats`, `removeParticipant` |
| signed event log | `RoomEventLedger`, `room-events.ts:327-544` | events, sequence marks, join bases, latest presences, last checkpoint, revision | `accept`, `snapshot`, `delta`, `eventsForSync`, `checkpointPayload`, `admissionError`, pruning |
| events | `assertPayload`, `signEvent`, `verifyRoomEvent`, `room-events.ts:42-190` | none | signing, verification, proof of work |
| peer node | `CarbonClubNode`, `src/network/node.ts` | libp2p node, phase, local presence, timers, sequence, rate windows, discovered peers | `start`, `stop`, `joinHall`, `leaveHall`, `publishHallMessage`, `publishCheckpoint`, `requestHistory` |
| replication | gossip topic and sync protocol, `node.ts`, `scripts/community-relay.mjs` | messages under way | publish, receive, catch up |
| ingress budgets | `resource-budget.ts`, `allowInbound`, `allowTransportInbound`, `allowSync` | queue of pending work, fixed windows in bounded maps | admit or refuse an event |
| host service | `src/index.ts` | node, initialization | `initialize`, `dispose`, forwarding |
| browser store | `src/client/network-store.ts`, `request.ts` | binding, room, cursor, versions, busy flags | polling, `mergeRoom`, posting, joining, leaving, inviting |
| local hall | `src/client/hall-machine.ts` | seats with offers, queue, cooldowns of the demonstration hall | join, accept, expire, post |

**How they interact.** The browser store calls the host through a remote
contract and polls it. The host service owns one node. The node signs events,
hands each to its own ledger and publishes it on the gossip topic; what arrives
is charged to the ingress budgets, verified and handed to the same ledger. A
node that connects asks a neighbour for `eventsForSync` over a direct stream. A
relay runs a ledger of its own and answers the same request. Everything a user
sees is `snapshot` or `delta`, that is, `derive` of the events the ledger retains.

**What is hard.**

- *Replay*: four nested loops over one mutable state, deadlines that are
  inclusive in one loop and exclusive in another, several expiries at one
  instant, a removal that refills a seat.
- *Retention*: the log is bounded, and the hall is derived from what is left;
  three indexes must agree with it while events expire, come late, come twice
  and are evicted.
- *Time*: every rule is about the signer's clock, which may be ahead.
- *Awaits*: the node signs, mines and publishes between reading the hall and
  acting on it; leaves, heartbeats, checkpoints and `stop` interleave.
- *Replication*: hosts see different subsets of the events in different orders.
- *Requests*: a browser request may time out and still be carried out.

**What makes each component correct.**

- *Hall*: capacity; one place per peer; no idle seat while somebody waits; no
  occupant past a deadline; cooldowns and speaking limits
  kept; `advance` ends; the result depends on the ordered log alone.
- *Ledger*: limits kept; what the indexes name is retained; whoever is in the
  hall is indexed (or it could not be heard); sequence marks cover the log;
  admission checks agree with the replay.
- *Node*: the local presence agrees with the hall after every operation;
  sequence numbers are accepted in the order they were taken; nothing survives
  `stop`.
- *Replication*: hosts with the same events agree; a late host sees the members
  that its neighbour sees; nobody who left comes back.
- *Ingress*: budgets bound work per origin; the queue is serial and bounded.
- *Browser store*: answers of an old binding are ignored; the room is what some
  host snapshot said, never older than what was shown; busy flags are released.

## 2. Modules

```
HallRules ── HallReplay ── MCHallReplay          derive() loop by loop
    │            │   └──── HallReplay_proofs ── HallReplayRefinement_proofs
    │            └──────── HallReplayRefinement ── HallLog   one step per event
    └─────── HallDerive ── HallDerive_proofs     derive() as a function
                 └──────── Ledger ── Ledger_proofs    the lemmas both hosts build on
                             │  ├─────── LedgerHost ── LedgerHost_proofs
                             │  │        └──────── Replication ── MCLedger
                             │  └─────── LedgerTenure ── MCLedgerTenure
                             └────────── ClubNode ── ClubNode_proofs, MCClubNode

NetworkStore ── NetworkStore_proofs
Ingress ── Ingress_proofs, MCIngress
```

**HallRules** declares the constants of `hall-rules.ts` (with the assumptions the
proofs need), the records of a participant, a seat and a message, the order of
the queue and the deadlines.

**HallReplay** is `derive` with every turn of every loop a step. `phase` says
where the code is: choosing the next event (`next`), in the loop of `advance`,
dispatching the event (`apply`), in the loop of `fillSeats` (`fill`), or done
(`returned`). Each branch of the loop body is an action: `ApplyLeave`,
`ApplyRefresh`, `ApplyJoin`, `ApplyChat`, and `ApplySkips` for the `continue`
statements. `removeParticipant` is the operator `RemoveParticipant`, used by the
expiries and the leave, which both go on to `fill`, as the code does. The log is
not an input: in `next`, any event not earlier than the last one may follow, so
that the behaviours are the replays of all logs in `eventOrder`.
The array `queue` is a set ordered by `Before`: it is sorted after its only
insertion and otherwise only filtered and shifted. Peer ids are numbers, whose
order stands for the order of strings.

**HallDerive** is the same algorithm as a function of a set of events and a time:
seats are matched with the queue by rank, and the loops are recursive functions.
**HallLog** is the abstract specification: a hall that changes one event at a time, by a step
and an answer that are its parameters. **HallReplayRefinement** adds the log to HallReplay, gives
HallLog the closed form for both, and states that whenever the loops return they have
computed `Derive`.

**Ledger** is the `RoomEventLedger`: a record with one field per private field of the
class, and one operator per method. `Accept` is the whole method in its order:
duplicate test, expiry at the event's own time, the four guards, the record, the
indexes, pruning of the marks, pruning of the log. `seenEventIds` and `eventById`
hold what the log holds and are not modelled apart. Both pruning loops run at
most once, since they start from a state within the limits. **LedgerHost** puts one
ledger into a network that keeps every event ever signed and delivers any of them,
any number of times, in any order, or never; by gossip, where joins must be
fresh, or by catch-up, where they need not be. **LedgerTenure** is the opposite
environment, a perfect network of peers that only refresh their presence, so
that the ledger's retention is the only thing that can go wrong.

**Replication** adds the second host: `EventsForSync` is what the ledger of LedgerHost
answers at any moment, `CatchUp` the loop of `requestHistory` that stops at the first event
that does not verify, and `Late` the ledger of a host that starts with nothing and catches
up now.

**ClubNode** is the node of `node.ts` with the service of `index.ts` around it. A call
is a record in `calls` at the await it stands at, `mine` (the proof of work of a join,
which yields to the event loop) or `publish`; what the code does between two awaits is one
action. The callers are the user, the heartbeat timer, the checkpoint timer (`steward`)
and `stop`. `startPc` is how far `initialize` and `start` got: `loading` the keys, `creating` the
libp2p node, waiting for its `transports`, `done`; `Dispose` may come at any of them. `ledger`
is the node's own, an instance of Ledger, and `room` the ledger of a peer that hears what is
published while the link is up. Left out: dialling, discovery, invitations, profiles.

**NetworkStore** is the browser. `binding` counts the Hosts it was bound to; a call is a
record in `polls`, `running` or `asides` between its request and the use of its answer, and
remembers the binding and the version it started with. The Host moves on its own, serves a
call before the browser gives it up, after, or never. Of its log the model keeps the revision at which
each message was logged (`chats`) and which of them `derive` shows (`shown`): whatever is accepted may
bring any of them into view or out of it, since an event dated earlier changes who had a seat when a
message was sent. An own message need not be the latest, since a peer's clock may be ahead. A room is the cursor and the
sequence of messages the browser holds, with three fields of history: when it was read, what the Host
showed then, and whether an own message was put behind a later one (`outrun`). `MergeRoom` sorts and cuts, and
`Appended` appends and cuts without sorting, as the code does; a message is its `sentAt`.

**Ingress** is what a Host spends on its neighbours: the fixed windows of
`allowTransportInbound` and `allowInbound` in bounded maps (functions whose value is `None` for an
origin without an entry), the message listener (anybody may publish what an origin signed), the serial queue, the task that verifies,
charges and accepts, and the handler of catch-up requests with its map and its deadline.
A task may wait for any time, a signature may be false and claim any origin, a catch-up
request may be answered or aborted at any time before its deadline. `published`,
`handled` and `answered` are history: when a message passed a budget, when a peer was answered.

Events carry what the rules read: origin, sequence, time, kind, the join time of a
join and the claim of a checkpoint. An event is its own id. Profiles, avatars and
message bodies are left out; no rule reads them.

## 3. Runs

Times are ticks: a limit of `2` is two ticks of the clock on which events are
issued. Where an instance departs from the order of the real limits (idle limit and
presence TTL of two minutes, below the lease of five) it is to make a case happen within
its few ticks.

| run | instance | shows |
|---|---|---|
| `hall_replay` | 4 peers, 1 seat, capacity 3, 4 ticks, joins backdated by 1 | types, capacity, no idle seat, deadlines, seats only for the present, cooldowns, one place per peer |
| `hall_refinement` | 3 peers, 2 seats, capacity 3, 3 ticks, 2 retained messages | the loops compute `Derive` (HallLog is implemented); `advance` ends; no monologue |
| `ledger` | 2 peers, any 4 events, 4 ticks, log of 6: nothing evicted | indexes, marks, admission; a late host sees the members |
| `ledger_eviction` | 2 peers, 5 joins, leaves and messages, log of 4, one basis, one mark | limits and indexes when everything is evicted all the time |
| `ledger_clock_ahead` | 2 peers, one clock 2 ticks ahead | finding 1 |
| `ledger_tenure` | 2 peers, log of 6, lease of 4 ticks | finding 2 |
| `late_messages` | as `ledger` | finding 3 |
| `club_node` | heartbeat, refresh and TTL at 3 : 4 : 8, 12 ticks, any 4 of user calls, 1 message or checkpoint, 1 outage | a live node is reachable, its presence has its beat and neither lapses nor comes back by itself, and the room regains it |
| `club_node_leave` | 3 user calls, 8 ticks, nothing else | finding 4 |
| `club_node_stop` | as `club_node`, 2 user calls | finding 5 |
| `network_store` | window of 2, 3 messages; 3 moves of the Host, 2 bindings, 2 actions, 1 invitation, 1 failure, 1 abandoned call, any 5 of these in sum | own actions are not taken back, no message lost (under two premises, see below), controls released, the room read again after the last change |
| `ingress` | 3 origins, 2 windows per map, budgets of 1, queue of 2, 2 ticks to a minute, 5 inputs | ceilings and places, budgets, order, spacing of answers |

**Why the bounds are enough.** The hall rules compare two participants at a time
(order, rank, expiry): four peers at one seat of three places give an occupant, a first and a
second of the queue and one that is refused. One seat with seekers forces every hand-over; two seats in
`hall_refinement` make the order in which seats are filled and expire matter. Four
ticks with limits of 1 to 3 let every deadline pass before, at and after
another one. In `ledger` four events are a join, its refresh, a leave and a
re-join, or any two against any two; `ledger_eviction` has the smallest limits that
`LimitsAssumption` allows, so that an eviction happens on the fifth event.
In `club_node` 12 ticks hold an outage, the TTL after it and the renewal; what disturbs the node is bounded
in sum, so that four user calls, a join that is left and repeated, overlap with the timers in every way, or
fewer of them with a message, a checkpoint or an outage. (With two user calls, which was the bound once,
finding 4 cannot happen.) In `network_store` two
bindings and two actions let an answer of the old Host, a poll older than an action, and a
message sent while another is chained, all arrive late; what happens from outside is bounded in sum
(`MaxEvents`), and five are two actions and three moves of the Host around them, or a failure, a rebinding and
the abandoned call of the old Host. Three messages are one more than the window holds. In `ingress` a third origin finds two windows
taken, and five inputs are the three messages that two windows may not hold, with two of other origins between them.

`MaxTime`, `MaxSent`, `MaxRevision`, `MaxInputs`, `MaxDisturbances`, `MaxTalk`, `MaxOutages`, and the
`Max…` constants of NetworkStore are bounds of the instances, not of the code;
they stand in guards. `MaxRevision` is needed because an event whose log entry and
mark were both evicted is accepted again, without end.

`CHECK_DEADLOCK FALSE` stands where a run ends by its bounds: `ledger_tenure`, `club_node`,
`club_node_stop`, `network_store`, `ingress`.

**Premises worth knowing.**

- `MarksCover` assumes that the marks of all peers fit, and `AdmissionKept` is checked only in `ledger` and
  proved while the log has room (`AdmissionHeldWithRoom`): once
  a mark or a join is evicted both fail (a delayed event below a dropped mark is accepted; an
  eviction rewrites the past the admission was computed from). The documents claim neither.
- `LateHostSeesMembers` assumes that everyone's presence was renewed by a join within the
  idle limit, as nodes do (`RecentlyJoined`), and that neither a retained message nor the
  checkpoint is too old to verify (`AllTimely`), since the first event that is ends the catch-up:
  verification throws, and everything after it in the answer is dropped. Such an event sorts
  before the joins, so that the late host then gets nothing.
- `RoomRegainedInSilence` speaks of a node that signs nothing while it mines: a message or a
  checkpoint signed meanwhile raises the mark and the renewing join is refused everywhere
  (against the comment of `node.ts:41-42`); the room then waits for the next.
- `PresenceKeptInSilence` and `LeftStaysLeft` speak of a node that has signed no message and no checkpoint.
  With one of those, and a user who leaves and joins while heartbeats are under way (finding 4), every
  join of a TTL can be refused: the last one overtaken by the message, the one before by the leave. `answer`
  is what the returned snapshot shows, since a leave that was overtaken leaves the node in its hall and says so.
- `Tick` of ClubNode happens only between calls, which take far less than a tick (15 s).
- `NoMessageLost` speaks of a room while no message has come into view at the Host after it was logged
  (`belated` is empty) and no own message was put behind a later one (`outrun`). Both premises are needed: without either
  TLC finds it violated, by what the code does (section 4). They are of the history of the Host and of
  the room, not of the schedule: polls, failures, rebindings and withdrawn messages come as they like.
- `Converges` compares when the room was last read, not the messages it shows; those are `NoMessageLost`'s, under its premises.
- `WorkBounded` speaks of two windows: the documents' "at most 120 candidate events per minute"
  holds of each fixed window, and two of them may meet. `AnswersSpaced` leaves the stream deadline
  for the same reason: a request is charged when its stream opens and answered up to ten seconds later.
- Events of one origin arrive at Ingress in the order in which they were signed, from whatever neighbour; what overtakes
  on the way is LedgerHost's subject. What a catch-up brings is accepted beside the queue (`node.ts:525`) and may overtake
  an event that waits in it: `AcceptedInOrder` leaves it out.

**Fairness.** `AdvanceTerminates` needs weak fairness of `Loop`, the
steps of the loops inside one call of `derive`: the call is synchronous, without an
await, and runs once called. The choice of the next event is not fair, and
need not be. `Converges` rests on the poll timer of 3 s (`RefreshNetwork`), the promise chain
(`BeginMutation`), and on every poll, mutation, invitation or connection ending, by its answer or by the timers of
`boundedRequest` (20 s and 40 s). Nothing is assumed of the Host's own moves or of the user.

## 4. Findings

1. **An event from a clock ahead takes everyone's join basis**
   (`ledger_clock_ahead`). `accept` expires the indexes at the event's own time before it checks
   anything; within the five minutes of tolerated skew that is after every TTL.
   The members stay in the hall but their events are refused, and no longer protected from
   pruning, until they join again. `docs/PROTOCOL.md:69` promises the protection.
2. **A busy hall outlives its leases** (`ledger_tenure`). Pruning protects the last
   join of a member, not the first one, from which its lease is computed. Once the log
   turns over within a lease (3333 presence events of 500 peers in five minutes, against 2200
   retained) the member is seated as of a later join, and its lease begins anew.
   With `MaxRetainedEvents = 10` in the same instance, so that nothing is evicted, `LeaseEnds`
   holds.
3. **A late host misses what was said before the last renewal** (`late_messages`). It is sent
   the last join of each member and all messages in event order, and refuses every message
   that precedes its author's join. `docs/PROTOCOL.md:71` promises recent messages.
4. **A heartbeat clears the presence of the user's next join** (`club_node_leave`). `joinHall`
   looks at its own hall again after two awaits and, when it is not in it, clears the local presence
   (`node.ts:417-424`), whoever set it. A heartbeat's join is under way; the user leaves and joins
   again; the heartbeat finds the hall left and clears the presence of the new join, which is then
   admitted. The user is in the hall and shown there, but `leaveHall` returns at once, messages
   fail with `HALL_NOT_JOINED`, heartbeats do nothing, and the seat or place lapses after the TTL.
   `tests/network.spec.ts:356` ("retains local presence ... so leaving still works") and
   `CHANGELOG.md:32` speak of one call at a time.
5. **A stop before the node exists stops nothing** (`club_node_stop`). While the service still loads its keys,
   or `start` awaits `createLibp2p`, `stop` finds no node and returns; the start
   goes on and ends online. `CHANGELOG.md:7` describes that outcome as gone.

Met on the way without a run of its own: slow mode is kept per tenure of a seat, not per speaker, since
`lastSpokeAt` lives in the seat, and a speaker that leaves and joins again posts at once
(`docs/PROTOCOL.md:45` and `docs/CAPACITY-500.md:47` promise eight seconds per speaker; what holds, within
a tenure, is the theorem `SlowModeEnforced`).

Two ways in which a browser misses a message until it reads the room whole, both outside the premises of
`NoMessageLost`; TLC shows each when its premise is dropped. (a) `delta` sends the messages whose event has a revision above the cursor
(`room-events.ts:422-424`). A message that `derive` left out when it was logged (its author had no seat, spoke too soon
or too often, 311-315), and shows after an event dated earlier has come in, has a revision the cursor has passed: no
delta ever brings it, while `docs/PROTOCOL.md:69` has the browser begin with a snapshot and then receive new
messages. (b) An own message is appended to the window and the first one goes (`network-store.ts:156`), unsorted: if a peer
whose clock is ahead was heard before, the window may lose a message that is later than the own one.

Modelled, without a document that says otherwise: a leave signed while the first join of the
node is still mined is refused, and the join stands; a checkpoint is compared with the
derivation of everything logged, not up to its own time (`room-events.ts:454`, against the words of
`docs/PROTOCOL.md:59`; no rule reads the checkpoint); an invitation or connection that ends while a hall
action is under way frees the control too early.

## 5. Proofs

| module | theorem | property |
|---|---|---|
| `HallReplay_proofs` | `TypeCorrect` | `TypeOK` |
| | `NeverTwoPlaces` | `OneSpot` |
| | `CapacityEnforced` | `CapacityRespected` |
| | `NoSeatIsWasted` | `WorkConserving` |
| | `NoSeatForTheAbsent` | `SeatedAlive` |
| | `DeadlinesEnforced` | `NothingOverdue` |
| | `CooldownEnforced` | `CooldownServed` |
| | `MonologuePrevented` | `NoMonologue` |
| | `SlowModeEnforced` | `SlowModeKept` |
| `HallDerive_proofs` | `PresenceBacked` | whom `Derive` shows has a recent join or heartbeat in the log |
| | `OnePlaceEach` | `Derive` shows nobody twice |
| | `LastJoinAdmits` | a last join that nothing stands against is admitted by `Derive` |
| | `HallWithinCapacity` | `Derive` shows no more than the capacity |
| | `NobodyIsMissed` | a recent first join is in the hall that `Derive` shows, while there is room for all |
| `HallReplayRefinement_proofs` | `DeriveRefinesLog` | `ReplaysLikeDerive` |
| `LedgerHost_proofs` | `TypeCorrect` | `TypeOK` |
| | `LimitsHold` | `Bounded` |
| | `NothingNamedIsDropped` | `IndexesLogged` |
| | `SequencesOnlyRise` | `MarksCover` |
| | `ActiveAreIndexed` | `ActiveIndexed` |
| | `AdmissionHeldWithRoom` | a step that logs a join keeps `AdmissionHeld`, while the log has room |
| | `LateHostsCatchUp` | `LateHostSeesMembers` |
| `ClubNode_proofs` | `TypeCorrect` | `TypeOK` |
| | `OnlineIsReachable` | `OnlineReachable` |
| | `PresenceHasItsBeat` | `PresenceBeats` |
| | `PresenceIsKept` | `PresenceKeptInSilence` |
| | `LeavingIsFinal` | `LeftStaysLeft`, while the log has room |
| | `RoomIsRegained` | `RoomRegainedInSilence` |
| `NetworkStore_proofs` | `TypeCorrect` | `TypeOK` |
| | `LocksAreHonest` | `ControlsHonest` |
| | `UserIsNotOvertaken` | `OwnActionsShown` |
| | `MergingLosesNothing` | `NoMessageLost` |
| `Ingress_proofs` | `TypeCorrect` | `TypeOK` |
| | `BudgetsHold` | `WorkBounded` |
| | `OrderKept` | `AcceptedInOrder` |
| | `AnswersAreSpaced` | `AnswersSpaced` |

The assumptions are those of the modules: `RulesAssumption` (limits are naturals, seat limits and
TTL positive), `TimesAssumption`, `LimitsAssumption` (the log has room for two events per join
basis, the messages and a checkpoint), `NodeAssumption`, `StoreAssumption`, `IngressAssumption`
(limits positive, a deadline shorter than a window). Besides: `NothingNamedIsDropped` and
`ActiveAreIndexed` and `LateHostsCatchUp` speak of states in which `None` is no event; the last two assume that no clock is ahead
of the host's (`ClockLeads = {0}`: with one ahead the first is false, finding 1); `LateHostsCatchUp` assumes also that a silent seat
is released no later than its lease ends (`IdleMs <= MaxLeaseMs`: two and five minutes in the code) and before its join
is too old to verify (`Min({IdleMs, PresenceTtlMs}) <= MaxEventAgeMs`: two minutes and 24 hours), and, with the whole module,
`SyncAssumption`; `AdmissionHeldWithRoom` that `None` is
not one of the two error codes. `PresenceIsKept` assumes that `None` is no event of the node, and a heartbeat period that is
no longer than the TTL (45 s and 120 s in the code). `LeavingIsFinal` assumes the same, that `None` is no answer of the node, and
that the node's log has room in every state (2200 events in the code): an eviction may take a heartbeat out of the
middle of a presence, and the hall derived from the rest is another one. `RoomIsRegained` assumes that `None` is no event
of the node, and that a heartbeat period and half a TTL fit in the TTL (45 s, 60 s and 120 s in the code).

**Hall.** `TypeCorrect` is used by all others. The invariant `IInv` is the conjunction
of the properties with what they rest on: `Clock` (the event, the target of `advance` and the time of
`fillSeats` agree in each phase), `PastSeats` (no seat was given in the future, so that a refresh
only pushes a deadline out), `Filtered` (in the loop of `fillSeats` the queue holds only peers alive at
its time), `Quiet` (between `advance` and the end of the event nothing is overdue, also through
the `fillSeats` that a leave or an admission starts), `Cooldowns` (which needs `OneSpot`: the
peer that loses its seat must not be left in the queue). Capacity and monologue are proved apart.
`SlowModeEnforced` remembers, of each seat, a time no earlier than any message sent from it (`Remembered`), and
that messages and seats are of the past. No run checks `SlowModeKept`: it is proved for
every instance.

**The closed form.** `Derive` is built from recursive functions over events, seats and expiries. That they
exist, are halls and obey their equations is shown once (`RecursionExists` and its uses): induction is on
a rank in `Nat` that each turn lowers, and `Descent` (a set in which every member has one of lower rank is empty)
stands for the induction theorems, which take an operator as a parameter. `PresenceBacked` then follows each record of a hall
back to the event it rests on, the last of its peer; `OnePlaceEach` and `LastJoinAdmits` go through `Release`,
`FillSeats` and `Advance` one equation at a time. `HallWithinCapacity` counts on the same equations, where a step only moves
people between queue and seats. `NobodyIsMissed` needs an invariant of one peer: `Held` says that it has a record, queued
or seated since a time not before its join, whose deadlines all lie after the present; and `Out`, that before its join it is neither in the
hall nor cooling. Every loop keeps the one while time does not pass the present (`AdvanceHeld`, `RefreshHeld`, `PostHeld`, `AdmitHeld`),
and the admission of the join turns the other into it.

**Refinement.** `DeriveRefinesLog` compares the loops with the closed form at every turn. The invariant
`Follows` says, phase by phase, what the loops still owe: the value that the closed form gives to the hall as it was before the event
(`base`) is the value it gives to the rest of the loop's work from the hall as it is now. Each turn of a loop
takes one recursive equation off what is owed and leaves that value alone; when nothing is owed the step is the step of
HallLog. Two expiries at one instant are where this is delicate: the loop's choice among equal deadlines and the
closed form's must be the same one.

**Ledger.** `Kept` says that the log is within its limits, has no event twice and holds
signed events only; `Pointed` that each index names an event of its own origin and kind in the log; `Covered` that a mark is
not below what is logged. The heart is a count: by `LimitsAssumption`, a log one above its limit holds an event that
neither an index nor the messages nor the checkpoint protect, so that one turn of the pruning
loop is enough and never drops what is named (`removeAt < 0` is never reached).
`ActiveAreIndexed` rests on `Attended`: every recent join or heartbeat in the log is no newer than what the index
of its peer names, or is followed by a leave of the same peer (`Heeded`). By `PresenceBacked` whoever is in the hall is there by
its last word, which is recent and no leave. `AdmissionHeldWithRoom` follows one join through `accept`: without an eviction the new log is
the old one and the join (`AcceptLogs`), so that `LastJoinAdmits` applies to it (`JoinIsAdmitted`); what
`admissionError` read off the old hall is what the replay meets.
`LateHostsCatchUp` compares two halls derived from logs that share only some events. It does not compare their seats: each
membership is followed back to events and forth again. Of those in the sender's hall the answer has the basis and the latest
presence (`ActiveAreIndexed`), and by `HallWithinCapacity` there are few enough that it fits in `MaxSyncEvents` and in the limits of an empty ledger
(`AnswerFits`): nothing is cut off or evicted. Joins come one per origin, above any mark of it and within the tracked joins, so that each is accepted
(`JoinsAreCaught`); a heartbeat or a message may be refused, and no argument rests on it. The late log then
has no leave and no more origins than there are places, and `NobodyIsMissed` puts everyone in its hall, while `PresenceBacked` keeps everybody else out.
The hypothesis on the checkpoint was found on the way: an old checkpoint ends the catch-up as an old message does.

**Node.** Three theorems leave open what the ledger answers. `Underway` gives each call its place and its
sequence number, all different and none above the last given out; `Reachable` ties the phase and the
checkpoint timer to the node through `startPc`; `Beating` says that a presence
without a timer has a join on its way which will start it. `PresenceIsKept` needs the ledger: `Recorded` says that all the node's
ledger knows are events of its own, or joins it is still mining, none above the last sequence number and none of the
future (`Sound`, which the lemmas of Ledger_proofs keep). `Renewing` is the invariant. A join that is being mined is
either ahead of all that was accepted, and then its acceptance renews the presence (`OwnAccepted`), or it was overtaken by a
join or heartbeat of the same moment or by a leave, and then the ledger was refreshed without it; in between, the timer is due
within one period of the presence last recorded, and time does not pass it by. A message or a checkpoint would break exactly this: it overtakes
without renewing. `LeavingIsFinal` adds `Departing`, which keeps for each call what it read of the hall before its
await: the join that a heartbeat is mining can be accepted only while the node is present, with a basis that is alive, so that a leave is
accepted and overtakes it (`OwnTaken`); a join of the user's was let in at the door and comes in when it is accepted
(`JoinLetsIn`), or finds the node in the hall already, where a further event of its own keeps it (`HereStays`). While time
passes nobody comes back into the hall (`NobodyComesBack`): of two times, `Derive` at the later is `Advance` of `Derive` at the
earlier (`AdvanceLater`).
`RoomIsRegained` is about the ledger at the far end of the link. `Hearing` is `Recorded` of that ledger: the events of the calls
under way are those it has not heard. `Regaining` says of a node that is present and linked that the room's basis has just been
renewed, or is alive with the heartbeat due within a period of it, or that a join is on its way that the room will take, or that no join was
sent since the link returned; in the last case the next heartbeat is due within half a TTL and a period of the
link's return, for a heartbeat is only sent in the half TTL after a join. An event that the room refuses was overtaken by one of the
same moment, and each way to be overtaken leaves one of the four.

**Browser.** `Chain` says that one mutation of a binding runs at a time and which control it locks;
`Fresh` orders versions, readings and answers: a poll asked before an answer has an older version.
`Good` says of the last own message that it is still there, that only later ones are, or that the Host has left it out of
its hall since. `Shown` is an order on windows: a message is shown, or a full window of later ones is. `MergingLosesNothing` rests on what the Host's history says of its log (`Consistent`: what is logged is in view or was
left out, and what was left out and is in view again is belated) and on each room on its way, or merged,
showing all that its Host had recorded up to its cursor (`Whole`), up to a full window; it then counts. `Merged` states this of
every room and answer (`Gathered`) while nothing is belated: a message that a delta does not bring was in view when the cursor
passed it, and is in the room already.

**Ingress.** `Measured` gives, for each origin, the message that opened its last
window and the one that opened the window before: both windows hold at most a limit of messages and
begin a minute apart, so that `2 * limit + 1` messages reach back past the first. It survives
pruning because only expired windows are dropped, and refusal because a full map opens none.
`Ordered` says that whatever waits is above the mark of its origin, in the order in which
it was signed. `Answers` says that an open stream belongs to the remembered request of its peer, which
outlives it, so that a peer has one stream at a time and the next request is let in a minute after the last.

**Model-checked only.** `AdvanceTerminates` and `Converges`, which are liveness under fairness and out of this
prover's reach; and `AdmissionKept`, of which `AdmissionHeldWithRoom` proves the steps while the log has room: the run has no
others. Every other invariant and action property of a passing run is a theorem, under the assumptions named above.

## 6. Not modelled, and why

- `src/lib/` holds the bundles built from `src/src/`, some 8000 lines of the repository's
  code: the same functions again, modelled once, at their source.
- The community relay: its ledger and its answers to catch-up are what LedgerHost and Replication
  model. Its concurrent verification (no serial queue, unlike a Host) and its global window, whose
  clock was read before the request, are not.
- The demonstration hall (`hall-machine.ts`): single-threaded, used by the demonstration
  and the tests; the product takes only its table of rules.
- Catch-up into a ledger that holds other events, whom libp2p chooses to ask, dialling and discovery.
- A Host that restarts and whose revisions overtake the cursor of a browser that stayed bound:
  whether a remote outlives its Host is decided outside this repository.
- Signatures, hashes, proof of work, invitations, addresses, profile and avatar
  formats, project-room encryption: cryptography and parsing, pure functions of text.
  A verified event is one whose times pass `Timely`.
- `evidence`, `diagnostics`, the compact windows of `snapshot`: they only read.
- The user interface, deployment scripts, release checks.

## 7. Plan

What is left, in the order of its worth:

1. The relay: concurrent verification over LedgerHost, its windows beside Ingress.
2. Catch-up into a ledger that is not empty, and two hosts that catch up from each other.
3. Remembered peers and their redialling in `node.ts`.
4. The demonstration hall and its offers, against HallReplay.
5. `LateHostsCatchUp` for a receiver that holds other events: the joins of the answer may then be below its marks,
   and what was said before must be shown to let everyone in all the same.
