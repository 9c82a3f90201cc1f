------------------------------- MODULE HallLog -------------------------------
(***************************************************************************)
(* What derive() promises: the hall changes one event at a time, in log    *)
(* order, each event taking the hall from one settled state to the next.   *)
(* No loop and no half-applied event can be seen.  What a step does to the *)
(* hall is a parameter; HallDerive gives it in closed form.                *)
(***************************************************************************)
EXTENDS Integers

CONSTANTS
    EmptyHall,       \* the hall before the first event
    Step(_, _),      \* the hall after an event
    Advance(_, _),   \* the hall at a later time
    Events, EventTimes, None

VARIABLES settled,   \* the hall between two events
          last,      \* the event it reflects last
          done       \* derive() has returned

vars == <<settled, last, done>>

Init == settled = EmptyHall /\ last = None /\ done = FALSE

Reflect(e) ==
    /\ ~done
    /\ last # None => \/ e.issuedAt > last.issuedAt
                      \/ e.issuedAt = last.issuedAt /\ e.origin >= last.origin
    /\ last' = e
    /\ settled' = Step(settled, e)
    /\ UNCHANGED done

Return(now) ==
    /\ ~done
    /\ done' = TRUE
    /\ settled' = Advance(settled, now)
    /\ UNCHANGED last

Next == (\E e \in Events : Reflect(e)) \/ (\E now \in EventTimes : Return(now))

Spec == Init /\ [][Next]_vars
=============================================================================
