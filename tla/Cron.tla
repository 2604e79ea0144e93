-------------------------------- MODULE Cron --------------------------------
(***************************************************************************)
(* When a schedule fires next: nextFireTime (apps/api/src/services/cron.ts) *)
(* across one change of the clock.  Time is counted in slots: an instant   *)
(* by those elapsed, a wall-clock time by the slots of the days before it  *)
(* and its own, HourSlots to an hour and Hours to a day.                   *)
(*                                                                         *)
(* Abstracted: the two day fields and the month to the set of dates they   *)
(* match; parsing, which yields the sets; the limit of four years to the   *)
(* last day.                                                               *)
(***************************************************************************)
EXTENDS Integers, FiniteSetsExt

CONSTANTS Hours, HourSlots,
          LastDay,      \* bound: days walked
          MaxJump,      \* bound: slots a clock is moved by
          Never

ASSUME CronAssumption == {Hours, HourSlots, LastDay} \subseteq Nat \ {0} /\ MaxJump \in Nat /\ Never \notin Int

VARIABLES
    zone,       \* the clock moves by jump when slot `at` begins
    schedule,
    asked       \* the instant the next firing is asked from

cronVars == <<zone, schedule, asked>>

DaySlots == Hours * HourSlots
Instants == 0..(DaySlots * (LastDay + 2) + MaxJump)
Zones == [at : 0..(DaySlots * LastDay), jump : -MaxJump..MaxJump]
Schedules == [hours : SUBSET (0..(Hours - 1)) \ {{}}, slots : SUBSET (0..(HourSlots - 1)) \ {{}},
              days : SUBSET (0..LastDay) \ {{}}]

Wall(t) == IF t < zone.at THEN t ELSE t + zone.jump
Day(wall) == wall \div DaySlots
WallTime(day, hour, slot) == day * DaySlots + hour * HourSlots + slot

\* External: Date's constructor from local fields.  A time that is skipped is
\* read on the clock before the change, a repeated one is the first.
InstantOf(wall) ==
    IF wall < zone.at + (IF zone.jump > 0 THEN zone.jump ELSE 0) THEN wall ELSE wall - zone.jump

-----------------------------------------------------------------------------
\* The instants of a date; a time that normalises into the next day is dropped.
Candidates(day) ==
    {t \in {InstantOf(WallTime(day, h, m)) : h \in schedule.hours, m \in schedule.slots} : Day(Wall(t)) = day}

FirstOf_InWallOrder(ts, day) ==
    InstantOf(Min({w \in {WallTime(day, h, m) : h \in schedule.hours, m \in schedule.slots} : InstantOf(w) \in ts}))

\* The candidates are sorted before the first is taken.
FirstOf(ts, day) == Min(ts)

\* nextFireTime, date by date from the date of `from`.
NextFireTime(from) ==
    LET ahead(day) == {t \in Candidates(day) : t > from}
        dates == {d \in schedule.days : d >= Day(Wall(from)) /\ ahead(d) # {}}
    IN  IF dates = {} THEN Never ELSE FirstOf(ahead(Min(dates)), Min(dates))

-----------------------------------------------------------------------------
CronInit ==
    /\ zone = [at |-> 0, jump |-> 0]
    /\ schedule = [hours |-> {}, slots |-> {}, days |-> {}]
    /\ asked = Never

Ask(z, s, from) ==
    /\ asked = Never
    /\ zone' = z /\ schedule' = s /\ asked' = from

Fires ==
    /\ asked # Never
    /\ NextFireTime(asked) # Never
    /\ asked' = NextFireTime(asked)
    /\ UNCHANGED <<zone, schedule>>

CronNext ==
    \/ \E z \in Zones, s \in Schedules, from \in 0..(DaySlots - 1) : Ask(z, s, from)
    \/ Fires

CronSpec == CronInit /\ [][CronNext]_cronVars

-----------------------------------------------------------------------------
(* Properties *)

Scheduled(wall) ==
    /\ Day(wall) \in schedule.days
    /\ (wall % DaySlots) \div HourSlots \in schedule.hours
    /\ wall % HourSlots \in schedule.slots

\* What the comment on nextFireTime asks for, read off the running clock: it
\* fires when a scheduled time shows for the first time, and, for a time the
\* clock skips, as long after the skip as the time is into it, on its date.
IsFiring(t) ==
    \/ Scheduled(Wall(t)) /\ ~\E u \in Instants : u < t /\ Wall(u) = Wall(t)
    \/ Scheduled(t) /\ t \in zone.at..(zone.at + zone.jump - 1) /\ Day(t) = Day(Wall(t))

\* nextFireTime: through a clock moved forward or back, at midnight or in the
\* day, no firing is lost, none is early or late, and none is repeated ("an automation
\* must not run twice because a clock moved").
NoFiringIsMissed ==
    asked # Never =>
        LET next == NextFireTime(asked)
        IN  /\ next # Never => IsFiring(next)
            /\ \A t \in Instants : t > asked /\ (next = Never \/ t < next) => ~IsFiring(t)
=============================================================================
