----------------------------- MODULE RtcAlarms -----------------------------
(***************************************************************************)
(* What the RTC timers promise (core/system/include/ramlib/da16x_timer.h): *)
(* an alarm per identifier, each with the time that is left to it.  Every  *)
(* operation may move the other alarms a little, by the rounding between   *)
(* microseconds and RTC clocks and by what the code adds for its own       *)
(* running time, and none may move one further or drop one.  The timers    *)
(* are lost only all together, in Lose.                                    *)
(***************************************************************************)
EXTENDS Integers, FiniteSets

CONSTANTS
    Id,             \* the timers
    Beacon,         \* those of the power save firmware
    Off,            \* an alarm that is not set, below every time
    Period,         \* the times that are set
    Round,          \* what rounding may cost an alarm in a step
    Boot,           \* what a boot may add to the time that passed
    Late,           \* what an external signal in a late boot may add
    Slice,          \* an alarm this close to another goes off with it
    MinSleep,       \* the shortest sleep
    Elapse          \* the longest time that passes in a step

VARIABLES
    alarm,          \* the time left to each alarm
    called          \* the timers whose callback this step called

vars == <<alarm, called>>

Set == {i \in Id : alarm[i] # Off}

Init == alarm = [i \in Id |-> Off] /\ called = {}

Remaining(t) == IF t < 0 THEN 0 ELSE t

\* The alarms of S come nearer by early at most, and go away by late at most
\* from where they are or, if they are overdue, from now.
Kept(S, early, late) ==
    \A i \in S : alarm'[i] \in (alarm[i] - early) .. (late + Remaining(alarm[i]))

Gone(S) == \A i \in S : alarm'[i] = Off

\* Time passes, or none, for all alarms alike.
Pass ==
    /\ called' = {}
    /\ \E d \in 0 .. Elapse :
          alarm' = [i \in Id |-> IF alarm[i] = Off THEN Off ELSE alarm[i] - d]

SetAlarm(i) ==
    /\ called' = {}
    /\ alarm[i] = Off
    /\ \E d \in Period : alarm'[i] \in (d - Round) .. d
    /\ Kept(Set, Round, 0) /\ Gone(Id \ (Set \cup {i}))

KillAlarm(i) ==
    /\ called' = {}
    /\ alarm[i] # Off
    /\ Kept(Set \ {i}, Round, 0) /\ Gone((Id \ Set) \cup {i})

\* An alarm is set for the power-down, which lasts at least MinSleep and comes
\* after a boot that was counted with Boot more than it took.  It ends the
\* alarm of a beacon.
Sleep(i) ==
    LET stay == Set \ (Beacon \cup {i})
    IN  /\ called' = {}
        /\ alarm[i] = Off \/ i \in Beacon
        /\ \E d \in Period : alarm'[i] \in (d - Round) .. (d + MinSleep)
        /\ Kept(stay, Round + Boot, MinSleep + Slice)
        /\ Gone(Id \ (Set \cup {i}))

\* The alarms of S go off.  The first is due; the others are close to one that
\* goes off, and those that stay lose what the others were early.
GoOff(S) ==
    /\ called' = S
    /\ S # {} /\ S \subseteq Set
    /\ \E i \in S : alarm[i] <= 0
    /\ \A i \in S : alarm[i] <= (Cardinality(S) - 1) * Slice + Round + Boot
    /\ Gone((Id \ Set) \cup S)
    /\ Kept(Set \ S, Elapse + Round + Boot + (Cardinality(S) - 1) * Slice, Slice)

\* An external signal ended the sleep.  The timers go on, but for beacons; if
\* the sleep was over, they wait again for what they are late.
Resume(S) ==
    /\ called' = {}
    /\ Gone((Id \ Set) \cup S)
    /\ Kept(Set \ S, Round, Late)

\* A reset, or a step that does not leave the timers as they have to be.
Lose == Gone(Id) /\ called' \subseteq Set

Next ==
    \/ Pass \/ Lose
    \/ \E i \in Id : SetAlarm(i) \/ KillAlarm(i) \/ Sleep(i)
    \/ \E S \in SUBSET Id : GoOff(S)
    \/ \E S \in SUBSET Beacon : Resume(S)

Spec == Init /\ [][Next]_vars
=============================================================================
