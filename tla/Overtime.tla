------------------------------- MODULE Overtime -------------------------------
(***************************************************************************)
(* How an Attendance is split into working hours, overtime and what is in  *)
(* excess of the shift (csftz_hooks/attendance.py, process_overtime).      *)
(* Times are times of the day: dates are dropped.                          *)
(***************************************************************************)
EXTENDS Integers

CONSTANTS
    Day,     \* units of time in a day
    Grace    \* periods of grace

\* What the constants are.
TimeAssumption == Day \in Nat \ {0} /\ Grace \subseteq 0..Day - 1

Time == 0..Day - 1
NoGrace == -1

VARIABLES attendance, hours
vars == <<attendance, hours>>

(***************************************************************************)
(* Types.  night: who came on one day left on the next.  approval: overtime*)
(* is to be approved.  unset: the attendance has not been processed.       *)
(***************************************************************************)
Attendance == [in : Time, out : Time, night : BOOLEAN, start : Time, end : Time,
               late : Grace \cup {NoGrace}, early : Grace \cup {NoGrace},
               threshold : Time, holiday : BOOLEAN, approval : BOOLEAN, present : BOOLEAN]
Unset == [state |-> "unset"]
Hours(working, overtime, excess) ==
    [state |-> "set", working |-> working, overtime |-> overtime, excess |-> excess]

TypeOK ==
    /\ attendance \in Attendance
    /\ hours = Unset \/ hours \in [state : {"set"}, working : Nat, overtime : Nat, excess : Nat]

Legal(a) == (a.in < a.out <=> ~a.night) /\ a.start # a.end

Init == attendance \in {a \in Attendance : Legal(a)} /\ hours = Unset

(***************************************************************************)
(* The part of the shift that counts.                                      *)
(***************************************************************************)
\* Who comes within the grace period after the start is counted from the start.
ShiftStart ==
    LET a == attendance IN
    IF a.in < a.start \/ (a.late # NoGrace /\ a.in <= (a.start + a.late) % Day) THEN a.start ELSE a.in

\* Who leaves within the grace period before the end is counted to the end.
ShiftEnd ==
    LET a == attendance IN
    IF a.out > a.end \/ (a.early # NoGrace /\ a.out >= (a.end - a.early) % Day) THEN a.end ELSE a.out

Positive(n) == IF n > 0 THEN n ELSE 0

Excess == Positive(attendance.start - attendance.in) + Positive(attendance.out - attendance.end)

\* An end that is not after the start is taken for the start.
Working == IF ShiftEnd > ShiftStart THEN ShiftEnd - ShiftStart ELSE ShiftStart - ShiftEnd

\* On a holiday all of it is overtime.
Eligible == IF attendance.holiday THEN Working ELSE Positive(Working - attendance.threshold)

\* Overtime that is to be approved is shown with the excess.
Process ==
    /\ hours = Unset
    /\ hours' = IF ~attendance.present THEN Hours(0, 0, 0)
                ELSE IF attendance.approval THEN Hours(Working, 0, (Eligible + Excess) % Day)
                ELSE Hours(Working, Eligible, Excess)
    /\ UNCHANGED attendance

Next == Process

Spec == Init /\ [][Next]_vars

(***************************************************************************)
(* Safety.                                                                 *)
(***************************************************************************)
Allowed(grace) == IF grace = NoGrace THEN 0 ELSE grace

\* Of a stay that overlaps the shift, both within one day, every part counts
\* once, as working hours or as excess, and graces are all that is added; and
\* an approval moves overtime without losing any (calculate_shift_start_time,
\* calculate_shift_end_time, set_eligible_and_excess_overtime).  A stay or a
\* shift over midnight, and a stay beside the shift, are split otherwise.
StayIsSplit ==
    LET a == attendance
        stay == a.out - a.in
        overlap == ~a.night /\ a.in < a.end /\ a.start < a.out /\ a.start < a.end
    IN  hours # Unset /\ a.present /\ overlap =>
            /\ hours.working + Excess >= stay
            /\ hours.working + Excess <= stay + Allowed(a.late) + Allowed(a.early)
            /\ hours.overtime + hours.excess = Eligible + Excess
=============================================================================
