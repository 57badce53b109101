--------------------------- MODULE RepeatedSalaries ---------------------------
(***************************************************************************)
(* Additional salaries that repeat (additional_salary.py): every day a job *)
(* makes a draft for each repeating entry whose next date comes near, and  *)
(* a button of the form runs the same method at any time.                  *)
(*                                                                         *)
(* A run is one transaction at REPEATABLE READ.  It notes the date of what *)
(* it made by saving the entry, which the framework refuses when the entry *)
(* has changed since the run read it.                                      *)
(***************************************************************************)
EXTENDS Naturals, Sequences, FiniteSets

CONSTANTS
    Entry,       \* submitted entries that repeat
    Weekly,      \* those that do so every week, the others monthly; yearly ones
                 \* differ in the number of months only
    First,       \* First[e]: the date of the entry itself
    End,         \* End[e]: the date it repeats to
    MonthDays,   \* lengths of the months, which come again and again
    Week, Lead,  \* days in a week, and the days a draft is made ahead
    LastDay,     \* bound: the days that are looked at
    Job, Web,    \* the daily job, and requests by the button
    MaxFaults    \* bound: runs that fail by themselves

Worker == {Job} \cup Web
Day == 1..LastDay

\* What the constants are.
DayAssumption ==
    /\ Weekly \subseteq Entry /\ Web \cap {Job} = {}
    /\ MonthDays \in Seq(Nat \ {0}) \ {<<>>} /\ Week \in Nat \ {0} /\ {Lead, LastDay, MaxFaults} \subseteq Nat
    /\ First \in [Entry -> Nat \ {0}] /\ End \in [Entry -> Nat]

VARIABLES
    today,
    live,     \* entries that are neither cancelled nor set to repeat no more
    left,     \* entries whose employee has left
    made,     \* made[e]: the dates of the drafts made for e, in their order
    run,      \* run[s]: the run session s is in
    ran,      \* the job has been started today
    missed,   \* days whose run of the job failed
    faults

vars == <<today, live, left, made, run, ran, missed, faults>>

(***************************************************************************)
(* Types.  The last date of an entry is that of the last draft made for it.*)
(***************************************************************************)
\* todo: the entries the run still has to make a draft for, of the date next;
\* new: those it has made one for; old: those that changed since it read them.
Idle == [pc |-> "idle"]
Dated == Nat
Running == [pc : {"run"}, todo : SUBSET Entry, next : [Entry -> Dated],
            new : SUBSET Entry, old : SUBSET Entry]

TypeOK ==
    /\ today \in Day
    /\ live \subseteq Entry /\ left \subseteq Entry
    /\ made \in [Entry -> Seq(Dated)]
    /\ run \in [Worker -> Running \cup {Idle}]
    /\ ran \in BOOLEAN /\ missed \in Nat /\ faults \in 0..MaxFaults

Init ==
    /\ today = 1 /\ live = Entry /\ left = {}
    /\ made = [e \in Entry |-> <<>>]
    /\ run = [s \in Worker |-> Idle]
    /\ ran = FALSE /\ missed = 0 /\ faults = 0

In(s) == run[s] # Idle

(***************************************************************************)
(* Dates.                                                                  *)
(***************************************************************************)
MonthLength(m) == MonthDays[1 + ((m - 1) % Len(MonthDays))]

MonthEnd == LET end[m \in Nat] == IF m = 0 THEN 0 ELSE end[m - 1] + MonthLength(m) IN end

MonthOf(d) == CHOOSE m \in 1..d : MonthEnd[m - 1] < d /\ d <= MonthEnd[m]

Smaller(a, b) == IF a < b THEN a ELSE b

AddMonth(d) ==
    LET m == MonthOf(d) IN MonthEnd[m] + Smaller(d - MonthEnd[m - 1], MonthLength(m + 1))

NextDate(e, d) == IF e \in Weekly THEN d + Week ELSE AddMonth(d)

LastDate(e) == IF made[e] = <<>> THEN First[e] ELSE made[e][Len(made[e])]

(***************************************************************************)
(* Runs.                                                                   *)
(***************************************************************************)
Repeating == {e \in live : End[e] >= today}

Due(e) == NextDate(e, LastDate(e)) <= today + Lead

\* What is due follows from what the run reads when it begins.
Begin(s) ==
    /\ ~In(s)
    /\ s = Job => ~ran
    /\ run' = [run EXCEPT ![s] =
          [pc |-> "run", todo |-> {e \in Repeating : Due(e)},
           next |-> [e \in Entry |-> NextDate(e, LastDate(e))], new |-> {}, old |-> {}]]
    /\ ran' = (ran \/ s = Job)
    /\ UNCHANGED <<today, live, left, made, missed, faults>>

\* The entry stays locked until the run ends.
Free(s, e) == \A t \in Worker \ {s} : In(t) => e \notin run[t].new

\* Mutant: the date is noted whether the entry has changed or not.
NotedAnyway(s, e) == Free(s, e)

Noted(s, e) == Free(s, e) /\ e \notin run[s].old

Make(s, e) ==
    /\ In(s) /\ e \in run[s].todo
    /\ e \notin left /\ Noted(s, e)
    /\ run' = [run EXCEPT ![s].todo = @ \ {e}, ![s].new = @ \cup {e}]
    /\ UNCHANGED <<today, live, left, made, ran, missed, faults>>

\* Whoever has read an entry that changes has an old copy of it.
Outdated(runs, changed) ==
    [t \in Worker |-> IF runs[t] = Idle THEN Idle ELSE [runs[t] EXCEPT !.old = @ \cup changed]]

Commit(s) ==
    /\ In(s) /\ run[s].todo = {}
    /\ made' = [e \in Entry |->
          IF e \in run[s].new THEN Append(made[e], run[s].next[e]) ELSE made[e]]
    /\ run' = Outdated([run EXCEPT ![s] = Idle], run[s].new)
    /\ UNCHANGED <<today, live, left, ran, missed, faults>>

\* A draft or a note that is refused undoes the whole run: the employee has
\* left, the entry has changed, or two runs wait for each other.  Also a
\* frequency nobody knows, or a crash.
Refused(s) == \E e \in run[s].todo : e \in left \/ e \in run[s].old \/ ~Free(s, e)

Abort(s) ==
    /\ In(s)
    /\ \/ Refused(s) /\ UNCHANGED faults
       \/ faults < MaxFaults /\ faults' = faults + 1
    /\ run' = [run EXCEPT ![s] = Idle]
    /\ missed' = IF s = Job THEN missed + 1 ELSE missed
    /\ UNCHANGED <<today, live, left, made, ran>>

(***************************************************************************)
(* Users and time.                                                         *)
(***************************************************************************)
\* Submitting a draft notes its amount in the entry.
Submit(e) ==
    /\ made[e] # <<>> /\ \A t \in Worker : In(t) => e \notin run[t].new
    /\ run' = Outdated(run, {e})
    /\ UNCHANGED <<today, live, left, made, ran, missed, faults>>

\* The entry is cancelled or repeats no more.
Stop(e) ==
    /\ e \in live /\ \A t \in Worker : In(t) => e \notin run[t].new
    /\ live' = live \ {e}
    /\ run' = Outdated(run, {e})
    /\ UNCHANGED <<today, left, made, ran, missed, faults>>

Leave(e) ==
    /\ left' = left \cup {e} /\ left' # left
    /\ UNCHANGED <<today, live, made, run, ran, missed, faults>>

\* The job is started every day, and ends before the next.
Tomorrow ==
    /\ today < LastDay /\ ran /\ ~In(Job)
    /\ today' = today + 1 /\ ran' = FALSE
    /\ UNCHANGED <<live, left, made, run, missed, faults>>

Next ==
    \/ \E s \in Worker :
          \/ Begin(s) \/ Commit(s) \/ Abort(s)
          \/ \E e \in Entry : Make(s, e)
    \/ \E e \in Entry : Submit(e) \/ Stop(e) \/ Leave(e)
    \/ Tomorrow

Spec == Init /\ [][Next]_vars

(***************************************************************************)
(* Safety.                                                                 *)
(***************************************************************************)
\* However runs of the job and the button overlap, the drafts of an entry are
\* one for each week or for each month after it, in their order, none twice
\* and none left out (generate_additional_salary_records).
EachPeriodOnce ==
    \A e \in Entry : \A i \in 1..Len(made[e]) :
        LET before == IF i = 1 THEN First[e] ELSE made[e][i - 1] IN
        IF e \in Weekly THEN made[e][i] = before + Week
        ELSE MonthOf(made[e][i]) = MonthOf(before) + 1

\* The dates that follow d.
Later(e, d) ==
    LET later[n \in Nat] == IF n = 0 THEN d ELSE NextDate(e, later[n - 1]) IN later

\* Of an entry that was submitted late a draft a day is made until none is due.
InTime(e) == NextDate(e, First[e]) > Lead

\* A run of the job makes one draft of an entry, so each day it failed puts an
\* entry back by one draft at most: when the day's run is over no more drafts
\* are lacking than days failed, be it because an employee has left, which
\* stops the drafts of everyone, or because the button came between.
LacksOnlyMissed ==
    ran /\ ~In(Job) =>
        \A e \in Repeating : InTime(e) => Later(e, LastDate(e))[missed + 1] > today + Lead
=============================================================================
