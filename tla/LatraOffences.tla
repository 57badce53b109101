---------------------------- MODULE LatraOffences ----------------------------
(***************************************************************************)
(* The Latra Offence records, which mirror what LATRA lists for the fleet  *)
(* (latra_licenses.py): runs of update_latra_offences, by the daily job    *)
(* and by requests, write the list each has fetched.  How a list is        *)
(* fetched is in LatraFetch.                                               *)
(*                                                                         *)
(* A run is a transaction at REPEATABLE READ: it reads the records as they *)
(* were at its first read or after its last commit, and changes the latest *)
(* ones, which stay locked until it commits.                               *)
(***************************************************************************)
EXTENDS Naturals, FiniteSets

CONSTANTS
    Job,          \* the daily job
    Web,          \* requests to update_latra_offences
    MaxOffences,  \* bound: offences LATRA comes to list
    MaxFaults     \* bound: runs that fail

Worker == {Job} \cup Web
Offence == 1..MaxOffences

\* What the constants are.
SizeAssumption == MaxOffences \in Nat /\ MaxFaults \in Nat
WorkerAssumption == IsFiniteSet(Web) /\ Job \notin Web

VARIABLES
    issued,   \* LATRA lists offences 1..issued, the newest first
    paid,     \* those that are paid
    rec,      \* rec[o][s]: status of the committed record of o that s made
    run,      \* run[s]: the run session s is in
    faults

vars == <<issued, paid, rec, run, faults>>

(***************************************************************************)
(* Types.  "none": no record, or not fetched.                              *)
(***************************************************************************)
Status == {"UNPAID", "PAID"}
Absent == "none"
Key == Offence \X Worker

\* view: keys of the records the transaction reads; wrote: keys it wrote and
\* has not committed; got: what was fetched; todo: what is left to write.
\* Properties alone look at alone: no other run overlapped with this one so far.
Running == [pc : {"fetch", "write"}, got : [Offence -> Status \cup {Absent}],
            todo : SUBSET Offence, view : SUBSET Key, wrote : SUBSET Key, alone : BOOLEAN]
Idle == [pc |-> "idle"]

TypeOK ==
    /\ issued \in 0..MaxOffences /\ paid \subseteq 1..issued
    /\ rec \in [Offence -> [Worker -> Status \cup {Absent}]]
    /\ run \in [Worker -> Running \cup {Idle}]
    /\ faults \in 0..MaxFaults

Init ==
    /\ issued = 0 /\ paid = {}
    /\ rec = [o \in Offence |-> [s \in Worker |-> Absent]]
    /\ run = [s \in Worker |-> Idle]
    /\ faults = 0

(***************************************************************************)
(* LATRA.                                                                  *)
(***************************************************************************)
List ==
    /\ issued < MaxOffences
    /\ issued' = issued + 1
    /\ UNCHANGED <<paid, rec, run, faults>>

Pay(o) ==
    /\ o \in (1..issued) \ paid
    /\ paid' = paid \cup {o}
    /\ UNCHANGED <<issued, rec, run, faults>>

(***************************************************************************)
(* Runs.                                                                   *)
(***************************************************************************)
In(s) == run[s].pc # "idle"
At(s, pc) == run[s].pc = pc

Fault == faults < MaxFaults /\ faults' = faults + 1

Recorded == {k \in Key : rec[k[1]][k[2]] # Absent}

\* The first read, of the fleet's plates, fixes what the transaction reads.
Begin(s) ==
    /\ ~In(s)
    /\ LET alone == \A t \in Worker : ~In(t) IN
       run' = [t \in Worker |->
          IF t = s THEN [pc |-> "fetch", got |-> [o \in Offence |-> Absent], todo |-> {},
                         view |-> Recorded, wrote |-> {}, alone |-> alone]
          ELSE IF In(t) THEN [run[t] EXCEPT !.alone = FALSE] ELSE Idle]
    /\ UNCHANGED <<issued, paid, rec, faults>>

StatusOf(o) == IF o \in paid THEN "PAID" ELSE "UNPAID"

\* The whole list, as it is when its last page comes.
Fetch(s) ==
    /\ At(s, "fetch")
    /\ run' = [run EXCEPT ![s].pc = "write", ![s].todo = 1..issued,
          ![s].got = [o \in Offence |-> IF o \in 1..issued THEN StatusOf(o) ELSE Absent]]
    /\ UNCHANGED <<issued, paid, rec, faults>>

(***************************************************************************)
(* Writing.                                                                *)
(***************************************************************************)
\* Mutant: a run does not find what was recorded before it.
FoundOwn(s, o) == {t \in Worker : <<o, t>> \in run[s].wrote}

Found(s, o) == {t \in Worker : <<o, t>> \in run[s].view \cup run[s].wrote}

\* Another run's uncommitted write keeps a record locked.
Free(s, k) == \A t \in Worker \ {s} : In(t) => k \notin run[t].wrote

Target(s, o) ==
    IF Found(s, o) = {} THEN {<<o, s>>}
    ELSE {k \in {<<o, t>> : t \in Found(s, o)} : Free(s, k)}

Written(s, keys) ==
    [o \in Offence |-> [t \in Worker |->
        IF <<o, t>> \in keys THEN run[s].got[o] ELSE rec[o][t]]]

\* The rows of one vehicle are written in the order they were fetched, each
\* once here, although a list that grew shows some twice.
Turn(s, o) == o \in run[s].todo /\ \A p \in run[s].todo : p <= o

\* One row.  The mail about it, if one is due, commits what was written; the
\* next read sees the records anew.
Apply(s, o) ==
    /\ At(s, "write") /\ Turn(s, o)
    /\ \E k \in Target(s, o) :
          LET wrote == run[s].wrote \cup {k} IN
          \/ /\ run' = [run EXCEPT ![s].todo = @ \ {o}, ![s].wrote = wrote]
             /\ UNCHANGED rec
          \/ /\ rec' = Written(s, wrote)
             /\ run' = [run EXCEPT ![s].todo = @ \ {o}, ![s].wrote = {},
                                   ![s].view = Recorded \cup wrote]
    /\ UNCHANGED <<issued, paid, faults>>

\* The last commit; with nothing fetched the run says that it failed.
Done(s) ==
    /\ At(s, "write") /\ run[s].todo = {}
    /\ rec' = Written(s, run[s].wrote)
    /\ run' = [run EXCEPT ![s] = Idle]
    /\ UNCHANGED <<issued, paid, faults>>

\* Two runs that wait for each other's records: a wait that is too long, or
\* the deadlock, ends one with an exception.
Waits(s) == At(s, "write") /\ \E o \in Offence : Turn(s, o) /\ Target(s, o) = {}

\* Also a list that does not come, a mail that raises, a crash: what is not
\* committed is lost.
Abort(s) ==
    /\ In(s)
    /\ \/ Waits(s) /\ UNCHANGED faults
       \/ Fault
    /\ run' = [run EXCEPT ![s] = Idle]
    /\ UNCHANGED <<issued, paid, rec>>

Next ==
    \/ List \/ \E o \in Offence : Pay(o)
    \/ \E s \in Worker : Begin(s) \/ Fetch(s) \/ Done(s) \/ Abort(s) \/ \E o \in Offence : Apply(s, o)

Spec == Init /\ [][Next]_vars

(***************************************************************************)
(* Safety.                                                                 *)
(***************************************************************************)
Records(o) == Cardinality({s \in Worker : rec[o][s] # Absent})

\* While a run has the table to itself no offence gets a second record and no
\* record that says PAID goes back, and when it ends some record of each offence
\* says what the run fetched, although its mails commit the rows before them:
\* only runs that overlap do otherwise, as nothing keeps a request away from the
\* job and no key is unique (update_latra_offences).
LoneRunIsFaithful ==
    [][\A s \in Worker : In(s) /\ run[s].alone =>
          \A o \in Offence :
             /\ Records(o) = 1 => Records(o)' = 1
             /\ \A t \in Worker : rec[o][t] = "PAID" => rec'[o][t] = "PAID"
             /\ (Done(s) /\ run[s].got[o] # Absent) => \E t \in Worker : rec'[o][t] = run[s].got[o]]_vars
=============================================================================
