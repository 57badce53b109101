-------------------------- MODULE StanbicPayments --------------------------
(***************************************************************************)
(* Payment of one payroll through Stanbic (stanbic/payments.py, sftp.py    *)
(* and the initiation document): users make initiations for the payroll    *)
(* entry, a submitted one writes its file into the local outbox, one job   *)
(* uploads the outbox and downloads the bank's answers, another reads the  *)
(* downloaded answers into the documents.                                  *)
(*                                                                         *)
(* One Stanbic setting is enabled.  A listing of a directory is read as    *)
(* the directory itself while files are transferred: a file a run does not *)
(* list waits for the next run.                                            *)
(***************************************************************************)
EXTENDS Naturals, FiniteSets

CONSTANTS
    Docs,        \* the initiations that can be made
    Users,       \* users' requests that make them
    Kinds,       \* kinds of answers: ACK, INTAUD, FINAUD
    None,        \* no document, no file
    Seconds,     \* bound: seconds the clock runs
    MaxFaults    \* bound: faults

\* What the constants are.
NoneAssumption == None \notin Docs
BoundAssumption == Seconds \in Nat \ {0} /\ MaxFaults \in Nat

VARIABLES
    doc,      \* doc[d]: absent, draft, submitted, cancelled or deleted
    answer,   \* answer[d]: the kinds stored, flagged as changed, and in the status fields
    cheque,   \* cheque_number of the payroll entry
    drafts,   \* some salary slip of the payroll is a draft
    maker,    \* makers that found no cheque number
    second,   \* the second of the last submission, which names its file
    outbox,   \* outbox[n]: whose file has the name of second n
    sync,     \* the file the transferring job has put and not yet removed
    bank,     \* bank[d]: times the bank was given the file of d
    inbox,    \* answers downloaded
    todo,     \* the files the reading job has listed and not handled
    faults,   \* faults so far
    excuse,   \* what happened that can make the bank pay twice
    lost      \* documents whose file was overwritten before its upload

docVars == <<doc, answer, cheque, drafts, maker>>
fileVars == <<second, outbox, sync, inbox, todo>>
vars == <<docVars, fileVars, bank, faults, excuse, lost>>

Answer == Docs \X Kinds
Second == 1..Seconds
Idle == [does |-> "nothing"]
Put(n, d) == [does |-> "put", name |-> n, of |-> d]
Excuse == {"number removed", "setting named", "makers overlapped", "submission rolled back",
           "upload cut off"}

TypeOK ==
    /\ doc \in [Docs -> {"absent", "draft", "submitted", "cancelled", "deleted"}]
    /\ answer \in [Docs -> [stored : SUBSET Kinds, flag : SUBSET Kinds, status : SUBSET Kinds]]
    /\ \A d \in Docs : /\ answer[d].flag \cup answer[d].status = answer[d].stored
                       /\ answer[d].flag \cap answer[d].status = {}
    /\ cheque \in Docs \cup {None} /\ drafts \in BOOLEAN /\ maker \subseteq Users
    /\ second \in Second /\ outbox \in [Second -> Docs \cup {None}]
    /\ sync = Idle \/ \E n \in Second, d \in Docs : sync = Put(n, d) /\ outbox[n] # None
    /\ bank \in [Docs -> Nat]
    /\ inbox \subseteq Answer /\ todo \subseteq inbox
    /\ faults \in 0..MaxFaults /\ excuse \subseteq Excuse /\ lost \subseteq Docs

Init ==
    /\ doc = [d \in Docs |-> "absent"]
    /\ answer = [d \in Docs |-> [stored |-> {}, flag |-> {}, status |-> {}]]
    /\ cheque = None /\ drafts = TRUE /\ maker = {}
    /\ second = 1 /\ outbox = [n \in Second |-> None] /\ sync = Idle
    /\ bank = [d \in Docs |-> 0]
    /\ inbox = {} /\ todo = {}
    /\ faults = 0 /\ excuse = {} /\ lost = {}

Fault == faults < MaxFaults /\ faults' = faults + 1

(***************************************************************************)
(* Making initiations.                                                     *)
(***************************************************************************)
SubmitSlips ==
    /\ drafts /\ drafts' = FALSE
    /\ UNCHANGED <<doc, answer, cheque, maker, fileVars, bank, faults, excuse, lost>>

\* Mutant: the number is not looked at.
FreeAlways == cheque \in Docs \cup {None}

\* The payroll entry bears no number.
Free == cheque = None

Absent == {d \in Docs : doc[d] = "absent"}

\* make_payments_initiation finds no number, or does not look for one because
\* the call names the Stanbic setting (and Docs has room) ...
StartMaking(u, named) ==
    /\ u \notin maker /\ (named \/ Free)
    /\ Cardinality(maker) < Cardinality(Absent)
    /\ maker' = maker \cup {u}
    /\ excuse' = excuse \cup (IF Free THEN {} ELSE {"setting named"})
    /\ UNCHANGED <<doc, answer, cheque, drafts, fileVars, bank, faults, lost>>

\* ... and makes a document and writes its number.
FinishMaking(u) ==
    /\ u \in maker /\ ~drafts
    /\ maker' = maker \ {u}
    /\ \E d \in Absent :
        /\ doc' = [doc EXCEPT ![d] = "draft"]
        /\ cheque' = d
    /\ excuse' = excuse \cup (IF maker = {u} THEN {} ELSE {"makers overlapped"})
    /\ UNCHANGED <<answer, drafts, fileVars, bank, faults, lost>>

\* A draft slip, or an error, ends it.
GiveUpMaking(u) ==
    /\ u \in maker
    /\ maker' = maker \ {u}
    /\ UNCHANGED <<doc, answer, cheque, drafts, fileVars, bank, faults, excuse, lost>>

\* The user does what the refusal says (while Docs has room).
RemoveNumber ==
    /\ cheque # None /\ Absent # {}
    /\ cheque' = None
    /\ excuse' = excuse \cup {"number removed"}
    /\ UNCHANGED <<doc, answer, drafts, maker, fileVars, bank, faults, lost>>

Cancel(d) ==
    /\ doc[d] = "submitted"
    /\ doc' = [doc EXCEPT ![d] = "cancelled"]
    /\ UNCHANGED <<answer, cheque, drafts, maker, fileVars, bank, faults, excuse, lost>>

Delete(d) ==
    /\ doc[d] \in {"draft", "cancelled"}
    /\ doc' = [doc EXCEPT ![d] = "deleted"]
    /\ UNCHANGED <<answer, cheque, drafts, maker, fileVars, bank, faults, excuse, lost>>

(***************************************************************************)
(* Submission writes the file; a rollback takes back the submission only.  *)
(***************************************************************************)
\* The clock may have moved on since the last file.
WriteFile(d) ==
    \E n \in {second, second + 1} \cap Second :
        /\ second' = n
        /\ outbox' = [outbox EXCEPT ![n] = d]
        /\ lost' = (lost \ {d}) \cup ({outbox[n]} \ {None, d})

Submit(d) ==
    /\ doc[d] = "draft"
    /\ doc' = [doc EXCEPT ![d] = "submitted"]
    /\ WriteFile(d)
    /\ UNCHANGED <<answer, cheque, drafts, maker, sync, inbox, todo, bank, faults, excuse>>

SubmitRolledBack(d) ==
    /\ doc[d] = "draft" /\ Fault
    /\ WriteFile(d)
    /\ excuse' = excuse \cup {"submission rolled back"}
    /\ UNCHANGED <<docVars, sync, inbox, todo, bank>>

(***************************************************************************)
(* sync_all_stanbank_files: each file is put and then removed here, or got *)
(* and then removed there.                                                 *)
(***************************************************************************)
Upload ==
    /\ sync = Idle
    /\ \E n \in Second :
        /\ outbox[n] # None
        /\ sync' = Put(n, outbox[n])
        /\ bank' = [bank EXCEPT ![outbox[n]] = @ + 1]
    /\ UNCHANGED <<docVars, second, outbox, inbox, todo, faults, excuse, lost>>

\* Mutant: the whole directory is cleared.
Cleared(n) == [m \in Second |-> None]

\* The outbox without file n.
Without(n) == [outbox EXCEPT ![n] = None]

\* What has been written under the name since the upload goes with it.
Uploaded ==
    /\ sync.does = "put"
    /\ outbox' = Without(sync.name)
    /\ lost' = lost \cup ({outbox[sync.name]} \ {sync.of})
    /\ sync' = Idle
    /\ UNCHANGED <<docVars, second, inbox, todo, bank, faults, excuse>>

UploadCut ==
    /\ sync.does = "put" /\ Fault
    /\ sync' = Idle
    /\ excuse' = excuse \cup {"upload cut off"}
    /\ UNCHANGED <<docVars, second, outbox, inbox, todo, bank, lost>>

\* The bank answers a file it was given, once in each kind, and the answer is got
\* and removed there.  A run cut off in between gets the same file again; a file
\* partly here cannot be parsed, which the reading job survives: it counts as not
\* yet here.
Download ==
    /\ sync = Idle
    /\ \E f \in Answer \ inbox : bank[f[1]] > 0 /\ inbox' = inbox \cup {f}
    /\ UNCHANGED <<docVars, second, outbox, sync, todo, bank, faults, excuse, lost>>

(***************************************************************************)
(* process_download_files: files stay, and every run reads them again.     *)
(***************************************************************************)
StartReading ==
    /\ todo = {} /\ inbox # {}
    /\ todo' = inbox
    /\ UNCHANGED <<docVars, second, outbox, sync, inbox, bank, faults, excuse, lost>>

\* A file whose document exists and lacks this kind of answer.
New(f) ==
    /\ doc[f[1]] \notin {"absent", "deleted"}
    /\ f[2] \notin answer[f[1]].stored

\* Mutant: a file that brings nothing new ends the run.
SkipAll ==
    /\ \E f \in todo : ~New(f) /\ todo' = {}
    /\ UNCHANGED <<docVars, second, outbox, sync, inbox, bank, faults, excuse, lost>>

Skip ==
    /\ \E f \in todo : ~New(f) /\ todo' = todo \ {f}
    /\ UNCHANGED <<docVars, second, outbox, sync, inbox, bank, faults, excuse, lost>>

\* Saving a draft stores the answer; saving a submitted document applies what is flagged.
Saved(a, st, k) ==
    IF st = "submitted"
    THEN [stored |-> a.stored \cup {k}, flag |-> {}, status |-> a.status \cup a.flag \cup {k}]
    ELSE [a EXCEPT !.stored = @ \cup {k}, !.flag = @ \cup {k}]

Store ==
    /\ \E f \in todo :
        /\ New(f) /\ doc[f[1]] # "cancelled"
        /\ answer' = [answer EXCEPT ![f[1]] = Saved(answer[f[1]], doc[f[1]], f[2])]
        /\ todo' = todo \ {f}
    /\ UNCHANGED <<doc, cheque, drafts, maker, second, outbox, sync, inbox, bank, faults, excuse, lost>>

\* A cancelled document refuses to be saved, and nothing catches the error.
StopAtCancelled ==
    /\ \E f \in todo : New(f) /\ doc[f[1]] = "cancelled"
    /\ todo' = {}
    /\ UNCHANGED <<docVars, second, outbox, sync, inbox, bank, faults, excuse, lost>>

\* So does any document that changed since it was read.
StopAtConflict ==
    /\ \E f \in todo : New(f)
    /\ Fault /\ todo' = {}
    /\ UNCHANGED <<docVars, second, outbox, sync, inbox, bank, excuse, lost>>

Transfer == Upload \/ Uploaded
Read == StartReading \/ Skip \/ Store \/ StopAtCancelled

Next ==
    \/ SubmitSlips \/ RemoveNumber
    \/ \E u \in Users, named \in BOOLEAN : StartMaking(u, named)
    \/ \E u \in Users : FinishMaking(u) \/ GiveUpMaking(u)
    \/ \E d \in Docs : Submit(d) \/ SubmitRolledBack(d) \/ Cancel(d) \/ Delete(d)
    \/ Transfer \/ UploadCut \/ Download
    \/ Read \/ StopAtConflict

Spec == Init /\ [][Next]_vars

\* Both jobs run every 15 minutes.
FairSpec == Spec /\ WF_vars(Transfer) /\ WF_vars(Read)

(***************************************************************************)
(* Properties.                                                             *)
(***************************************************************************)

\* The bank gets the payroll's payments twice only after somebody removed the
\* cheque number, a call that named the Stanbic setting went past it, makers
\* overlapped, a submission was rolled back after writing its file, or an upload
\* was cut off before the file was removed: the guard of make_payments_initiation
\* and the cleanup of upload cover everything else.
PaidOnce ==
    excuse = {} => \A d \in Docs : /\ bank[d] <= 1
                                   /\ \A e \in Docs : bank[d] > 0 /\ bank[e] > 0 => d = e

\* The file of a submitted document reaches the bank, unless another submission in
\* the same second took its name.
SubmittedReachesBank ==
    \A d \in Docs : doc[d] = "submitted" ~> bank[d] > 0 \/ d \in lost

\* An answer downloaded for a submitted document shows in its status, unless the
\* document is cancelled, or a cancelled document's answer ends every reading run.
Blocked == \E f \in inbox : New(f) /\ doc[f[1]] = "cancelled"

AnswerApplied ==
    \A f \in Answer :
        New(f) /\ f \in inbox /\ doc[f[1]] = "submitted"
        ~> f[2] \in answer[f[1]].status \/ doc[f[1]] # "submitted" \/ Blocked
=============================================================================
