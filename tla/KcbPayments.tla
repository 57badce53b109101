---------------------------- MODULE KcbPayments ----------------------------
(***************************************************************************)
(* Payment batches for KCB (kcb/payments.py, the initiation document and   *)
(* kcb_api.py): users make a batch from payment entries or from a payroll, *)
(* every save of the draft makes its payment file anew, and the submission *)
(* tells the bank the file's details and then uploads it, with everything  *)
(* else attached to the batch as supporting documents.                     *)
(*                                                                         *)
(* Both calls are made inside the submitting transaction, which holds the  *)
(* batch: a submission is one step here, one action for each point at      *)
(* which it can fail.  A call without a token counts as refused.           *)
(***************************************************************************)
EXTENDS Naturals, FiniteSets

CONSTANTS
    Batches,       \* the batches that can be made
    Sources,       \* payment entries and payrolls
    Payrolls,      \* the payrolls among them: a batch of its own each
    Users,         \* users' requests that make batches
    MaxSaves,      \* bound: saves of a draft
    MaxAttempts    \* bound: submissions that reach the bank

ASSUME SourceAssumption == Payrolls \subseteq Sources
ASSUME BoundAssumption == MaxSaves \in Nat \ {0} /\ MaxAttempts \in Nat

VARIABLES
    doc,        \* doc[b]: absent, draft, submitted, cancelled or deleted
    source,     \* source[b]: the sources of its rows
    file,       \* file[b]: the version of its payment file, one for each save
    conv,       \* conv[b]: originator_conversation_id, 0 for none
    attached,   \* attached[b]: the files attached to it, by version
    ready,      \* sources that are submitted (a payroll: with all its slips)
    view,       \* view[u]: the sources user u found in no batch
    attempts,   \* conversation ids generated so far
    told,       \* file details the bank has
    given,      \* files the bank has
    excuse      \* what happened that can make the bank pay a source twice

vars == <<doc, source, file, conv, attached, ready, view, attempts, told, given, excuse>>

Summary == 0
Version == 1..MaxSaves
Details == [of : Batches, conv : 1..MaxAttempts, file : Version]
Upload == [of : Batches, conv : 1..MaxAttempts, file : Version, support : SUBSET (Version \cup {Summary})]
Excuse == {"makers overlapped", "batch cancelled", "answer lost"}

TypeOK ==
    /\ doc \in [Batches -> {"absent", "draft", "submitted", "cancelled", "deleted"}]
    /\ source \in [Batches -> SUBSET Sources]
    /\ file \in [Batches -> 0..MaxSaves]
    /\ conv \in [Batches -> 0..attempts]
    /\ attached \in [Batches -> SUBSET (Version \cup {Summary})]
    /\ ready \subseteq Sources /\ view \in [Users -> SUBSET Sources]
    /\ attempts \in 0..MaxAttempts
    /\ told \subseteq Details /\ given \subseteq Upload
    /\ \A g \in given : g.file \notin g.support /\ g.support # {}
    /\ excuse \subseteq Excuse

Init ==
    /\ doc = [b \in Batches |-> "absent"]
    /\ source = [b \in Batches |-> {}]
    /\ file = [b \in Batches |-> 0] /\ conv = [b \in Batches |-> 0]
    /\ attached = [b \in Batches |-> {}]
    /\ ready = {} /\ view = [u \in Users |-> {}]
    /\ attempts = 0 /\ told = {} /\ given = {} /\ excuse = {}

(***************************************************************************)
(* Making batches.                                                         *)
(***************************************************************************)
SubmitSource(s) ==
    /\ s \notin ready /\ ready' = ready \cup {s}
    /\ UNCHANGED <<doc, source, file, conv, attached, view, attempts, told, given, excuse>>

\* Mutant: drafts are not counted.
SubmittedOnly == UNION {source[b] : b \in {c \in Batches : doc[c] = "submitted"}}

\* Sources of batches that are not cancelled.
Existing == UNION {source[b] : b \in {c \in Batches : doc[c] \in {"draft", "submitted"}}}

\* Payment entries together, or one payroll.
Selection == (SUBSET (Sources \ Payrolls) \cup {{p} : p \in Payrolls}) \ {{}}

Absent == {b \in Batches : doc[b] = "absent"}

\* The sources are found in no batch (while Batches has room) ...
StartMaking(u) ==
    /\ view[u] = {} /\ Absent # {}
    /\ \E sel \in Selection :
        /\ sel \cap Existing = {} /\ sel \subseteq ready
        /\ view' = [view EXCEPT ![u] = sel]
    /\ UNCHANGED <<doc, source, file, conv, attached, ready, attempts, told, given, excuse>>

\* ... and a batch is inserted, with its first file and the summary.
FinishMaking(u) ==
    /\ view[u] # {}
    /\ \E b \in Absent :
        /\ doc' = [doc EXCEPT ![b] = "draft"]
        /\ source' = [source EXCEPT ![b] = view[u]]
        /\ file' = [file EXCEPT ![b] = 1]
        /\ attached' = [attached EXCEPT ![b] = {1, Summary}]
    /\ view' = [view EXCEPT ![u] = {}]
    /\ excuse' = excuse \cup (IF \E v \in Users \ {u} : view[v] \cap view[u] # {}
                              THEN {"makers overlapped"} ELSE {})
    /\ UNCHANGED <<conv, ready, attempts, told, given>>

\* A bank account or a clearing code is missing.
GiveUpMaking(u) ==
    /\ view[u] # {}
    /\ view' = [view EXCEPT ![u] = {}]
    /\ UNCHANGED <<doc, source, file, conv, attached, ready, attempts, told, given, excuse>>

(***************************************************************************)
(* The draft.  before_save adds a file; the files of earlier saves stay    *)
(* attached.                                                               *)
(***************************************************************************)
Save(b) ==
    /\ doc[b] = "draft" /\ file[b] < MaxSaves
    /\ file' = [file EXCEPT ![b] = @ + 1]
    /\ attached' = [attached EXCEPT ![b] = @ \cup {file[b] + 1}]
    /\ UNCHANGED <<doc, source, conv, ready, view, attempts, told, given, excuse>>

\* A user removes the summary, or attaches another document in its place.
Attach(b) ==
    /\ doc[b] = "draft"
    /\ attached' = [attached EXCEPT ![b] = IF Summary \in @ THEN @ \ {Summary} ELSE @ \cup {Summary}]
    /\ UNCHANGED <<doc, source, file, conv, ready, view, attempts, told, given, excuse>>

Delete(b) ==
    /\ doc[b] \in {"draft", "cancelled"}
    /\ doc' = [doc EXCEPT ![b] = "deleted"]
    /\ UNCHANGED <<source, file, conv, attached, ready, view, attempts, told, given, excuse>>

Cancel(b) ==
    /\ doc[b] = "submitted"
    /\ doc' = [doc EXCEPT ![b] = "cancelled"]
    /\ excuse' = excuse \cup {"batch cancelled"}
    /\ UNCHANGED <<source, file, conv, attached, ready, view, attempts, told, given>>

(***************************************************************************)
(* on_submit.                                                              *)
(***************************************************************************)
\* Everything attached but the payment file.
Supporting(b) == attached[b] \ {file[b]}

\* Mutant: the id is read from before it was generated.
UploadBefore(b, c) == [of |-> b, conv |-> conv[b], file |-> file[b], support |-> Supporting(b)]

DetailsOf(b, c) == [of |-> b, conv |-> c, file |-> file[b]]
UploadOf(b, c) == [of |-> b, conv |-> c, file |-> file[b], support |-> Supporting(b)]

\* Details need a supporting document; the batch gets a conversation id.
Reaches(b) ==
    /\ doc[b] = "draft" /\ Supporting(b) # {}
    /\ attempts < MaxAttempts /\ attempts' = attempts + 1
    /\ told' = told \cup {DetailsOf(b, attempts')}

Submit(b) ==
    /\ Reaches(b)
    /\ given' = given \cup {UploadOf(b, attempts')}
    /\ doc' = [doc EXCEPT ![b] = "submitted"]
    /\ conv' = [conv EXCEPT ![b] = attempts']
    /\ UNCHANGED <<source, file, attached, ready, view, excuse>>

\* The answer to the details is lost, or the upload refused: the id is rolled back.
FailAfterDetails(b) ==
    /\ Reaches(b)
    /\ UNCHANGED <<doc, source, file, conv, attached, ready, view, given, excuse>>

\* The answer to the upload is lost, or the commit fails.
FailAfterUpload(b) ==
    /\ Reaches(b)
    /\ given' = given \cup {UploadOf(b, attempts')}
    /\ excuse' = excuse \cup {"answer lost"}
    /\ UNCHANGED <<doc, source, file, conv, attached, ready, view>>

Next ==
    \/ \E s \in Sources : SubmitSource(s)
    \/ \E u \in Users : StartMaking(u) \/ FinishMaking(u) \/ GiveUpMaking(u)
    \/ \E b \in Batches : \/ Save(b) \/ Attach(b) \/ Delete(b) \/ Cancel(b)
                          \/ Submit(b) \/ FailAfterDetails(b) \/ FailAfterUpload(b)

Spec == Init /\ [][Next]_vars

(***************************************************************************)
(* Properties.                                                             *)
(***************************************************************************)

\* The bank has the details and the file of a submitted batch, both under the
\* conversation id that check_file_status will ask for and both of the version that
\* is attached, whatever failed submissions and saves came before.
SubmittedIsUploaded ==
    \A b \in Batches : doc[b] = "submitted" =>
        /\ DetailsOf(b, conv[b]) \in told
        /\ \E g \in given : g.of = b /\ g.conv = conv[b] /\ g.file = file[b]

\* The bank gets a source in two uploads only after makers overlapped, a batch was
\* cancelled, or an upload went through and its submission was rolled back: the
\* check for existing batches covers everything else.
PaidOnce ==
    excuse = {} => \A g, h \in given : source[g.of] \cap source[h.of] # {} => g = h
=============================================================================
