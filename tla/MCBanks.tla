------------------------------- MODULE MCBanks -------------------------------
(***************************************************************************)
(* KcbPayments and StanbicPayments, which share nothing, for TLC: of each  *)
(* there is a specification in which nothing is paid through the other     *)
(* bank.                                                                   *)
(***************************************************************************)
EXTENDS KcbPayments, TLC

CONSTANTS
    Docs, Payers, Kinds, None, Seconds, MaxFaults   \* StanbicPayments

VARIABLES
    initiation, answer, cheque, drafts, maker, second, outbox, sync, inbox, todo,
    bank, faults, pardon, lost

stanbicVars == <<initiation, answer, cheque, drafts, maker, second, outbox, sync, inbox, todo,
                 bank, faults, pardon, lost>>

Stanbic == INSTANCE StanbicPayments WITH Users <- Payers, doc <- initiation, excuse <- pardon

ASSUME StanbicAssumption == Stanbic!NoneAssumption /\ Stanbic!BoundAssumption

Symmetric == Permutations(Batches) \cup Permutations(Users)

MCInit == Init /\ Stanbic!Init

KcbNext == Next /\ UNCHANGED stanbicVars
StanbicNext == Stanbic!Next /\ UNCHANGED vars

KcbSpec == MCInit /\ [][KcbNext]_<<vars, stanbicVars>>

\* Both jobs of Stanbic's run every 15 minutes.
StanbicSpec ==
    /\ MCInit /\ [][StanbicNext]_<<vars, stanbicVars>>
    /\ WF_stanbicVars(Stanbic!Transfer) /\ WF_stanbicVars(Stanbic!Read)

(***************************************************************************)
(* The properties of StanbicPayments.                                      *)
(***************************************************************************)
\* The bank gets the payroll's payments twice only after somebody removed the
\* cheque number or went past it by naming the setting, makers overlapped, a
\* submission was rolled back, or an upload was cut off
\* (make_payments_initiation, upload).
PayrollPaidOnce == Stanbic!PaidOnce

\* The file of a submitted initiation reaches the bank, unless another submission
\* in the same second took its name (on_submit, upload).
SubmittedReachesBank == Stanbic!SubmittedReachesBank

\* An answer downloaded for a submitted initiation shows in its status, unless a
\* cancelled one's ends every reading run (process_download_files).
AnswerApplied == Stanbic!AnswerApplied
=============================================================================
