----------------------------- MODULE MCAuthority -----------------------------
(***************************************************************************)
(* VehicleFines and LatraFetch, which share nothing, in one instance for   *)
(* TLC: a behaviour is one of the part that was chosen at the start.       *)
(***************************************************************************)
EXTENDS VehicleFines

CONSTANTS
    Offences, Licences, MaxRows, PageSize, Token, MaxFaults   \* LatraFetch

VARIABLES part, rows, good, cache, setting, lock, run, faults

fetchVars == <<rows, good, cache, setting, lock, run, faults>>

F == INSTANCE LatraFetch WITH issued <- rows

ASSUME FetchAssumption == F!SizeAssumption /\ F!NameAssumption

MCInit ==
    /\ part \in {"fines", "fetch"}
    /\ Init /\ F!Init

MCNext ==
    /\ UNCHANGED part
    /\ \/ part = "fines" /\ Next /\ UNCHANGED fetchVars
       \/ part = "fetch" /\ F!Next /\ UNCHANGED vars

InFines(A) == part = "fines" /\ A
InFetch(A) == part = "fetch" /\ A

\* The fairness of VehicleFines and of LatraFetch.
MCSpec ==
    /\ MCInit /\ [][MCNext]_<<part, vars, fetchVars>>
    /\ WF_vars(InFines(Ask(Queue))) /\ SF_vars(InFines(Hear(Queue)))
    /\ WF_vars(InFines(Read(Queue))) /\ SF_vars(InFines(Applies(Queue)))
    /\ WF_vars(InFines(StartJob)) /\ WF_vars(InFines(EndJob))
    /\ \A r \in Ref : SF_vars(InFines(Reminds(r)))
    /\ \A s \in F!Session :
          /\ WF_fetchVars(InFetch(F!Begin(s)))
          /\ WF_fetchVars(InFetch(F!Work(s) \/ F!Ends(s)))

(***************************************************************************)
(* The properties of LatraFetch.                                           *)
(***************************************************************************)
\* A run that has fetched LATRA's list to its end has every row that was listed
\* when it began, although the list grew (_fetch_all_offences,
\* _fetch_all_licenses).
PagesCoverStart == F!PagesCoverStart

\* Every kind of run comes to the end of its list again and again, although the
\* lock on the token and the lock on the settings are taken in either order and
\* tokens are refused, lost and overwritten by older ones (_refresh_token).
RunsFetch == part = "fetch" => F!RunsFetch
=============================================================================
