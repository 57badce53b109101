----------------------------- MODULE LatraFetch -----------------------------
(***************************************************************************)
(* How runs of update_latra_offences and update_latra_records come by what *)
(* LATRA lists (latra_licenses.py).  They share one access token, kept in  *)
(* the cache and in Latra Settings, replace it under a lock when LATRA     *)
(* refuses it, and fetch the list page by page while it grows.             *)
(*                                                                         *)
(* A run is a transaction at REPEATABLE READ: it reads the settings as     *)
(* they were when it began, and what it writes there stays locked and      *)
(* unseen until it commits.  Redis, which keeps the cache and the lock,    *)
(* knows no transaction.                                                   *)
(***************************************************************************)
EXTENDS Naturals, FiniteSets

CONSTANTS
    Offences,     \* runs of update_latra_offences
    Licences,     \* runs of update_latra_records
    MaxRows,      \* bound: rows LATRA comes to list
    PageSize,     \* rows LATRA sends at once
    Token,        \* access tokens; one that nobody holds is given out again
    MaxFaults     \* bound: tokens refused or forgotten, calls and runs that fail

Session == Offences \cup Licences
NoToken == "none"
Unread == "unread"
NoLock == "nobody"

\* What the constants are.
SizeAssumption == MaxRows \in Nat /\ PageSize \in Nat \ {0} /\ MaxFaults \in Nat
NameAssumption == {NoToken, Unread} \cap Token = {} /\ NoLock \notin Session

VARIABLES
    issued,   \* LATRA lists rows 1..issued, the newest first
    good,     \* tokens LATRA accepts
    cache,    \* the token in the cache
    setting,  \* the committed token of Latra Settings
    lock,     \* who holds latra_token_refresh
    run,      \* run[s]: the run session s is in
    faults

vars == <<issued, good, cache, setting, lock, run, faults>>
tokens == <<good, cache, setting>>

(***************************************************************************)
(* Types.                                                                  *)
(***************************************************************************)
Maybe == Token \cup {NoToken}

\* tok: the token in use; seen: what the run reads in the settings, once it has
\* read anything; own: what it wrote there; again: it was refused before; rows: the length of what it
\* fetched, got, repetitions included.  Only properties look at start, what was
\* listed when it began to fetch.
Running == [pc : {"token", "fill", "lock", "login", "store", "fetch", "write"},
            tok : Maybe, seen : Maybe \cup {Unread}, own : Maybe, again : BOOLEAN,
            page : Nat, rows : Nat, got : SUBSET (1..MaxRows), start : 0..MaxRows]
Idle == [pc |-> "idle"]

TypeOK ==
    /\ issued \in 0..MaxRows
    /\ good \subseteq Token /\ cache \in Maybe /\ setting \in Maybe
    /\ lock \in Session \cup {NoLock}
    /\ run \in [Session -> Running \cup {Idle}]
    /\ faults \in 0..MaxFaults

Init ==
    /\ issued = 0
    /\ good = {} /\ cache = NoToken /\ setting = NoToken /\ lock = NoLock
    /\ run = [s \in Session |-> Idle]
    /\ faults = 0

(***************************************************************************)
(* LATRA and the cache.                                                    *)
(***************************************************************************)
List ==
    /\ issued < MaxRows
    /\ issued' = issued + 1
    /\ UNCHANGED <<tokens, lock, run, faults>>

Fault == faults < MaxFaults /\ faults' = faults + 1

Expire(t) ==
    /\ t \in good /\ good' = good \ {t}
    /\ Fault
    /\ UNCHANGED <<issued, cache, setting, lock, run>>

\* The cache keeps a token for eight hours.
Evict ==
    /\ cache # NoToken /\ cache' = NoToken
    /\ Fault
    /\ UNCHANGED <<issued, good, setting, lock, run>>

(***************************************************************************)
(* The token.                                                              *)
(***************************************************************************)
In(s) == run[s].pc # "idle"
At(s, pc) == run[s].pc = pc

\* A run for offences begins by reading the fleet's plates, which fixes what it
\* reads.  A run for licences may not have read anything yet.
Begin(s) ==
    /\ ~In(s)
    /\ \E seen \in {setting} \cup (IF s \in Licences THEN {Unread} ELSE {}) :
         run' = [run EXCEPT ![s] =
          [pc |-> "token", tok |-> NoToken, seen |-> seen, own |-> NoToken, again |-> FALSE,
           page |-> 0, rows |-> 0, got |-> {}, start |-> 0]]
    /\ UNCHANGED <<issued, tokens, lock, faults>>

\* With token t the run fetches from the first page.
Fetching(r, t) ==
    [r EXCEPT !.pc = "fetch", !.tok = t, !.page = 0, !.rows = 0, !.got = {}, !.start = issued]

\* Mutant: whatever token is found is used, also the one that was refused.
ReuseAny(s, t) == t # NoToken

\* A token another run has put there since this one's was refused.
Reuse(s, t) == run[s].tok # NoToken /\ t # NoToken /\ t # run[s].tok

\* _get_token has found t, in the run r.  Who holds the lock takes only a newer one.
Decided(s, r, t) ==
    \/ /\ lock = s /\ Reuse(s, t)
       /\ run' = [run EXCEPT ![s] = Fetching(r, t)] /\ lock' = NoLock
    \/ /\ lock = s /\ ~Reuse(s, t)
       /\ run' = [run EXCEPT ![s] = [r EXCEPT !.pc = "login"]] /\ UNCHANGED lock
    \/ /\ lock # s /\ t # NoToken
       /\ run' = [run EXCEPT ![s] = Fetching(r, t)] /\ UNCHANGED lock
    \/ /\ lock # s /\ t = NoToken
       /\ run' = [run EXCEPT ![s] = [r EXCEPT !.pc = "lock"]] /\ UNCHANGED lock

ReadCache(s) ==
    /\ At(s, "token")
    /\ \/ cache # NoToken /\ Decided(s, run[s], cache)
       \/ cache = NoToken /\ run' = [run EXCEPT ![s].pc = "fill"] /\ UNCHANGED lock
    /\ UNCHANGED <<issued, tokens, faults>>

\* The token of the settings, or the one the run wrote there itself, goes into
\* the cache, whatever is there by now.
Fill(s) ==
    /\ At(s, "fill")
    /\ LET seen == IF run[s].seen = Unread THEN setting ELSE run[s].seen
           t == IF run[s].own # NoToken THEN run[s].own ELSE seen
       IN /\ Decided(s, [run[s] EXCEPT !.seen = seen], t)
          /\ cache' = IF t # NoToken THEN t ELSE cache
    /\ UNCHANGED <<issued, good, setting, faults>>

Acquire(s) ==
    /\ At(s, "lock") /\ lock = NoLock
    /\ lock' = s
    /\ run' = [run EXCEPT ![s].pc = "token"]
    /\ UNCHANGED <<issued, tokens, faults>>

Held == {cache, setting} \cup UNION {{run[s].tok, run[s].seen, run[s].own} : s \in {t \in Session : In(t)}}

Login(s) ==
    /\ At(s, "login")
    /\ LET t == CHOOSE t \in Token : t \notin Held IN
          /\ good' = (good \cap Held) \cup {t}
          /\ run' = [run EXCEPT ![s].pc = "store", ![s].tok = t]
    /\ UNCHANGED <<issued, cache, setting, lock, faults>>

\* Another run that has written the settings keeps them locked.
SettingFree(s) == \A t \in Session \ {s} : In(t) => run[t].own = NoToken

Store(s) ==
    /\ At(s, "store") /\ SettingFree(s)
    /\ cache' = run[s].tok /\ lock' = NoLock
    /\ run' = [run EXCEPT ![s] = [Fetching(@, @.tok) EXCEPT !.own = run[s].tok]]
    /\ UNCHANGED <<issued, good, setting, faults>>

(***************************************************************************)
(* Pages.                                                                  *)
(***************************************************************************)
Smaller(a, b) == IF a < b THEN a ELSE b

\* Rows p * PageSize and on of the list, newest first.
Page(p) == {issued - i : i \in p * PageSize .. Smaller((p + 1) * PageSize, issued) - 1}

\* Mutant: the list is taken to be as long as it was when fetching began.
LastOfStart(s, content, rows) == Cardinality(content) < PageSize \/ rows >= run[s].start

\* With every page of offences, not of licences, comes the length of the list;
\* rows counts this page too.
Last(s, content, rows) ==
    \/ Cardinality(content) < PageSize
    \/ s \in Offences /\ rows >= issued

Fetch(s) ==
    /\ At(s, "fetch") /\ run[s].tok \in good
    /\ LET content == Page(run[s].page)
           rows == run[s].rows + Cardinality(content)
           more == [run[s] EXCEPT !.page = @ + 1, !.rows = rows, !.got = @ \cup content]
       IN run' = [run EXCEPT ![s] =
             IF Last(s, content, rows) THEN [more EXCEPT !.pc = "write", !.tok = NoToken, !.seen = NoToken,
                                !.again = FALSE, !.page = 0, !.rows = 0]
             ELSE more]
    /\ UNCHANGED <<issued, tokens, lock, faults>>

\* LATRA refuses the token for the first time: the run looks for another.
Refused(s) ==
    /\ At(s, "fetch") /\ run[s].tok \notin good /\ ~run[s].again
    /\ run' = [run EXCEPT ![s].pc = "lock", ![s].again = TRUE]
    /\ UNCHANGED <<issued, tokens, lock, faults>>

(***************************************************************************)
(* Commits, and ends before time.                                          *)
(***************************************************************************)
Committed(s) == IF run[s].own # NoToken THEN run[s].own ELSE setting

Unlocked(s) == IF lock = s THEN NoLock ELSE lock

\* What is fetched is written, and committed at the end.
Done(s) ==
    /\ At(s, "write")
    /\ setting' = Committed(s)
    /\ run' = [run EXCEPT ![s] = Idle]
    /\ UNCHANGED <<issued, good, cache, lock, faults>>

RefusedAgain(s) == At(s, "fetch") /\ run[s].tok \notin good /\ run[s].again

\* No login, a page that does not come or comes with 429: the run returns a
\* message, and the token it may have stored is kept.  A run for licences that
\* is refused again does so too.
GiveUp(s) ==
    /\ \/ (At(s, "login") \/ At(s, "fetch")) /\ Fault
       \/ RefusedAgain(s) /\ s \in Licences /\ UNCHANGED faults
    /\ setting' = Committed(s)
    /\ run' = [run EXCEPT ![s] = Idle]
    /\ lock' = Unlocked(s)
    /\ UNCHANGED <<issued, good, cache>>

\* What a run waits for, the lock or the settings, may not come in time.
Waits(s) ==
    \/ At(s, "lock") /\ lock # NoLock
    \/ At(s, "store") /\ ~SettingFree(s)

\* A run for offences that is refused again takes the word for rows, which
\* raises.  Elsewhere a wait that is too long or a crash.
Abort(s) ==
    /\ \/ Waits(s) /\ UNCHANGED faults
       \/ RefusedAgain(s) /\ s \in Offences /\ UNCHANGED faults
       \/ In(s) /\ Fault
    /\ run' = [run EXCEPT ![s] = Idle]
    /\ lock' = Unlocked(s)
    /\ UNCHANGED <<issued, tokens>>

Work(s) ==
    \/ ReadCache(s) \/ Fill(s) \/ Acquire(s) \/ Login(s) \/ Store(s)
    \/ Fetch(s) \/ Refused(s) \/ Done(s)

Next ==
    \/ List \/ (\E t \in Token : Expire(t)) \/ Evict
    \/ \E s \in Session : Begin(s) \/ Work(s) \/ GiveUp(s) \/ Abort(s)

Spec == Init /\ [][Next]_vars

(***************************************************************************)
(* Fairness.  Either kind of run is begun again and again, and goes on,    *)
(* ends, or is ended by the wait it is in.                                 *)
(***************************************************************************)
Ends(s) == GiveUp(s) \/ ((Waits(s) \/ RefusedAgain(s)) /\ Abort(s))

Fairness == \A s \in Session : WF_vars(Begin(s)) /\ WF_vars(Work(s) \/ Ends(s))

FairSpec == Spec /\ Fairness

(***************************************************************************)
(* Properties.                                                             *)
(***************************************************************************)
\* A run that has fetched the list to its end has every row that was listed
\* when it began to fetch, although the list grew between its pages
\* (_fetch_all_offences, _fetch_all_licenses).
PagesCoverStart ==
    \A s \in Session : At(s, "write") => 1..run[s].start \subseteq run[s].got

\* The lock on the token and the lock on the settings are not taken in one
\* order: a run that stored a token keeps the settings locked while it waits
\* for the lock, whose holder waits for the settings.  Both waits end in time,
\* and each kind of run comes to its end again and again, whatever tokens were
\* refused, lost with a rollback or overwritten by older ones (_refresh_token).
RunsFetch == \A s \in Session : []<>At(s, "write")
=============================================================================
