---------------------------- MODULE MCVfdPosting ----------------------------
(* Instances of VfdPosting for TLC. *)
EXTENDS VfdPosting, TLC

TermsOf(k, e, d, a, p, c, u) ==
    [kind |-> k, exempt |-> e, early |-> d, auto |-> a, preview |-> p, split |-> c,
     updates |-> u]

\* Every provider with every way of posting and of cancelling, and the invoices
\* outside VFD.  How the submission commits matters where it posts.
MCAllTerms ==
    {TermsOf(k, FALSE, FALSE, FALSE, p, u, u) : k \in Kind, p \in BOOLEAN, u \in BOOLEAN}
    \cup {TermsOf(k, FALSE, FALSE, TRUE, p, c, FALSE) :
              k \in Kind, p \in BOOLEAN, c \in BOOLEAN}
    \cup {TermsOf(k, FALSE, FALSE, TRUE, p, TRUE, TRUE) : k \in Kind, p \in BOOLEAN}
    \cup {TermsOf(k, e, ~e, a, FALSE, c, FALSE) :
              k \in Kind, e \in BOOLEAN, a \in BOOLEAN, c \in BOOLEAN}
    \cup {TermsOf(k, e, ~e, FALSE, TRUE, FALSE, FALSE) : k \in Kind, e \in BOOLEAN}

\* The providers whose receipts can be left Failed for the cron job.
MCRetriedTerms ==
    {TermsOf(k, FALSE, FALSE, TRUE, FALSE, FALSE, FALSE) : k \in {"dirm", "pergamon"}}

MCSimplifyTerms == {TermsOf("simplify", FALSE, FALSE, FALSE, TRUE, FALSE, FALSE)}

\* An invoice posted from its form.
MCFormTerms == {TermsOf("dirm", FALSE, FALSE, FALSE, FALSE, FALSE, FALSE)}
=============================================================================
