--------------------------- MODULE DeskProofs ---------------------------
(***************************************************************************)
(* Theorems about the parts of DeskDocuments in which sessions meet:       *)
(* TraReceipts, for any codes, requests and bound; WriteOffs, for any      *)
(* documents and clerks; LatraOffences, for any requests and bounds;       *)
(* PergamonReports, for any invoices, payloads, receipts and managers; and *)
(* RepeatedSalaries, for any entries, calendar and requests.               *)
(***************************************************************************)
EXTENDS DeskDocuments, Integers, FiniteSetTheorems, WellFoundedInduction, TLAPS

(***************************************************************************)
(* The inductive invariant.  Who works on an unchanged copy of a record    *)
(* works on one that names no invoice; and of a record that never changed  *)
(* under a request every copy is such a one, and the only invoice that was *)
(* ever made is the one it names.                                          *)
(***************************************************************************)
FreshHasNoInvoice ==
    \A s \in Session : run[s].pc = "make" /\ run[s].fresh =>
        Present(run[s].code) /\ record[run[s].code].ref = 0

Named(c) == IF Present(c) /\ record[c].ref # 0 THEN {record[c].ref} ELSE {}

UnracedIsNamed ==
    \A c \in Code \ raced :
        /\ \A s \in Session : run[s].pc = "make" /\ run[s].code = c => run[s].fresh
        /\ drafts[c] \subseteq Named(c)

ReceiptInv == TypeOK /\ FreshHasNoInvoice /\ UnracedIsNamed

LEMMA InitReceipt == Init => ReceiptInv
BY CodeAssumption, SMT DEF Init, ReceiptInv, TypeOK, FreshHasNoInvoice, UnracedIsNamed, Idle, NoRecord

(***************************************************************************)
(* The type invariant.                                                     *)
(***************************************************************************)
\* What TRA answers is what a record can be.
LEMMA AnswersAreRecords == \A c \in Code : Answers(c) \subseteq Record
<1> SUFFICES ASSUME NEW c \in Code, NEW r \in Answers(c) PROVE r \in Record
      OBVIOUS
<1>1. CASE r \in NoPage
      BY <1>1, CodeAssumption, SMT DEF NoPage, Record, Lines
<1>2. CASE r \in Page
  <2>1. PICK l \in Lines, n \in SUBSET Kind : r = [status |-> "Verified", lines |-> l, names |-> n, ref |-> 0]
        BY <1>2 DEF Page
  <2> QED BY <2>1, CodeAssumption, SMT DEF Record
<1> QED BY <1>1, <1>2, SMT DEF Answers

\* An old copy.
LEMMA OldCopy ==
    \A m \in Making :
        /\ [m EXCEPT !.fresh = FALSE] \in Making
        /\ ~[m EXCEPT !.fresh = FALSE].fresh
        /\ [m EXCEPT !.fresh = FALSE].code = m.code
<1>1. \A m \in Making : [m EXCEPT !.fresh = FALSE] \in Making
      BY Zenon DEF Making
<1>2. \A m \in Making : ~[m EXCEPT !.fresh = FALSE].fresh /\ [m EXCEPT !.fresh = FALSE].code = m.code
      BY SMT DEF Making
<1> QED BY <1>1, <1>2

\* A change of a record leaves every request one.
LEMMA OutdatedType ==
    ASSUME TypeOK, NEW c \in Code, NEW runs \in [Session -> {Idle} \cup Verifying \cup Making],
           \A s \in Session : runs[s] = Idle \/ runs[s] = run[s]
    PROVE  Outdated(c, runs) \in [Session -> {Idle} \cup Verifying \cup Making]
<1> DEFINE T == {Idle} \cup Verifying \cup Making
<1> SUFFICES ASSUME NEW s \in Session
             PROVE  (IF s \in Makers(c) /\ runs[s] # Idle THEN [runs[s] EXCEPT !.fresh = FALSE] ELSE runs[s]) \in T
      BY DEF Outdated
<1>1. CASE s \in Makers(c) /\ runs[s] # Idle
  <2>1. runs[s] = run[s] /\ run[s] \in T /\ run[s].pc = "make"
        BY <1>1, SMT DEF Makers, TypeOK
  <2>2. run[s] \in Making
        BY <2>1, SMT DEF Idle, Verifying, Making
  <2>3. [run[s] EXCEPT !.fresh = FALSE] \in Making
        BY <2>2, OldCopy
  <2> QED BY <1>1, <2>1, <2>3
<1> QED BY <1>1

LEMMA StepType ==
    ASSUME TypeOK, [Next]_vars
    PROVE  TypeOK'
<1> USE CodeAssumption
<1>1. ASSUME NEW s \in Session, NEW c \in Code, Ask(s, c) PROVE TypeOK'
      BY <1>1, SMT DEF TypeOK, Ask, ReadsRecord, Verifying, Idle, Making
<1>2. ASSUME NEW s \in Session, Save(s) PROVE TypeOK'
      BY <1>2, AnswersAreRecords, SMT DEF TypeOK, Save, Verifying, Making, Idle
<1>3. ASSUME NEW s \in Session, NEW c \in Code, NEW kind \in Kind, Make(s, c, kind) PROVE TypeOK'
      BY <1>3, SMT DEF TypeOK, Make, Making, Idle, Verifying
<1>4. ASSUME NEW s \in Session, Insert(s) PROVE TypeOK'
  <2> DEFINE c == run[s].code
             n == made[c] + 1
             ended == [run EXCEPT ![s] = Idle]
  <2>1. run[s] \in Making /\ c \in Code /\ run[s].kind \in Kind
        BY <1>4, SMT DEF Insert, TypeOK, Idle, Verifying, Making
  <2>2. ended \in [Session -> {Idle} \cup Verifying \cup Making] /\ \A t \in Session : ended[t] = Idle \/ ended[t] = run[t]
        BY SMT DEF TypeOK
  <2>3. CASE party' \in {party, party \cup {<<c, run[s].kind>>}} /\ run' = ended /\ UNCHANGED <<record, drafts, made, raced>>
        BY <2>1, <2>2, <2>3, SMT DEF TypeOK
  <2>4. CASE /\ n <= MaxInvoices
             /\ party' = party \cup {<<c, run[s].kind>>}
             /\ made' = [made EXCEPT ![c] = n]
             /\ drafts' = [drafts EXCEPT ![c] = @ \cup {n}]
             /\ IF Linked(s, c, n)
                THEN /\ record' = [record EXCEPT ![c].ref = n]
                     /\ run' = Outdated(c, ended)
                     /\ raced' = IF Makers(c) = {s} THEN raced ELSE raced \cup {c}
                ELSE run' = ended /\ UNCHANGED <<record, raced>>
    <3>1. n \in 1..MaxInvoices
          BY <2>1, <2>4, SMT DEF TypeOK
    <3>2. party' \subseteq Code \X Kind /\ made' \in [Code -> 0..MaxInvoices] /\ drafts' \in [Code -> SUBSET (1..MaxInvoices)]
          BY <2>1, <2>4, <3>1, SMT DEF TypeOK
    <3>3. CASE Linked(s, c, n)
      <4>1. Outdated(c, ended) \in [Session -> {Idle} \cup Verifying \cup Making]
            BY <2>1, <2>2, OutdatedType
      <4>2. record[c] \in Record
            BY <2>1, <3>3, SMT DEF TypeOK, Linked, Present
      <4>3. record' \in [Code -> Record \cup {NoRecord}]
        <5>1. [record[c] EXCEPT !.ref = n] \in Record
              BY <3>1, <4>2, SMT DEF Record
        <5>2. record' = [record EXCEPT ![c] = [record[c] EXCEPT !.ref = n]]
              BY <2>4, <3>3
        <5> QED BY <2>1, <5>1, <5>2, SMT DEF TypeOK
      <4>4. raced' \subseteq Code
            BY <2>1, <2>4, <3>3 DEF TypeOK
      <4> QED BY <2>4, <3>2, <3>3, <4>1, <4>3, <4>4 DEF TypeOK
    <3>4. CASE ~Linked(s, c, n)
          BY <2>2, <2>4, <3>2, <3>4, SMT DEF TypeOK
    <3> QED BY <3>3, <3>4
  <2> QED BY <1>4, <2>3, <2>4 DEF Insert
<1>5. ASSUME NEW c \in Code, Edit(c) PROVE TypeOK'
  <2>1. run' \in [Session -> {Idle} \cup Verifying \cup Making]
        BY <1>5, OutdatedType, SMT DEF TypeOK, Edit, Changed
  <2>2. record' \in [Code -> Record \cup {NoRecord}]
        BY <1>5, SMT DEF TypeOK, Edit, Present, Record, Lines
  <2> QED BY <1>5, <2>1, <2>2, SMT DEF TypeOK, Edit, Changed
<1>6. ASSUME NEW c \in Code, Delete(c) PROVE TypeOK'
  <2>1. run' \in [Session -> {Idle} \cup Verifying \cup Making]
        BY <1>6, OutdatedType, SMT DEF TypeOK, Delete
  <2> QED BY <1>6, <2>1, SMT DEF TypeOK, Delete
<1>7. ASSUME NEW c \in Code, Discard(c) PROVE TypeOK'
      BY <1>7, SMT DEF TypeOK, Discard
<1>8. CASE UNCHANGED vars
      BY <1>8, SMT DEF TypeOK, vars
<1> QED BY <1>1, <1>2, <1>3, <1>4, <1>5, <1>6, <1>7, <1>8 DEF Next

(***************************************************************************)
(* The steps keep the invariant.                                           *)
(***************************************************************************)
\* A record of which nothing is worked on any more, on a fresh copy.
LEMMA OutdatedIsOld ==
    ASSUME TypeOK, NEW c \in Code, NEW runs,
           \A s \in Session : runs[s] = Idle \/ runs[s] = run[s]
    PROVE  \A s \in Session : Outdated(c, runs)[s].pc = "make" =>
               /\ runs[s] = run[s] /\ run[s].pc = "make"
               /\ Outdated(c, runs)[s].code = run[s].code
               /\ run[s].code = c => ~Outdated(c, runs)[s].fresh
               /\ run[s].code # c => Outdated(c, runs)[s] = run[s]
<1> SUFFICES ASSUME NEW s \in Session, Outdated(c, runs)[s].pc = "make"
             PROVE  /\ runs[s] = run[s] /\ run[s].pc = "make"
                    /\ Outdated(c, runs)[s].code = run[s].code
                    /\ run[s].code = c => ~Outdated(c, runs)[s].fresh
                    /\ run[s].code # c => Outdated(c, runs)[s] = run[s]
      OBVIOUS
<1>1. CASE s \in Makers(c) /\ runs[s] # Idle
  <2>1. runs[s] = run[s] /\ run[s].pc = "make" /\ run[s].code = c
        BY <1>1, SMT DEF Makers
  <2>2. run[s] \in Making
        BY <2>1, SMT DEF TypeOK, Idle, Verifying, Making
  <2>3. Outdated(c, runs)[s] = [run[s] EXCEPT !.fresh = FALSE]
        BY <1>1, <2>1 DEF Outdated
  <2> QED BY <2>1, <2>2, <2>3, OldCopy
<1>2. CASE ~(s \in Makers(c) /\ runs[s] # Idle)
  <2>1. Outdated(c, runs)[s] = runs[s]
        BY <1>2 DEF Outdated
  <2>2. runs[s] # Idle
        BY <2>1, SMT DEF Idle
  <2> QED BY <1>2, <2>1, <2>2 DEF Makers
<1> QED BY <1>1, <1>2

LEMMA StepReceipt ==
    ASSUME ReceiptInv, [Next]_vars
    PROVE  ReceiptInv'
<1> USE CodeAssumption
<1>0. TypeOK /\ TypeOK'
      BY StepType DEF ReceiptInv
<1>1. ASSUME NEW s \in Session, NEW c \in Code, Ask(s, c) PROVE ReceiptInv'
  <2>1. \A t \in Session : run'[t].pc = "make" => run'[t] = run[t]
        BY <1>0, <1>1, SMT DEF Ask, TypeOK
  <2> QED BY <1>0, <1>1, <2>1, SMT DEF ReceiptInv, Ask, FreshHasNoInvoice, UnracedIsNamed, Named, Present
<1>2. ASSUME NEW s \in Session, Save(s) PROVE ReceiptInv'
  <2>1. \A t \in Session : run'[t].pc = "make" => run'[t] = run[t]
        BY <1>0, <1>2, SMT DEF Save, TypeOK, Idle
  <2>2. \A c \in Code : Present(c) => record'[c] = record[c]
        BY <1>0, <1>2, SMT DEF Save, TypeOK
  <2>3. \A c \in Code : Named(c) \subseteq Named(c)' /\ (Present(c) => Present(c)')
        BY <2>2 DEF Named, Present
  <2>4. UNCHANGED <<drafts, raced>>
        BY <1>2 DEF Save
  <2>5. \A t \in Session : run[t].pc = "make" => run[t].code \in Code
        BY <1>0, SMT DEF TypeOK, Idle, Verifying, Making
  <2>6. FreshHasNoInvoice'
        BY <2>1, <2>2, <2>3, <2>5 DEF ReceiptInv, FreshHasNoInvoice
  <2>7. UnracedIsNamed'
        BY <2>1, <2>3, <2>4 DEF ReceiptInv, UnracedIsNamed
  <2> QED BY <1>0, <2>6, <2>7 DEF ReceiptInv
<1>3. ASSUME NEW s \in Session, NEW c \in Code, NEW kind \in Kind, Make(s, c, kind) PROVE ReceiptInv'
  <2>1. \A t \in Session \ {s} : run'[t] = run[t]
        BY <1>0, <1>3, SMT DEF Make, TypeOK
  <2>2. run'[s].fresh /\ run'[s].code = c /\ Present(c) /\ record[c].ref = 0
        BY <1>0, <1>3, SMT DEF Make, TypeOK, Fit
  <2> QED BY <1>0, <1>3, <2>1, <2>2, SMT DEF ReceiptInv, Make, FreshHasNoInvoice, UnracedIsNamed, Named, Present
<1>4. ASSUME NEW s \in Session, Insert(s) PROVE ReceiptInv'
  <2>1. run[s] \in Making /\ run[s].code \in Code /\ run[s].pc = "make"
        BY <1>0, <1>4, SMT DEF Insert, TypeOK, Idle, Verifying, Making
  <2> PICK c \in Code : c = run[s].code
      BY <2>1
  <2> PICK n : n = made[c] + 1
      OBVIOUS
  <2> DEFINE ended == [run EXCEPT ![s] = Idle]
  <2>2. /\ \A t \in Session : ended[t] = Idle \/ ended[t] = run[t]
        /\ ended[s] = Idle
        BY <1>0, SMT DEF TypeOK
  <2>3. CASE run' = ended /\ UNCHANGED <<record, drafts, raced>>
    <3>1. \A t \in Session : run'[t].pc = "make" => run'[t] = run[t]
          BY <2>2, <2>3, SMT DEF Idle
    <3> QED BY <1>0, <2>3, <3>1, SMT DEF ReceiptInv, FreshHasNoInvoice, UnracedIsNamed, Named, Present
  <2>4. CASE ~Linked(s, c, n) /\ run' = ended /\ drafts' = [drafts EXCEPT ![c] = @ \cup {n}] /\ UNCHANGED <<record, raced>>
    <3>1. \A t \in Session : run'[t].pc = "make" => run'[t] = run[t]
          BY <2>2, <2>4, SMT DEF Idle
    <3>2. ~run[s].fresh
          BY <2>1, <2>4 DEF ReceiptInv, FreshHasNoInvoice, Linked
    <3>3. c \in raced
          BY <2>1, <3>2 DEF ReceiptInv, UnracedIsNamed
    <3>4. \A d \in Code \ raced : drafts'[d] = drafts[d]
          BY <1>0, <2>4, <3>3, SMT DEF TypeOK
    <3> QED BY <1>0, <2>4, <3>1, <3>4, SMT DEF ReceiptInv, FreshHasNoInvoice, UnracedIsNamed, Named, Present
  <2>5. CASE /\ n <= MaxInvoices /\ Linked(s, c, n)
             /\ drafts' = [drafts EXCEPT ![c] = @ \cup {n}]
             /\ record' = [record EXCEPT ![c].ref = n]
             /\ run' = Outdated(c, ended)
             /\ raced' = IF Makers(c) = {s} THEN raced ELSE raced \cup {c}
    <3>1. record[c] \in Record /\ record'[c].ref = n /\ Present(c) /\ Present(c)' /\ n # 0
      <4>1. record[c] \in Record /\ Present(c)
            BY <1>0, <2>5, SMT DEF TypeOK, Linked, Present
      <4>2. record'[c] = [record[c] EXCEPT !.ref = n]
            BY <1>0, <2>5, SMT DEF TypeOK
      <4>3. record'[c].ref = n /\ record'[c].status # "none" /\ n # 0
            BY <1>0, <4>1, <4>2, SMT DEF TypeOK, Record
      <4> QED BY <4>1, <4>3, SMT DEF Present, NoRecord
    <3>2. record[c].ref = 0
          BY <2>1, <2>5 DEF ReceiptInv, FreshHasNoInvoice, Linked
    <3>3. \A d \in Code \ {c} : record'[d] = record[d] /\ drafts'[d] = drafts[d]
          BY <1>0, <2>5, SMT DEF TypeOK
    <3>4. \A t \in Session : run'[t].pc = "make" =>
             /\ ended[t] = run[t] /\ run[t].pc = "make" /\ run'[t].code = run[t].code
             /\ run[t].code = c => ~run'[t].fresh
             /\ run[t].code # c => run'[t] = run[t]
      <4>1. \A t \in Session : Outdated(c, ended)[t].pc = "make" =>
               /\ ended[t] = run[t] /\ run[t].pc = "make"
               /\ Outdated(c, ended)[t].code = run[t].code
               /\ run[t].code = c => ~Outdated(c, ended)[t].fresh
               /\ run[t].code # c => Outdated(c, ended)[t] = run[t]
        <5>1. TypeOK /\ \A t \in Session : ended[t] = Idle \/ ended[t] = run[t]
              BY <1>0, <2>2
        <5> HIDE DEF ended
        <5> QED BY <5>1, OutdatedIsOld
      <4> QED BY <2>5, <4>1
    <3>5. FreshHasNoInvoice'
      <4> SUFFICES ASSUME NEW t \in Session, run'[t].pc = "make", run'[t].fresh
                   PROVE  (Present(run[t].code) /\ record[run[t].code].ref = 0)'
          BY DEF FreshHasNoInvoice
      <4>1. run[t].code # c /\ run'[t] = run[t] /\ run[t].code \in Code
            BY <1>0, <3>4, SMT DEF TypeOK, Idle, Verifying, Making
      <4> QED BY <3>3, <4>1 DEF ReceiptInv, FreshHasNoInvoice, Present
    <3>6. UnracedIsNamed'
      <4> SUFFICES ASSUME NEW d \in Code \ raced'
                   PROVE  /\ \A t \in Session : run'[t].pc = "make" /\ run'[t].code = d => run'[t].fresh
                          /\ drafts'[d] \subseteq Named(d)'
          BY DEF UnracedIsNamed
      <4>1. d \notin raced
            BY <2>5
      <4>2. CASE d # c
            BY <3>3, <3>4, <4>1, <4>2 DEF ReceiptInv, UnracedIsNamed, Named, Present
      <4>3. CASE d = c
        <5>1. Makers(c) = {s}
              BY <2>5, <4>3
        <5>2. \A t \in Session : ~(run'[t].pc = "make" /\ run'[t].code = c)
              BY <2>2, <3>4, <5>1, SMT DEF Makers, Idle
        <5>3. drafts[c] = {}
              BY <3>2, <4>1, <4>3 DEF ReceiptInv, UnracedIsNamed, Named
        <5>4. drafts'[c] = {n}
              BY <1>0, <2>1, <2>5, <5>3, SMT DEF TypeOK
        <5>5. Named(c)' = {n}
              BY <3>1 DEF Named
        <5> QED BY <4>3, <5>2, <5>4, <5>5
      <4> QED BY <4>2, <4>3
    <3> QED BY <1>0, <3>5, <3>6 DEF ReceiptInv
  <2> QED BY <1>4, <2>3, <2>4, <2>5 DEF Insert
<1>5. ASSUME NEW c \in Code, Edit(c) PROVE ReceiptInv'
  <2>1. \A d \in Code : (Present(d)' <=> Present(d)) /\ (Present(d) => record'[d].ref = record[d].ref)
        BY <1>0, <1>5, SMT DEF Edit, TypeOK, Present, Record, NoRecord, Lines
  <2>2. UNCHANGED drafts
        BY <1>5 DEF Edit
  <2>3. \A t \in Session : run'[t].pc = "make" =>
           /\ run[t].pc = "make" /\ run'[t].code = run[t].code
           /\ run[t].code = c => ~run'[t].fresh
           /\ run[t].code # c => run'[t] = run[t]
        BY <1>0, <1>5, OutdatedIsOld DEF Edit, Changed
  <2>4. \A d \in Code \ raced' : d \notin raced /\ (d = c => Makers(c) = {})
        BY <1>5 DEF Edit, Changed
  <2>5. FreshHasNoInvoice'
        BY <1>0, <2>1, <2>3, SMT DEF ReceiptInv, FreshHasNoInvoice, TypeOK, Idle, Verifying, Making
  <2>6. \A d \in Code : Named(d)' = Named(d)
        BY <2>1 DEF Named
  <2>7. UnracedIsNamed'
        BY <2>2, <2>3, <2>4, <2>6 DEF ReceiptInv, UnracedIsNamed, Makers
  <2> QED BY <1>0, <2>5, <2>7 DEF ReceiptInv
<1>6. ASSUME NEW c \in Code, Delete(c) PROVE ReceiptInv'
  <2>1. \A d \in Code \ {c} : record'[d] = record[d]
        BY <1>0, <1>6, SMT DEF Delete, TypeOK
  <2>2. UNCHANGED drafts /\ raced' = raced \cup {c}
        BY <1>6 DEF Delete
  <2>3. \A t \in Session : run'[t].pc = "make" =>
           /\ run[t].pc = "make" /\ run'[t].code = run[t].code
           /\ run[t].code = c => ~run'[t].fresh
           /\ run[t].code # c => run'[t] = run[t]
        BY <1>0, <1>6, OutdatedIsOld DEF Delete
  <2>4. \A d \in Code \ {c} : Named(d)' = Named(d) /\ (Present(d)' <=> Present(d))
        BY <2>1 DEF Named, Present
  <2>5. \A t \in Session : run[t].pc = "make" => run[t].code \in Code
        BY <1>0, SMT DEF TypeOK, Idle, Verifying, Making
  <2>6. FreshHasNoInvoice'
        BY <2>1, <2>3, <2>4, <2>5 DEF ReceiptInv, FreshHasNoInvoice
  <2>7. UnracedIsNamed'
        BY <2>2, <2>3, <2>4 DEF ReceiptInv, UnracedIsNamed
  <2> QED BY <1>0, <2>6, <2>7 DEF ReceiptInv
<1>7. ASSUME NEW c \in Code, Discard(c) PROVE ReceiptInv'
  <2>1. \A d \in Code : drafts'[d] \subseteq drafts[d]
        BY <1>0, <1>7, SMT DEF Discard, TypeOK
  <2> QED BY <1>0, <1>7, <2>1, SMT DEF ReceiptInv, Discard, FreshHasNoInvoice, UnracedIsNamed, Named, Present
<1>8. CASE UNCHANGED vars
      BY <1>0, <1>8, SMT DEF ReceiptInv, vars, FreshHasNoInvoice, UnracedIsNamed, Named, Present
<1> QED BY <1>1, <1>2, <1>3, <1>4, <1>5, <1>6, <1>7, <1>8 DEF Next

LEMMA AlwaysReceipt == Spec => []ReceiptInv
BY InitReceipt, StepReceipt, PTL DEF Spec

(***************************************************************************)
(* The theorems.                                                           *)
(***************************************************************************)
\* Every variable keeps its type: a record names an invoice that was made, and
\* a request knows the code it works on.
THEOREM TypeCorrect == Spec => []TypeOK
BY AlwaysReceipt, PTL DEF ReceiptInv

\* Only a record that changed under a request, or was deleted, can have a second
\* invoice that is still there.
THEOREM OneInvoiceUnlessRaced == Spec => []SecondInvoiceNeedsRace
<1>1. ReceiptInv => SecondInvoiceNeedsRace
  <2> SUFFICES ASSUME ReceiptInv, NEW c \in Code, c \notin raced
               PROVE  ~(Cardinality(drafts[c]) > 1)
      BY DEF SecondInvoiceNeedsRace
  <2>1. drafts[c] = {} \/ \E n : drafts[c] = {n}
        BY DEF ReceiptInv, UnracedIsNamed, Named
  <2>2. ASSUME NEW n, drafts[c] = {n} PROVE Cardinality(drafts[c]) = 1
        BY <2>2, FS_Singleton
  <2>3. drafts[c] = {} => Cardinality(drafts[c]) = 0
        BY FS_EmptySet
  <2> QED BY <2>1, <2>2, <2>3, SMT
<1> QED BY <1>1, AlwaysReceipt, PTL

\* No step replaces the invoice a record names.
THEOREM LinkStays == Spec => LinkIsKept
<1> DEFINE Keeps == \A c \in Code : Present(c) /\ record[c].ref # 0 =>
                       record'[c] = NoRecord \/ record'[c].ref = record[c].ref
<1>1. ASSUME ReceiptInv, [Next]_vars PROVE [Keeps]_vars
  <2> USE CodeAssumption
  <2>0. TypeOK
        BY <1>1 DEF ReceiptInv
  <2>1. CASE UNCHANGED record
        BY <2>1
  <2>2. ASSUME NEW s \in Session, Save(s) PROVE Keeps
        BY <2>0, <2>2, SMT DEF Save, TypeOK
  <2>3. ASSUME NEW s \in Session, Insert(s) PROVE Keeps
    <3>1. run[s].pc = "make" /\ run[s].code \in Code
          BY <2>0, <2>3, SMT DEF Insert, TypeOK, Idle, Verifying, Making
    <3>2. CASE UNCHANGED record
          BY <3>2
    <3>3. CASE Linked(s, run[s].code, made[run[s].code] + 1) /\ record' = [record EXCEPT ![run[s].code].ref = made[run[s].code] + 1]
      <4>1. record[run[s].code].ref = 0
            BY <1>1, <3>1, <3>3 DEF ReceiptInv, FreshHasNoInvoice, Linked
      <4>2. \A c \in Code \ {run[s].code} : record'[c] = record[c]
            BY <2>0, <3>3, SMT DEF TypeOK
      <4> QED BY <4>1, <4>2
    <3> QED BY <2>3, <3>2, <3>3 DEF Insert
  <2>4. ASSUME NEW c \in Code, Edit(c) PROVE Keeps
        BY <2>0, <2>4, SMT DEF Edit, TypeOK, Present, Record, NoRecord
  <2>5. ASSUME NEW c \in Code, Delete(c) PROVE Keeps
        BY <2>0, <2>5, SMT DEF Delete, TypeOK
  <2> QED BY <1>1, <2>1, <2>2, <2>3, <2>4, <2>5 DEF Next, Ask, Make, Discard, vars
<1> QED BY <1>1, AlwaysReceipt, PTL DEF Spec, LinkIsKept

(***************************************************************************)
(* WriteOffs: for any documents, clerks and amount.  A request that has    *)
(* posted holds the lock on its document; a copy that is not outdated      *)
(* tells what is left and owed now; a payment's request posts only such a  *)
(* copy, and while it holds the lock the copy stays one; nothing is owed   *)
(* before submission.                                                      *)
(***************************************************************************)
CopyInv(c) ==
    clerk[c] # Write!None =>
        LET d == clerk[c].doc IN
        /\ clerk[c].changes <= written[d].changes
        /\ clerk[c].changes = written[d].changes =>
              /\ clerk[c].left = written[d].left /\ clerk[c].balance = owed[d]
              /\ clerk[c].submitted <=> written[d].submitted
        /\ clerk[c].submitted => written[d].submitted
        /\ d \in Payment => clerk[c].submitted

PostedInv(c) ==
    clerk[c] # Write!None /\ clerk[c].posted =>
        /\ lock[clerk[c].doc] = c /\ clerk[c].submitted
        /\ clerk[c].doc \in Payment => clerk[c].changes = written[clerk[c].doc].changes

FitInv(d) ==
    IF written[d].submitted
    THEN d \notin overtaken => owed[d] = written[d].left /\ owed[d] >= 0
    ELSE written[d].left = Worth

OwedInv ==
    /\ Write!TypeOK
    /\ \A c \in Clerk : CopyInv(c) /\ PostedInv(c)
    /\ \A d \in Write!Doc : FitInv(d)

\* The assumptions of WriteOffs.
LEMMA Documents ==
    /\ OwedInvoice \cap Payment = {} /\ Nobody \notin Clerk /\ Worth \in Nat \ {0}
    /\ OwedInvoice \subseteq Write!Doc /\ Payment \subseteq Write!Doc
    /\ \A d \in Write!Doc : d \in OwedInvoice \/ d \in Payment
BY DocumentsAssumption DEF Write!DocumentAssumption, Write!Doc

LEMMA NoneIsNoRequest ==
    ASSUME NEW q \in Write!Request
    PROVE  q # Write!None
BY DEF Write!Request, Write!None

\* What the variables are, field by field.
LEMMA Fields ==
    ASSUME Write!TypeOK
    PROVE  /\ \A d \in Write!Doc :
                /\ written[d] \in Write!Record /\ owed[d] \in Int
                /\ written[d].submitted \in BOOLEAN /\ written[d].left \in Int /\ written[d].changes \in Nat
           /\ \A c \in Clerk : clerk[c] # Write!None =>
                /\ clerk[c] \in Write!Request
                /\ clerk[c].doc \in Write!Doc /\ clerk[c].submitted \in BOOLEAN /\ clerk[c].posted \in BOOLEAN
                /\ clerk[c].left \in Int /\ clerk[c].changes \in Nat /\ clerk[c].balance \in Int
<1>1. \A r \in Write!Record : r.submitted \in BOOLEAN /\ r.left \in Int /\ r.changes \in Nat
  BY DEF Write!Record
<1>2. \A q \in Write!Request :
         /\ q.doc \in Write!Doc /\ q.submitted \in BOOLEAN /\ q.posted \in BOOLEAN
         /\ q.left \in Int /\ q.changes \in Nat /\ q.balance \in Int
  BY DEF Write!Request
<1>3. \A c \in Clerk : clerk[c] # Write!None => clerk[c] \in Write!Request
  BY DEF Write!TypeOK
<1>. QED  BY <1>1, <1>2, <1>3 DEF Write!TypeOK

\* A submission, and the posting of a request.
LEMMA Introduced ==
    ASSUME NEW r \in Write!Record, NEW r1, r1 = [r EXCEPT !.submitted = TRUE, !.changes = r.changes + 1]
    PROVE  /\ r1 \in Write!Record /\ r1.left = r.left /\ r1.changes = r.changes + 1
           /\ r1.submitted
<1>1. r.changes + 1 \in Nat
  BY DEF Write!Record
<1>2. r1 \in Write!Record
  BY <1>1, Zenon DEF Write!Record
<1>. QED  BY <1>2 DEF Write!Record

LEMMA Posted ==
    ASSUME NEW q \in Write!Request, NEW q1, q1 = [q EXCEPT !.posted = TRUE]
    PROVE  /\ q1 \in Write!Request /\ q1.posted
           /\ q1.doc = q.doc /\ q1.submitted = q.submitted /\ q1.left = q.left
           /\ q1.changes = q.changes /\ q1.balance = q.balance
<1>1. q1 \in Write!Request
  BY Zenon DEF Write!Request
<1>. QED  BY <1>1 DEF Write!Request

(***************************************************************************)
(* Steps.                                                                  *)
(***************************************************************************)
LEMMA BeginKeeps ==
    ASSUME OwedInv, NEW c \in Clerk, NEW d \in Write!Doc, Write!Begin(c, d)
    PROVE  OwedInv'
<1>1. PICK q : q = [doc |-> d, submitted |-> written[d].submitted, left |-> written[d].left,
                    changes |-> written[d].changes, balance |-> owed[d], posted |-> FALSE]
  OBVIOUS
<1>2. clerk' = [clerk EXCEPT ![c] = q] /\ UNCHANGED <<enabled, written, owed, lock, overtaken>>
  BY <1>1, Zenon DEF Write!Begin
<1>3. q \in Write!Request
  BY <1>1, Fields DEF OwedInv, Write!Request
<1>4. d \in Payment => written[d].submitted
  BY DEF Write!Begin, Write!Allowed
<1>5. Write!TypeOK'
  BY <1>2, <1>3 DEF OwedInv, Write!TypeOK
<1>6. \A b \in Clerk : clerk'[b] = IF b = c THEN q ELSE clerk[b]
  BY <1>2 DEF OwedInv, Write!TypeOK
<1>7. ASSUME NEW b \in Clerk PROVE CopyInv(b)' /\ PostedInv(b)'
  <2>1. CASE b = c
    BY <1>1, <1>2, <1>4, <1>6, <2>1, Fields DEF OwedInv, CopyInv, PostedInv
  <2>2. CASE b # c
    BY <1>2, <1>6, <2>2 DEF OwedInv, CopyInv, PostedInv, Write!None
  <2>. QED  BY <2>1, <2>2
<1>8. \A x \in Write!Doc : FitInv(x)'
  BY <1>2 DEF OwedInv, FitInv, Write!Doc
<1>. QED  BY <1>5, <1>7, <1>8 DEF OwedInv, Write!Doc

\* Posting locks the document; a payment only if the copy is not outdated.
LEMMA PostKeeps ==
    ASSUME OwedInv, NEW c \in Clerk, NEW d \in Write!Doc, Write!Post(c, d) \/ Write!Allocate(c, d)
    PROVE  OwedInv'
<1>1. /\ clerk[c] # Write!None /\ clerk[c].doc = d /\ lock[d] = Nobody
      /\ lock' = [lock EXCEPT ![d] = c] /\ clerk' = [clerk EXCEPT ![c] = [clerk[c] EXCEPT !.posted = TRUE]]
      /\ UNCHANGED <<enabled, written, owed, overtaken>>
  BY DEF Write!Post, Write!Allocate
<1>2. clerk[c].submitted /\ (d \in Payment => clerk[c].changes = written[d].changes)
  BY <1>1, Documents DEF Write!Post, Write!Allocate, Write!Outdated, OwedInv, CopyInv
<1>3. PICK q : q = [clerk[c] EXCEPT !.posted = TRUE]
  OBVIOUS
<1>4. clerk[c] \in Write!Request
  BY <1>1, Fields DEF OwedInv
<1>5. /\ q \in Write!Request /\ q.posted
      /\ q.doc = d /\ q.submitted = clerk[c].submitted /\ q.left = clerk[c].left
      /\ q.changes = clerk[c].changes /\ q.balance = clerk[c].balance
  BY <1>1, <1>3, <1>4, Posted
<1>6. Write!TypeOK'
  BY <1>1, <1>3, <1>5 DEF OwedInv, Write!TypeOK
<1>7. /\ \A b \in Clerk : clerk'[b] = IF b = c THEN q ELSE clerk[b]
      /\ \A x \in Write!Doc : lock'[x] = IF x = d THEN c ELSE lock[x]
  BY <1>1, <1>3 DEF OwedInv, Write!TypeOK
<1>8. ASSUME NEW b \in Clerk PROVE CopyInv(b)' /\ PostedInv(b)'
  <2>1. CASE b = c
    <3>1. CopyInv(c)
      BY DEF OwedInv
    <3>. QED  BY <1>1, <1>2, <1>5, <1>7, <2>1, <3>1 DEF CopyInv, PostedInv
  <2>2. CASE b # c
    <3>1. CopyInv(b) /\ PostedInv(b) /\ clerk'[b] = clerk[b]
      BY <1>7, <2>2 DEF OwedInv
    <3>2. clerk[b] # Write!None => clerk[b].doc \in Write!Doc
      BY Fields DEF OwedInv
    <3>. QED  BY <1>1, <1>7, <2>2, <3>1, <3>2, Documents DEF CopyInv, PostedInv, Write!None
  <2>. QED  BY <2>1, <2>2
<1>9. \A x \in Write!Doc : FitInv(x)'
  BY <1>1 DEF OwedInv, FitInv, Write!Doc
<1>. QED  BY <1>6, <1>8, <1>9 DEF OwedInv, Write!Doc

LEMMA AbortKeeps ==
    ASSUME OwedInv, NEW c \in Clerk, Write!Abort(c)
    PROVE  OwedInv'
<1>1. /\ clerk' = [clerk EXCEPT ![c] = Write!None]
      /\ lock' = [d \in Write!Doc |-> IF lock[d] = c THEN Nobody ELSE lock[d]]
      /\ UNCHANGED <<enabled, written, owed, overtaken>>
  BY DEF Write!Abort
<1>2. Write!TypeOK'
  BY <1>1 DEF OwedInv, Write!TypeOK
<1>3. \A b \in Clerk : clerk'[b] = IF b = c THEN Write!None ELSE clerk[b]
  BY <1>1 DEF OwedInv, Write!TypeOK
<1>4. ASSUME NEW b \in Clerk PROVE CopyInv(b)' /\ PostedInv(b)'
  <2>1. CASE b = c
    BY <1>3, <2>1 DEF CopyInv, PostedInv, Write!None
  <2>2. CASE b # c
    <3>1. CopyInv(b) /\ PostedInv(b) /\ clerk'[b] = clerk[b]
      BY <1>3, <2>2 DEF OwedInv
    <3>2. clerk[b] # Write!None => clerk[b].doc \in Write!Doc
      BY Fields DEF OwedInv
    <3>. QED  BY <1>1, <2>2, <3>1, <3>2 DEF CopyInv, PostedInv, Write!None
  <2>. QED  BY <2>1, <2>2
<1>5. \A x \in Write!Doc : FitInv(x)'
  BY <1>1 DEF OwedInv, FitInv, Write!Doc
<1>. QED  BY <1>2, <1>4, <1>5 DEF OwedInv, Write!Doc

\* A change of a document makes the copies of it outdated, and no request that
\* has posted against it is left.
LEMMA ChangeKeeps ==
    ASSUME OwedInv, NEW d \in Write!Doc, NEW r \in Write!Record, NEW o \in Int,
           r.changes = written[d].changes + 1, written[d].submitted => r.submitted,
           written' = [written EXCEPT ![d] = r], owed' = [owed EXCEPT ![d] = o],
           Write!TypeOK', \A x \in Write!Doc : x # d => (x \in overtaken' <=> x \in overtaken),
           \A b \in Clerk : \/ clerk'[b] = Write!None
                            \/ /\ clerk'[b] = clerk[b]
                               /\ clerk[b] # Write!None /\ clerk[b].posted => clerk[b].doc # d,
           \A x \in Write!Doc : x # d => lock'[x] = lock[x],
           IF r.submitted THEN d \notin overtaken' => o = r.left /\ o >= 0 ELSE r.left = Worth
    PROVE  OwedInv'
<1>1. /\ \A x \in Write!Doc : written'[x] = IF x = d THEN r ELSE written[x]
      /\ \A x \in Write!Doc : owed'[x] = IF x = d THEN o ELSE owed[x]
  BY DEF OwedInv, Write!TypeOK
<1>2. ASSUME NEW b \in Clerk PROVE CopyInv(b)' /\ PostedInv(b)'
  <2>1. CASE clerk'[b] = Write!None
    BY <2>1 DEF CopyInv, PostedInv, Write!None
  <2>2. CASE clerk[b] # Write!None /\ clerk'[b] = clerk[b]
    <3>1. CopyInv(b) /\ PostedInv(b)
      BY DEF OwedInv
    <3>2. clerk[b].doc \in Write!Doc /\ clerk[b].changes \in Nat /\ written[d].changes \in Nat
      BY <2>2, Fields DEF OwedInv
    <3>3. CASE clerk[b].doc = d
      <4>1. ~clerk[b].posted
        BY <2>2, <3>3, NoneIsNoRequest
      <4>. QED  BY <1>1, <2>2, <3>1, <3>2, <3>3, <4>1 DEF CopyInv, PostedInv, Write!None
    <3>4. CASE clerk[b].doc # d
      BY <1>1, <2>2, <3>1, <3>2, <3>4 DEF CopyInv, PostedInv, Write!None
    <3>. QED  BY <3>3, <3>4
  <2>. QED  BY <2>1, <2>2
<1>3. ASSUME NEW x \in Write!Doc PROVE FitInv(x)'
  <2>1. CASE x = d
    BY <1>1, <2>1 DEF FitInv
  <2>2. CASE x # d
    BY <1>1, <2>2 DEF FitInv, OwedInv
  <2>. QED  BY <2>1, <2>2
<1>. QED  BY <1>2, <1>3 DEF OwedInv, Write!Doc

\* Nobody holds the lock that a posted request would hold.
LEMMA UnlockedIsUnposted ==
    ASSUME OwedInv, NEW d \in Write!Doc, lock[d] = Nobody, NEW b \in Clerk,
           clerk[b] # Write!None, clerk[b].posted
    PROVE  clerk[b].doc # d
BY Documents DEF OwedInv, PostedInv

LEMMA OthersKeep ==
    ASSUME OwedInv, NEW d \in Write!Doc, Write!Settle(d) \/ Write!Submit(d)
    PROVE  OwedInv'
<1>1. lock[d] = Nobody /\ UNCHANGED <<enabled, clerk, lock, overtaken>>
  BY DEF Write!Settle, Write!Submit
<1>2. \A b \in Clerk : clerk[b] # Write!None /\ clerk[b].posted => clerk[b].doc # d
  BY <1>1, UnlockedIsUnposted
<1>3. written[d] \in Write!Record /\ written[d].left \in Int /\ written[d].changes \in Nat /\ owed[d] \in Int
      /\ written[d].submitted \in BOOLEAN
  BY Fields DEF OwedInv
<1>4. FitInv(d)
  BY DEF OwedInv
<1>5. CASE Write!Settle(d)
  <2>1. PICK r : r = [written[d] EXCEPT !.left = written[d].left - 1, !.changes = written[d].changes + 1]
    OBVIOUS
  <2>2. /\ written[d].submitted /\ written[d].left > 0
        /\ written' = [written EXCEPT ![d] = r] /\ owed' = [owed EXCEPT ![d] = owed[d] - 1]
    BY <1>5, <2>1 DEF Write!Settle, OwedInv, Write!TypeOK
  <2>3. /\ r \in Write!Record /\ r.left = written[d].left - 1 /\ r.changes = written[d].changes + 1
        /\ r.submitted = written[d].submitted
    <3>1. written[d].left - 1 \in Int /\ written[d].changes + 1 \in Nat
      BY <1>3
    <3>2. r \in Write!Record
      BY <1>3, <2>1, <3>1, Zenon DEF Write!Record
    <3>. QED  BY <1>3, <2>1, <3>2 DEF Write!Record
  <2>4. Write!TypeOK'
    BY <1>1, <1>3, <2>2, <2>3 DEF OwedInv, Write!TypeOK
  <2>5. d \notin overtaken' => owed[d] - 1 = r.left /\ owed[d] - 1 >= 0
    BY <1>1, <1>3, <1>4, <2>2, <2>3 DEF FitInv
  <2>6. owed[d] - 1 \in Int /\ r.submitted
    BY <1>3, <2>2, <2>3
  <2>. QED  BY <1>1, <1>2, <2>2, <2>3, <2>4, <2>5, <2>6, ChangeKeeps
<1>6. CASE Write!Submit(d)
  <2>1. PICK r : r = [written[d] EXCEPT !.submitted = TRUE, !.changes = written[d].changes + 1]
    OBVIOUS
  <2>2. /\ ~written[d].submitted
        /\ written' = [written EXCEPT ![d] = r] /\ owed' = [owed EXCEPT ![d] = Worth]
    BY <1>6, <2>1 DEF Write!Submit, OwedInv, Write!TypeOK
  <2>3. /\ r \in Write!Record /\ r.left = written[d].left /\ r.changes = written[d].changes + 1
        /\ r.submitted
    BY <1>3, <2>1, Introduced
  <2>4. Worth \in Int /\ Worth >= 0
    BY Documents
  <2>5. Write!TypeOK'
    BY <1>1, <1>3, <2>2, <2>3, <2>4 DEF OwedInv, Write!TypeOK
  <2>6. r.left = Worth
    BY <1>4, <2>2, <2>3 DEF FitInv
  <2>. QED  BY <1>1, <1>2, <1>3, <2>2, <2>3, <2>4, <2>5, <2>6, ChangeKeeps
<1>. QED  BY <1>5, <1>6

LEMMA CommitKeeps ==
    ASSUME OwedInv, NEW c \in Clerk, Write!Commit(c)
    PROVE  OwedInv'
<1>1. PICK d : d = clerk[c].doc
  OBVIOUS
<1>2. PICK x : x = IF d \in OwedInvoice THEN clerk[c].balance - clerk[c].left ELSE 0
  OBVIOUS
<1>3. PICK r : r = [written[d] EXCEPT !.left = x, !.changes = written[d].changes + 1]
  OBVIOUS
<1>4. /\ clerk[c] # Write!None /\ clerk[c].posted
      /\ written' = [written EXCEPT ![d].left = x, ![d].changes = @ + 1]
      /\ owed' = [owed EXCEPT ![d] = owed[d] - clerk[c].left]
      /\ overtaken' = IF d \in OwedInvoice /\ Write!Outdated(c) THEN overtaken \cup {d} ELSE overtaken
      /\ lock' = [lock EXCEPT ![d] = Nobody] /\ clerk' = [clerk EXCEPT ![c] = Write!None]
      /\ enabled' = enabled
  BY <1>1, <1>2 DEF Write!Commit
<1>5. /\ d \in Write!Doc /\ clerk[c].left \in Int /\ clerk[c].balance \in Int /\ clerk[c].changes \in Nat
      /\ written[d] \in Write!Record /\ written[d].left \in Int /\ written[d].changes \in Nat /\ owed[d] \in Int
  BY <1>1, <1>4, Fields DEF OwedInv
<1>6. written' = [written EXCEPT ![d] = r]
  BY <1>3, <1>4, <1>5 DEF OwedInv, Write!TypeOK
<1>7. x \in Int /\ owed[d] - clerk[c].left \in Int
  BY <1>2, <1>5
<1>8. r \in Write!Record /\ r.left = x /\ r.changes = written[d].changes + 1 /\ r.submitted = written[d].submitted
  <2>1. written[d].changes + 1 \in Nat
    BY <1>5
  <2>2. r \in Write!Record
    BY <1>3, <1>5, <1>7, <2>1, Zenon DEF Write!Record
  <2>. QED  BY <1>3, <1>5, <2>2 DEF Write!Record
<1>9. Write!TypeOK'
  BY <1>4, <1>5, <1>6, <1>7, <1>8, ZenonT(60) DEF OwedInv, Write!TypeOK
<1>10. CopyInv(c) /\ PostedInv(c) /\ FitInv(d)
  BY <1>5 DEF OwedInv
<1>11. written[d].submitted /\ lock[d] = c
  BY <1>1, <1>4, <1>10 DEF CopyInv, PostedInv
<1>12. ASSUME d \notin overtaken' PROVE owed[d] - clerk[c].left = x /\ owed[d] - clerk[c].left >= 0
  <2>1. d \notin overtaken
    BY <1>4, <1>12
  <2>2. clerk[c].changes = written[d].changes
    <3>1. CASE d \in OwedInvoice
      BY <1>1, <1>4, <1>12, <3>1 DEF Write!Outdated
    <3>2. CASE d \in Payment
      BY <1>1, <1>4, <1>10, <3>2 DEF PostedInv
    <3>. QED  BY <1>5, <3>1, <3>2, Documents
  <2>3. clerk[c].left = written[d].left /\ clerk[c].balance = owed[d] /\ owed[d] = written[d].left
    BY <1>1, <1>4, <1>10, <1>11, <2>1, <2>2 DEF CopyInv, FitInv
  <2>. QED  BY <1>2, <1>5, <2>3
<1>13. ASSUME NEW b \in Clerk
       PROVE  \/ clerk'[b] = Write!None
              \/ /\ clerk'[b] = clerk[b]
                 /\ clerk[b] # Write!None /\ clerk[b].posted => clerk[b].doc # d
  <2>1. b # c /\ clerk[b] # Write!None /\ clerk[b].posted => lock[clerk[b].doc] # c
    BY DEF OwedInv, PostedInv
  <2>2. clerk'[b] = IF b = c THEN Write!None ELSE clerk[b]
    BY <1>4 DEF OwedInv, Write!TypeOK
  <2>. QED  BY <1>11, <2>1, <2>2
<1>14. /\ \A y \in Write!Doc : y # d => lock'[y] = lock[y]
       /\ \A y \in Write!Doc : y # d => (y \in overtaken' <=> y \in overtaken)
  BY <1>4 DEF OwedInv, Write!TypeOK
<1>. QED  BY <1>5, <1>6, <1>7, <1>8, <1>9, <1>11, <1>12, <1>13, <1>14, <1>4, ChangeKeeps, ZenonT(60)

LEMMA InitOwed == Write!Init => OwedInv
<1>. SUFFICES ASSUME Write!Init PROVE OwedInv
  OBVIOUS
<1>1. ASSUME NEW d \in Write!Doc
      PROVE  written[d] \in Write!Record /\ written[d].left = Worth /\ written[d].submitted \in BOOLEAN
             /\ owed[d] = IF written[d].submitted THEN Worth ELSE 0
  BY Documents DEF Write!Init, Write!Record
<1>2. Write!TypeOK
  <2>1. written \in [Write!Doc -> Write!Record]
    BY <1>1 DEF Write!Init
  <2>2. owed \in [Write!Doc -> Int]
    BY Documents DEF Write!Init
  <2>3. enabled \subseteq Write!Doc
    BY DEF Write!Init, Write!Doc
  <2>. QED  BY <2>1, <2>2, <2>3 DEF Write!Init, Write!TypeOK
<1>3. \A d \in Write!Doc : FitInv(d)
  BY <1>1, Documents DEF FitInv
<1>4. \A c \in Clerk : clerk[c] = Write!None
  BY DEF Write!Init
<1>. QED  BY <1>2, <1>3, <1>4 DEF OwedInv, CopyInv, PostedInv

LEMMA OwedKeeps == OwedInv /\ [Write!Next]_(Write!vars) => OwedInv'
<1>. SUFFICES ASSUME OwedInv, [Write!Next]_(Write!vars) PROVE OwedInv'
  OBVIOUS
<1>1. CASE UNCHANGED Write!vars
  BY <1>1 DEF Write!vars, OwedInv, Write!TypeOK, Write!Doc, CopyInv, PostedInv, FitInv, Write!None
<1>2. CASE Write!Next
  BY <1>2, BeginKeeps, PostKeeps, CommitKeeps, AbortKeeps, OthersKeep DEF Write!Next
<1>. QED  BY <1>1, <1>2

\* However requests, payments and allocations overlap, a payment is written off
\* once, for what is left of it; an invoice is, unless someone changed what is
\* outstanding after the request had read it (create_write_off_jv_pe,
\* create_write_off_jv_si), for any documents, sessions and amount.
THEOREM NothingIsWrittenOffTwice == DocumentsSpec => []WrittenOffOnce
<1>. DEFINE I == part = "write-offs" => OwedInv
<1>1. DocumentsInit => I
  BY InitOwed DEF DocumentsInit
<1>2. I /\ [DocumentsNext]_documentVars => I'
  <2>. SUFFICES ASSUME I, [DocumentsNext]_documentVars, part' = "write-offs" PROVE OwedInv'
    OBVIOUS
  <2>1. CASE UNCHANGED documentVars
    BY <2>1, OwedKeeps DEF documentVars, writeOffVars, Write!vars
  <2>2. CASE DocumentsNext
    <3>1. part = "write-offs"
      BY <2>2 DEF DocumentsNext
    <3>2. Write!Next
      BY <2>2, <3>1 DEF DocumentsNext
    <3>. QED  BY <3>1, <3>2, OwedKeeps
  <2>. QED  BY <2>1, <2>2
<1>3. I => WrittenOffOnce
  <2>1. ASSUME OwedInv PROVE Write!WrittenOffOnce
    BY <2>1, Documents DEF OwedInv, FitInv, Write!WrittenOffOnce, Write!TypeOK
  <2>. QED  BY <2>1 DEF WrittenOffOnce
<1>. QED  BY <1>1, <1>2, <1>3, PTL DEF DocumentsSpec

(***************************************************************************)
(* LatraOffences: for any job, requests and bounds.  A run that has been   *)
(* alone so far is alone, reads every record there is, and of what it has  *)
(* gone through a record it wrote or found says what it fetched.           *)
(***************************************************************************)
\* No PAID was made up.
PaidInv ==
    /\ \A o \in Latra!Offence, t \in Latra!Worker : rec[o][t] = "PAID" => o \in paid
    /\ \A s \in Latra!Worker, o \in Latra!Offence :
          Latra!In(s) /\ fetcher[s].got[o] = "PAID" => o \in paid

\* What run s writes: records it reads, or the only one of an offence that has none.
WroteInv(s) ==
    \A k \in fetcher[s].wrote :
        /\ k \in Latra!Key /\ fetcher[s].got[k[1]] # "none"
        /\ k \in fetcher[s].view \/ \A t \in Latra!Worker : <<k[1], t>> \notin fetcher[s].view

\* What run s has gone through, it has written or finds as it should be.
GoneInv(s) ==
    \A o \in Latra!Offence :
        /\ o \in fetcher[s].todo => fetcher[s].got[o] # "none"
        /\ fetcher[s].got[o] # "none" /\ o \notin fetcher[s].todo =>
              \E t \in Latra!Worker : <<o, t>> \in fetcher[s].wrote \/ rec[o][t] = fetcher[s].got[o]
        /\ fetcher[s].pc = "write" =>
              \A t \in Latra!Worker : rec[o][t] = "PAID" => fetcher[s].got[o] = "PAID"

AloneInv(s) ==
    Latra!In(s) /\ fetcher[s].alone =>
        /\ \A t \in Latra!Worker : t # s => ~Latra!In(t)
        /\ fetcher[s].view = Latra!Recorded
        /\ fetcher[s].pc = "fetch" => fetcher[s].wrote = {}
        /\ WroteInv(s) /\ GoneInv(s)

RunsInv ==
    /\ Latra!TypeOK /\ PaidInv
    /\ \A s \in Latra!Worker : AloneInv(s)

LEMMA IdleIsIdle == Latra!Idle.pc = "idle"
BY DEF Latra!Idle

\* What the variables are, field by field.
LEMMA RunFields ==
    ASSUME Latra!TypeOK, NEW s \in Latra!Worker
    PROVE  /\ Latra!In(s) =>
                /\ fetcher[s] \in Latra!Running /\ fetcher[s].pc \in {"fetch", "write"}
                /\ fetcher[s].got \in [Latra!Offence -> {"UNPAID", "PAID", "none"}]
                /\ fetcher[s].todo \subseteq Latra!Offence
                /\ fetcher[s].view \subseteq Latra!Key /\ fetcher[s].wrote \subseteq Latra!Key
           /\ ~Latra!In(s) => fetcher[s] = Latra!Idle
<1>1. Latra!Idle.pc = "idle"
  BY IdleIsIdle
<1>2. \A r \in Latra!Running :
         /\ r.pc \in {"fetch", "write"} /\ r.got \in [Latra!Offence -> {"UNPAID", "PAID", "none"}]
         /\ r.todo \subseteq Latra!Offence /\ r.view \subseteq Latra!Key /\ r.wrote \subseteq Latra!Key
  BY DEF Latra!Running, Latra!Status, Latra!Absent
<1>3. fetcher[s] \in Latra!Running \cup {Latra!Idle}
  BY DEF Latra!TypeOK
<1>. QED  BY <1>1, <1>2, <1>3 DEF Latra!In

(***************************************************************************)
(* Steps.                                                                  *)
(***************************************************************************)
\* Who is alone stays so while what run s did is no business of his.
LEMMA OtherStays ==
    ASSUME RunsInv, NEW s \in Latra!Worker, Latra!In(s), NEW t \in Latra!Worker, t # s,
           fetcher'[t] = fetcher[t]
    PROVE  AloneInv(t)'
<1>1. ~(Latra!In(t) /\ fetcher[t].alone)
  BY DEF RunsInv, AloneInv
<1>. QED  BY <1>1 DEF AloneInv, Latra!In

LEMMA LatraKeeps ==
    ASSUME RunsInv, paid \subseteq paid', UNCHANGED <<rec, fetcher>>, Latra!TypeOK'
    PROVE  RunsInv'
BY DEF RunsInv, PaidInv, AloneInv, WroteInv, GoneInv, Latra!Recorded, Latra!In, Latra!Key,
       Latra!Offence, Latra!Worker

LEMMA LatraListKeeps ==
    ASSUME RunsInv, Latra!List \/ \E o \in Latra!Offence : Latra!Pay(o)
    PROVE  RunsInv'
<1>1. MaxOffences \in Nat
  BY DocumentsAssumption DEF Latra!SizeAssumption
<1>2. CASE Latra!List
  <2>1. Latra!TypeOK'
    BY <1>1, <1>2 DEF Latra!List, RunsInv, Latra!TypeOK, Latra!Key, Latra!Running
  <2>. QED  BY <1>2, <2>1, LatraKeeps DEF Latra!List
<1>3. CASE \E o \in Latra!Offence : Latra!Pay(o)
  <2>1. Latra!TypeOK'
    BY <1>3 DEF Latra!Pay, RunsInv, Latra!TypeOK, Latra!Key, Latra!Running
  <2>. QED  BY <1>3, <2>1, LatraKeeps DEF Latra!Pay
<1>. QED  BY <1>2, <1>3

LEMMA LatraBeginKeeps ==
    ASSUME RunsInv, NEW s \in Latra!Worker, Latra!Begin(s)
    PROVE  RunsInv'
<1>1. PICK a : a = \A t \in Latra!Worker : ~Latra!In(t)
  OBVIOUS
<1>2. PICK q : q = [pc |-> "fetch", got |-> [o \in Latra!Offence |-> "none"], todo |-> {},
                    view |-> Latra!Recorded, wrote |-> {}, alone |-> a]
  OBVIOUS
<1>3. /\ UNCHANGED <<issued, paid, rec, broken>>
      /\ fetcher' = [t \in Latra!Worker |-> IF t = s THEN q
                        ELSE IF Latra!In(t) THEN [fetcher[t] EXCEPT !.alone = FALSE] ELSE Latra!Idle]
  BY <1>1, <1>2, Zenon DEF Latra!Begin, Latra!Absent
<1>4. q \in Latra!Running
  <2>1. a \in BOOLEAN /\ Latra!Recorded \subseteq Latra!Key
    BY <1>1 DEF Latra!Recorded
  <2>. QED  BY <1>2, <2>1, Zenon DEF Latra!Running, Latra!Absent
<1>5. ASSUME NEW t \in Latra!Worker, t # s, Latra!In(t)
      PROVE  fetcher'[t] \in Latra!Running /\ fetcher'[t].alone = FALSE /\ fetcher'[t].got = fetcher[t].got
  <2>1. PICK r : r = [fetcher[t] EXCEPT !.alone = FALSE]
    OBVIOUS
  <2>2. fetcher[t] \in Latra!Running
    BY <1>5, RunFields DEF RunsInv
  <2>3. r \in Latra!Running
    BY <2>1, <2>2, Zenon DEF Latra!Running
  <2>4. fetcher'[t] = r
    BY <1>3, <1>5, <2>1
  <2>. QED  BY <2>1, <2>2, <2>3, <2>4 DEF Latra!Running
<1>6. fetcher'[s] = q /\ \A t \in Latra!Worker : t # s /\ ~Latra!In(t) => fetcher'[t] = Latra!Idle
  BY <1>3
<1>7. Latra!TypeOK'
  <2>1. fetcher' \in [Latra!Worker -> Latra!Running \cup {Latra!Idle}]
    BY <1>3, <1>4, <1>5, <1>6
  <2>. QED  BY <1>3, <2>1 DEF RunsInv, Latra!TypeOK
<1>8. PaidInv'
  <2>1. ASSUME NEW t \in Latra!Worker, NEW o \in Latra!Offence, Latra!In(t)', fetcher'[t].got[o] = "PAID"
        PROVE  o \in paid
    <3>1. q.got[o] = "none"
      BY <1>2
    <3>2. t # s /\ Latra!In(t)
      BY <1>6, <2>1, <3>1, IdleIsIdle DEF Latra!In
    <3>. QED  BY <1>5, <2>1, <3>2 DEF RunsInv, PaidInv
  <2>. QED  BY <1>3, <2>1 DEF RunsInv, PaidInv
<1>9. ASSUME NEW t \in Latra!Worker PROVE AloneInv(t)'
  <2>1. CASE t # s
    <3>1. ~(Latra!In(t)' /\ fetcher'[t].alone)
      BY <1>5, <1>6, <2>1, IdleIsIdle DEF Latra!In
    <3>. QED  BY <3>1 DEF AloneInv
  <2>2. CASE t = s /\ a
    <3>1. \A u \in Latra!Worker : u # s => ~Latra!In(u)'
      BY <1>1, <1>6, <2>2, IdleIsIdle DEF Latra!In
    <3>2. Latra!Recorded' = Latra!Recorded
      BY <1>3 DEF Latra!Recorded
    <3>. QED  BY <1>2, <1>6, <2>2, <3>1, <3>2 DEF AloneInv, WroteInv, GoneInv
  <2>3. CASE t = s /\ ~a
    BY <1>2, <1>6, <2>3 DEF AloneInv
  <2>. QED  BY <2>1, <2>2, <2>3, <1>1
<1>. QED  BY <1>7, <1>8, <1>9 DEF RunsInv, Latra!Worker

LEMMA LatraFetchKeeps ==
    ASSUME RunsInv, NEW s \in Latra!Worker, Latra!Fetch(s)
    PROVE  RunsInv'
<1>1. PICK g : g = [o \in Latra!Offence |-> IF o \in 1..issued THEN Latra!StatusOf(o) ELSE "none"]
  OBVIOUS
<1>2. PICK q : q = [fetcher[s] EXCEPT !.pc = "write", !.todo = 1..issued, !.got = g]
  OBVIOUS
<1>3. /\ issued \in Int /\ MaxOffences \in Int /\ issued <= MaxOffences
      /\ 1..issued \subseteq Latra!Offence /\ paid \subseteq 1..issued
  BY DocumentsAssumption DEF RunsInv, Latra!TypeOK, Latra!SizeAssumption, Latra!Offence
<1>4. /\ g \in [Latra!Offence -> {"UNPAID", "PAID", "none"}]
      /\ \A o \in Latra!Offence : /\ g[o] = "PAID" <=> o \in paid
                                  /\ g[o] # "none" <=> o \in 1..issued
  <2>1. ASSUME NEW o \in Latra!Offence
        PROVE  /\ g[o] \in {"UNPAID", "PAID", "none"}
               /\ g[o] = "PAID" <=> o \in paid
               /\ g[o] # "none" <=> o \in 1..issued
    <3>1. CASE o \in paid
      BY <1>1, <1>3, <3>1 DEF Latra!StatusOf
    <3>2. CASE o \notin paid
      BY <1>1, <3>2 DEF Latra!StatusOf
    <3>. QED  BY <3>1, <3>2
  <2>2. g = [o \in Latra!Offence |-> g[o]]
    BY <1>1
  <2>3. g \in [Latra!Offence -> {"UNPAID", "PAID", "none"}]
    BY <2>1, <2>2
  <2>. QED  BY <2>1, <2>3
<1>5. fetcher[s] \in Latra!Running /\ fetcher[s].pc = "fetch" /\ Latra!In(s)
  BY RunFields DEF RunsInv, Latra!Fetch, Latra!At, Latra!In
<1>6. /\ q \in Latra!Running /\ q.pc = "write" /\ q.todo = 1..issued /\ q.got = g
      /\ q.view = fetcher[s].view /\ q.wrote = fetcher[s].wrote /\ q.alone = fetcher[s].alone
  <2>1. 1..issued \in SUBSET Latra!Offence
    BY <1>3
  <2>2. q \in Latra!Running
    BY <1>2, <1>4, <1>5, <2>1, Zenon DEF Latra!Running, Latra!Status, Latra!Absent
  <2>. QED  BY <1>2, <1>5, <2>2 DEF Latra!Running
<1>7. fetcher' = [fetcher EXCEPT ![s] = q] /\ UNCHANGED <<issued, paid, rec, broken>>
  BY <1>1, <1>2 DEF Latra!Fetch, Latra!Absent, RunsInv, Latra!TypeOK
<1>8. \A t \in Latra!Worker : fetcher'[t] = IF t = s THEN q ELSE fetcher[t]
  BY <1>7 DEF RunsInv, Latra!TypeOK
<1>9. Latra!TypeOK'
  BY <1>6, <1>7 DEF RunsInv, Latra!TypeOK
<1>10. PaidInv'
  BY <1>4, <1>6, <1>7, <1>8 DEF RunsInv, PaidInv, Latra!In
<1>11. ASSUME NEW t \in Latra!Worker PROVE AloneInv(t)'
  <2>1. CASE t # s
    BY <1>5, <1>8, <2>1, OtherStays
  <2>2. CASE t = s /\ q.alone
    <3>1. AloneInv(s)
      BY DEF RunsInv
    <3>2. /\ fetcher'[s] = q /\ Latra!Recorded' = Latra!Recorded
          /\ \A u \in Latra!Worker : u # s => ~Latra!In(u)'
      BY <1>5, <1>6, <1>7, <1>8, <2>2, <3>1 DEF AloneInv, Latra!In, Latra!Recorded
    <3>3. q.wrote = {} /\ q.view = Latra!Recorded
      BY <1>5, <1>6, <2>2, <3>1 DEF AloneInv
    <3>4. \A o \in Latra!Offence, u \in Latra!Worker : rec[o][u] = "PAID" => o \in paid
      BY DEF RunsInv, PaidInv
    <3>5. WroteInv(s)' /\ GoneInv(s)'
      BY <1>4, <1>6, <1>7, <3>2, <3>3, <3>4, ZenonT(60) DEF WroteInv, GoneInv
    <3>. QED  BY <1>6, <2>2, <3>2, <3>3, <3>5 DEF AloneInv
  <2>3. CASE t = s /\ ~q.alone
    BY <1>8, <2>3 DEF AloneInv
  <2>. QED  BY <2>1, <2>2, <2>3
<1>. QED  BY <1>9, <1>10, <1>11 DEF RunsInv, Latra!Worker

\* A write of run s, which its mail may commit.
LEMMA LatraWrittenIs ==
    ASSUME NEW s \in Latra!Worker, NEW keys, rec' = Latra!Written(s, keys)
    PROVE  \A o \in Latra!Offence, t \in Latra!Worker :
              rec'[o][t] = IF <<o, t>> \in keys THEN fetcher[s].got[o] ELSE rec[o][t]
BY DEF Latra!Written

LEMMA WrittenIsTyped ==
    ASSUME RunsInv, NEW s \in Latra!Worker, Latra!In(s), NEW keys, rec' = Latra!Written(s, keys),
           paid' = paid
    PROVE  /\ rec' \in [Latra!Offence -> [Latra!Worker -> Latra!Status \cup {Latra!Absent}]]
           /\ \A o \in Latra!Offence, t \in Latra!Worker : rec'[o][t] = "PAID" => o \in paid
<1>1. /\ fetcher[s].got \in [Latra!Offence -> {"UNPAID", "PAID", "none"}]
      /\ rec \in [Latra!Offence -> [Latra!Worker -> {"UNPAID", "PAID", "none"}]]
  BY RunFields DEF RunsInv, Latra!TypeOK, Latra!Status, Latra!Absent
<1>2. \A o \in Latra!Offence : fetcher[s].got[o] = "PAID" => o \in paid
  BY DEF RunsInv, PaidInv
<1>3. rec' \in [Latra!Offence -> [Latra!Worker -> {"UNPAID", "PAID", "none"}]]
  BY <1>1 DEF Latra!Written
<1>4. \A o \in Latra!Offence, t \in Latra!Worker : rec'[o][t] = "PAID" => o \in paid
  <2>1. ASSUME NEW o \in Latra!Offence, NEW t \in Latra!Worker, rec'[o][t] = "PAID" PROVE o \in paid
    <3>1. rec'[o][t] = IF <<o, t>> \in keys THEN fetcher[s].got[o] ELSE rec[o][t]
      BY LatraWrittenIs
    <3>2. rec[o][t] = "PAID" => o \in paid
      BY DEF RunsInv, PaidInv
    <3>. QED  BY <1>2, <2>1, <3>1, <3>2
  <2>. QED  BY <2>1
<1>. QED  BY <1>3, <1>4 DEF Latra!Status, Latra!Absent

\* What an alone run has written is what there is of records afterwards.
LEMMA CommittedIsRecorded ==
    ASSUME RunsInv, NEW s \in Latra!Worker, Latra!In(s), NEW keys \in SUBSET Latra!Key,
           \A k \in keys : fetcher[s].got[k[1]] # "none", rec' = Latra!Written(s, keys)
    PROVE  Latra!Recorded' = Latra!Recorded \cup keys
<1>1. ASSUME NEW o \in Latra!Offence, NEW t \in Latra!Worker
      PROVE  <<o, t>> \in Latra!Recorded' <=> <<o, t>> \in Latra!Recorded \cup keys
  <2>1. rec'[o][t] = IF <<o, t>> \in keys THEN fetcher[s].got[o] ELSE rec[o][t]
    BY LatraWrittenIs
  <2>2. /\ <<o, t>> \in Latra!Recorded' <=> rec'[o][t] # "none"
        /\ <<o, t>> \in Latra!Recorded <=> rec[o][t] # "none"
    BY DEF Latra!Recorded, Latra!Key, Latra!Absent
  <2>3. <<o, t>> \in keys => fetcher[s].got[o] # "none"
    OBVIOUS
  <2>. QED  BY <2>1, <2>2, <2>3
<1>2. Latra!Recorded \subseteq Latra!Key /\ Latra!Recorded' \subseteq Latra!Key
  BY DEF Latra!Recorded, Latra!Key
<1>. QED  BY <1>1, <1>2 DEF Latra!Key

\* An alone run writes a record it reads, or the only one of an offence.
LEMMA TargetFits ==
    ASSUME Latra!TypeOK, NEW s \in Latra!Worker, Latra!In(s), WroteInv(s), NEW o \in Latra!Offence,
           fetcher[s].got[o] # "none", NEW k \in Latra!Target(s, o)
    PROVE  /\ k \in Latra!Key /\ k[1] = o
           /\ \A j \in fetcher[s].wrote \cup {k} :
                 /\ j \in Latra!Key /\ fetcher[s].got[j[1]] # "none"
                 /\ j \in fetcher[s].view \/ \A t \in Latra!Worker : <<j[1], t>> \notin fetcher[s].view
<1>1. fetcher[s].view \subseteq Latra!Key /\ fetcher[s].wrote \subseteq Latra!Key
  BY RunFields
<1>2. CASE Latra!Found(s, o) = {}
  <2>1. k = <<o, s>>
    BY <1>2 DEF Latra!Target
  <2>2. k \in Latra!Key /\ k[1] = o
    BY <2>1 DEF Latra!Key
  <2>3. \A t \in Latra!Worker : <<o, t>> \notin fetcher[s].view
    BY <1>2 DEF Latra!Found
  <2>. QED  BY <2>2, <2>3 DEF WroteInv
<1>3. CASE Latra!Found(s, o) # {}
  <2>1. PICK t \in Latra!Found(s, o) : k = <<o, t>>
    BY <1>3 DEF Latra!Target
  <2>2. k \in Latra!Key /\ k[1] = o /\ k \in fetcher[s].view \cup fetcher[s].wrote
    BY <2>1 DEF Latra!Key, Latra!Found
  <2>. QED  BY <2>2 DEF WroteInv
<1>. QED  BY <1>2, <1>3

LEMMA LatraApplyKeeps ==
    ASSUME RunsInv, NEW s \in Latra!Worker, NEW o \in Latra!Offence, Latra!Apply(s, o)
    PROVE  RunsInv'
<1>1. PICK k \in Latra!Target(s, o) :
        LET wrote == fetcher[s].wrote \cup {k} IN
        \/ /\ fetcher' = [fetcher EXCEPT ![s].todo = @ \ {o}, ![s].wrote = wrote]
           /\ rec' = rec
        \/ /\ rec' = Latra!Written(s, wrote)
           /\ fetcher' = [fetcher EXCEPT ![s].todo = @ \ {o}, ![s].wrote = {},
                                         ![s].view = Latra!Recorded \cup wrote]
  BY Zenon DEF Latra!Apply
<1>12. PICK w : w = fetcher[s].wrote \cup {k}
  OBVIOUS
<1>2. /\ fetcher[s].pc = "write" /\ Latra!In(s) /\ o \in fetcher[s].todo
      /\ UNCHANGED <<issued, paid, broken>>
  BY DEF Latra!Apply, Latra!At, Latra!Turn, Latra!In
<1>3. /\ fetcher[s] \in Latra!Running /\ fetcher[s].todo \ {o} \in SUBSET Latra!Offence
      /\ fetcher[s].view \in SUBSET Latra!Key /\ fetcher[s].wrote \in SUBSET Latra!Key
      /\ Latra!Recorded \in SUBSET Latra!Key
  BY <1>2, RunFields DEF RunsInv, Latra!Recorded
<1>4. k \in Latra!Key
  <2>1. k = <<o, s>> \/ \E t \in Latra!Worker : k = <<o, t>>
    BY DEF Latra!Target, Latra!Found
  <2>. QED  BY <2>1 DEF Latra!Key
<1>5. PICK W \in SUBSET Latra!Key, V \in SUBSET Latra!Key :
        /\ fetcher' = [fetcher EXCEPT ![s] = [fetcher[s] EXCEPT !.todo = fetcher[s].todo \ {o},
                                                                !.wrote = W, !.view = V]]
        /\ \/ W = w /\ V = fetcher[s].view /\ rec' = rec
           \/ W = {} /\ V = Latra!Recorded \cup w /\ rec' = Latra!Written(s, w)
  <2>1. w \in SUBSET Latra!Key /\ Latra!Recorded \cup w \in SUBSET Latra!Key
    BY <1>12, <1>3, <1>4
  <2>2. CASE fetcher' = [fetcher EXCEPT ![s].todo = @ \ {o}, ![s].wrote = w] /\ rec' = rec
    <3>1. [fetcher[s] EXCEPT !.todo = fetcher[s].todo \ {o}, !.wrote = w]
            = [fetcher[s] EXCEPT !.todo = fetcher[s].todo \ {o}, !.wrote = w, !.view = fetcher[s].view]
      BY <1>3 DEF Latra!Running
    <3>2. fetcher' = [fetcher EXCEPT ![s] = [fetcher[s] EXCEPT !.todo = fetcher[s].todo \ {o}, !.wrote = w]]
      BY <2>2 DEF RunsInv, Latra!TypeOK
    <3>. QED  BY <1>3, <2>1, <2>2, <3>1, <3>2
  <2>3. CASE /\ rec' = Latra!Written(s, w)
             /\ fetcher' = [fetcher EXCEPT ![s].todo = @ \ {o}, ![s].wrote = {},
                                           ![s].view = Latra!Recorded \cup w]
    <3>1. fetcher' = [fetcher EXCEPT ![s] = [fetcher[s] EXCEPT !.todo = fetcher[s].todo \ {o},
                                                               !.wrote = {}, !.view = Latra!Recorded \cup w]]
      BY <2>3 DEF RunsInv, Latra!TypeOK
    <3>. QED  BY <2>1, <2>3, <3>1
  <2>. QED  BY <1>1, <1>12, <2>2, <2>3
<1>6. PICK q : q = [fetcher[s] EXCEPT !.todo = fetcher[s].todo \ {o}, !.wrote = W, !.view = V]
  OBVIOUS
<1>7. /\ q \in Latra!Running /\ q.pc = "write" /\ q.todo = fetcher[s].todo \ {o} /\ q.got = fetcher[s].got
      /\ q.view = V /\ q.wrote = W /\ q.alone = fetcher[s].alone
  <2>1. q \in Latra!Running
    BY <1>3, <1>6, Zenon DEF Latra!Running
  <2>. QED  BY <1>2, <1>3, <1>6, <2>1 DEF Latra!Running
<1>8. \A t \in Latra!Worker : fetcher'[t] = IF t = s THEN q ELSE fetcher[t]
  BY <1>5, <1>6 DEF RunsInv, Latra!TypeOK
<1>9. Latra!TypeOK' /\ PaidInv'
  <2>1. /\ rec' \in [Latra!Offence -> [Latra!Worker -> Latra!Status \cup {Latra!Absent}]]
        /\ \A x \in Latra!Offence, t \in Latra!Worker : rec'[x][t] = "PAID" => x \in paid
    <3>1. CASE rec' = rec
      BY <3>1 DEF RunsInv, Latra!TypeOK, PaidInv
    <3>2. CASE rec' = Latra!Written(s, w)
      BY <1>2, <3>2, WrittenIsTyped
    <3>. QED  BY <1>5, <3>1, <3>2
  <2>2. fetcher' \in [Latra!Worker -> Latra!Running \cup {Latra!Idle}]
    BY <1>5, <1>6, <1>7 DEF RunsInv, Latra!TypeOK
  <2>3. \A t \in Latra!Worker, x \in Latra!Offence :
          Latra!In(t)' /\ fetcher'[t].got[x] = "PAID" => x \in paid
    BY <1>2, <1>7, <1>8 DEF RunsInv, PaidInv, Latra!In
  <2>. QED  BY <1>2, <2>1, <2>2, <2>3 DEF RunsInv, Latra!TypeOK, PaidInv
<1>10. ASSUME q.alone PROVE AloneInv(s)'
  <2>1. AloneInv(s) /\ fetcher[s].alone
    BY <1>7, <1>10 DEF RunsInv
  <2>2. \A u \in Latra!Worker : u # s => ~Latra!In(u)'
    BY <1>2, <1>8, <2>1 DEF AloneInv, Latra!In
  <2>3. WroteInv(s) /\ GoneInv(s) /\ fetcher[s].view = Latra!Recorded
    BY <1>2, <2>1 DEF AloneInv
  <2>4. fetcher[s].got[o] # "none"
    BY <1>2, <2>3 DEF GoneInv
  <2>5. /\ k[1] = o
        /\ \A j \in w : /\ j \in Latra!Key /\ fetcher[s].got[j[1]] # "none"
                        /\ \/ j \in fetcher[s].view
                           \/ \A t \in Latra!Worker : <<j[1], t>> \notin fetcher[s].view
    BY <1>12, <1>2, <2>3, <2>4, TargetFits DEF RunsInv
  <2>6. PICK u \in Latra!Worker : k = <<o, u>>
    BY <1>4, <2>5 DEF Latra!Key
  <2>7. k \in w /\ fetcher[s].wrote \subseteq w
    BY <1>12
  <2>8. q.view = Latra!Recorded' /\ WroteInv(s)'
    <3>1. CASE W = w /\ V = fetcher[s].view /\ rec' = rec
      BY <1>7, <1>8, <2>3, <2>5, <3>1 DEF WroteInv, Latra!Recorded, Latra!Key
    <3>2. CASE W = {} /\ V = Latra!Recorded \cup w /\ rec' = Latra!Written(s, w)
      <4>1. w \in SUBSET Latra!Key
        BY <2>5
      <4>2. Latra!Recorded' = Latra!Recorded \cup w
        BY <1>2, <2>5, <3>2, <4>1, CommittedIsRecorded
      <4>. QED  BY <1>7, <1>8, <3>2, <4>2 DEF WroteInv
    <3>. QED  BY <1>5, <3>1, <3>2
  <2>9. GoneInv(s)'
    <3>1. ASSUME NEW x \in Latra!Offence
          PROVE  /\ x \in q.todo => q.got[x] # "none"
                 /\ q.got[x] # "none" /\ x \notin q.todo =>
                       \E t \in Latra!Worker : <<x, t>> \in W \/ rec'[x][t] = q.got[x]
                 /\ \A t \in Latra!Worker : rec'[x][t] = "PAID" => q.got[x] = "PAID"
      <4>1. x \in q.todo => q.got[x] # "none"
        BY <1>7, <2>3 DEF GoneInv
      <4>2. q.got[x] # "none" /\ x \notin q.todo =>
               \E t \in Latra!Worker : <<x, t>> \in w \/ rec[x][t] = fetcher[s].got[x]
        <5>1. CASE x = o
          BY <2>6, <2>7, <5>1
        <5>2. CASE x # o
          BY <1>7, <2>3, <2>7, <5>2 DEF GoneInv
        <5>. QED  BY <5>1, <5>2
      <4>3. \A t \in Latra!Worker : rec[x][t] = "PAID" => fetcher[s].got[x] = "PAID"
        BY <1>2, <2>3 DEF GoneInv
      <4>4. CASE W = w /\ rec' = rec
        BY <1>7, <4>1, <4>2, <4>3, <4>4
      <4>5. CASE rec' = Latra!Written(s, w)
        <5>1. \A t \in Latra!Worker : rec'[x][t] = IF <<x, t>> \in w THEN fetcher[s].got[x] ELSE rec[x][t]
          BY <4>5, LatraWrittenIs
        <5>. QED  BY <1>7, <4>1, <4>2, <4>3, <5>1
      <4>. QED  BY <1>5, <4>4, <4>5
    <3>. QED  BY <1>7, <1>8, <3>1 DEF GoneInv
  <2>10. fetcher'[s] = q
    BY <1>8
  <2>. QED  BY <1>7, <2>2, <2>8, <2>9, <2>10 DEF AloneInv
<1>11. ASSUME NEW t \in Latra!Worker PROVE AloneInv(t)'
  <2>1. CASE t # s
    BY <1>2, <1>8, <2>1, OtherStays
  <2>2. CASE t = s /\ ~q.alone
    BY <1>8, <2>2 DEF AloneInv
  <2>. QED  BY <1>10, <2>1, <2>2
<1>. QED  BY <1>9, <1>11 DEF RunsInv, Latra!Worker

\* A run that ends.
LEMMA LatraEndKeeps ==
    ASSUME RunsInv, NEW s \in Latra!Worker, Latra!In(s), fetcher' = [fetcher EXCEPT ![s] = Latra!Idle],
           UNCHANGED <<issued, paid>>, broken' \in 0..MaxFaults,
           rec' \in [Latra!Offence -> [Latra!Worker -> Latra!Status \cup {Latra!Absent}]],
           \A o \in Latra!Offence, t \in Latra!Worker : rec'[o][t] = "PAID" => o \in paid
    PROVE  RunsInv'
<1>1. \A t \in Latra!Worker : fetcher'[t] = IF t = s THEN Latra!Idle ELSE fetcher[t]
  BY DEF RunsInv, Latra!TypeOK
<1>2. Latra!TypeOK'
  BY DEF RunsInv, Latra!TypeOK
<1>3. PaidInv'
  BY <1>1, IdleIsIdle DEF RunsInv, PaidInv, Latra!In
<1>4. ASSUME NEW t \in Latra!Worker PROVE AloneInv(t)'
  <2>1. CASE t # s
    BY <1>1, <2>1, OtherStays
  <2>2. CASE t = s
    BY <1>1, <2>2, IdleIsIdle DEF AloneInv, Latra!In
  <2>. QED  BY <2>1, <2>2
<1>. QED  BY <1>2, <1>3, <1>4 DEF RunsInv, Latra!Worker

LEMMA LatraDoneKeeps ==
    ASSUME RunsInv, NEW s \in Latra!Worker, Latra!Done(s)
    PROVE  RunsInv'
<1>1. /\ Latra!In(s) /\ fetcher' = [fetcher EXCEPT ![s] = Latra!Idle]
      /\ UNCHANGED <<issued, paid>> /\ broken' \in 0..MaxFaults
      /\ rec' = Latra!Written(s, fetcher[s].wrote)
  BY DEF Latra!Done, Latra!At, Latra!In, RunsInv, Latra!TypeOK
<1>. QED  BY <1>1, WrittenIsTyped, LatraEndKeeps

LEMMA LatraAbortKeeps ==
    ASSUME RunsInv, NEW s \in Latra!Worker, Latra!Abort(s)
    PROVE  RunsInv'
<1>1. broken' \in 0..MaxFaults
  BY DocumentsAssumption DEF Latra!Abort, Latra!Fault, Latra!SizeAssumption, RunsInv, Latra!TypeOK
<1>2. /\ Latra!In(s) /\ fetcher' = [fetcher EXCEPT ![s] = Latra!Idle] /\ UNCHANGED <<issued, paid, rec>>
  BY DEF Latra!Abort
<1>3. /\ rec \in [Latra!Offence -> [Latra!Worker -> Latra!Status \cup {Latra!Absent}]]
      /\ \A o \in Latra!Offence, t \in Latra!Worker : rec[o][t] = "PAID" => o \in paid
  BY DEF RunsInv, Latra!TypeOK, PaidInv
<1>. QED  BY <1>1, <1>2, <1>3, LatraEndKeeps

LEMMA LatraInit ==
    ASSUME Latra!Init
    PROVE  RunsInv
<1>1. \A s \in Latra!Worker : ~Latra!In(s)
  BY IdleIsIdle DEF Latra!Init, Latra!In
<1>2. Latra!TypeOK
  BY DocumentsAssumption DEF Latra!Init, Latra!TypeOK, Latra!SizeAssumption
<1>3. PaidInv
  BY <1>1 DEF PaidInv, Latra!Init, Latra!Absent
<1>. QED  BY <1>1, <1>2, <1>3 DEF RunsInv, AloneInv

LEMMA RunsKeep ==
    ASSUME RunsInv, [Latra!Next]_(Latra!vars)
    PROVE  RunsInv'
<1>1. CASE UNCHANGED Latra!vars
  <2>1. Latra!TypeOK'
    BY <1>1 DEF Latra!vars, RunsInv, Latra!TypeOK, Latra!Running, Latra!Key
  <2>. QED  BY <1>1, <2>1, LatraKeeps DEF Latra!vars
<1>2. CASE Latra!Next
  BY <1>2, LatraListKeeps, LatraBeginKeeps, LatraFetchKeeps, LatraApplyKeeps, LatraDoneKeeps,
     LatraAbortKeeps DEF Latra!Next
<1>. QED  BY <1>1, <1>2

(***************************************************************************)
(* What a step of a system in which run s is alone does to the records.    *)
(***************************************************************************)
\* What has one record has some.  An instance has a Cardinality of its own.
LEMMA OneIsSome ==
    ASSUME NEW o \in Latra!Offence, Latra!Records(o) = 1
    PROVE  \E t \in Latra!Worker : rec[o][t] # "none"
<1>1. Latra!Records(o) = Latra!Cardinality({s \in Latra!Worker : rec[o][s] # "none"})
  BY DEF Latra!Records, Latra!Absent
<1>2. Latra!Cardinality({}) = 0
  <2>1. Latra!Cardinality({}) = Cardinality({})
    BY DEF Latra!Cardinality, Cardinality
  <2>. QED  BY <2>1, FS_EmptySet
<1>3. {s \in Latra!Worker : rec[o][s] # "none"} # {}
  BY <1>1, <1>2
<1>. QED  BY <1>3

\* A commit of an alone run.
LEMMA CommitIsFaithful ==
    ASSUME RunsInv, NEW s \in Latra!Worker, Latra!In(s), fetcher[s].alone, fetcher[s].pc = "write",
           NEW w \in SUBSET Latra!Key, rec' = Latra!Written(s, w), NEW o \in Latra!Offence,
           \A k \in w : /\ fetcher[s].got[k[1]] # "none"
                        /\ \/ k \in fetcher[s].view
                           \/ \A t \in Latra!Worker : <<k[1], t>> \notin fetcher[s].view
    PROVE  /\ Latra!Records(o) = 1 => Latra!Records(o)' = 1
           /\ \A t \in Latra!Worker : rec[o][t] = "PAID" => rec'[o][t] = "PAID"
<1>1. fetcher[s].view = Latra!Recorded /\ GoneInv(s)
  BY DEF RunsInv, AloneInv
<1>2. \A t \in Latra!Worker : rec'[o][t] = IF <<o, t>> \in w THEN fetcher[s].got[o] ELSE rec[o][t]
  BY LatraWrittenIs
<1>3. \A t \in Latra!Worker : <<o, t>> \in Latra!Recorded <=> rec[o][t] # "none"
  BY DEF Latra!Recorded, Latra!Key, Latra!Absent
<1>4. ASSUME Latra!Records(o) = 1 PROVE Latra!Records(o)' = 1
  <2>2. PICK u \in Latra!Worker : <<o, u>> \in Latra!Recorded
    BY <1>3, <1>4, OneIsSome
  <2>3. \A t \in Latra!Worker : rec'[o][t] # "none" <=> rec[o][t] # "none"
    <3>1. ASSUME NEW t \in Latra!Worker, <<o, t>> \in w
          PROVE  rec[o][t] # "none" /\ rec'[o][t] # "none"
      <4>1. <<o, t>>[1] = o
        OBVIOUS
      <4>2. <<o, t>> \in Latra!Recorded
        BY <1>1, <2>2, <3>1, <4>1
      <4>. QED  BY <1>2, <1>3, <3>1, <4>1, <4>2
    <3>. QED  BY <1>2, <3>1
  <2>4. {t \in Latra!Worker : rec'[o][t] # "none"} = {t \in Latra!Worker : rec[o][t] # "none"}
    BY <2>3
  <2>. QED  BY <1>4, <2>4 DEF Latra!Records, Latra!Absent
<1>5. \A t \in Latra!Worker : rec[o][t] = "PAID" => rec'[o][t] = "PAID"
  BY <1>1, <1>2 DEF GoneInv
<1>. QED  BY <1>4, <1>5

\* Where the records stay, they stay.
LEMMA StillIsFaithful ==
    ASSUME rec' = rec, NEW o \in Latra!Offence
    PROVE  /\ Latra!Records(o) = 1 => Latra!Records(o)' = 1
           /\ \A t \in Latra!Worker : rec[o][t] = "PAID" => rec'[o][t] = "PAID"
BY DEF Latra!Records

LEMMA ApplyIsFaithful ==
    ASSUME RunsInv, NEW s \in Latra!Worker, NEW x \in Latra!Offence, Latra!Apply(s, x), fetcher[s].alone,
           NEW o \in Latra!Offence
    PROVE  /\ Latra!Records(o) = 1 => Latra!Records(o)' = 1
           /\ \A t \in Latra!Worker : rec[o][t] = "PAID" => rec'[o][t] = "PAID"
<1>1. /\ fetcher[s].pc = "write" /\ Latra!In(s) /\ x \in fetcher[s].todo
  BY DEF Latra!Apply, Latra!At, Latra!Turn, Latra!In
<1>2. PICK k \in Latra!Target(s, x) : rec' = rec \/ rec' = Latra!Written(s, fetcher[s].wrote \cup {k})
  BY Zenon DEF Latra!Apply
<1>3. WroteInv(s) /\ GoneInv(s)
  BY <1>1 DEF RunsInv, AloneInv
<1>4. fetcher[s].got[x] # "none"
  BY <1>1, <1>3 DEF GoneInv
<1>5. PICK w : w = fetcher[s].wrote \cup {k}
  OBVIOUS
<1>6. \A j \in w : /\ j \in Latra!Key /\ fetcher[s].got[j[1]] # "none"
                   /\ j \in fetcher[s].view \/ \A t \in Latra!Worker : <<j[1], t>> \notin fetcher[s].view
  BY <1>1, <1>3, <1>4, <1>5, TargetFits DEF RunsInv
<1>7. CASE rec' = rec
  BY <1>7, StillIsFaithful
<1>8. CASE rec' = Latra!Written(s, w)
  <2>1. w \in SUBSET Latra!Key
    BY <1>6
  <2>. QED  BY <1>1, <1>6, <1>8, <2>1, CommitIsFaithful
<1>. QED  BY <1>2, <1>5, <1>7, <1>8

LEMMA DoneIsFaithful ==
    ASSUME RunsInv, NEW s \in Latra!Worker, Latra!Done(s), fetcher[s].alone, NEW o \in Latra!Offence
    PROVE  /\ Latra!Records(o) = 1 => Latra!Records(o)' = 1
           /\ \A t \in Latra!Worker : rec[o][t] = "PAID" => rec'[o][t] = "PAID"
           /\ fetcher[s].got[o] # Latra!Absent => \E t \in Latra!Worker : rec'[o][t] = fetcher[s].got[o]
<1>1. /\ fetcher[s].pc = "write" /\ Latra!In(s) /\ fetcher[s].todo = {}
      /\ rec' = Latra!Written(s, fetcher[s].wrote)
  BY DEF Latra!Done, Latra!At, Latra!In
<1>2. WroteInv(s) /\ GoneInv(s)
  BY <1>1 DEF RunsInv, AloneInv
<1>3. fetcher[s].wrote \in SUBSET Latra!Key
  BY <1>1, RunFields DEF RunsInv
<1>4. /\ Latra!Records(o) = 1 => Latra!Records(o)' = 1
      /\ \A t \in Latra!Worker : rec[o][t] = "PAID" => rec'[o][t] = "PAID"
  BY <1>1, <1>2, <1>3, CommitIsFaithful DEF WroteInv
<1>5. ASSUME fetcher[s].got[o] # "none"
      PROVE  \E t \in Latra!Worker : rec'[o][t] = fetcher[s].got[o]
  <2>1. PICK t \in Latra!Worker : <<o, t>> \in fetcher[s].wrote \/ rec[o][t] = fetcher[s].got[o]
    BY <1>1, <1>2, <1>5 DEF GoneInv
  <2>2. rec'[o][t] = IF <<o, t>> \in fetcher[s].wrote THEN fetcher[s].got[o] ELSE rec[o][t]
    BY <1>1, LatraWrittenIs
  <2>. QED  BY <2>1, <2>2
<1>. QED  BY <1>4, <1>5 DEF Latra!Absent

LEMMA StepIsFaithful ==
    ASSUME RunsInv, [Latra!Next]_(Latra!vars), NEW s \in Latra!Worker, Latra!In(s), fetcher[s].alone,
           NEW o \in Latra!Offence
    PROVE  /\ Latra!Records(o) = 1 => Latra!Records(o)' = 1
           /\ \A t \in Latra!Worker : rec[o][t] = "PAID" => rec'[o][t] = "PAID"
           /\ Latra!Done(s) /\ fetcher[s].got[o] # Latra!Absent =>
                 \E t \in Latra!Worker : rec'[o][t] = fetcher[s].got[o]
<1>1. \A t \in Latra!Worker : Latra!In(t) => t = s
  BY DEF RunsInv, AloneInv
<1>2. CASE Latra!Done(s)
  BY <1>2, DoneIsFaithful
<1>3. CASE \E x \in Latra!Offence : Latra!Apply(s, x)
  <2>1. ~Latra!Done(s)
    BY <1>3 DEF Latra!Apply, Latra!Turn, Latra!Done
  <2>. QED  BY <1>3, <2>1, ApplyIsFaithful
<1>4. CASE ~Latra!Done(s) /\ ~\E x \in Latra!Offence : Latra!Apply(s, x)
  <2>1. \A t \in Latra!Worker : /\ Latra!Done(t) => Latra!In(t)
                                /\ \A x \in Latra!Offence : Latra!Apply(t, x) => Latra!In(t)
    BY DEF Latra!Done, Latra!Apply, Latra!At, Latra!In
  <2>2. rec' = rec
    BY <1>1, <1>4, <2>1
       DEF Latra!Next, Latra!vars, Latra!List, Latra!Pay, Latra!Begin, Latra!Fetch, Latra!Abort
  <2>. QED  BY <1>4, <2>2, StillIsFaithful, SMTT(60)
<1>. QED  BY <1>2, <1>3, <1>4

\* However runs of the job and of requests overlap with the lists and payments
\* of LATRA, with faults and with each other, a run that has the table to itself
\* makes no second record of an offence, takes no PAID back, and leaves a record
\* of what it fetched (update_latra_offences).
THEOREM LoneRunKeepsFaith == DocumentsSpec => LoneRunIsFaithful
<1>1. DocumentsInit => RunsInv
  BY LatraInit DEF DocumentsInit
<1>2. [DocumentsNext]_documentVars => [Latra!Next]_(Latra!vars)
  BY DEF DocumentsNext, documentVars, Kept, offenceVars, Latra!vars
<1>3. RunsInv /\ [DocumentsNext]_documentVars => RunsInv'
  BY <1>2, RunsKeep
<1>4. RunsInv /\ [DocumentsNext]_documentVars =>
        [\A s \in Latra!Worker : Latra!In(s) /\ fetcher[s].alone =>
           \A o \in Latra!Offence :
              /\ Latra!Records(o) = 1 => Latra!Records(o)' = 1
              /\ \A t \in Latra!Worker : rec[o][t] = "PAID" => rec'[o][t] = "PAID"
              /\ (Latra!Done(s) /\ fetcher[s].got[o] # Latra!Absent) =>
                    \E t \in Latra!Worker : rec'[o][t] = fetcher[s].got[o]]_(Latra!vars)
  BY <1>2, StepIsFaithful
<1>. QED  BY <1>1, <1>3, <1>4, PTL DEF DocumentsSpec, LoneRunIsFaithful, Latra!LoneRunIsFaithful

(***************************************************************************)
(* PergamonReports: for any invoices, payloads, receipts and managers.     *)
(* What the books call fiscalised within the period has its receipt there, *)
(* for good; so a report that counts as many receipts as there are such    *)
(* invoices counts theirs.                                                 *)
(***************************************************************************)
\* The invoices whose receipt is within the period.
Receipted == {i \in FiscalInvoice : register[i].date = "within"}

BooksInv ==
    /\ books \in [FiscalInvoice -> Fiscal!Book]
    /\ register \in [FiscalInvoice -> Fiscal!Receipt \cup {Fiscal!NoReceipt}]
    /\ Exact => Fiscal!Local \subseteq Receipted

\* A fetch, and an archived report, counts receipts there are and claims a
\* match only with books that have them.
CountedInv(counted, matches) ==
    /\ counted \subseteq Receipted
    /\ Exact /\ matches => counted \subseteq Fiscal!Local

RequestInv(f) ==
    f # Fiscal!Idle =>
        /\ f \in Fiscal!Asking \cup Fiscal!Answered
        /\ f.seen.known <= Len(archive)
        /\ f.seen.alone => f.seen.known = Len(archive)
        /\ f.pc = "ask" => f.local \subseteq Fiscal!Local
        /\ f.pc = "save" => /\ CountedInv(f.counted, f.matches)
                            /\ \A k \in (1..f.seen.known) \ f.seen.changed :
                                  archive[k].counted \subseteq f.counted

ArchiveInv ==
    /\ archive \in Seq(Fiscal!Archived) /\ Len(archive) <= MaxArchived
    /\ \A k \in DOMAIN archive : /\ CountedInv(archive[k].counted, archive[k].matches)
                                 /\ ~archive[k].back /\ (archive[k].alone => k = 1)

FiscalInv ==
    /\ BooksInv /\ ArchiveInv
    /\ fetches = [m \in Manager |-> fetches[m]]
    /\ \A m \in Manager : RequestInv(fetches[m])
    /\ \A m, n \in Manager : m # n /\ Fiscal!Busy(m) /\ Fiscal!Busy(n) => ~fetches[m].seen.alone

LEMMA IdleFields == Fiscal!Idle.pc = "idle"
BY DEF Fiscal!Idle

LEMMA AskingFields ==
    \A f \in Fiscal!Asking :
        /\ f.pc = "ask" /\ f.local \subseteq FiscalInvoice /\ f.seen \in Fiscal!Known
        /\ f # Fiscal!Idle
BY IdleFields DEF Fiscal!Asking

LEMMA AnsweredFields ==
    \A f \in Fiscal!Answered :
        /\ f.pc = "save" /\ f.counted \subseteq FiscalInvoice /\ f.matches \in BOOLEAN /\ f.seen \in Fiscal!Known
        /\ f # Fiscal!Idle
BY IdleFields DEF Fiscal!Answered

LEMMA KnownFields ==
    \A k \in Fiscal!Known : /\ k.known \in 0..MaxArchived /\ k.changed \subseteq 1..MaxArchived
                            /\ k.alone \in BOOLEAN
BY DEF Fiscal!Known

LEMMA ArchivedFields ==
    \A a \in Fiscal!Archived : /\ a.matches \in BOOLEAN /\ a.alone \in BOOLEAN /\ a.back \in BOOLEAN
                               /\ a.counted \subseteq FiscalInvoice
BY DEF Fiscal!Archived

\* As receipts are issued and recorded, what was counted stays.
LEMMA BooksMoveOn ==
    ASSUME FiscalInv, UNCHANGED <<fetches, archive>>, BooksInv',
           Receipted \subseteq Receipted', Fiscal!Local \subseteq Fiscal!Local'
    PROVE  FiscalInv'
<1>1. \A c, m : CountedInv(c, m) => CountedInv(c, m)'
  BY DEF CountedInv
<1>2. ArchiveInv'
  BY <1>1 DEF FiscalInv, ArchiveInv
<1>3. ASSUME NEW m \in Manager PROVE RequestInv(fetches[m])'
  BY <1>1 DEF FiscalInv, RequestInv
<1>. QED  BY <1>2, <1>3 DEF FiscalInv, Fiscal!Busy

LEMMA FiscalIssueKeeps ==
    ASSUME FiscalInv, NEW i \in FiscalInvoice, Fiscal!Issue(i)
    PROVE  FiscalInv'
<1>1. PICK date \in {"within", "outside"}, amount \in Difference[i] :
        register' = [register EXCEPT ![i] = [date |-> date, amount |-> amount]]
  BY DEF Fiscal!Issue, Fiscal!When
<1>2. books[i] = "open" /\ register[i] = Fiscal!NoReceipt /\ UNCHANGED <<books, fetches, archive>>
  BY DEF Fiscal!Issue, Fiscal!Has
<1>3. PICK r : r = [date |-> date, amount |-> amount]
  OBVIOUS
<1>4. r \in Fiscal!Receipt
  BY <1>3 DEF Fiscal!Receipt, Fiscal!When
<1>5. Fiscal!NoReceipt.date # "within"
  BY DEF Fiscal!NoReceipt
<1>6. Fiscal!Local' = Fiscal!Local
  BY <1>2 DEF Fiscal!Local
<1>7. register' \in [FiscalInvoice -> Fiscal!Receipt \cup {Fiscal!NoReceipt}]
  BY <1>1, <1>3, <1>4 DEF FiscalInv, BooksInv
<1>8. Receipted \subseteq Receipted'
  BY <1>1, <1>2, <1>5 DEF Receipted, FiscalInv, BooksInv
<1>9. BooksInv'
  BY <1>2, <1>6, <1>7, <1>8 DEF FiscalInv, BooksInv
<1>. QED  BY <1>2, <1>6, <1>8, <1>9, BooksMoveOn

LEMMA FiscalRecordKeeps ==
    ASSUME FiscalInv, NEW i \in FiscalInvoice, Fiscal!Record(i)
    PROVE  FiscalInv'
<1>1. PICK date \in Fiscal!Noted(i) : books' = [books EXCEPT ![i] = date]
  BY DEF Fiscal!Record
<1>2. books[i] = "open" /\ register[i] # Fiscal!NoReceipt /\ UNCHANGED <<register, fetches, archive>>
  BY DEF Fiscal!Record, Fiscal!Has
<1>3. register[i] \in Fiscal!Receipt
  BY <1>2 DEF FiscalInv, BooksInv
<1>4. register[i].date \in {"within", "outside"}
  BY <1>3 DEF Fiscal!Receipt, Fiscal!When
<1>5. date \in {"within", "outside"} /\ (Exact => date = register[i].date)
  BY <1>4 DEF Fiscal!Noted, Fiscal!When
<1>6. books' \in [FiscalInvoice -> Fiscal!Book]
  BY <1>1, <1>5 DEF FiscalInv, BooksInv, Fiscal!Book, Fiscal!When
<1>7. Fiscal!Local \subseteq Fiscal!Local' /\ Receipted' = Receipted
  BY <1>1, <1>2 DEF FiscalInv, BooksInv, Fiscal!Local, Receipted
<1>8. Exact => Fiscal!Local' \subseteq Receipted'
  BY <1>1, <1>2, <1>5 DEF FiscalInv, BooksInv, Fiscal!Local, Receipted
<1>9. BooksInv'
  BY <1>2, <1>6, <1>8 DEF FiscalInv, BooksInv
<1>. QED  BY <1>2, <1>7, <1>9, BooksMoveOn

\* A request in progress of which the database has something new to tell.
Afresh(f, s) == [f EXCEPT !.seen = s]

LEMMA SeenAfresh ==
    ASSUME NEW f \in Fiscal!Asking \cup Fiscal!Answered, NEW s \in Fiscal!Known, NEW g, g = Afresh(f, s)
    PROVE  /\ g \in Fiscal!Asking \cup Fiscal!Answered /\ g # Fiscal!Idle
           /\ g.seen = s /\ g.pc = f.pc
           /\ f.pc = "ask" => g.local = f.local
           /\ f.pc = "save" => g.counted = f.counted /\ g.matches = f.matches
<1>1. CASE f \in Fiscal!Asking
  <2>1. g \in Fiscal!Asking /\ g.seen = s /\ g.pc = f.pc /\ g.local = f.local
    BY <1>1 DEF Afresh, Fiscal!Asking
  <2>. QED  BY <1>1, <2>1, AskingFields
<1>2. CASE f \in Fiscal!Answered
  <2>1. g \in Fiscal!Answered /\ g.seen = s /\ g.pc = f.pc /\ g.counted = f.counted /\ g.matches = f.matches
    BY <1>2 DEF Afresh, Fiscal!Answered
  <2>. QED  BY <1>2, <2>1, AnsweredFields
<1>. QED  BY <1>1, <1>2

\* Requests change, and neither the books nor the archive.
LEMMA RequestsMoveOn ==
    ASSUME FiscalInv, UNCHANGED <<books, register, archive>>,
           fetches' = [m \in Manager |-> fetches'[m]],
           \A m \in Manager : RequestInv(fetches[m])',
           \A m, n \in Manager : m # n /\ Fiscal!Busy(m)' /\ Fiscal!Busy(n)' => ~fetches'[m].seen.alone
    PROVE  FiscalInv'
<1>1. BooksInv' /\ ArchiveInv'
  BY DEF FiscalInv, BooksInv, ArchiveInv, CountedInv, Receipted, Fiscal!Local
<1>. QED  BY <1>1 DEF FiscalInv

\* One request ends.
LEMMA FiscalGiveUpKeeps ==
    ASSUME FiscalInv, NEW m \in Manager, Fiscal!GiveUp(m)
    PROVE  FiscalInv'
<1>1. fetches' = [fetches EXCEPT ![m] = Fiscal!Idle] /\ UNCHANGED <<books, register, archive>>
  BY DEF Fiscal!GiveUp
<1>2. fetches' = [n \in Manager |-> IF n = m THEN Fiscal!Idle ELSE fetches[n]]
  BY <1>1 DEF FiscalInv
<1>3. ASSUME NEW n \in Manager PROVE RequestInv(fetches[n])'
  BY <1>1, <1>2 DEF FiscalInv, RequestInv, CountedInv, Receipted, Fiscal!Local
<1>4. ASSUME NEW n \in Manager, NEW o \in Manager, n # o, Fiscal!Busy(n)', Fiscal!Busy(o)'
      PROVE  ~fetches'[n].seen.alone
  BY <1>2, <1>4 DEF FiscalInv, Fiscal!Busy
<1>. QED  BY <1>1, <1>2, <1>3, <1>4, RequestsMoveOn

LEMMA FiscalBeginKeeps ==
    ASSUME FiscalInv, NEW m \in Manager, Fiscal!Begin(m)
    PROVE  FiscalInv'
<1>. DEFINE seen == [known |-> Len(archive), changed |-> {}, alone |-> \A o \in Manager : ~Fiscal!Busy(o)]
            new == [pc |-> "ask", local |-> Fiscal!Local, seen |-> seen]
<1>1. ~Fiscal!Busy(m) /\ UNCHANGED <<books, register, archive>>
      /\ fetches' = [n \in Manager |->
           IF n = m THEN new
           ELSE IF Fiscal!Busy(n) THEN [fetches[n] EXCEPT !.seen.alone = FALSE] ELSE Fiscal!Idle]
  BY DEF Fiscal!Begin
<1>2. PICK s : s = seen
  OBVIOUS
<1>3. Len(archive) \in 0..MaxArchived
  BY DEF FiscalInv, ArchiveInv
<1>4. s \in Fiscal!Known /\ s.known = Len(archive)
  BY <1>2, <1>3, Zenon DEF Fiscal!Known
<1>5. s.alone = (\A o \in Manager : ~Fiscal!Busy(o))
  BY <1>2, Zenon
<1>6. PICK f : f = [pc |-> "ask", local |-> Fiscal!Local, seen |-> s]
  OBVIOUS
<1>7. Fiscal!Local \subseteq FiscalInvoice
  BY DEF Fiscal!Local
<1>8. f \in Fiscal!Asking
  BY <1>4, <1>6, <1>7 DEF Fiscal!Asking
<1>9. f.pc = "ask" /\ f.local = Fiscal!Local /\ f.seen = s
  BY <1>6
<1>10. new = f
  BY <1>2, <1>6
<1>11. RequestInv(f)
  BY <1>3, <1>4, <1>8, <1>9 DEF RequestInv
<1>12. \A n \in Manager : RequestInv(fetches[n]) /\ (n = m => fetches'[n] = f)
  BY <1>1, <1>10 DEF FiscalInv
<1>13. ASSUME NEW n \in Manager, n # m, Fiscal!Busy(n)
       PROVE  RequestInv(fetches'[n]) /\ ~fetches'[n].seen.alone
  <2>1. fetches'[n] = [fetches[n] EXCEPT !.seen = [fetches[n].seen EXCEPT !.alone = FALSE]]
    BY <1>1, <1>13
  <2>2. fetches[n] \in Fiscal!Asking \cup Fiscal!Answered
    BY <1>12, <1>13 DEF RequestInv, Fiscal!Busy
  <2>3. fetches[n].seen \in Fiscal!Known
    BY <2>2, AskingFields, AnsweredFields
  <2>4. PICK t : t = [fetches[n].seen EXCEPT !.alone = FALSE]
    OBVIOUS
  <2>5. t \in Fiscal!Known /\ t.known = fetches[n].seen.known /\ t.changed = fetches[n].seen.changed
        /\ ~t.alone
    BY <2>3, <2>4 DEF Fiscal!Known
  <2>6. PICK g : g = fetches'[n]
    OBVIOUS
  <2>7. g = Afresh(fetches[n], t)
    BY <2>1, <2>4, <2>6, Zenon DEF Afresh
  <2>8. /\ g \in Fiscal!Asking \cup Fiscal!Answered /\ g # Fiscal!Idle
        /\ g.seen = t /\ g.pc = fetches[n].pc
        /\ fetches[n].pc = "ask" => g.local = fetches[n].local
        /\ fetches[n].pc = "save" => g.counted = fetches[n].counted /\ g.matches = fetches[n].matches
    BY <2>7, <2>2, <2>5, SeenAfresh
  <2>. QED  BY <1>12, <1>13, <2>6, <2>5, <2>8 DEF RequestInv, Fiscal!Busy
<1>14. ASSUME NEW n \in Manager, n # m, ~Fiscal!Busy(n) PROVE RequestInv(fetches'[n]) /\ fetches'[n] = Fiscal!Idle
  BY <1>1, <1>14 DEF RequestInv
<1>15. ASSUME NEW n \in Manager PROVE RequestInv(fetches'[n])
  BY <1>11, <1>12, <1>13, <1>14
<1>. HIDE DEF seen, new
<1>16. UNCHANGED <<books, register, archive>>
  BY <1>1
<1>17. ASSUME NEW n \in Manager PROVE RequestInv(fetches[n])'
  BY <1>15, <1>16 DEF RequestInv, CountedInv, Receipted, Fiscal!Local
<1>18. fetches' = [n \in Manager |-> fetches'[n]]
  BY <1>1, Zenon
<1>19. ASSUME NEW n \in Manager, NEW o \in Manager, n # o, Fiscal!Busy(n)', Fiscal!Busy(o)'
       PROVE  ~fetches'[n].seen.alone
  <2>1. CASE n # m
    BY <2>1, <1>13, <1>14, <1>19 DEF Fiscal!Busy
  <2>2. CASE n = m
    <3>1. Fiscal!Busy(o)
      BY <2>2, <1>14, <1>19 DEF Fiscal!Busy
    <3>. QED  BY <2>2, <3>1, <1>5, <1>9, <1>12
  <2>. QED  BY <2>1, <2>2
<1>. QED  BY <1>16, <1>17, <1>18, <1>19, RequestsMoveOn

\* Pergamon answers: as many receipts as the books had invoices are theirs.
LEMMA FiscalAnswerKeeps ==
    ASSUME FiscalInv, NEW m \in Manager, Fiscal!Answer(m)
    PROVE  FiscalInv'
<1>1. /\ fetches[m].pc = "ask" /\ UNCHANGED <<books, register, archive>>
      /\ \E matches \in {FALSE, Fiscal!Matches(fetches[m].local, Receipted)} :
            fetches' = [fetches EXCEPT ![m] =
                [pc |-> "save", seen |-> fetches[m].seen, counted |-> Receipted, matches |-> matches]]
  BY Zenon DEF Fiscal!Answer, Receipted
<1>2. PICK matches \in {FALSE, Fiscal!Matches(fetches[m].local, Receipted)} :
         fetches' = [fetches EXCEPT ![m] =
             [pc |-> "save", seen |-> fetches[m].seen, counted |-> Receipted, matches |-> matches]]
  BY <1>1, Zenon
<1>3. PICK f : f = [pc |-> "save", seen |-> fetches[m].seen, counted |-> Receipted, matches |-> matches]
  OBVIOUS
<1>4. /\ fetches[m] \in Fiscal!Asking /\ RequestInv(fetches[m])
      /\ fetches[m].seen \in Fiscal!Known /\ fetches[m].local \subseteq Fiscal!Local
  BY <1>1, IdleFields, AskingFields, AnsweredFields DEF FiscalInv, RequestInv
<1>5. matches \in BOOLEAN
  BY <1>2, Zenon DEF Fiscal!Matches
<1>6. Receipted \subseteq FiscalInvoice /\ Fiscal!Local \subseteq FiscalInvoice
  BY DEF Receipted, Fiscal!Local
<1>7. f \in Fiscal!Answered
  BY <1>3, <1>4, <1>5, <1>6, Zenon DEF Fiscal!Answered
<1>8. f.pc = "save" /\ f.seen = fetches[m].seen /\ f.counted = Receipted /\ f.matches = matches
  BY <1>3, Zenon
<1>9. ASSUME Exact, matches PROVE Receipted \subseteq Fiscal!Local
  <2>. DEFINE local == fetches[m].local
  <2>1. Fiscal!Cardinality(Receipted) = Fiscal!Cardinality(local)
    BY <1>2, <1>9, Zenon DEF Fiscal!Matches
  <2>2. Cardinality(Receipted) = Cardinality(local)
    BY <2>1, Zenon DEF Fiscal!Cardinality, Cardinality
  <2>3. IsFiniteSet(FiscalInvoice)
    BY DocumentsAssumption, Zenon DEF Fiscal!ReceiptAssumption, Fiscal!IsFiniteSet, IsFiniteSet
  <2>4. IsFiniteSet(Receipted)
    BY <1>6, <2>3, FS_Subset
  <2>5. local \subseteq Receipted
    BY <1>4, <1>9 DEF FiscalInv, BooksInv
  <2>6. Receipted = local
    BY <2>2, <2>4, <2>5, FS_Subset
  <2>. QED  BY <1>4, <2>6
<1>10. CountedInv(f.counted, f.matches)
  BY <1>8, <1>9 DEF CountedInv
<1>11. \A k \in 1..f.seen.known : archive[k].counted \subseteq f.counted
  <2>1. fetches[m].seen.known \in 0..MaxArchived /\ fetches[m].seen.known <= Len(archive)
    BY <1>4, AskingFields, KnownFields DEF RequestInv
  <2>2. \A k \in DOMAIN archive : archive[k].counted \subseteq Receipted
    BY DEF FiscalInv, ArchiveInv, CountedInv
  <2>. QED  BY <1>8, <2>1, <2>2 DEF FiscalInv, ArchiveInv
<1>12. fetches' = [n \in Manager |-> IF n = m THEN f ELSE fetches[n]]
  BY <1>2, <1>3 DEF FiscalInv
<1>13. RequestInv(f)
  BY <1>4, <1>7, <1>8, <1>10, <1>11, AskingFields DEF RequestInv
<1>14. UNCHANGED <<books, register, archive>>
  BY <1>1
<1>15. ASSUME NEW n \in Manager PROVE RequestInv(fetches'[n])
  BY <1>12, <1>13 DEF FiscalInv
<1>16. ASSUME NEW n \in Manager PROVE RequestInv(fetches[n])'
  BY <1>14, <1>15 DEF RequestInv, CountedInv, Receipted, Fiscal!Local
<1>17. \A n \in Manager : /\ (fetches'[n] # Fiscal!Idle) = (fetches[n] # Fiscal!Idle)
                          /\ fetches'[n].seen = fetches[n].seen
  BY <1>4, <1>7, <1>8, <1>12, AskingFields, AnsweredFields
<1>18. \A n, o \in Manager : n # o /\ Fiscal!Busy(n)' /\ Fiscal!Busy(o)' => ~fetches'[n].seen.alone
  BY <1>17 DEF FiscalInv, Fiscal!Busy
<1>19. fetches' = [n \in Manager |-> fetches'[n]]
  BY <1>12, Zenon
<1>. QED  BY <1>14, <1>16, <1>18, <1>19, RequestsMoveOn

\* One report is saved, and the other requests are told.
LEMMA FiscalArchiveKeeps ==
    ASSUME FiscalInv, NEW m \in Manager, NEW k \in 1..MaxArchived, k <= Len(archive) + 1,
           NEW r \in Fiscal!Archived, Fiscal!Archive(m, k, r), UNCHANGED <<books, register>>,
           Fiscal!Busy(m), CountedInv(r.counted, r.matches), ~r.back, r.alone => k = 1
    PROVE  FiscalInv'
<1>1. /\ archive' = IF k \in DOMAIN archive THEN [archive EXCEPT ![k] = r] ELSE Append(archive, r)
      /\ fetches' = [n \in Manager |->
            IF n = m \/ ~Fiscal!Busy(n) THEN Fiscal!Idle
            ELSE IF k <= fetches[n].seen.known
                 THEN [fetches[n] EXCEPT !.seen.changed = fetches[n].seen.changed \cup {k}]
            ELSE fetches[n]]
  BY Zenon DEF Fiscal!Archive
<1>2. archive \in Seq(Fiscal!Archived) /\ Len(archive) \in 0..MaxArchived
  BY DEF FiscalInv, ArchiveInv
<1>3. /\ archive' \in Seq(Fiscal!Archived) /\ Len(archive') \in 0..MaxArchived
      /\ Len(archive) <= Len(archive')
      /\ \A j \in DOMAIN archive' : archive'[j] = IF j = k THEN r ELSE archive[j]
      /\ \A j \in DOMAIN archive' : j # k => j \in DOMAIN archive
  <2>1. CASE k \in DOMAIN archive
    BY <1>1, <1>2, <2>1
  <2>2. CASE k \notin DOMAIN archive
    BY <1>1, <1>2, <2>2
  <2>. QED  BY <2>1, <2>2
<1>4. Receipted' = Receipted /\ Fiscal!Local' = Fiscal!Local /\ BooksInv'
  BY DEF FiscalInv, BooksInv, Receipted, Fiscal!Local
<1>5. \A c, d : CountedInv(c, d) => CountedInv(c, d)'
  BY <1>4 DEF CountedInv
<1>6. ArchiveInv'
  <2>1. ASSUME NEW j \in DOMAIN archive'
        PROVE  /\ CountedInv(archive'[j].counted, archive'[j].matches)
               /\ ~archive'[j].back /\ (archive'[j].alone => j = 1)
    BY <1>3, <2>1 DEF FiscalInv, ArchiveInv
  <2>. QED  BY <1>3, <1>5, <2>1 DEF ArchiveInv
<1>7. ASSUME NEW n \in Manager, n = m \/ ~Fiscal!Busy(n) PROVE fetches'[n] = Fiscal!Idle
  BY <1>1, <1>7
<1>8. ASSUME NEW n \in Manager, n # m, Fiscal!Busy(n)
      PROVE  RequestInv(fetches[n])' /\ ~fetches'[n].seen.alone
  <2>1. /\ fetches[n] \in Fiscal!Asking \cup Fiscal!Answered /\ RequestInv(fetches[n])
        /\ ~fetches[n].seen.alone
    BY <1>8 DEF FiscalInv, RequestInv, Fiscal!Busy
  <2>2. fetches[n].seen \in Fiscal!Known
    BY <2>1, AskingFields, AnsweredFields
  <2>3. fetches[n].seen.known \in 0..MaxArchived /\ fetches[n].seen.changed \subseteq 1..MaxArchived
    BY <2>2, KnownFields
  <2>4. PICK g : g = fetches'[n]
    OBVIOUS
  <2>5. CASE ~(k <= fetches[n].seen.known)
    <3>1. g = fetches[n]
      BY <1>1, <1>8, <2>4, <2>5
    <3>2. \A j \in 1..g.seen.known : archive'[j] = archive[j]
      BY <1>2, <1>3, <2>1, <2>3, <2>5, <3>1, <1>8 DEF RequestInv, Fiscal!Busy
    <3>3. RequestInv(g)'
      BY <1>2, <1>3, <1>4, <1>5, <1>8, <2>1, <2>3, <3>1, <3>2, SMTT(60) DEF RequestInv, Fiscal!Busy
    <3>. QED  BY <2>1, <2>4, <3>1, <3>3 DEF RequestInv
  <2>6. CASE k <= fetches[n].seen.known
    <3>1. g = [fetches[n] EXCEPT !.seen = [fetches[n].seen EXCEPT !.changed = fetches[n].seen.changed \cup {k}]]
      BY <1>1, <1>8, <2>4, <2>6
    <3>2. PICK t : t = [fetches[n].seen EXCEPT !.changed = fetches[n].seen.changed \cup {k}]
      OBVIOUS
    <3>3. /\ t \in Fiscal!Known /\ t.known = fetches[n].seen.known /\ t.alone = fetches[n].seen.alone
          /\ t.changed = fetches[n].seen.changed \cup {k}
      BY <2>2, <2>3, <3>2 DEF Fiscal!Known
    <3>4. g = Afresh(fetches[n], t)
      BY <3>1, <3>2, Zenon DEF Afresh
    <3>5. /\ g \in Fiscal!Asking \cup Fiscal!Answered /\ g # Fiscal!Idle
          /\ g.seen = t /\ g.pc = fetches[n].pc
          /\ fetches[n].pc = "ask" => g.local = fetches[n].local
          /\ fetches[n].pc = "save" => g.counted = fetches[n].counted /\ g.matches = fetches[n].matches
      BY <2>1, <3>3, <3>4, SeenAfresh
    <3>6. g.seen.known <= Len(archive') /\ ~g.seen.alone
      BY <1>2, <1>3, <1>8, <2>1, <2>3, <3>3, <3>5 DEF RequestInv, Fiscal!Busy
    <3>7. g.pc = "ask" => g.local \subseteq Fiscal!Local'
      BY <1>4, <1>8, <2>1, <3>5 DEF RequestInv, Fiscal!Busy
    <3>8. ASSUME g.pc = "save", NEW j \in (1..g.seen.known) \ g.seen.changed
          PROVE  archive'[j].counted \subseteq g.counted
      <4>1. j # k /\ j \in (1..fetches[n].seen.known) \ fetches[n].seen.changed
        BY <3>3, <3>5, <3>8
      <4>2. archive[j].counted \subseteq g.counted
        BY <1>8, <2>1, <3>5, <3>8, <4>1 DEF RequestInv, Fiscal!Busy
      <4>3. j \in DOMAIN archive'
        BY <1>3, <3>6, <2>3, <3>3, <3>5, <4>1
      <4>. QED  BY <1>3, <4>1, <4>2, <4>3
    <3>9. g.pc = "save" => CountedInv(g.counted, g.matches)'
      BY <1>5, <1>8, <2>1, <3>5 DEF RequestInv, Fiscal!Busy
    <3>. QED  BY <2>4, <3>5, <3>6, <3>7, <3>8, <3>9 DEF RequestInv
  <2>. QED  BY <2>5, <2>6
<1>9. ASSUME NEW n \in Manager PROVE RequestInv(fetches[n])'
  BY <1>7, <1>8 DEF RequestInv
<1>10. \A n, o \in Manager : n # o /\ Fiscal!Busy(n)' /\ Fiscal!Busy(o)' => ~fetches'[n].seen.alone
  BY <1>7, <1>8 DEF Fiscal!Busy
<1>11. fetches' = [n \in Manager |-> fetches'[n]]
  BY <1>1, ZenonT(60)
<1>. QED  BY <1>4, <1>6, <1>9, <1>10, <1>11 DEF FiscalInv

LEMMA FiscalSaveKeeps ==
    ASSUME FiscalInv, NEW m \in Manager, Fiscal!Save(m)
    PROVE  FiscalInv'
<1>. DEFINE f == fetches[m]
            report == [matches |-> f.matches, alone |-> f.seen.alone, counted |-> f.counted, back |-> FALSE]
<1>1. f.pc = "save" /\ UNCHANGED <<books, register>>
      /\ \/ /\ f.seen.known = 0 /\ Len(archive) < MaxArchived
            /\ Fiscal!Archive(m, Len(archive) + 1, report)
         \/ \E k \in 1..f.seen.known :
               /\ Fiscal!Latest(f.seen, k)
               /\ Fiscal!Archive(m, k, [report EXCEPT !.alone = archive[k].alone,
                      !.back = archive[k].back \/ ~(archive[k].counted \subseteq f.counted)])
  BY ZenonT(60) DEF Fiscal!Save
<1>2. /\ f \in Fiscal!Answered /\ RequestInv(f) /\ Fiscal!Busy(m)
  BY <1>1, IdleFields, AskingFields, AnsweredFields DEF FiscalInv, RequestInv, Fiscal!Busy
<1>3. /\ f.seen \in Fiscal!Known /\ f.matches \in BOOLEAN /\ f.counted \subseteq FiscalInvoice
      /\ f.seen.alone \in BOOLEAN /\ f.seen.known \in 0..MaxArchived /\ f.seen.changed \subseteq 1..MaxArchived
  BY <1>2, AnsweredFields, KnownFields, SMTT(60)
<1>4. /\ CountedInv(f.counted, f.matches) /\ f.seen.known <= Len(archive)
      /\ f.seen.alone => f.seen.known = Len(archive)
      /\ \A k \in (1..f.seen.known) \ f.seen.changed : archive[k].counted \subseteq f.counted
  BY <1>1, <1>2 DEF RequestInv, Fiscal!Busy
<1>5. archive \in Seq(Fiscal!Archived) /\ Len(archive) \in 0..MaxArchived
  BY DEF FiscalInv, ArchiveInv
<1>. HIDE DEF f
<1>6. MaxArchived \in Nat
  BY DocumentsAssumption DEF Fiscal!ReceiptAssumption
<1>7. CASE /\ f.seen.known = 0 /\ Len(archive) < MaxArchived
           /\ Fiscal!Archive(m, Len(archive) + 1, report)
  <2>1. PICK r : r = report
    OBVIOUS
  <2>2. r \in Fiscal!Archived
    BY <1>3, <2>1, Zenon DEF Fiscal!Archived
  <2>3. r.counted = f.counted /\ r.matches = f.matches /\ r.alone = f.seen.alone /\ ~r.back
    BY <2>1, Zenon
  <2>4. Len(archive) + 1 \in 1..MaxArchived /\ (r.alone => Len(archive) + 1 = 1)
    BY <1>6, <1>4, <1>5, <1>7, <2>3
  <2>5. Fiscal!Archive(m, Len(archive) + 1, r) /\ CountedInv(r.counted, r.matches)
    BY <1>4, <1>7, <2>1, <2>3, Zenon
  <2>6. PICK k \in 1..MaxArchived : k = Len(archive) + 1
    BY <2>4
  <2>7. Fiscal!Archive(m, k, r) /\ (r.alone => k = 1) /\ k <= Len(archive) + 1
    BY <1>5, <2>4, <2>5, <2>6
  <2>. QED  BY <1>1, <1>2, <2>2, <2>3, <2>5, <2>7, FiscalArchiveKeeps
<1>8. ASSUME NEW k \in 1..f.seen.known, Fiscal!Latest(f.seen, k),
             Fiscal!Archive(m, k, [report EXCEPT !.alone = archive[k].alone,
                 !.back = archive[k].back \/ ~(archive[k].counted \subseteq f.counted)])
      PROVE  FiscalInv'
  <2>1. k \in 1..MaxArchived /\ k \in DOMAIN archive /\ k <= Len(archive) + 1
    BY <1>6, <1>3, <1>4, <1>5
  <2>2. archive[k].counted \subseteq f.counted
    BY <1>4, <1>8 DEF Fiscal!Latest
  <2>3. ~archive[k].back /\ (archive[k].alone => k = 1) /\ archive[k].alone \in BOOLEAN
    BY <2>1, ArchivedFields DEF FiscalInv, ArchiveInv
  <2>4. PICK q : q = report
    OBVIOUS
  <2>5. q \in Fiscal!Archived
    BY <1>3, <2>4, Zenon DEF Fiscal!Archived
  <2>6. PICK back : back = (archive[k].back \/ ~(archive[k].counted \subseteq f.counted))
    OBVIOUS
  <2>7. PICK r : r = [q EXCEPT !.alone = archive[k].alone, !.back = back]
    OBVIOUS
  <2>8. q.counted = f.counted /\ q.matches = f.matches
    BY <2>4, Zenon
  <2>9. Fiscal!Archive(m, k, r)
    BY <1>8, <2>4, <2>6, <2>7, Zenon
  <2>10. back \in BOOLEAN /\ ~back
    BY <2>2, <2>3, <2>6, Zenon
  <2>11. /\ r \in Fiscal!Archived /\ r.counted = q.counted /\ r.matches = q.matches
         /\ r.alone = archive[k].alone /\ r.back = back
    BY <2>3, <2>5, <2>7, <2>10 DEF Fiscal!Archived
  <2>12. ~r.back /\ (r.alone => k = 1) /\ CountedInv(r.counted, r.matches)
    BY <1>4, <2>3, <2>11, <2>8, <2>10, Zenon
  <2>. QED  BY <1>1, <1>2, <2>1, <2>9, <2>12, <2>11, FiscalArchiveKeeps
<1>. QED  BY <1>1, <1>7, <1>8

LEMMA FiscalKeeps == FiscalInv /\ [Fiscal!Next]_(Fiscal!vars) => FiscalInv'
<1>. SUFFICES ASSUME FiscalInv, [Fiscal!Next]_(Fiscal!vars) PROVE FiscalInv'
  OBVIOUS
<1>1. CASE UNCHANGED Fiscal!vars
  <2>1. UNCHANGED <<books, register, fetches, archive>>
    BY <1>1 DEF Fiscal!vars
  <2>2. BooksInv'
    BY <2>1 DEF FiscalInv, BooksInv, Receipted, Fiscal!Local
  <2>. QED  BY <2>1, <2>2, BooksMoveOn DEF Receipted, Fiscal!Local
<1>2. CASE Fiscal!Next
  BY <1>2, FiscalIssueKeeps, FiscalRecordKeeps, FiscalBeginKeeps, FiscalAnswerKeeps, FiscalSaveKeeps, FiscalGiveUpKeeps
     DEF Fiscal!Next
<1>. QED  BY <1>1, <1>2

LEMMA InitFiscal == Fiscal!Init => FiscalInv
<1>. SUFFICES ASSUME Fiscal!Init PROVE FiscalInv
  OBVIOUS
<1>1. MaxArchived \in Nat
  BY DocumentsAssumption DEF Fiscal!ReceiptAssumption
<1>2. BooksInv
  BY DEF Fiscal!Init, BooksInv, Fiscal!Book, Fiscal!Local, Fiscal!When
<1>3. ArchiveInv
  BY <1>1 DEF Fiscal!Init, ArchiveInv
<1>4. fetches = [m \in Manager |-> Fiscal!Idle]
  BY DEF Fiscal!Init
<1>. QED  BY <1>2, <1>3, <1>4 DEF FiscalInv, RequestInv, Fiscal!Busy

\* A matching report has every receipt it counts in the books, for good, if
\* Pergamon says when receipts were issued; no report is replaced by an older one,
\* and a second one of a period comes from managers who archived at the same time;
\* and what the register and the lookup call Verified is what a posting accepts, but for
\* a rounding (fetch_pergamon_zreport, fetch_pergamon_periodic_report,
\* compare_pergamon_invoices, get_pergamon_invoice), for any invoices, sums,
\* tolerance, managers and archive.
THEOREM PergamonIsFollowed == DocumentsSpec => []ReportsFollowPergamon
<1>. DEFINE I == part = "fiscal" => FiscalInv
<1>1. DocumentsInit => I
  BY InitFiscal DEF DocumentsInit
<1>2. I /\ [DocumentsNext]_documentVars => I'
  <2>. SUFFICES ASSUME I, [DocumentsNext]_documentVars, part' = "fiscal" PROVE FiscalInv'
    OBVIOUS
  <2>1. CASE UNCHANGED documentVars
    BY <2>1, FiscalKeeps DEF documentVars, fiscalVars, Fiscal!vars
  <2>2. CASE DocumentsNext
    <3>1. part = "fiscal"
      BY <2>2 DEF DocumentsNext
    <3>2. Fiscal!Next
      BY <2>2, <3>1 DEF DocumentsNext
    <3>. QED  BY <3>1, <3>2, FiscalKeeps
  <2>. QED  BY <2>1, <2>2
<1>3. FiscalInv => Fiscal!MatchIsComplete
  BY DEF FiscalInv, ArchiveInv, CountedInv, Fiscal!MatchIsComplete, Fiscal!Local
<1>4. FiscalInv => Fiscal!ArchiveMovesOn
  BY DEF FiscalInv, ArchiveInv, Fiscal!ArchiveMovesOn
<1>5. Fiscal!RegisterAgrees
  <2>. SUFFICES ASSUME NEW i \in FiscalInvoice, Rounding[i] = 0
                PROVE  /\ (Fiscal!RowStatus(i) = "Verified") = Fiscal!Acceptable(i)
                       /\ \A j \in FiscalInvoice : Fiscal!Verified(i, j) = (i = j /\ Fiscal!Acceptable(i))
    BY Zenon DEF Fiscal!RegisterAgrees, Fiscal!Register
  <2>1. Fiscal!Acceptable(i) = Fiscal!Near(register[i].amount, 0)
    BY Zenon DEF Fiscal!Acceptable
  <2>2. Fiscal!Near(register[i].amount, 0) \in BOOLEAN
    BY DEF Fiscal!Near
  <2>3. (Fiscal!RowStatus(i) = "Verified") = Fiscal!Near(register[i].amount, 0)
    BY <2>2, Zenon DEF Fiscal!RowStatus
  <2>4. \A j \in FiscalInvoice : Fiscal!Verified(i, j) = (i = j /\ Fiscal!Near(register[i].amount, 0))
    BY Zenon DEF Fiscal!Verified
  <2>. QED  BY <2>1, <2>3, <2>4, Zenon
<1>6. I => ReportsFollowPergamon
  BY <1>3, <1>4, <1>5, Zenon DEF ReportsFollowPergamon
<1>. QED  BY <1>1, <1>2, <1>6, PTL DEF DocumentsSpec

(***************************************************************************)
(* Induction over the natural numbers, and functions defined by it.        *)
(***************************************************************************)
LEMMA Smallest ==
    ASSUME NEW S \in SUBSET Nat, S # {}
    PROVE  \E n \in S : \A m \in S : n <= m
<1>. DEFINE T == {1..n : n \in S}
            R == StrictSubsetOrdering(Nat)
<1>1. IsWellFoundedOn(R, FiniteSubsetsOf(Nat))
  BY FS_StrictSubsetOrderingWellFounded
<1>2. T \subseteq FiniteSubsetsOf(Nat) /\ T # {}
  <2>1. \A n \in S : IsFiniteSet(1..n) /\ 1..n \subseteq Nat
    <3>1. \A n \in S : n \in Int /\ 1 \in Int
      OBVIOUS
    <3>. QED  BY <3>1, FS_Interval
  <2>. QED  BY <2>1 DEF FiniteSubsetsOf
<1>. HIDE DEF R, T
<1>3. PICK X \in T : \A Y \in T : <<Y, X>> \notin R
  BY <1>1, <1>2, WFMin
<1>4. PICK n \in S : X = 1..n
  BY DEF T
<1>5. ASSUME NEW m \in S, m < n PROVE FALSE
  <2>1. 1..m \subseteq 1..n /\ n \in 1..n /\ n \notin 1..m /\ 1..n \subseteq Nat
    BY <1>5
  <2>2. <<1..m, 1..n>> \in R /\ 1..m \in T
    BY <1>5, <2>1 DEF R, T, StrictSubsetOrdering
  <2>. QED  BY <1>3, <1>4, <2>2
<1>. QED  BY <1>5

LEMMA Inductive ==
    ASSUME NEW S \in SUBSET Nat, 0 \in S, \A n \in S : n + 1 \in S
    PROVE  S = Nat
<1>. DEFINE Bad == Nat \ S
<1>. SUFFICES ASSUME Bad # {} PROVE FALSE
  OBVIOUS
<1>1. PICK n \in Bad : \A m \in Bad : n <= m
  BY Smallest
<1>2. n # 0 /\ n - 1 \in Nat /\ n - 1 \notin Bad
  BY <1>1
<1>3. n - 1 + 1 = n
  OBVIOUS
<1>. QED  BY <1>2, <1>3

Step(step, S) == step \in [Nat \X S -> S]

\* f begins with d and goes on by the step, up to n.
Chain(f, n, d, S, step) ==
    /\ f \in [0..n -> S] /\ f[0] = d
    /\ \A k \in 0..(n - 1) : f[k + 1] = step[<<k, f[k]>>]

Agree(f, g, n) == \A k \in 0..n : f[k] = g[k]

LEMMA ChainsAgree ==
    ASSUME NEW S, NEW d \in S, NEW step, Step(step, S), NEW n \in Nat, NEW m \in Nat, n <= m,
           NEW f, NEW g, Chain(f, n, d, S, step), Chain(g, m, d, S, step)
    PROVE  Agree(f, g, n)
<1>. DEFINE Q == {k \in Nat : k <= n => f[k] = g[k]}
<1>1. 0 \in Q
  BY DEF Chain
<1>2. ASSUME NEW k \in Q PROVE k + 1 \in Q
  <2>1. ASSUME k + 1 <= n PROVE f[k + 1] = g[k + 1]
    <3>1. f[k] = g[k] /\ k \in 0..(n - 1) /\ k \in 0..(m - 1)
      BY <2>1
    <3>. QED  BY <3>1 DEF Chain
  <2>. QED  BY <2>1
<1>. HIDE DEF Q
<1>3. Q = Nat
  <2>1. Q \in SUBSET Nat
    BY DEF Q
  <2>. QED  BY <1>1, <1>2, <2>1, Inductive
<1>. QED  BY <1>3 DEF Q, Agree

LEMMA ChainsExist ==
    ASSUME NEW S, NEW d \in S, NEW step, Step(step, S), NEW n \in Nat
    PROVE  \E f : Chain(f, n, d, S, step)
<1>. DEFINE Q == {k \in Nat : \E f : Chain(f, k, d, S, step)}
<1>1. 0 \in Q
  <2>1. Chain([k \in 0..0 |-> d], 0, d, S, step)
    BY DEF Chain
  <2>. QED  BY <2>1
<1>2. ASSUME NEW k \in Q PROVE k + 1 \in Q
  <2>1. PICK f : Chain(f, k, d, S, step)
    OBVIOUS
  <2>. DEFINE g == [j \in 0..(k + 1) |-> IF j <= k THEN f[j] ELSE step[<<k, f[k]>>]]
  <2>2. f \in [0..k -> S] /\ f[k] \in S /\ <<k, f[k]>> \in Nat \X S
    BY <2>1 DEF Chain
  <2>3. g \in [0..(k + 1) -> S] /\ g[0] = d
    BY <2>1, <2>2 DEF Chain, Step
  <2>4. ASSUME NEW j \in 0..k PROVE g[j + 1] = step[<<j, g[j]>>]
    <3>1. CASE j = k
      <4>1. k \in 0..(k + 1) /\ k <= k /\ k + 1 \in 0..(k + 1) /\ ~(k + 1 <= k)
        OBVIOUS
      <4>2. g[k] = f[k] /\ g[k + 1] = step[<<k, f[k]>>]
        BY <4>1, Zenon
      <4>. QED  BY <3>1, <4>2, Zenon
    <3>2. CASE j # k
      <4>1. j \in 0..(k - 1) /\ j + 1 <= k
        BY <3>2
      <4>. QED  BY <2>1, <4>1 DEF Chain
    <3>. QED  BY <3>1, <3>2
  <2>5. Chain(g, k + 1, d, S, step)
    <3>1. (k + 1) - 1 = k
      OBVIOUS
    <3>. QED  BY <2>3, <2>4, <3>1 DEF Chain
  <2>. QED  BY <2>5
<1>. HIDE DEF Q
<1>3. Q = Nat
  <2>1. Q \in SUBSET Nat
    BY DEF Q
  <2>. QED  BY <1>1, <1>2, <2>1, Inductive
<1>. QED  BY <1>3 DEF Q

\* So what is defined from the number before it exists.
Recursive(f, d, S, step) ==
    f \in [Nat -> S] /\ f[0] = d /\ \A n \in Nat : f[n + 1] = step[<<n, f[n]>>]

LEMMA RecursionExists ==
    ASSUME NEW S, NEW d \in S, NEW step, Step(step, S)
    PROVE  \E f : Recursive(f, d, S, step)
<1>. DEFINE C == [n \in Nat |-> CHOOSE g : Chain(g, n, d, S, step)]
            f == [n \in Nat |-> C[n][n]]
<1>1. \A n \in Nat : Chain(C[n], n, d, S, step)
  BY ChainsExist
<1>. HIDE DEF C
<1>2. f \in [Nat -> S] /\ f[0] = d
  <2>1. ASSUME NEW n \in Nat PROVE C[n][n] \in S
    BY <1>1 DEF Chain
  <2>. QED  BY <1>1, <2>1 DEF Chain
<1>3. ASSUME NEW n \in Nat PROVE f[n + 1] = step[<<n, f[n]>>]
  <2>1. Chain(C[n + 1], n + 1, d, S, step) /\ Chain(C[n], n, d, S, step)
    BY <1>1
  <2>2. C[n][n] = C[n + 1][n]
    <3>1. PICK m \in Nat : m = n + 1 /\ n <= m /\ n \in 0..n
      OBVIOUS
    <3>2. PICK p : p = C[n]
      OBVIOUS
    <3>3. PICK q : q = C[n + 1]
      OBVIOUS
    <3>4. Chain(p, n, d, S, step) /\ Chain(q, m, d, S, step)
      BY <2>1, <3>1, <3>2, <3>3
    <3>5. Agree(p, q, n)
      BY <3>1, <3>4, ChainsAgree, Zenon
    <3>. QED  BY <3>1, <3>2, <3>3, <3>5 DEF Agree
  <2>3. n \in 0..((n + 1) - 1)
    OBVIOUS
  <2>. QED  BY <2>1, <2>2, <2>3 DEF Chain
<1>4. Recursive(f, d, S, step)
  <2>. HIDE DEF f
  <2>. QED  BY <1>2, <1>3 DEF Recursive
<1>. QED  BY <1>4

(***************************************************************************)
(* The calendar of RepeatedSalaries.                                       *)
(***************************************************************************)
LEMMA Calendar ==
    /\ MonthDays \in Seq(Nat \ {0}) /\ Len(MonthDays) \in Nat \ {0}
    /\ Week \in Nat \ {0} /\ Lead \in Nat /\ LastDay \in Nat /\ MaxFaults \in Nat
    /\ Begins \in [Repeated -> Nat \ {0}] /\ Ends \in [Repeated -> Nat]
    /\ Weekly \subseteq Repeated /\ Web \cap {Job} = {}
BY DocumentsAssumption DEF Salaries!DayAssumption

LEMMA MonthHasDays ==
    \A m \in Nat \ {0} : Salaries!MonthLength(m) \in Nat \ {0}
<1>. SUFFICES ASSUME NEW m \in Nat \ {0} PROVE Salaries!MonthLength(m) \in Nat \ {0}
  OBVIOUS
<1>1. (m - 1) % Len(MonthDays) \in 0..(Len(MonthDays) - 1)
  BY Calendar
<1>2. 1 + ((m - 1) % Len(MonthDays)) \in 1..Len(MonthDays)
  BY <1>1, Calendar
<1>. QED  BY <1>2, Calendar DEF Salaries!MonthLength

LEMMA MonthsFollow ==
    /\ Salaries!MonthEnd \in [Nat -> Nat] /\ Salaries!MonthEnd[0] = 0
    /\ \A m \in Nat : Salaries!MonthEnd[m + 1] = Salaries!MonthEnd[m] + Salaries!MonthLength(m + 1)
<1>. DEFINE step == [p \in Nat \X Nat |-> p[2] + Salaries!MonthLength(p[1] + 1)]
            Is(f) == f = [m \in Nat |-> IF m = 0 THEN 0 ELSE f[m - 1] + Salaries!MonthLength(m)]
<1>1. Step(step, Nat)
  BY MonthHasDays DEF Step
<1>2. PICK f \in [Nat -> Nat] : f[0] = 0 /\ \A n \in Nat : f[n + 1] = step[<<n, f[n]>>]
  <2>. HIDE DEF step
  <2>1. PICK d \in Nat : d = 0
    OBVIOUS
  <2>2. \E f : Recursive(f, d, Nat, step)
    BY <1>1, RecursionExists, Zenon
  <2>. QED  BY <2>1, <2>2 DEF Recursive
<1>3. Is(f)
  <2>1. ASSUME NEW m \in Nat \ {0} PROVE f[m] = f[m - 1] + Salaries!MonthLength(m)
    <3>1. m - 1 \in Nat /\ (m - 1) + 1 = m /\ f[m - 1] \in Nat
      OBVIOUS
    <3>2. f[m] = step[<<m - 1, f[m - 1]>>]
      BY <1>2, <3>1
    <3>. QED  BY <3>1, <3>2
  <2>. QED  BY <1>2, <2>1
<1>4. Is(Salaries!MonthEnd)
  <2>1. Salaries!MonthEnd = CHOOSE g : Is(g)
    BY Zenon DEF Salaries!MonthEnd
  <2>. HIDE DEF Is
  <2>. QED  BY <1>3, <2>1, Zenon
<1>5. ASSUME NEW g, Is(g) PROVE g \in [Nat -> Nat] /\ \A m \in Nat : g[m + 1] = g[m] + Salaries!MonthLength(m + 1)
  <2>. DEFINE Q == {m \in Nat : g[m] \in Nat}
  <2>1. 0 \in Q
    BY <1>5
  <2>2. ASSUME NEW m \in Nat PROVE g[m + 1] = g[m] + Salaries!MonthLength(m + 1)
    <3>1. m + 1 \in Nat /\ m + 1 # 0 /\ (m + 1) - 1 = m
      OBVIOUS
    <3>. QED  BY <1>5, <3>1
  <2>3. ASSUME NEW m \in Q PROVE m + 1 \in Q
    <3>1. Salaries!MonthLength(m + 1) \in Nat
      BY MonthHasDays
    <3>. QED  BY <2>2, <3>1
  <2>4. Q \in SUBSET Nat
    OBVIOUS
  <2>. HIDE DEF Q
  <2>5. Q = Nat
    BY <2>1, <2>3, <2>4, Inductive
  <2>6. \A m \in Nat : g[m] \in Nat
    BY <2>5 DEF Q
  <2>7. g = [m \in Nat |-> g[m]]
    BY <1>5, Zenon
  <2>. QED  BY <2>2, <2>6, <2>7
<1>6. Salaries!MonthEnd[0] = 0
  <2>. PICK g : g = Salaries!MonthEnd
    OBVIOUS
  <2>1. Is(g) => g[0] = 0
    OBVIOUS
  <2>. QED  BY <1>4, <2>1, Zenon
<1>. HIDE DEF Is
<1>. QED  BY <1>4, <1>5, <1>6

LEMMA EndsIncrease ==
    /\ \A m, n \in Nat : m < n => Salaries!MonthEnd[m] < Salaries!MonthEnd[n]
    /\ \A m \in Nat : m <= Salaries!MonthEnd[m]
<1>. PICK f : f = Salaries!MonthEnd
  OBVIOUS
<1>1. f \in [Nat -> Nat] /\ f[0] = 0 /\ \A m \in Nat : f[m] < f[m + 1]
  BY MonthsFollow, MonthHasDays
<1>2. ASSUME NEW m \in Nat PROVE \A n \in Nat : m < n => f[m] < f[n]
  <2>. DEFINE Q == {n \in Nat : m < n => f[m] < f[n]}
  <2>1. 0 \in Q
    OBVIOUS
  <2>2. ASSUME NEW n \in Q PROVE n + 1 \in Q
    BY <1>1
  <2>3. Q \in SUBSET Nat
    OBVIOUS
  <2>. HIDE DEF Q
  <2>4. Q = Nat
    BY <2>1, <2>2, <2>3, Inductive
  <2>. QED  BY <2>4 DEF Q
<1>3. \A m \in Nat : m <= f[m]
  <2>. DEFINE Q == {n \in Nat : n <= f[n]}
  <2>1. 0 \in Q
    BY <1>1
  <2>2. ASSUME NEW n \in Q PROVE n + 1 \in Q
    BY <1>1
  <2>3. Q \in SUBSET Nat
    OBVIOUS
  <2>. HIDE DEF Q
  <2>4. Q = Nat
    BY <2>1, <2>2, <2>3, Inductive
  <2>. QED  BY <2>4 DEF Q
<1>. QED  BY <1>2, <1>3

Dates == Nat \ {0}

InMonth(d, m) == m \in Dates /\ Salaries!MonthEnd[m - 1] < d /\ d <= Salaries!MonthEnd[m]

LEMMA MonthIsOne ==
    ASSUME NEW d \in Dates
    PROVE  /\ InMonth(d, Salaries!MonthOf(d))
           /\ \A m : InMonth(d, m) => m = Salaries!MonthOf(d)
<1>. PICK f : f = Salaries!MonthEnd
  OBVIOUS
<1>1. f \in [Nat -> Nat] /\ f[0] = 0 /\ d <= f[d] /\ \A m, n \in Nat : m < n => f[m] < f[n]
  BY MonthsFollow, EndsIncrease DEF Dates
<1>2. \E m \in 1..d : f[m - 1] < d /\ d <= f[m]
  <2>. DEFINE Over == {m \in Nat : d <= f[m]}
  <2>1. PICK m \in Over : \A n \in Over : m <= n
    BY <1>1, Smallest DEF Dates
  <2>2. m # 0 /\ m <= d /\ m \in Nat
    BY <1>1, <2>1 DEF Dates
  <2>3. m - 1 \in Nat /\ m - 1 \notin Over
    BY <2>1, <2>2
  <2>4. f[m - 1] < d /\ d <= f[m]
    BY <1>1, <2>1, <2>2, <2>3 DEF Dates
  <2>. QED  BY <2>2, <2>4 DEF Dates
<1>3. Salaries!MonthOf(d) = CHOOSE m \in 1..d : f[m - 1] < d /\ d <= f[m]
  BY Zenon DEF Salaries!MonthOf
<1>4. Salaries!MonthOf(d) \in 1..d /\ f[Salaries!MonthOf(d) - 1] < d /\ d <= f[Salaries!MonthOf(d)]
  BY <1>2, <1>3
<1>5. ASSUME NEW m, NEW n, InMonth(d, m), InMonth(d, n), m < n PROVE FALSE
  <2>1. m \in Nat /\ n - 1 \in Nat /\ m <= n - 1 /\ f[n - 1] < d /\ d <= f[m]
    BY <1>5 DEF InMonth, Dates
  <2>2. f[m] <= f[n - 1]
    BY <1>1, <2>1
  <2>. QED  BY <1>1, <2>1, <2>2 DEF Dates
<1>6. InMonth(d, Salaries!MonthOf(d))
  BY <1>4 DEF InMonth, Dates
<1>. QED  BY <1>5, <1>6 DEF InMonth, Dates

LEMMA NextIsLater ==
    ASSUME NEW e \in Repeated, NEW d \in Dates
    PROVE  /\ Salaries!NextDate(e, d) \in Dates /\ Salaries!NextDate(e, d) > d
           /\ IF e \in Weekly THEN Salaries!NextDate(e, d) = d + Week
              ELSE Salaries!MonthOf(Salaries!NextDate(e, d)) = Salaries!MonthOf(d) + 1
<1>1. CASE e \in Weekly
  BY <1>1, Calendar DEF Salaries!NextDate, Dates
<1>2. CASE e \notin Weekly
  <2>. DEFINE m == Salaries!MonthOf(d)
              f == Salaries!MonthEnd
              add == Salaries!Smaller(d - f[m - 1], Salaries!MonthLength(m + 1))
  <2>1. Salaries!NextDate(e, d) = f[m] + add
    BY <1>2, Zenon DEF Salaries!NextDate, Salaries!AddMonth
  <2>2. InMonth(d, m)
    BY MonthIsOne
  <2>. HIDE DEF m
  <2>3. m \in Nat /\ m - 1 \in Nat /\ m + 1 \in Dates /\ f[m - 1] < d /\ d <= f[m]
    BY <2>2 DEF InMonth, Dates
  <2>4. f[m] \in Nat /\ f[m - 1] \in Nat /\ f[m + 1] = f[m] + Salaries!MonthLength(m + 1)
    BY <2>3, MonthsFollow
  <2>5. Salaries!MonthLength(m + 1) \in Dates
    BY <2>3, MonthHasDays DEF Dates
  <2>6. add \in Dates /\ add <= Salaries!MonthLength(m + 1)
    BY <2>3, <2>4, <2>5 DEF Salaries!Smaller, Dates
  <2>. HIDE DEF f, add
  <2>7. f[m] + add \in Dates /\ f[m] + add > d /\ f[m] < f[m] + add /\ f[m] + add <= f[m + 1]
    BY <2>3, <2>4, <2>5, <2>6 DEF Dates
  <2>8. InMonth(f[m] + add, m + 1)
    <3>1. (m + 1) - 1 = m
      BY <2>3
    <3>. QED  BY <2>3, <2>7, <3>1 DEF InMonth, f
  <2>. QED  BY <1>2, <2>1, <2>7, <2>8, MonthIsOne DEF m
<1>. QED  BY <1>1, <1>2

LEMMA LaterFollows ==
    ASSUME NEW e \in Repeated, NEW d \in Dates
    PROVE  /\ Salaries!Later(e, d) \in [Nat -> Dates] /\ Salaries!Later(e, d)[0] = d
           /\ \A n \in Nat : Salaries!Later(e, d)[n + 1] = Salaries!NextDate(e, Salaries!Later(e, d)[n])
<1>. DEFINE step == [p \in Nat \X Dates |-> Salaries!NextDate(e, p[2])]
            Is(f) == f = [n \in Nat |-> IF n = 0 THEN d ELSE Salaries!NextDate(e, f[n - 1])]
            Good(f) == /\ f \in [Nat -> Dates] /\ f[0] = d
                       /\ \A n \in Nat : f[n + 1] = Salaries!NextDate(e, f[n])
<1>1. Step(step, Dates)
  BY NextIsLater DEF Step
<1>2. PICK f : Recursive(f, d, Dates, step)
  <2>. HIDE DEF step
  <2>. QED  BY <1>1, RecursionExists, Zenon
<1>3. Is(f)
  <2>1. ASSUME NEW n \in Nat \ {0} PROVE f[n] = Salaries!NextDate(e, f[n - 1])
    <3>1. n - 1 \in Nat /\ (n - 1) + 1 = n /\ f[n - 1] \in Dates
      BY <1>2 DEF Recursive
    <3>2. f[n] = step[<<n - 1, f[n - 1]>>]
      BY <1>2, <3>1 DEF Recursive
    <3>. QED  BY <3>1, <3>2
  <2>. QED  BY <1>2, <2>1 DEF Recursive
<1>4. Is(Salaries!Later(e, d))
  <2>1. Salaries!Later(e, d) = CHOOSE g : Is(g)
    BY Zenon DEF Salaries!Later
  <2>. HIDE DEF Is
  <2>. QED  BY <1>3, <2>1, Zenon
<1>5. ASSUME NEW g, Is(g) PROVE Good(g)
  <2>. DEFINE Q == {n \in Nat : g[n] \in Dates}
  <2>1. 0 \in Q
    BY <1>5
  <2>2. ASSUME NEW n \in Nat PROVE g[n + 1] = Salaries!NextDate(e, g[n])
    <3>1. n + 1 \in Nat /\ n + 1 # 0 /\ (n + 1) - 1 = n
      OBVIOUS
    <3>. QED  BY <1>5, <3>1
  <2>3. ASSUME NEW n \in Q PROVE n + 1 \in Q
    BY <2>2, NextIsLater
  <2>4. Q \in SUBSET Nat
    OBVIOUS
  <2>. HIDE DEF Q
  <2>5. Q = Nat
    BY <2>1, <2>3, <2>4, Inductive
  <2>6. \A n \in Nat : g[n] \in Dates
    BY <2>5 DEF Q
  <2>7. g = [n \in Nat |-> g[n]]
    BY <1>5, Zenon
  <2>8. g[0] = d
    BY <1>5
  <2>. QED  BY <2>2, <2>6, <2>7, <2>8
<1>. HIDE DEF Is
<1>6. Good(Salaries!Later(e, d))
  <2>. HIDE DEF Good
  <2>. QED  BY <1>4, <1>5, Zenon
<1>. QED  BY <1>6

\* Later dates are later, and the dates that follow the next are those that
\* follow but one.
LEMMA LaterIsLater ==
    ASSUME NEW e \in Repeated, NEW d \in Dates, NEW n \in Nat
    PROVE  /\ Salaries!Later(e, d)[n] < Salaries!Later(e, d)[n + 1]
           /\ Salaries!Later(e, d)[1] <= Salaries!Later(e, d)[n + 1]
           /\ Salaries!Later(e, d)[1] = Salaries!NextDate(e, d)
           /\ Salaries!Later(e, Salaries!NextDate(e, d))[n] = Salaries!Later(e, d)[n + 1]
<1>. DEFINE f == Salaries!Later(e, d)
            c == Salaries!NextDate(e, d)
            g == Salaries!Later(e, c)
<1>1. /\ f \in [Nat -> Dates] /\ f[0] = d
      /\ \A k \in Nat : f[k + 1] = Salaries!NextDate(e, f[k])
  BY LaterFollows
<1>2. c \in Dates
  BY NextIsLater
<1>3. /\ g \in [Nat -> Dates] /\ g[0] = c
      /\ \A k \in Nat : g[k + 1] = Salaries!NextDate(e, g[k])
  BY <1>2, LaterFollows
<1>. HIDE DEF f, g
<1>4. \A k \in Nat : f[k] < f[k + 1]
  BY <1>1, NextIsLater DEF Dates
<1>5. f[1] = c
  <2>1. 0 \in Nat /\ 0 + 1 = 1
    OBVIOUS
  <2>. QED  BY <1>1, <2>1
<1>6. f[1] <= f[n + 1]
  <2>. DEFINE Q == {k \in Nat : f[1] <= f[k + 1]}
  <2>1. 0 \in Q
    BY <1>1 DEF Dates
  <2>2. ASSUME NEW k \in Q PROVE k + 1 \in Q
    <3>1. k \in Nat /\ k + 1 \in Nat /\ f[1] <= f[k + 1]
      OBVIOUS
    <3>2. f[k + 1] < f[(k + 1) + 1] /\ f[1] \in Dates /\ f[k + 1] \in Dates /\ f[(k + 1) + 1] \in Dates
      BY <1>1, <1>4, <3>1
    <3>. QED  BY <3>1, <3>2 DEF Dates
  <2>3. Q \in SUBSET Nat
    OBVIOUS
  <2>. HIDE DEF Q
  <2>4. Q = Nat
    BY <2>1, <2>2, <2>3, Inductive
  <2>. QED  BY <2>4 DEF Q
<1>7. g[n] = f[n + 1]
  <2>. DEFINE Q == {k \in Nat : g[k] = f[k + 1]}
  <2>1. 0 \in Q
    BY <1>3, <1>5
  <2>2. ASSUME NEW k \in Q PROVE k + 1 \in Q
    BY <1>1, <1>3
  <2>3. Q \in SUBSET Nat
    OBVIOUS
  <2>. HIDE DEF Q
  <2>4. Q = Nat
    BY <2>1, <2>2, <2>3, Inductive
  <2>. QED  BY <2>4 DEF Q
<1>. QED  BY <1>4, <1>5, <1>6, <1>7 DEF f, g

(***************************************************************************)
(* The inductive invariant.  A run knows the next date of an entry it      *)
(* holds, or that has not changed since it was read; no two hold the same. *)
(* On a day whose job is not over an entry may be a day behind.            *)
(***************************************************************************)
SalaryRun == [pc : {"run"}, todo : SUBSET Repeated, next : [Repeated -> Dates],
              new : SUBSET Repeated, old : SUBSET Repeated]

Following(e) == Salaries!NextDate(e, Salaries!LastDate(e))

ChainInv ==
    /\ copies \in [Repeated -> Seq(Dates)]
    /\ \A e \in Repeated : \A i \in 1..Len(copies[e]) :
          copies[e][i] = Salaries!NextDate(e, IF i = 1 THEN Begins[e] ELSE copies[e][i - 1])

HoldInv ==
    /\ works \in [Salaries!Worker -> SalaryRun \cup {Salaries!Idle}]
    /\ \A s \in Salaries!Worker : Salaries!In(s) =>
          \A e \in Repeated : e \in works[s].new \/ e \notin works[s].old => works[s].next[e] = Following(e)
    /\ \A s, t \in Salaries!Worker : s # t /\ Salaries!In(s) /\ Salaries!In(t) =>
          works[s].new \cap works[t].new = {}

Over == ran /\ ~Salaries!In(Job)

BehindInv ==
    /\ today \in Nat /\ missed \in Nat /\ ran \in BOOLEAN /\ live \subseteq Repeated
    /\ \A e \in Salaries!Repeating : Salaries!InTime(e) =>
          /\ Salaries!Later(e, Salaries!LastDate(e))[missed + 1] >= today + Lead
          /\ Over => Salaries!Later(e, Salaries!LastDate(e))[missed + 1] > today + Lead
    /\ Salaries!In(Job) => ran /\ \A e \in Salaries!Repeating :
          e \in works[Job].todo \cup works[Job].new \/ Following(e) > today + Lead

SalaryInv == ChainInv /\ HoldInv /\ BehindInv

LEMMA SalaryRunFields ==
    \A r \in SalaryRun :
        /\ r # Salaries!Idle /\ r.todo \subseteq Repeated /\ r.next \in [Repeated -> Dates]
        /\ r.new \subseteq Repeated /\ r.old \subseteq Repeated
<1>1. Salaries!Idle.pc = "idle"
  BY DEF Salaries!Idle
<1>. QED  BY <1>1 DEF SalaryRun

LEMMA JobIsWorker == Job \in Salaries!Worker
BY DEF Salaries!Worker

LEMMA LastIsDate ==
    ASSUME ChainInv, NEW e \in Repeated
    PROVE  Salaries!LastDate(e) \in Dates /\ Following(e) \in Dates
<1>1. Salaries!LastDate(e) \in Dates
  BY Calendar DEF ChainInv, Salaries!LastDate, Dates
<1>. QED  BY <1>1, NextIsLater DEF Following

\* What others have changed.
OldRun(r, changed) == [r EXCEPT !.old = r.old \cup changed]

LEMMA OldRunFields ==
    ASSUME NEW r \in SalaryRun, NEW changed \in SUBSET Repeated, NEW q, q = OldRun(r, changed)
    PROVE  /\ q \in SalaryRun /\ q.todo = r.todo /\ q.next = r.next /\ q.new = r.new
           /\ q.old = r.old \cup changed
BY DEF OldRun, SalaryRun

LEMMA OutdatedRuns ==
    ASSUME NEW runs \in [Salaries!Worker -> SalaryRun \cup {Salaries!Idle}],
           NEW changed \in SUBSET Repeated, NEW w, w = Salaries!Outdated(runs, changed)
    PROVE  /\ w \in [Salaries!Worker -> SalaryRun \cup {Salaries!Idle}]
           /\ \A t \in Salaries!Worker :
                 /\ (w[t] # Salaries!Idle) = (runs[t] # Salaries!Idle)
                 /\ runs[t] # Salaries!Idle =>
                       /\ w[t].todo = runs[t].todo /\ w[t].next = runs[t].next
                       /\ w[t].new = runs[t].new /\ w[t].old = runs[t].old \cup changed
<1>1. w = [t \in Salaries!Worker |-> IF runs[t] = Salaries!Idle THEN Salaries!Idle ELSE OldRun(runs[t], changed)]
  BY Zenon DEF Salaries!Outdated, OldRun
<1>2. ASSUME NEW t \in Salaries!Worker, runs[t] # Salaries!Idle
      PROVE  /\ w[t] \in SalaryRun /\ w[t] # Salaries!Idle
             /\ w[t].todo = runs[t].todo /\ w[t].next = runs[t].next
             /\ w[t].new = runs[t].new /\ w[t].old = runs[t].old \cup changed
  <2>1. runs[t] \in SalaryRun /\ w[t] = OldRun(runs[t], changed)
    BY <1>1, <1>2
  <2>. QED  BY <2>1, OldRunFields, SalaryRunFields
<1>3. \A t \in Salaries!Worker : runs[t] = Salaries!Idle => w[t] = Salaries!Idle
  BY <1>1
<1>. QED  BY <1>1, <1>2, <1>3

LEMMA SalaryBeginKeeps ==
    ASSUME SalaryInv, NEW s \in Salaries!Worker, Salaries!Begin(s)
    PROVE  SalaryInv'
<1>. DEFINE r == [pc |-> "run", todo |-> {e \in Salaries!Repeating : Salaries!Due(e)},
                  next |-> [e \in Repeated |-> Following(e)], new |-> {}, old |-> {}]
<1>1. /\ ~Salaries!In(s) /\ (s = Job => ~ran) /\ works' = [works EXCEPT ![s] = r]
      /\ ran' = (ran \/ s = Job) /\ UNCHANGED <<today, live, copies, missed>>
  BY Zenon DEF Salaries!Begin, Following
<1>2. PICK q : q = r
  OBVIOUS
<1>3. Salaries!Repeating \subseteq Repeated
  BY DEF SalaryInv, BehindInv, Salaries!Repeating
<1>4. [e \in Repeated |-> Following(e)] \in [Repeated -> Dates]
  BY LastIsDate DEF SalaryInv
<1>5. q \in SalaryRun
  BY <1>2, <1>3, <1>4, Zenon DEF SalaryRun
<1>6. /\ q.todo = {e \in Salaries!Repeating : Salaries!Due(e)} /\ q.new = {} /\ q.old = {}
      /\ q.next = [e \in Repeated |-> Following(e)]
  BY <1>2, Zenon
<1>7. works' = [works EXCEPT ![s] = q]
  BY <1>1, <1>2, Zenon
<1>. HIDE DEF r
<1>8. \A e \in Repeated : Salaries!LastDate(e)' = Salaries!LastDate(e) /\ Following(e)' = Following(e)
  BY <1>1 DEF Following, Salaries!LastDate
<1>9. ChainInv'
  BY <1>1 DEF SalaryInv, ChainInv
<1>10. works' \in [Salaries!Worker -> SalaryRun \cup {Salaries!Idle}]
  BY <1>5, <1>7 DEF SalaryInv, HoldInv
<1>11. \A t \in Salaries!Worker : works'[t] = IF t = s THEN q ELSE works[t]
  BY <1>7 DEF SalaryInv, HoldInv
<1>12. HoldInv'
  BY <1>6, <1>8, <1>10, <1>11 DEF SalaryInv, HoldInv, Salaries!In
<1>13. Salaries!Repeating' = Salaries!Repeating
  BY <1>1 DEF Salaries!Repeating
<1>14. CASE s # Job
  <2>1. Salaries!In(Job)' = Salaries!In(Job) /\ ran' = ran /\ works'[Job] = works[Job]
    BY <1>1, <1>11, <1>14, JobIsWorker DEF Salaries!In, SalaryInv, BehindInv
  <2>2. BehindInv'
    BY <1>1, <1>3, <1>8, <1>13, <2>1 DEF SalaryInv, BehindInv, Over, Salaries!InTime
  <2>. QED  BY <1>9, <1>12, <2>2 DEF SalaryInv
<1>15. CASE s = Job
  <2>1. Salaries!In(Job)' /\ ran' /\ ran' \in BOOLEAN /\ works'[Job] = q
    BY <1>1, <1>5, <1>11, <1>15, SalaryRunFields DEF Salaries!In
  <2>2. ASSUME NEW e \in Salaries!Repeating PROVE e \in q.todo \/ Following(e) > today + Lead
    <3>1. Following(e) \in Nat /\ today + Lead \in Nat
      BY <1>3, LastIsDate, Calendar DEF SalaryInv, BehindInv, Dates
    <3>. QED  BY <1>6, <3>1 DEF Salaries!Due, Following
  <2>3. BehindInv'
    BY <1>1, <1>3, <1>8, <1>13, <2>1, <2>2 DEF SalaryInv, BehindInv, Over, Salaries!InTime
  <2>. QED  BY <1>9, <1>12, <2>3 DEF SalaryInv
<1>. QED  BY <1>14, <1>15

\* Nothing that BehindInv speaks of changes.
LEMMA BehindStays ==
    ASSUME SalaryInv, UNCHANGED <<today, missed, ran, copies>>, live' \subseteq live,
           Salaries!In(Job)' = Salaries!In(Job),
           Salaries!In(Job) => works'[Job].todo \cup works'[Job].new = works[Job].todo \cup works[Job].new
    PROVE  BehindInv'
<1>1. \A e : /\ Salaries!LastDate(e)' = Salaries!LastDate(e) /\ Following(e)' = Following(e)
            /\ Salaries!InTime(e)' = Salaries!InTime(e)
  BY DEF Following, Salaries!LastDate, Salaries!InTime
<1>2. Salaries!Repeating' \subseteq Salaries!Repeating
  BY DEF Salaries!Repeating
<1>. QED  BY <1>1, <1>2 DEF SalaryInv, BehindInv, Over

LEMMA MakeKeeps ==
    ASSUME SalaryInv, NEW s \in Salaries!Worker, NEW e \in Repeated, Salaries!Make(s, e)
    PROVE  SalaryInv'
<1>1. /\ Salaries!In(s) /\ e \in works[s].todo /\ Salaries!Free(s, e) /\ e \notin works[s].old
      /\ UNCHANGED <<today, live, copies, ran, missed>>
      /\ works' = [works EXCEPT ![s].todo = works[s].todo \ {e}, ![s].new = works[s].new \cup {e}]
  BY Zenon DEF Salaries!Make, Salaries!Noted
<1>2. works[s] \in SalaryRun /\ works \in [Salaries!Worker -> SalaryRun \cup {Salaries!Idle}]
  BY <1>1 DEF SalaryInv, HoldInv, Salaries!In
<1>3. PICK q : q = [works[s] EXCEPT !.todo = works[s].todo \ {e}, !.new = works[s].new \cup {e}]
  OBVIOUS
<1>4. /\ q \in SalaryRun /\ q.todo = works[s].todo \ {e} /\ q.new = works[s].new \cup {e}
      /\ q.next = works[s].next /\ q.old = works[s].old
  BY <1>2, <1>3 DEF SalaryRun
<1>5. works' = [works EXCEPT ![s] = q]
  BY <1>1, <1>2, <1>3
<1>6. \A t \in Salaries!Worker : works'[t] = IF t = s THEN q ELSE works[t]
  BY <1>2, <1>5
<1>7. \A t \in Salaries!Worker : Salaries!In(t)' = Salaries!In(t)
  BY <1>1, <1>4, <1>6, SalaryRunFields DEF Salaries!In
<1>8. \A f \in Repeated : Following(f)' = Following(f)
  BY <1>1 DEF Following, Salaries!LastDate
<1>9. \A t \in Salaries!Worker : t # s /\ Salaries!In(t) => e \notin works[t].new
  BY <1>1 DEF Salaries!Free
<1>10. works' \in [Salaries!Worker -> SalaryRun \cup {Salaries!Idle}]
  BY <1>2, <1>4, <1>5
<1>11. ASSUME NEW t \in Salaries!Worker, Salaries!In(t), NEW f \in Repeated,
              f \in works'[t].new \/ f \notin works'[t].old
       PROVE  works'[t].next[f] = Following(f)'
  BY <1>1, <1>4, <1>6, <1>8, <1>11 DEF SalaryInv, HoldInv
<1>12. ASSUME NEW t \in Salaries!Worker, NEW u \in Salaries!Worker, t # u, Salaries!In(t), Salaries!In(u)
       PROVE  works'[t].new \cap works'[u].new = {}
  BY <1>1, <1>4, <1>6, <1>9, <1>12 DEF SalaryInv, HoldInv
<1>13. HoldInv'
  BY <1>7, <1>10, <1>11, <1>12 DEF HoldInv
<1>14. ChainInv'
  BY <1>1 DEF SalaryInv, ChainInv
<1>15. Salaries!In(Job) => works'[Job].todo \cup works'[Job].new = works[Job].todo \cup works[Job].new
  BY <1>1, <1>4, <1>6, JobIsWorker, ZenonT(60)
<1>16. BehindInv'
  BY <1>1, <1>7, <1>15, JobIsWorker, BehindStays
<1>. QED  BY <1>13, <1>14, <1>16 DEF SalaryInv

\* What changed is of entries that no run holds.
LEMMA OutdatedKeeps ==
    ASSUME SalaryInv, NEW e \in Repeated, works' = Salaries!Outdated(works, {e}),
           UNCHANGED <<today, copies, ran, missed>>, live' \subseteq live
    PROVE  SalaryInv'
<1>1. works \in [Salaries!Worker -> SalaryRun \cup {Salaries!Idle}]
  BY DEF SalaryInv, HoldInv
<1>2. PICK w : w = works'
  OBVIOUS
<1>3. /\ w \in [Salaries!Worker -> SalaryRun \cup {Salaries!Idle}]
      /\ \A t \in Salaries!Worker :
            /\ (w[t] # Salaries!Idle) = (works[t] # Salaries!Idle)
            /\ works[t] # Salaries!Idle =>
                  /\ w[t].todo = works[t].todo /\ w[t].next = works[t].next
                  /\ w[t].new = works[t].new /\ w[t].old = works[t].old \cup {e}
  <2>1. {e} \in SUBSET Repeated
    OBVIOUS
  <2>. QED  BY <1>1, <1>2, <2>1, OutdatedRuns
<1>4. \A t \in Salaries!Worker : Salaries!In(t)' = Salaries!In(t)
  BY <1>2, <1>3 DEF Salaries!In
<1>5. \A f \in Repeated : Following(f)' = Following(f)
  BY DEF Following, Salaries!LastDate
<1>6. HoldInv'
  BY <1>2, <1>3, <1>4, <1>5, ZenonT(60) DEF SalaryInv, HoldInv, Salaries!In
<1>7. ChainInv'
  BY DEF SalaryInv, ChainInv
<1>8. Salaries!In(Job) => works'[Job].todo \cup works'[Job].new = works[Job].todo \cup works[Job].new
  BY <1>2, <1>3, JobIsWorker DEF Salaries!In
<1>9. BehindInv'
  BY <1>4, <1>8, JobIsWorker, BehindStays
<1>. QED  BY <1>6, <1>7, <1>9 DEF SalaryInv

LEMMA SubmitKeeps ==
    ASSUME SalaryInv, NEW e \in Repeated, Salaries!Submit(e)
    PROVE  SalaryInv'
BY OutdatedKeeps DEF Salaries!Submit

LEMMA StopKeeps ==
    ASSUME SalaryInv, NEW e \in Repeated, Salaries!Stop(e)
    PROVE  SalaryInv'
<1>1. live' = live \ {e} /\ works' = Salaries!Outdated(works, {e}) /\ UNCHANGED <<today, copies, ran, missed>>
  BY DEF Salaries!Stop
<1>2. live' \subseteq live
  BY <1>1
<1>. QED  BY <1>1, <1>2, OutdatedKeeps

LEMMA SalaryAbortKeeps ==
    ASSUME SalaryInv, NEW s \in Salaries!Worker, Salaries!Abort(s)
    PROVE  SalaryInv'
<1>1. /\ Salaries!In(s) /\ works' = [works EXCEPT ![s] = Salaries!Idle]
      /\ missed' = (IF s = Job THEN missed + 1 ELSE missed) /\ UNCHANGED <<today, live, copies, ran>>
  BY DEF Salaries!Abort
<1>2. \A t \in Salaries!Worker : works'[t] = IF t = s THEN Salaries!Idle ELSE works[t]
  BY <1>1 DEF SalaryInv, HoldInv
<1>3. \A f \in Repeated : Following(f)' = Following(f) /\ Salaries!LastDate(f)' = Salaries!LastDate(f)
  BY <1>1 DEF Following, Salaries!LastDate
<1>4. HoldInv'
  <2>1. works' \in [Salaries!Worker -> SalaryRun \cup {Salaries!Idle}]
    BY <1>1 DEF SalaryInv, HoldInv
  <2>. QED  BY <1>2, <1>3, <2>1 DEF SalaryInv, HoldInv, Salaries!In
<1>5. ChainInv'
  BY <1>1 DEF SalaryInv, ChainInv
<1>6. CASE s # Job
  <2>1. Salaries!In(Job)' = Salaries!In(Job) /\ works'[Job] = works[Job]
    BY <1>2, <1>6, JobIsWorker DEF Salaries!In
  <2>2. BehindInv'
    BY <1>1, <1>6, <2>1, BehindStays
  <2>. QED  BY <1>4, <1>5, <2>2 DEF SalaryInv
<1>7. CASE s = Job
  <2>1. ~Salaries!In(Job)' /\ missed \in Nat /\ missed' = missed + 1 /\ missed' \in Nat
    BY <1>1, <1>2, <1>7, JobIsWorker DEF Salaries!In, SalaryInv, BehindInv
  <2>2. Salaries!Repeating' = Salaries!Repeating /\ Salaries!Repeating \subseteq Repeated
    BY <1>1 DEF Salaries!Repeating, SalaryInv, BehindInv
  <2>3. ASSUME NEW e \in Salaries!Repeating, Salaries!InTime(e)
        PROVE  Salaries!Later(e, Salaries!LastDate(e))[missed' + 1] > today + Lead
    <3>. PICK f : f = Salaries!Later(e, Salaries!LastDate(e))
      OBVIOUS
    <3>1. f \in [Nat -> Dates]
      BY <2>2, LastIsDate, LaterFollows DEF SalaryInv
    <3>2. f[missed + 1] >= today + Lead
      BY <2>3 DEF SalaryInv, BehindInv
    <3>3. f[missed + 1] < f[(missed + 1) + 1]
      BY <2>1, <2>2, LastIsDate, LaterIsLater DEF SalaryInv
    <3>4. f[missed + 1] \in Nat /\ f[(missed + 1) + 1] \in Nat /\ today + Lead \in Nat
      BY <2>1, <3>1, Calendar, SMTT(60) DEF SalaryInv, BehindInv, Dates
    <3>. QED  BY <2>1, <3>2, <3>3, <3>4
  <2>4. ASSUME NEW e \in Salaries!Repeating, Salaries!InTime(e)
        PROVE  Salaries!Later(e, Salaries!LastDate(e))[missed' + 1] >= today + Lead
    <3>1. Salaries!Later(e, Salaries!LastDate(e)) \in [Nat -> Dates]
      BY <2>2, LastIsDate, LaterFollows DEF SalaryInv
    <3>2. today + Lead \in Nat
      BY Calendar DEF SalaryInv, BehindInv
    <3>3. Salaries!Later(e, Salaries!LastDate(e))[missed' + 1] \in Nat
      BY <2>1, <3>1 DEF Dates
    <3>. QED  BY <2>3, <2>4, <3>2, <3>3
  <2>5. BehindInv'
    BY <1>1, <1>3, <2>1, <2>2, <2>3, <2>4 DEF SalaryInv, BehindInv, Over, Salaries!InTime
  <2>. QED  BY <1>4, <1>5, <2>5 DEF SalaryInv
<1>. QED  BY <1>6, <1>7

\* A commit adds to the drafts of the entries the run holds.
LEMMA CommitChains ==
    ASSUME SalaryInv, NEW s \in Salaries!Worker, Salaries!Commit(s)
    PROVE  /\ ChainInv'
           /\ \A e \in Repeated :
                 /\ e \in works[s].new => Salaries!LastDate(e)' = Following(e)
                 /\ e \notin works[s].new => Salaries!LastDate(e)' = Salaries!LastDate(e)
<1>1. /\ Salaries!In(s)
      /\ copies' = [e \in Repeated |-> IF e \in works[s].new THEN Append(copies[e], works[s].next[e]) ELSE copies[e]]
  BY Zenon DEF Salaries!Commit
<1>2. ASSUME NEW e \in Repeated, e \in works[s].new
      PROVE  /\ copies'[e] = Append(copies[e], Following(e)) /\ Following(e) \in Dates
             /\ copies[e] \in Seq(Dates)
  BY <1>1, <1>2, LastIsDate DEF SalaryInv, HoldInv, ChainInv
<1>3. ASSUME NEW e \in Repeated, e \notin works[s].new PROVE copies'[e] = copies[e]
  BY <1>1, <1>3
<1>4. ASSUME NEW e \in Repeated, e \in works[s].new PROVE Salaries!LastDate(e)' = Following(e)
  BY <1>2, <1>4 DEF Salaries!LastDate
<1>5. ASSUME NEW e \in Repeated, e \notin works[s].new PROVE Salaries!LastDate(e)' = Salaries!LastDate(e)
  BY <1>3, <1>5 DEF Salaries!LastDate
<1>6. copies' \in [Repeated -> Seq(Dates)]
  <2>1. ASSUME NEW e \in Repeated PROVE copies'[e] \in Seq(Dates)
    <3>1. CASE e \in works[s].new
      BY <1>2, <3>1, SMTT(60)
    <3>2. CASE e \notin works[s].new
      BY <1>3, <3>2 DEF SalaryInv, ChainInv
    <3>. QED  BY <3>1, <3>2
  <2>. QED  BY <1>1, <2>1
<1>7. ASSUME NEW e \in Repeated, NEW i \in 1..Len(copies'[e])
      PROVE  copies'[e][i] = Salaries!NextDate(e, IF i = 1 THEN Begins[e] ELSE copies'[e][i - 1])
  <2>. DEFINE c == copies[e]
  <2>0. c \in Seq(Dates) /\ \A j \in 1..Len(c) : c[j] = Salaries!NextDate(e, IF j = 1 THEN Begins[e] ELSE c[j - 1])
    BY DEF SalaryInv, ChainInv
  <2>1. CASE e \notin works[s].new
    BY <1>3, <1>7, <2>0, <2>1
  <2>2. CASE e \in works[s].new
    <3>1. copies'[e] = Append(c, Following(e))
      BY <1>2, <2>2
    <3>. HIDE DEF c
    <3>2. CASE i <= Len(c)
      <4>1. copies'[e][i] = c[i] /\ (i # 1 => copies'[e][i - 1] = c[i - 1]) /\ i \in 1..Len(c)
        BY <1>7, <2>0, <3>1, <3>2
      <4>. QED  BY <2>0, <4>1
    <3>3. CASE ~(i <= Len(c))
      <4>1. i = Len(c) + 1 /\ copies'[e][i] = Following(e) /\ (i # 1 => copies'[e][i - 1] = c[i - 1])
        BY <1>7, <2>0, <3>1, <3>3
      <4>2. Salaries!LastDate(e) = IF i = 1 THEN Begins[e] ELSE c[i - 1]
        BY <2>0, <4>1 DEF Salaries!LastDate, c
      <4>. QED  BY <4>1, <4>2 DEF Following
    <3>. QED  BY <3>2, <3>3
  <2>. QED  BY <2>1, <2>2
<1>. QED  BY <1>4, <1>5, <1>6, <1>7 DEF ChainInv

LEMMA SalaryCommitKeeps ==
    ASSUME SalaryInv, NEW s \in Salaries!Worker, Salaries!Commit(s)
    PROVE  SalaryInv'
<1>. DEFINE new == works[s].new
<1>1. /\ Salaries!In(s) /\ works[s].todo = {} /\ UNCHANGED <<today, live, ran, missed>>
      /\ works' = Salaries!Outdated([works EXCEPT ![s] = Salaries!Idle], new)
  BY Zenon DEF Salaries!Commit
<1>2. /\ works[s] \in SalaryRun /\ new \in SUBSET Repeated
      /\ works \in [Salaries!Worker -> SalaryRun \cup {Salaries!Idle}]
  BY <1>1, SalaryRunFields DEF SalaryInv, HoldInv, Salaries!In
<1>3. PICK runs : runs = [works EXCEPT ![s] = Salaries!Idle]
  OBVIOUS
<1>4. /\ runs \in [Salaries!Worker -> SalaryRun \cup {Salaries!Idle}]
      /\ \A t \in Salaries!Worker : runs[t] = IF t = s THEN Salaries!Idle ELSE works[t]
  BY <1>2, <1>3
<1>5. PICK w : w = works'
  OBVIOUS
<1>. HIDE DEF new
<1>6. /\ w \in [Salaries!Worker -> SalaryRun \cup {Salaries!Idle}]
      /\ \A t \in Salaries!Worker :
            /\ (w[t] # Salaries!Idle) = (runs[t] # Salaries!Idle)
            /\ runs[t] # Salaries!Idle =>
                  /\ w[t].todo = runs[t].todo /\ w[t].next = runs[t].next
                  /\ w[t].new = runs[t].new /\ w[t].old = runs[t].old \cup new
  <2>1. w = Salaries!Outdated(runs, new)
    BY <1>1, <1>3, <1>5
  <2>. QED  BY <1>2, <1>4, <2>1, OutdatedRuns
<1>7. ~Salaries!In(s)' /\ \A t \in Salaries!Worker : t # s => Salaries!In(t)' = Salaries!In(t)
  BY <1>4, <1>5, <1>6 DEF Salaries!In
<1>8. \A t \in Salaries!Worker : Salaries!In(t)' =>
         /\ t # s /\ Salaries!In(t)
         /\ works'[t].todo = works[t].todo /\ works'[t].next = works[t].next
         /\ works'[t].new = works[t].new /\ works'[t].old = works[t].old \cup new
  BY <1>4, <1>5, <1>6, <1>7 DEF Salaries!In
<1>9. \A e \in Repeated : e \notin new =>
         Salaries!LastDate(e)' = Salaries!LastDate(e) /\ Following(e)' = Following(e)
  BY CommitChains DEF Following, new
<1>10. HoldInv'
  <2>1. ASSUME NEW t \in Salaries!Worker, Salaries!In(t)', NEW e \in Repeated,
               e \in works'[t].new \/ e \notin works'[t].old
        PROVE  works'[t].next[e] = Following(e)'
    <3>1. e \notin new
      BY <1>1, <1>8, <2>1, ZenonT(60) DEF SalaryInv, HoldInv, new
    <3>. QED  BY <1>8, <1>9, <2>1, <3>1 DEF SalaryInv, HoldInv
  <2>2. ASSUME NEW t \in Salaries!Worker, NEW u \in Salaries!Worker, t # u, Salaries!In(t)', Salaries!In(u)'
        PROVE  works'[t].new \cap works'[u].new = {}
    BY <1>8, <2>2 DEF SalaryInv, HoldInv
  <2>3. works' \in [Salaries!Worker -> SalaryRun \cup {Salaries!Idle}]
    BY <1>5, <1>6
  <2>. QED  BY <2>1, <2>2, <2>3 DEF HoldInv
<1>11. Salaries!Repeating' = Salaries!Repeating /\ Salaries!Repeating \subseteq Repeated
  BY <1>1 DEF Salaries!Repeating, SalaryInv, BehindInv
<1>12. today + Lead \in Nat /\ missed + 1 \in Nat /\ missed \in Nat
  BY Calendar DEF SalaryInv, BehindInv
<1>13. ASSUME NEW e \in Repeated
       PROVE  /\ Salaries!LastDate(e) \in Dates /\ Salaries!LastDate(e)' \in Dates
              /\ Following(e) \in Dates /\ Following(e)' \in Dates
              /\ Following(e)' >= Following(e)
  <2>1. /\ Salaries!LastDate(e) \in Dates /\ Following(e) \in Dates
    BY LastIsDate DEF SalaryInv
  <2>2. CASE e \in new
    <3>1. Salaries!LastDate(e)' = Following(e) /\ Following(e)' = Salaries!NextDate(e, Following(e))
      BY <2>2, CommitChains DEF Following, new
    <3>. QED  BY <2>1, <3>1, NextIsLater DEF Dates
  <2>3. CASE e \notin new
    BY <1>9, <2>1, <2>3 DEF Dates
  <2>. QED  BY <2>2, <2>3
<1>14. ASSUME NEW e \in Salaries!Repeating, Salaries!InTime(e)
       PROVE  /\ Salaries!Later(e, Salaries!LastDate(e)')[missed + 1] >= today + Lead
              /\ (Over \/ s = Job) => Salaries!Later(e, Salaries!LastDate(e)')[missed + 1] > today + Lead
  <2>. PICK f : f = Salaries!Later(e, Salaries!LastDate(e))
    OBVIOUS
  <2>. PICK g : g = Salaries!Later(e, Salaries!LastDate(e)')
    OBVIOUS
  <2>1. e \in Repeated /\ f \in [Nat -> Dates] /\ g \in [Nat -> Dates]
    BY <1>11, <1>13, LaterFollows
  <2>2. f[missed + 1] \in Nat /\ f[(missed + 1) + 1] \in Nat /\ g[missed + 1] \in Nat
    BY <1>12, <2>1 DEF Dates
  <2>3. f[missed + 1] >= today + Lead /\ (Over => f[missed + 1] > today + Lead)
    BY <1>14 DEF SalaryInv, BehindInv
  <2>4. f[missed + 1] < f[(missed + 1) + 1] /\ Following(e) <= f[missed + 1]
    BY <1>12, <1>13, <2>1, LaterIsLater DEF Following
  <2>5. CASE e \in new
    <3>1. Salaries!LastDate(e)' = Salaries!NextDate(e, Salaries!LastDate(e))
      BY <2>1, <2>5, CommitChains DEF Following, new
    <3>2. g[missed + 1] = f[(missed + 1) + 1]
      BY <1>12, <1>13, <2>1, <3>1, LaterIsLater
    <3>. QED  BY <1>12, <2>2, <2>3, <2>4, <3>2
  <2>6. CASE e \notin new
    <3>1. g = f
      BY <1>9, <2>1, <2>6
    <3>2. s = Job => Following(e) > today + Lead
      BY <1>1, <1>14, <2>6 DEF SalaryInv, BehindInv, new
    <3>3. s = Job => f[missed + 1] > today + Lead
      BY <1>12, <1>13, <2>1, <2>2, <2>4, <3>2 DEF Dates
    <3>. QED  BY <2>3, <3>1, <3>3
  <2>. QED  BY <2>5, <2>6
<1>15. BehindInv'
  <2>1. Over' => Over \/ s = Job
    BY <1>1, <1>7, JobIsWorker DEF Over
  <2>2. ASSUME NEW e \in Salaries!Repeating', Salaries!InTime(e)'
        PROVE  /\ Salaries!Later(e, Salaries!LastDate(e))[missed + 1]' >= today' + Lead
               /\ Over' => Salaries!Later(e, Salaries!LastDate(e))[missed + 1]' > today' + Lead
    <3>1. Salaries!InTime(e)
      BY <2>2 DEF Salaries!InTime
    <3>. QED  BY <1>1, <1>11, <1>14, <2>1, <3>1
  <2>3. ASSUME Salaries!In(Job)', NEW e \in Salaries!Repeating'
        PROVE  e \in works'[Job].todo \cup works'[Job].new \/ Following(e)' > today' + Lead
    <3>1. e \in works[Job].todo \cup works[Job].new \/ Following(e) > today + Lead
      BY <1>8, <1>11, <2>3, JobIsWorker DEF SalaryInv, BehindInv
    <3>2. Following(e) > today + Lead => Following(e)' > today' + Lead
      BY <1>1, <1>11, <1>12, <1>13, <2>3 DEF Dates
    <3>. QED  BY <1>8, <2>3, <3>1, <3>2, JobIsWorker
  <2>4. Salaries!In(Job)' => ran'
    BY <1>1, <1>8, JobIsWorker DEF SalaryInv, BehindInv
  <2>. QED  BY <1>1, <2>2, <2>3, <2>4 DEF SalaryInv, BehindInv
<1>. QED  BY <1>10, <1>15, CommitChains DEF SalaryInv

LEMMA RestKeeps ==
    ASSUME SalaryInv, UNCHANGED <<today, live, copies, works, ran, missed>>
    PROVE  SalaryInv'
<1>1. \A e : Following(e)' = Following(e)
  BY DEF Following, Salaries!LastDate
<1>2. \A t : Salaries!In(t)' = Salaries!In(t)
  BY DEF Salaries!In
<1>3. ChainInv' /\ HoldInv'
  BY <1>1, <1>2 DEF SalaryInv, ChainInv, HoldInv
<1>4. BehindInv'
  BY <1>2, BehindStays
<1>. QED  BY <1>3, <1>4 DEF SalaryInv

LEMMA TomorrowKeeps ==
    ASSUME SalaryInv, Salaries!Tomorrow
    PROVE  SalaryInv'
<1>1. /\ ran /\ ~Salaries!In(Job) /\ today' = today + 1 /\ ran' = FALSE
      /\ UNCHANGED <<live, copies, works, missed>>
  BY DEF Salaries!Tomorrow
<1>2. \A e : /\ Following(e)' = Following(e) /\ Salaries!LastDate(e)' = Salaries!LastDate(e)
            /\ Salaries!InTime(e)' = Salaries!InTime(e)
  BY <1>1 DEF Following, Salaries!LastDate, Salaries!InTime
<1>3. \A t : Salaries!In(t)' = Salaries!In(t)
  BY <1>1 DEF Salaries!In
<1>4. ChainInv' /\ HoldInv'
  BY <1>1, <1>2, <1>3 DEF SalaryInv, ChainInv, HoldInv
<1>5. today \in Nat /\ today + 1 \in Nat /\ missed + 1 \in Nat /\ live \subseteq Repeated
  BY DEF SalaryInv, BehindInv
<1>6. Salaries!Repeating' \subseteq Salaries!Repeating /\ Salaries!Repeating \subseteq Repeated
  BY <1>1, <1>5, Calendar DEF Salaries!Repeating
<1>7. ASSUME NEW e \in Salaries!Repeating, Salaries!InTime(e)
      PROVE  Salaries!Later(e, Salaries!LastDate(e))[missed + 1] >= (today + 1) + Lead
  <2>1. Salaries!Later(e, Salaries!LastDate(e))[missed + 1] > today + Lead
    BY <1>1, <1>7 DEF SalaryInv, BehindInv, Over
  <2>2. Salaries!Later(e, Salaries!LastDate(e)) \in [Nat -> Dates]
    BY <1>6, LastIsDate, LaterFollows DEF SalaryInv
  <2>3. Salaries!Later(e, Salaries!LastDate(e))[missed + 1] \in Nat
    BY <1>5, <2>2 DEF Dates
  <2>. QED  BY <1>5, <2>1, <2>3, Calendar
<1>8. BehindInv'
  <2>1. ASSUME NEW e \in Salaries!Repeating', Salaries!InTime(e)'
        PROVE  (Salaries!Later(e, Salaries!LastDate(e))[missed + 1])' >= today' + Lead
    BY <1>1, <1>2, <1>6, <1>7, <2>1
  <2>. QED  BY <1>1, <1>3, <1>5, <2>1 DEF SalaryInv, BehindInv, Over
<1>. QED  BY <1>4, <1>8 DEF SalaryInv

LEMMA SalariesKeep == SalaryInv /\ [Salaries!Next]_(Salaries!vars) => SalaryInv'
<1>. SUFFICES ASSUME SalaryInv, [Salaries!Next]_(Salaries!vars) PROVE SalaryInv'
  OBVIOUS
<1>1. CASE UNCHANGED Salaries!vars
  BY <1>1, RestKeeps DEF Salaries!vars
<1>2. CASE Salaries!Next
  <2>1. ASSUME NEW s \in Salaries!Worker, NEW e \in Repeated, Salaries!Make(s, e) PROVE SalaryInv'
    BY <2>1, MakeKeeps
  <2>2. ASSUME NEW s \in Salaries!Worker, Salaries!Begin(s) \/ Salaries!Commit(s) \/ Salaries!Abort(s)
        PROVE  SalaryInv'
    BY <2>2, SalaryBeginKeeps, SalaryCommitKeeps, SalaryAbortKeeps
  <2>3. ASSUME NEW e \in Repeated, Salaries!Leave(e) PROVE SalaryInv'
    BY <2>3, RestKeeps DEF Salaries!Leave
  <2>. QED  BY <1>2, <2>1, <2>2, <2>3, SubmitKeeps, StopKeeps, TomorrowKeeps DEF Salaries!Next
<1>. QED  BY <1>1, <1>2

LEMMA InitSalaries == Salaries!Init => SalaryInv
<1>. SUFFICES ASSUME Salaries!Init PROVE SalaryInv
  OBVIOUS
<1>1. /\ today = 1 /\ live = Repeated /\ copies = [e \in Repeated |-> <<>>] /\ ran = FALSE /\ missed = 0
      /\ works = [s \in Salaries!Worker |-> Salaries!Idle]
  BY DEF Salaries!Init
<1>2. \A s \in Salaries!Worker : ~Salaries!In(s)
  BY <1>1 DEF Salaries!In
<1>3. ChainInv /\ HoldInv
  BY <1>1, <1>2 DEF ChainInv, HoldInv
<1>4. ASSUME NEW e \in Repeated, Salaries!InTime(e)
      PROVE  Salaries!Later(e, Salaries!LastDate(e))[missed + 1] >= today + Lead
  <2>1. Salaries!LastDate(e) = Begins[e] /\ Begins[e] \in Dates
    BY <1>1, Calendar DEF Salaries!LastDate, Dates
  <2>2. Salaries!Later(e, Begins[e])[1] = Salaries!NextDate(e, Begins[e])
    <3>1. 0 \in Nat
      OBVIOUS
    <3>. QED  BY <2>1, <3>1, LaterIsLater
  <2>3. Salaries!NextDate(e, Begins[e]) \in Nat /\ Salaries!NextDate(e, Begins[e]) > Lead
    BY <1>4, <2>1, NextIsLater DEF Salaries!InTime, Dates
  <2>4. missed + 1 = 1 /\ today + Lead = 1 + Lead
    BY <1>1
  <2>. QED  BY <2>1, <2>2, <2>3, <2>4, Calendar
<1>5. BehindInv
  BY <1>1, <1>2, <1>4, JobIsWorker DEF BehindInv, Over, Salaries!Repeating
<1>. QED  BY <1>3, <1>5 DEF SalaryInv

\* However runs of the job and the button overlap, fail or find entries changed, the
\* drafts of an entry are one for each week or month, none twice and none left
\* out, and after the day's run no more are lacking than there were days on which it
\* failed (generate_additional_salary_records), for any entries, calendar and
\* requests.
THEOREM EveryPeriodIsDrafted == DocumentsSpec => []PeriodsAreDrafted
<1>. DEFINE I == part = "salaries" => SalaryInv
<1>1. DocumentsInit => I
  BY InitSalaries DEF DocumentsInit
<1>2. I /\ [DocumentsNext]_documentVars => I'
  <2>. SUFFICES ASSUME I, [DocumentsNext]_documentVars, part' = "salaries" PROVE SalaryInv'
    OBVIOUS
  <2>1. CASE UNCHANGED documentVars
    BY <2>1, SalariesKeep DEF documentVars, salaryVars, Salaries!vars
  <2>2. CASE DocumentsNext
    <3>1. part = "salaries"
      BY <2>2 DEF DocumentsNext
    <3>2. Salaries!Next
      BY <2>2, <3>1 DEF DocumentsNext
    <3>. QED  BY <3>1, <3>2, SalariesKeep
  <2>. QED  BY <2>1, <2>2
<1>3. ASSUME SalaryInv PROVE Salaries!EachPeriodOnce
  <2>1. ASSUME NEW e \in Repeated, NEW i \in 1..Len(copies[e])
        PROVE  IF e \in Weekly THEN copies[e][i] = (IF i = 1 THEN Begins[e] ELSE copies[e][i - 1]) + Week
               ELSE Salaries!MonthOf(copies[e][i])
                       = Salaries!MonthOf(IF i = 1 THEN Begins[e] ELSE copies[e][i - 1]) + 1
    <3>1. PICK before : before = IF i = 1 THEN Begins[e] ELSE copies[e][i - 1]
      OBVIOUS
    <3>2. before \in Dates
      BY <1>3, <3>1, Calendar DEF SalaryInv, ChainInv, Dates
    <3>3. copies[e][i] = Salaries!NextDate(e, before)
      BY <1>3, <3>1 DEF SalaryInv, ChainInv
    <3>4. IF e \in Weekly THEN copies[e][i] = before + Week
          ELSE Salaries!MonthOf(copies[e][i]) = Salaries!MonthOf(before) + 1
      BY <3>2, <3>3, NextIsLater
    <3>. QED  BY <3>1, <3>4, Zenon
  <2>. QED  BY <2>1, Zenon DEF Salaries!EachPeriodOnce
<1>4. SalaryInv => Salaries!LacksOnlyMissed
  BY DEF SalaryInv, BehindInv, Over, Salaries!LacksOnlyMissed
<1>5. I => PeriodsAreDrafted
  BY <1>3, <1>4, Zenon DEF PeriodsAreDrafted
<1>. QED  BY <1>1, <1>2, <1>5, PTL DEF DocumentsSpec
=============================================================================
