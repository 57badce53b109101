----------------------------- MODULE BankProofs -----------------------------
(***************************************************************************)
(* Theorems about payments through banks: KcbPayments, for any number of   *)
(* batches, sources, users, saves and attempts, and StanbicPayments, for   *)
(* any number of initiations, users, kinds of answers, seconds and faults. *)
(***************************************************************************)
EXTENDS MCBanks, TLAPS


(***************************************************************************)
(* The inductive invariant.                                                *)
(***************************************************************************)
Live(b) == doc[b] \in {"draft", "submitted"}

\* A draft has a payment file.
DraftsInv == \A b \in Batches : doc[b] = "draft" => file[b] \in Version

\* What the bank was given, while nothing went wrong: one file for each
\* submitted batch and none for any other.
GivenInv ==
    /\ \A g \in given : doc[g.of] = "submitted"
    /\ \A g, h \in given : g.of = h.of => g = h

\* No source is in two live batches, or in one and in what a user still takes
\* for free.
SourcesInv ==
    /\ \A b, c \in Batches : Live(b) /\ Live(c) /\ b # c => source[b] \cap source[c] = {}
    /\ \A u \in Users, b \in Batches : Live(b) => view[u] \cap source[b] = {}

KcbInv ==
    /\ TypeOK /\ DraftsInv /\ SubmittedIsUploaded
    /\ excuse = {} => GivenInv /\ SourcesInv

LEMMA InitInv == Init => KcbInv
BY BoundAssumption
   DEF Init, KcbInv, TypeOK, DraftsInv, SubmittedIsUploaded, GivenInv, SourcesInv, Live

(***************************************************************************)
(* Making batches.                                                         *)
(***************************************************************************)
\* A step that changes only what users and sources are ready for.
LEMMA ViewStep ==
    ASSUME KcbInv, UNCHANGED <<doc, source, file, conv, attached, attempts, told, given, excuse>>,
           ready' \subseteq Sources, view' \in [Users -> SUBSET Sources],
           \A u \in Users, b \in Batches :
              Live(b) /\ view[u] \cap source[b] = {} => view'[u] \cap source[b] = {}
    PROVE  KcbInv'
<1>1. TypeOK' /\ DraftsInv' /\ SubmittedIsUploaded'
  BY DEF KcbInv, TypeOK, DraftsInv, SubmittedIsUploaded, DetailsOf
<1>2. ASSUME excuse' = {} PROVE GivenInv' /\ SourcesInv'
  BY <1>2 DEF KcbInv, GivenInv, SourcesInv, Live
<1>. QED  BY <1>1, <1>2 DEF KcbInv

LEMMA SubmitSourceKeeps ==
    ASSUME KcbInv, NEW s \in Sources, SubmitSource(s)
    PROVE  KcbInv'
BY ViewStep DEF SubmitSource, KcbInv, TypeOK

LEMMA StartMakingKeeps ==
    ASSUME KcbInv, NEW u \in Users, StartMaking(u)
    PROVE  KcbInv'
<1>1. PICK sel \in Selection :
         sel \cap Existing = {} /\ sel \subseteq ready /\ view' = [view EXCEPT ![u] = sel]
  BY DEF StartMaking
<1>2. sel \subseteq Sources /\ view' \in [Users -> SUBSET Sources]
  BY <1>1 DEF KcbInv, TypeOK
<1>3. ASSUME NEW v \in Users, NEW b \in Batches, Live(b), view[v] \cap source[b] = {}
      PROVE  view'[v] \cap source[b] = {}
  <2>1. source[b] \subseteq Existing
    BY <1>3 DEF Existing, Live
  <2>2. CASE v = u
    BY <1>1, <2>1, <2>2 DEF KcbInv, TypeOK
  <2>3. CASE v # u
    BY <1>1, <1>3, <2>3 DEF KcbInv, TypeOK
  <2>. QED  BY <2>2, <2>3
<1>4. UNCHANGED <<doc, source, file, conv, attached, attempts, told, given, excuse>>
      /\ ready' \subseteq Sources
  BY DEF StartMaking, KcbInv, TypeOK
<1>. QED  BY <1>2, <1>3, <1>4, ViewStep

LEMMA GiveUpMakingKeeps ==
    ASSUME KcbInv, NEW u \in Users, GiveUpMaking(u)
    PROVE  KcbInv'
<1>1. view' = [view EXCEPT ![u] = {}] /\ view' \in [Users -> SUBSET Sources]
  BY DEF GiveUpMaking, KcbInv, TypeOK
<1>2. \A v \in Users : view'[v] \subseteq view[v]
  BY <1>1 DEF KcbInv, TypeOK
<1>3. UNCHANGED <<doc, source, file, conv, attached, ready, attempts, told, given, excuse>>
      /\ ready \subseteq Sources
  BY DEF GiveUpMaking, KcbInv, TypeOK
<1>. QED  BY <1>1, <1>2, <1>3, ViewStep

LEMMA FinishMakingKeeps ==
    ASSUME KcbInv, NEW u \in Users, FinishMaking(u)
    PROVE  KcbInv'
<1>1. PICK b \in Absent :
         /\ doc' = [doc EXCEPT ![b] = "draft"]
         /\ source' = [source EXCEPT ![b] = view[u]]
         /\ file' = [file EXCEPT ![b] = 1]
         /\ attached' = [attached EXCEPT ![b] = {1, Summary}]
  BY DEF FinishMaking
<1>2. /\ view' = [view EXCEPT ![u] = {}] /\ UNCHANGED <<conv, ready, attempts, told, given>>
      /\ excuse' = excuse \cup (IF \E v \in Users \ {u} : view[v] \cap view[u] # {}
                                THEN {"makers overlapped"} ELSE {})
  BY DEF FinishMaking
<1>3. b \in Batches /\ doc[b] = "absent" /\ 1 \in Version
  BY BoundAssumption DEF Absent, Version
<1>4. TypeOK'
  <2>1. excuse' \subseteq Excuse
    BY <1>2 DEF KcbInv, TypeOK, Excuse
  <2>2. /\ doc' \in [Batches -> {"absent", "draft", "submitted", "cancelled", "deleted"}]
        /\ source' \in [Batches -> SUBSET Sources]
        /\ view' \in [Users -> SUBSET Sources]
        /\ attached' \in [Batches -> SUBSET (Version \cup {Summary})]
    BY <1>1, <1>2, <1>3 DEF KcbInv, TypeOK
  <2>3. file' \in [Batches -> 0..MaxSaves]
    BY <1>1, <1>3 DEF KcbInv, TypeOK, Version
  <2>. QED  BY <1>2, <2>1, <2>2, <2>3 DEF KcbInv, TypeOK
<1>5. \A c \in Batches : c # b => doc'[c] = doc[c] /\ file'[c] = file[c] /\ source'[c] = source[c]
  BY <1>1 DEF KcbInv, TypeOK
<1>6. doc'[b] = "draft" /\ file'[b] = 1 /\ source'[b] = view[u]
  BY <1>1, <1>3 DEF KcbInv, TypeOK
<1>7. DraftsInv'
  BY <1>3, <1>5, <1>6 DEF KcbInv, DraftsInv, Version
<1>8. SubmittedIsUploaded'
  <2>1. ASSUME NEW c \in Batches, doc'[c] = "submitted"
        PROVE  /\ [of |-> c, conv |-> conv'[c], file |-> file'[c]] \in told'
               /\ \E g \in given' : g.of = c /\ g.conv = conv'[c] /\ g.file = file'[c]
    <3>1. c # b
      BY <1>6, <2>1
    <3>2. doc[c] = "submitted" /\ conv'[c] = conv[c] /\ file'[c] = file[c]
      BY <1>2, <1>5, <2>1, <3>1
    <3>. QED  BY <1>2, <3>2 DEF KcbInv, SubmittedIsUploaded, DetailsOf
  <2>. QED  BY <2>1 DEF SubmittedIsUploaded, DetailsOf
<1>9. ASSUME excuse' = {} PROVE GivenInv' /\ SourcesInv'
  <2>1. excuse = {} /\ \A v \in Users \ {u} : view[v] \cap view[u] = {}
    BY <1>2, <1>9
  <2>2. GivenInv /\ SourcesInv
    BY <2>1 DEF KcbInv
  <2>3. GivenInv'
    BY <1>2, <1>3, <1>5, <2>2 DEF GivenInv, KcbInv, TypeOK, Upload
  <2>4. \A v \in Users : view'[v] = IF v = u THEN {} ELSE view[v]
    BY <1>2 DEF KcbInv, TypeOK
  <2>5. \A c \in Batches : c # b => (Live(c)' <=> Live(c))
    BY <1>5 DEF Live
  <2>6. ASSUME NEW c \in Batches, NEW e \in Batches, Live(c)', Live(e)', c # e
        PROVE  source'[c] \cap source'[e] = {}
    BY <1>5, <1>6, <2>2, <2>5, <2>6 DEF SourcesInv
  <2>7. ASSUME NEW v \in Users, NEW c \in Batches, Live(c)'
        PROVE  view'[v] \cap source'[c] = {}
    <3>1. CASE v = u
      BY <2>4, <3>1
    <3>2. CASE v # u /\ c = b
      BY <1>6, <2>1, <2>4, <3>2
    <3>3. CASE v # u /\ c # b
      BY <1>5, <2>2, <2>4, <2>5, <2>7, <3>3 DEF SourcesInv
    <3>. QED  BY <3>1, <3>2, <3>3
  <2>. QED  BY <2>3, <2>6, <2>7 DEF SourcesInv
<1>. QED  BY <1>4, <1>7, <1>8, <1>9 DEF KcbInv

(***************************************************************************)
(* Documents.                                                              *)
(***************************************************************************)
\* A draft's files: nothing of a submitted batch changes.
LEMMA DraftKeeps ==
    ASSUME KcbInv, NEW b \in Batches, Save(b) \/ Attach(b)
    PROVE  KcbInv'
<1>1. /\ doc[b] = "draft"
      /\ UNCHANGED <<doc, source, conv, ready, view, attempts, told, given, excuse>>
      /\ \A c \in Batches : c # b => file'[c] = file[c]
  BY DEF Save, Attach, KcbInv, TypeOK
<1>2. file' \in [Batches -> 0..MaxSaves] /\ file'[b] \in Version
      /\ attached' \in [Batches -> SUBSET (Version \cup {Summary})]
  <2>0. file[b] \in Version /\ file \in [Batches -> 0..MaxSaves]
        /\ attached \in [Batches -> SUBSET (Version \cup {Summary})]
    BY <1>1 DEF KcbInv, TypeOK, DraftsInv
  <2>1. CASE Save(b)
    <3>1. file[b] + 1 \in Version /\ file[b] + 1 \in 0..MaxSaves
      BY <2>0, <2>1, BoundAssumption DEF Save, Version
    <3>. QED  BY <2>0, <2>1, <3>1 DEF Save
  <2>2. CASE Attach(b)
    BY <2>0, <2>2 DEF Attach
  <2>. QED  BY <2>1, <2>2
<1>3. TypeOK' /\ DraftsInv'
  BY <1>1, <1>2 DEF KcbInv, TypeOK, DraftsInv
<1>4. SubmittedIsUploaded'
  BY <1>1 DEF KcbInv, SubmittedIsUploaded, DetailsOf
<1>5. ASSUME excuse' = {} PROVE GivenInv' /\ SourcesInv'
  BY <1>1, <1>5 DEF KcbInv, GivenInv, SourcesInv, Live
<1>. QED  BY <1>3, <1>4, <1>5 DEF KcbInv

LEMMA EndKeeps ==
    ASSUME KcbInv, NEW b \in Batches, Delete(b) \/ Cancel(b)
    PROVE  KcbInv'
<1>1. UNCHANGED <<source, file, conv, attached, ready, view, attempts, told, given>>
  BY DEF Delete, Cancel
<1>2. /\ doc'[b] \in {"deleted", "cancelled"} /\ \A c \in Batches : c # b => doc'[c] = doc[c]
      /\ doc' \in [Batches -> {"absent", "draft", "submitted", "cancelled", "deleted"}]
      /\ excuse' \subseteq Excuse
  BY DEF Delete, Cancel, KcbInv, TypeOK, Excuse
<1>3. TypeOK' /\ DraftsInv'
  BY <1>1, <1>2 DEF KcbInv, TypeOK, DraftsInv
<1>4. SubmittedIsUploaded'
  BY <1>1, <1>2 DEF KcbInv, SubmittedIsUploaded, DetailsOf
<1>5. ASSUME excuse' = {} PROVE GivenInv' /\ SourcesInv'
  <2>1. Delete(b) /\ excuse = {}
    BY <1>5 DEF Delete, Cancel
  <2>2. GivenInv /\ SourcesInv /\ doc[b] # "submitted"
    BY <2>1 DEF KcbInv, Delete
  <2>3. GivenInv'
    BY <1>1, <1>2, <2>2 DEF GivenInv, KcbInv, TypeOK, Upload
  <2>4. SourcesInv'
    BY <1>1, <1>2, <2>2 DEF SourcesInv, Live
  <2>. QED  BY <2>3, <2>4
<1>. QED  BY <1>3, <1>4, <1>5 DEF KcbInv

(***************************************************************************)
(* Submission.                                                             *)
(***************************************************************************)
LEMMA ReachesTells ==
    ASSUME KcbInv, NEW b \in Batches, Reaches(b)
    PROVE  /\ doc[b] = "draft" /\ told \subseteq told' /\ told' \subseteq Details
           /\ attempts' \in 1..MaxAttempts /\ attempts' = attempts + 1
           /\ DetailsOf(b, attempts') \in told'
           /\ UploadOf(b, attempts') \in Upload
           /\ UploadOf(b, attempts').of = b /\ UploadOf(b, attempts').conv = attempts'
           /\ UploadOf(b, attempts').file = file[b]
           /\ UploadOf(b, attempts').file \notin UploadOf(b, attempts').support
           /\ UploadOf(b, attempts').support # {}
           /\ conv \in [Batches -> 0..attempts']
<1>1. /\ doc[b] = "draft" /\ file[b] \in Version /\ attempts \in 0..MaxAttempts
      /\ attempts < MaxAttempts /\ attempts' = attempts + 1
      /\ attached[b] \subseteq Version \cup {Summary} /\ Supporting(b) # {}
      /\ told' = told \cup {DetailsOf(b, attempts')} /\ told \subseteq Details
  BY DEF Reaches, KcbInv, TypeOK, DraftsInv
<1>2. attempts' \in 1..MaxAttempts
  BY <1>1, BoundAssumption
<1>3. DetailsOf(b, attempts') \in Details
  BY <1>1, <1>2 DEF DetailsOf, Details
<1>4. UploadOf(b, attempts') \in Upload
  BY <1>1, <1>2 DEF UploadOf, Upload, Supporting
<1>5. conv \in [Batches -> 0..attempts']
  <2>1. 0..attempts \subseteq 0..attempts'
    BY <1>1, BoundAssumption
  <2>. QED  BY <2>1 DEF KcbInv, TypeOK
<1>. QED  BY <1>1, <1>2, <1>3, <1>4, <1>5 DEF UploadOf, Supporting

LEMMA SubmitKeeps ==
    ASSUME KcbInv, NEW b \in Batches, Submit(b)
    PROVE  KcbInv'
<1>. DEFINE g == UploadOf(b, attempts')
<1>1. /\ given' = given \cup {g} /\ doc' = [doc EXCEPT ![b] = "submitted"]
      /\ conv' = [conv EXCEPT ![b] = attempts']
      /\ UNCHANGED <<source, file, attached, ready, view, excuse>>
  BY DEF Submit
<1>2. /\ doc[b] = "draft" /\ told \subseteq told' /\ told' \subseteq Details
      /\ attempts' \in 1..MaxAttempts
      /\ DetailsOf(b, attempts') \in told'
      /\ g \in Upload /\ g.of = b /\ g.conv = attempts' /\ g.file = file[b]
      /\ g.file \notin g.support /\ g.support # {}
      /\ conv \in [Batches -> 0..attempts']
  BY ReachesTells DEF Submit
<1>. HIDE DEF g
<1>3. /\ doc'[b] = "submitted" /\ \A c \in Batches : c # b => doc'[c] = doc[c] /\ conv'[c] = conv[c]
      /\ conv'[b] = attempts'
  BY <1>1, <1>2 DEF KcbInv, TypeOK
<1>4. TypeOK'
  <2>1. given' \subseteq Upload /\ \A h \in given' : h.file \notin h.support /\ h.support # {}
    BY <1>1, <1>2 DEF KcbInv, TypeOK
  <2>2. conv' \in [Batches -> 0..attempts'] /\ attempts' \in 0..MaxAttempts
    <3>1. attempts' \in 0..attempts' /\ attempts' \in 0..MaxAttempts
      BY <1>2, BoundAssumption
    <3>. QED  BY <1>1, <1>2, <3>1
  <2>3. doc' \in [Batches -> {"absent", "draft", "submitted", "cancelled", "deleted"}]
    BY <1>1 DEF KcbInv, TypeOK
  <2>. QED  BY <1>1, <1>2, <2>1, <2>2, <2>3 DEF KcbInv, TypeOK
<1>5. DraftsInv'
  BY <1>1, <1>3 DEF KcbInv, DraftsInv
<1>6. SubmittedIsUploaded'
  <2>1. ASSUME NEW c \in Batches, doc'[c] = "submitted"
        PROVE  /\ [of |-> c, conv |-> conv'[c], file |-> file'[c]] \in told'
               /\ \E h \in given' : h.of = c /\ h.conv = conv'[c] /\ h.file = file'[c]
    <3>1. CASE c = b
      BY <1>1, <1>2, <1>3, <3>1 DEF DetailsOf
    <3>2. CASE c # b
      BY <1>1, <1>2, <1>3, <2>1, <3>2 DEF KcbInv, SubmittedIsUploaded, DetailsOf
    <3>. QED  BY <3>1, <3>2
  <2>. QED  BY <2>1 DEF SubmittedIsUploaded, DetailsOf
<1>7. ASSUME excuse' = {} PROVE GivenInv' /\ SourcesInv'
  <2>1. GivenInv /\ SourcesInv
    BY <1>1, <1>7 DEF KcbInv
  <2>2. \A h \in given : h.of \in Batches /\ h.of # b
    BY <1>2, <2>1 DEF GivenInv, KcbInv, TypeOK, Upload
  <2>3. GivenInv'
    BY <1>1, <1>2, <1>3, <2>1, <2>2 DEF GivenInv
  <2>4. \A c \in Batches : Live(c)' <=> Live(c)
    BY <1>2, <1>3 DEF Live
  <2>5. SourcesInv'
    BY <1>1, <2>1, <2>4 DEF SourcesInv
  <2>. QED  BY <2>3, <2>5
<1>. QED  BY <1>4, <1>5, <1>6, <1>7 DEF KcbInv

LEMMA FailKeeps ==
    ASSUME KcbInv, NEW b \in Batches, FailAfterDetails(b) \/ FailAfterUpload(b)
    PROVE  KcbInv'
<1>. DEFINE g == UploadOf(b, attempts')
<1>1. /\ given \subseteq given' /\ given' \subseteq given \cup {g}
      /\ UNCHANGED <<doc, source, file, conv, attached, ready, view>>
      /\ excuse' \subseteq Excuse
      /\ excuse' = {} => excuse = {} /\ given' = given
  BY DEF FailAfterDetails, FailAfterUpload, KcbInv, TypeOK, Excuse
<1>2. /\ told \subseteq told' /\ told' \subseteq Details
      /\ attempts' \in 1..MaxAttempts /\ conv \in [Batches -> 0..attempts']
      /\ g \in Upload /\ g.file \notin g.support /\ g.support # {}
  BY ReachesTells DEF FailAfterDetails, FailAfterUpload
<1>. HIDE DEF g
<1>3. TypeOK'
  <2>1. given' \subseteq Upload /\ \A h \in given' : h.file \notin h.support /\ h.support # {}
    BY <1>1, <1>2 DEF KcbInv, TypeOK
  <2>2. attempts' \in 0..MaxAttempts
    BY <1>2, BoundAssumption
  <2>. QED  BY <1>1, <1>2, <2>1, <2>2 DEF KcbInv, TypeOK
<1>4. DraftsInv' /\ SubmittedIsUploaded'
  BY <1>1, <1>2 DEF KcbInv, DraftsInv, SubmittedIsUploaded, DetailsOf
<1>5. ASSUME excuse' = {} PROVE GivenInv' /\ SourcesInv'
  BY <1>1, <1>5 DEF KcbInv, GivenInv, SourcesInv, Live
<1>. QED  BY <1>3, <1>4, <1>5 DEF KcbInv

LEMMA NextKeeps == KcbInv /\ [Next]_vars => KcbInv'
<1>. SUFFICES ASSUME KcbInv, [Next]_vars PROVE KcbInv'
  OBVIOUS
<1>1. CASE UNCHANGED vars
  BY <1>1, ViewStep DEF vars, KcbInv, TypeOK
<1>2. ASSUME NEW s \in Sources, SubmitSource(s) PROVE KcbInv'
  BY <1>2, SubmitSourceKeeps
<1>3. ASSUME NEW u \in Users, StartMaking(u) PROVE KcbInv'
  BY <1>3, StartMakingKeeps
<1>4. ASSUME NEW u \in Users, FinishMaking(u) PROVE KcbInv'
  BY <1>4, FinishMakingKeeps
<1>5. ASSUME NEW u \in Users, GiveUpMaking(u) PROVE KcbInv'
  BY <1>5, GiveUpMakingKeeps
<1>6. ASSUME NEW b \in Batches, Save(b) \/ Attach(b) PROVE KcbInv'
  BY <1>6, DraftKeeps
<1>7. ASSUME NEW b \in Batches, Delete(b) \/ Cancel(b) PROVE KcbInv'
  BY <1>7, EndKeeps
<1>8. ASSUME NEW b \in Batches, Submit(b) PROVE KcbInv'
  BY <1>8, SubmitKeeps
<1>9. ASSUME NEW b \in Batches, FailAfterDetails(b) \/ FailAfterUpload(b) PROVE KcbInv'
  BY <1>9, FailKeeps
<1>. QED  BY <1>1, <1>2, <1>3, <1>4, <1>5, <1>6, <1>7, <1>8, <1>9 DEF Next

LEMMA Invariance == Spec => []KcbInv
BY InitInv, NextKeeps, PTL DEF Spec

\* Every variable keeps its type; an uploaded batch never lacks a supporting
\* document other than its payment file.
THEOREM TypeCorrect == Spec => []TypeOK
<1>1. KcbInv => TypeOK
  BY DEF KcbInv
<1>. QED  BY <1>1, Invariance, PTL

\* The bank knows a submitted batch under the id and with the file the document
\* names (on_submit, send_file_details, upload_file), for any number of saves and
\* failed submissions.
THEOREM UploadedWhenSubmitted == Spec => []SubmittedIsUploaded
<1>1. KcbInv => SubmittedIsUploaded
  BY DEF KcbInv
<1>. QED  BY <1>1, Invariance, PTL

\* A source is paid twice only after makers overlapped, a batch was cancelled, or
\* an answer was lost (get_existing_payments), for any number of users.
THEOREM SourcesPaidOnce == Spec => []PaidOnce
<1>1. KcbInv => PaidOnce
  <2>. SUFFICES ASSUME KcbInv, excuse = {}, NEW g \in given, NEW h \in given,
                       source[g.of] \cap source[h.of] # {}
                PROVE  g = h
    BY DEF PaidOnce
  <2>1. g.of \in Batches /\ h.of \in Batches /\ Live(g.of) /\ Live(h.of)
    BY DEF KcbInv, GivenInv, TypeOK, Upload, Live
  <2>2. g.of = h.of
    BY <2>1 DEF KcbInv, SourcesInv
  <2>. QED  BY <2>2 DEF KcbInv, GivenInv
<1>. QED  BY <1>1, Invariance, PTL


(***************************************************************************)
(* The inductive invariant: while nothing excuses a second payment ...     *)
(***************************************************************************)
\* ... one initiation is made, and nobody makes another ...
MadeInv == \A d \in Docs : initiation[d] # "absent" => cheque = d /\ maker = {}

\* It has been submitted, whatever came then.
Out(d) == initiation[d] \notin {"absent", "draft"}

\* ... and its file is in the outbox, at the bank, or on its way between them.
FilesInv ==
    /\ \A n \in Stanbic!Second : outbox[n] # None => Out(outbox[n])
    /\ \A n, m \in Stanbic!Second : outbox[n] # None /\ outbox[m] # None => n = m
    /\ \A d \in Docs : bank[d] <= 1 /\ (bank[d] > 0 => Out(d))
    /\ sync = Stanbic!Idle => \A n \in Stanbic!Second : outbox[n] # None => bank[outbox[n]] = 0
    /\ sync # Stanbic!Idle => outbox[sync.name] = sync.of

StanbicInv == Stanbic!TypeOK /\ (pardon = {} => MadeInv /\ FilesInv)

Status == {"absent", "draft", "submitted", "cancelled", "deleted"}

(***************************************************************************)
(* Parts of the types.                                                     *)
(***************************************************************************)
AnswerType ==
    /\ answer \in [Docs -> [stored : SUBSET Kinds, flag : SUBSET Kinds, status : SUBSET Kinds]]
    /\ \A d \in Docs : /\ answer[d].flag \cup answer[d].status = answer[d].stored
                       /\ answer[d].flag \cap answer[d].status = {}

SyncType ==
    \/ sync = Stanbic!Idle
    \/ \E n \in Stanbic!Second, d \in Docs : sync = Stanbic!Put(n, d) /\ outbox[n] # None

LEMMA StanbicTypes ==
    Stanbic!TypeOK <=>
       /\ initiation \in [Docs -> Status] /\ AnswerType
       /\ cheque \in Docs \cup {None} /\ drafts \in BOOLEAN /\ maker \subseteq Payers
       /\ second \in Stanbic!Second /\ outbox \in [Stanbic!Second -> Docs \cup {None}]
       /\ SyncType
       /\ bank \in [Docs -> Nat]
       /\ inbox \subseteq Stanbic!Answer /\ todo \subseteq inbox
       /\ faults \in 0..MaxFaults /\ pardon \subseteq Stanbic!Excuse /\ lost \subseteq Docs
BY DEF Stanbic!TypeOK, Status, AnswerType, SyncType

LEMMA PutIsNotIdle ==
    ASSUME NEW n, NEW d
    PROVE  /\ Stanbic!Put(n, d) # Stanbic!Idle
           /\ Stanbic!Put(n, d).does = "put"
           /\ Stanbic!Put(n, d).name = n /\ Stanbic!Put(n, d).of = d
<1>1. Stanbic!Idle.does = "nothing" /\ Stanbic!Put(n, d).does = "put"
  BY DEF Stanbic!Put, Stanbic!Idle
<1>. QED  BY <1>1 DEF Stanbic!Put

\* The file under way.
LEMMA PutIsTyped ==
    ASSUME SyncType, sync # Stanbic!Idle
    PROVE  /\ sync.name \in Stanbic!Second /\ sync.of \in Docs /\ sync.does = "put"
           /\ outbox[sync.name] # None /\ sync = Stanbic!Put(sync.name, sync.of)
BY PutIsNotIdle DEF SyncType, Stanbic!Put

LEMMA NothingIsIdle ==
    ASSUME SyncType, sync.does = "put"
    PROVE  sync # Stanbic!Idle
BY DEF Stanbic!Idle

LEMMA FaultIsBounded == ASSUME Stanbic!TypeOK, Stanbic!Fault PROVE faults' \in 0..MaxFaults
BY StanbicAssumption
   DEF Stanbic!NoneAssumption, Stanbic!BoundAssumption, Stanbic!TypeOK, Stanbic!Fault

LEMMA InitStanbic == Stanbic!Init => StanbicInv
<1>. SUFFICES ASSUME Stanbic!Init PROVE StanbicInv
  OBVIOUS
<1>1. 1 \in Stanbic!Second /\ 0 \in 0..MaxFaults
  BY StanbicAssumption DEF Stanbic!NoneAssumption, Stanbic!BoundAssumption, Stanbic!Second
<1>2. Stanbic!TypeOK
  BY <1>1 DEF Stanbic!Init, Stanbic!TypeOK
<1>3. MadeInv /\ FilesInv
  BY DEF Stanbic!Init, MadeInv, FilesInv, Out
<1>. QED  BY <1>2, <1>3 DEF StanbicInv

(***************************************************************************)
(* Making and ending initiations.                                          *)
(***************************************************************************)
\* A step that leaves the files.
LEMMA FilesStay ==
    ASSUME Stanbic!TypeOK, FilesInv, UNCHANGED <<outbox, sync, bank>>,
           \A d \in Docs : Out(d) => Out(d)'
    PROVE  FilesInv'
<1>1. \A n \in Stanbic!Second : outbox[n] # None => outbox[n] \in Docs
  BY DEF Stanbic!TypeOK
<1>. QED  BY <1>1 DEF FilesInv, Out

\* A maker that begins past a number has an excuse.
LEMMA MakersKeep ==
    ASSUME StanbicInv, NEW u \in Payers, NEW named \in BOOLEAN,
           Stanbic!StartMaking(u, named) \/ Stanbic!GiveUpMaking(u)
    PROVE  StanbicInv'
<1>1. /\ UNCHANGED <<initiation, answer, cheque, drafts, Stanbic!fileVars, bank, faults, lost>>
      /\ maker' \subseteq Payers
      /\ pardon' \subseteq Stanbic!Excuse /\ (pardon' = {} => pardon = {})
  BY DEF Stanbic!StartMaking, Stanbic!GiveUpMaking, StanbicInv, Stanbic!TypeOK, Stanbic!Excuse
<1>2. Stanbic!TypeOK'
  BY <1>1, StanbicTypes DEF StanbicInv, Stanbic!TypeOK, Stanbic!fileVars, AnswerType, SyncType
<1>3. ASSUME pardon' = {} PROVE MadeInv' /\ FilesInv'
  <2>1. Stanbic!TypeOK /\ MadeInv /\ FilesInv
    BY <1>1, <1>3 DEF StanbicInv
  <2>2. FilesInv'
    BY <1>1, <2>1, FilesStay DEF Stanbic!fileVars, Out
  <2>3. CASE Stanbic!StartMaking(u, named)
    <3>0. Stanbic!Free
      BY <1>3, <2>3 DEF Stanbic!StartMaking
    <3>1. \A d \in Docs : initiation[d] = "absent"
      BY <2>1, <3>0, StanbicAssumption
         DEF Stanbic!NoneAssumption, Stanbic!BoundAssumption, Stanbic!Free, MadeInv
    <3>2. MadeInv'
      BY <1>1, <3>1 DEF MadeInv
    <3>. QED  BY <2>2, <3>2
  <2>4. CASE Stanbic!GiveUpMaking(u)
    <3>1. MadeInv'
      BY <1>1, <2>1, <2>4 DEF Stanbic!GiveUpMaking, MadeInv
    <3>. QED  BY <2>2, <3>1
  <2>. QED  BY <2>3, <2>4
<1>. QED  BY <1>2, <1>3 DEF StanbicInv

LEMMA InitiationIsMade ==
    ASSUME StanbicInv, NEW u \in Payers, Stanbic!FinishMaking(u)
    PROVE  StanbicInv'
<1>1. PICK d \in Stanbic!Absent : initiation' = [initiation EXCEPT ![d] = "draft"] /\ cheque' = d
  BY DEF Stanbic!FinishMaking
<1>2. /\ u \in maker /\ maker' = maker \ {u}
      /\ UNCHANGED <<answer, drafts, Stanbic!fileVars, bank, faults, lost>>
      /\ pardon' = pardon \cup (IF maker = {u} THEN {} ELSE {"makers overlapped"})
  BY DEF Stanbic!FinishMaking
<1>3. d \in Docs /\ initiation[d] = "absent" /\ initiation'[d] = "draft"
      /\ \A e \in Docs : e # d => initiation'[e] = initiation[e]
      /\ initiation' \in [Docs -> Status]
  BY <1>1 DEF Stanbic!Absent, StanbicInv, Stanbic!TypeOK, Status
<1>4. pardon' \subseteq Stanbic!Excuse
  BY <1>2 DEF StanbicInv, Stanbic!TypeOK, Stanbic!Excuse
<1>5. Stanbic!TypeOK'
  BY <1>1, <1>2, <1>3, <1>4, StanbicTypes
     DEF StanbicInv, Stanbic!TypeOK, Stanbic!fileVars, AnswerType, SyncType
<1>6. ASSUME pardon' = {} PROVE MadeInv' /\ FilesInv'
  <2>1. pardon = {} /\ maker = {u}
    BY <1>2, <1>6
  <2>2. Stanbic!TypeOK /\ MadeInv /\ FilesInv
    BY <2>1 DEF StanbicInv
  <2>3. \A e \in Docs : initiation[e] = "absent"
    BY <2>1, <2>2 DEF MadeInv
  <2>4. MadeInv'
    BY <1>1, <1>2, <1>3, <2>1, <2>3 DEF MadeInv
  <2>5. FilesInv'
    BY <1>2, <2>2, <2>3, FilesStay DEF Stanbic!fileVars, Out
  <2>. QED  BY <2>4, <2>5
<1>. QED  BY <1>5, <1>6 DEF StanbicInv

LEMMA PayrollKeeps ==
    ASSUME StanbicInv, Stanbic!SubmitSlips \/ Stanbic!RemoveNumber
    PROVE  StanbicInv'
<1>1. /\ UNCHANGED <<initiation, answer, maker, Stanbic!fileVars, bank, faults, lost>>
      /\ drafts' \in BOOLEAN /\ cheque' \in Docs \cup {None} /\ pardon' \subseteq Stanbic!Excuse
      /\ pardon' = {} => pardon = {} /\ cheque' = cheque
  BY DEF Stanbic!SubmitSlips, Stanbic!RemoveNumber, StanbicInv, Stanbic!TypeOK, Stanbic!Excuse
<1>2. Stanbic!TypeOK'
  BY <1>1, StanbicTypes DEF StanbicInv, Stanbic!TypeOK, Stanbic!fileVars, AnswerType, SyncType
<1>3. ASSUME pardon' = {} PROVE MadeInv' /\ FilesInv'
  <2>1. Stanbic!TypeOK /\ MadeInv /\ FilesInv
    BY <1>1, <1>3 DEF StanbicInv
  <2>. QED  BY <1>1, <1>3, <2>1, FilesStay DEF Stanbic!fileVars, Out, MadeInv
<1>. QED  BY <1>2, <1>3 DEF StanbicInv

LEMMA InitiationEnds ==
    ASSUME StanbicInv, NEW d \in Docs, Stanbic!Cancel(d) \/ Stanbic!Delete(d)
    PROVE  StanbicInv'
<1>1. /\ UNCHANGED <<answer, cheque, drafts, maker, Stanbic!fileVars, bank, faults, pardon, lost>>
      /\ initiation[d] # "absent" /\ initiation'[d] \in {"cancelled", "deleted"}
      /\ initiation' \in [Docs -> Status] /\ \A e \in Docs : e # d => initiation'[e] = initiation[e]
  BY DEF Stanbic!Cancel, Stanbic!Delete, StanbicInv, Stanbic!TypeOK, Status
<1>2. Stanbic!TypeOK'
  BY <1>1, StanbicTypes DEF StanbicInv, Stanbic!TypeOK, Stanbic!fileVars, AnswerType, SyncType
<1>3. ASSUME pardon' = {} PROVE MadeInv' /\ FilesInv'
  <2>1. Stanbic!TypeOK /\ MadeInv /\ FilesInv
    BY <1>1, <1>3 DEF StanbicInv
  <2>2. \A e \in Docs : Out(e) => Out(e)'
    BY <1>1 DEF Out
  <2>3. MadeInv'
    BY <1>1, <2>1 DEF MadeInv
  <2>. QED  BY <1>1, <2>1, <2>2, <2>3, FilesStay DEF Stanbic!fileVars
<1>. QED  BY <1>2, <1>3 DEF StanbicInv

(***************************************************************************)
(* The outbox.                                                             *)
(***************************************************************************)
LEMMA WritingIsTyped ==
    ASSUME Stanbic!TypeOK, NEW d \in Docs, Stanbic!WriteFile(d), sync' = sync
    PROVE  /\ second' \in Stanbic!Second /\ outbox' \in [Stanbic!Second -> Docs \cup {None}]
           /\ lost' \subseteq Docs /\ SyncType'
           /\ \E n \in Stanbic!Second : outbox' = [outbox EXCEPT ![n] = d]
<1>1. PICK n \in {second, second + 1} \cap Stanbic!Second :
         /\ second' = n /\ outbox' = [outbox EXCEPT ![n] = d]
         /\ lost' = (lost \ {d}) \cup ({outbox[n]} \ {None, d})
  BY DEF Stanbic!WriteFile
<1>2. n \in Stanbic!Second /\ outbox[n] \in Docs \cup {None} /\ lost \subseteq Docs
  BY <1>1 DEF Stanbic!TypeOK
<1>3. second' \in Stanbic!Second /\ outbox' \in [Stanbic!Second -> Docs \cup {None}] /\ lost' \subseteq Docs
  BY <1>1, <1>2 DEF Stanbic!TypeOK
<1>4. \A m \in Stanbic!Second : outbox[m] # None => outbox'[m] # None
  BY <1>1, StanbicAssumption DEF Stanbic!NoneAssumption, Stanbic!BoundAssumption, Stanbic!TypeOK
<1>5. SyncType'
  BY <1>4, StanbicTypes DEF SyncType
<1>. QED  BY <1>1, <1>2, <1>3, <1>5

LEMMA InitiationSubmits ==
    ASSUME StanbicInv, NEW d \in Docs, Stanbic!Submit(d)
    PROVE  StanbicInv'
<1>1. /\ UNCHANGED <<answer, cheque, drafts, maker, sync, inbox, todo, bank, faults, pardon>>
      /\ initiation[d] = "draft" /\ initiation'[d] = "submitted"
      /\ initiation' \in [Docs -> Status] /\ \A e \in Docs : e # d => initiation'[e] = initiation[e]
      /\ Stanbic!TypeOK
  BY DEF Stanbic!Submit, StanbicInv, Stanbic!TypeOK, Status
<1>2. /\ second' \in Stanbic!Second /\ outbox' \in [Stanbic!Second -> Docs \cup {None}]
      /\ lost' \subseteq Docs /\ SyncType'
      /\ \E n \in Stanbic!Second : outbox' = [outbox EXCEPT ![n] = d]
  BY <1>1, WritingIsTyped DEF Stanbic!Submit
<1>3. Stanbic!TypeOK'
  BY <1>1, <1>2 DEF Stanbic!TypeOK, AnswerType, SyncType, Status
<1>4. ASSUME pardon' = {} PROVE MadeInv' /\ FilesInv'
  <2>1. MadeInv /\ FilesInv
    BY <1>1, <1>4 DEF StanbicInv
  <2>2. \A e \in Docs : ~Out(e)
    BY <1>1, <2>1 DEF MadeInv, Out
  <2>3. \A n \in Stanbic!Second : outbox[n] = None
    BY <1>1, <2>1, <2>2 DEF FilesInv, Stanbic!TypeOK
  <2>4. sync = Stanbic!Idle
    BY <1>1, <2>3, StanbicTypes, PutIsTyped
  <2>5. \A e \in Docs : bank[e] = 0
    BY <1>1, <2>1, <2>2 DEF FilesInv, Stanbic!TypeOK
  <2>6. PICK n \in Stanbic!Second : outbox' = [outbox EXCEPT ![n] = d]
    BY <1>2
  <2>7. \A m \in Stanbic!Second : outbox'[m] # None => m = n /\ outbox'[m] = d
    BY <1>1, <2>3, <2>6 DEF Stanbic!TypeOK
  <2>8. Out(d)' /\ MadeInv'
    BY <1>1, <2>1 DEF Out, MadeInv
  <2>9. FilesInv'
    BY <1>1, <2>4, <2>5, <2>7, <2>8 DEF FilesInv, Out
  <2>. QED  BY <2>8, <2>9
<1>. QED  BY <1>3, <1>4 DEF StanbicInv

LEMMA SubmitRolledBackKeeps ==
    ASSUME StanbicInv, NEW d \in Docs, Stanbic!SubmitRolledBack(d)
    PROVE  StanbicInv'
<1>1. /\ UNCHANGED <<Stanbic!docVars, sync, inbox, todo, bank>> /\ Stanbic!TypeOK
      /\ faults' \in 0..MaxFaults /\ pardon' \subseteq Stanbic!Excuse /\ pardon' # {}
  BY FaultIsBounded DEF Stanbic!SubmitRolledBack, StanbicInv, Stanbic!TypeOK, Stanbic!Excuse
<1>2. /\ second' \in Stanbic!Second /\ outbox' \in [Stanbic!Second -> Docs \cup {None}]
      /\ lost' \subseteq Docs /\ SyncType'
  BY <1>1, WritingIsTyped DEF Stanbic!SubmitRolledBack
<1>3. Stanbic!TypeOK'
  BY <1>1, <1>2 DEF Stanbic!TypeOK, AnswerType, SyncType, Status, Stanbic!docVars
<1>. QED  BY <1>1, <1>3 DEF StanbicInv

LEMMA UploadKeeps ==
    ASSUME StanbicInv, Stanbic!Upload
    PROVE  StanbicInv'
<1>1. PICK n \in Stanbic!Second : /\ outbox[n] # None
                          /\ sync' = Stanbic!Put(n, outbox[n])
                          /\ bank' = [bank EXCEPT ![outbox[n]] = @ + 1]
  BY DEF Stanbic!Upload
<1>2. /\ UNCHANGED <<Stanbic!docVars, second, outbox, inbox, todo, faults, pardon, lost>>
      /\ sync = Stanbic!Idle /\ Stanbic!TypeOK
  BY DEF Stanbic!Upload, StanbicInv
<1>. DEFINE d == outbox[n]
<1>3. d \in Docs /\ bank \in [Docs -> Nat]
  BY <1>1, <1>2 DEF Stanbic!TypeOK
<1>4. bank' \in [Docs -> Nat] /\ bank'[d] = bank[d] + 1
      /\ \A e \in Docs : e # d => bank'[e] = bank[e]
  BY <1>1, <1>3
<1>5. SyncType'
  BY <1>1, <1>2, <1>3 DEF SyncType
<1>6. Stanbic!TypeOK'
  BY <1>2, <1>4, <1>5 DEF Stanbic!TypeOK, AnswerType, SyncType, Status, Stanbic!docVars
<1>7. ASSUME pardon' = {} PROVE MadeInv' /\ FilesInv'
  <2>1. MadeInv /\ FilesInv
    BY <1>2, <1>7 DEF StanbicInv
  <2>2. Out(d) /\ bank[d] = 0
    BY <1>1, <1>2, <2>1 DEF FilesInv
  <2>3. sync' # Stanbic!Idle /\ sync'.name = n /\ sync'.of = d
    BY <1>1, PutIsNotIdle
  <2>4. MadeInv'
    BY <1>2, <2>1 DEF MadeInv, Stanbic!docVars
  <2>5. \A e \in Docs : Out(e)' <=> Out(e)
    BY <1>2 DEF Out, Stanbic!docVars
  <2>6. \A e \in Docs : bank'[e] <= 1 /\ (bank'[e] > 0 => Out(e))
    BY <1>4, <2>1, <2>2 DEF FilesInv
  <2>7. \A m \in Stanbic!Second : outbox[m] # None => outbox[m] \in Docs
    BY <1>2 DEF Stanbic!TypeOK
  <2>. HIDE DEF d
  <2>8. FilesInv'
    <3>1. \A m \in Stanbic!Second :
             outbox'[m] # None => initiation'[outbox'[m]] \notin {"absent", "draft"}
      BY <1>2, <2>1 DEF FilesInv, Stanbic!docVars, Out
    <3>2. \A m, k \in Stanbic!Second : outbox'[m] # None /\ outbox'[k] # None => m = k
      BY <1>2, <2>1 DEF FilesInv
    <3>3. outbox'[sync'.name] = sync'.of
      BY <1>2, <2>3 DEF d
    <3>4. \A e \in Docs : bank'[e] <= 1 /\ (bank'[e] > 0 => Out(e)')
      BY <2>5, <2>6
    <3>. QED  BY <2>3, <3>1, <3>2, <3>3, <3>4 DEF FilesInv, Out
  <2>. QED  BY <2>4, <2>8
<1>. QED  BY <1>6, <1>7 DEF StanbicInv

LEMMA UploadedKeeps ==
    ASSUME StanbicInv, Stanbic!Uploaded
    PROVE  StanbicInv'
<1>1. /\ UNCHANGED <<Stanbic!docVars, second, inbox, todo, bank, faults, pardon>> /\ Stanbic!TypeOK
      /\ outbox' = [outbox EXCEPT ![sync.name] = None]
      /\ lost' = lost \cup ({outbox[sync.name]} \ {sync.of})
      /\ sync' = Stanbic!Idle /\ sync # Stanbic!Idle
  BY NothingIsIdle, StanbicTypes DEF Stanbic!Uploaded, Stanbic!Without, StanbicInv
<1>2. sync.name \in Stanbic!Second /\ sync.of \in Docs /\ outbox[sync.name] # None
  BY <1>1, StanbicTypes, PutIsTyped
<1>3. outbox' \in [Stanbic!Second -> Docs \cup {None}] /\ lost' \subseteq Docs /\ SyncType'
  BY <1>1, <1>2 DEF Stanbic!TypeOK, SyncType
<1>4. Stanbic!TypeOK'
  BY <1>1, <1>3 DEF Stanbic!TypeOK, AnswerType, SyncType, Status, Stanbic!docVars
<1>5. ASSUME pardon' = {} PROVE MadeInv' /\ FilesInv'
  <2>1. MadeInv /\ FilesInv
    BY <1>1, <1>5 DEF StanbicInv
  <2>2. \A m \in Stanbic!Second : outbox'[m] = None
    BY <1>1, <1>2, <2>1 DEF FilesInv, Stanbic!TypeOK
  <2>3. MadeInv'
    BY <1>1, <2>1 DEF MadeInv, Stanbic!docVars
  <2>4. FilesInv'
    BY <1>1, <2>1, <2>2 DEF FilesInv, Out, Stanbic!docVars
  <2>. QED  BY <2>3, <2>4
<1>. QED  BY <1>4, <1>5 DEF StanbicInv

LEMMA UploadCutKeeps ==
    ASSUME StanbicInv, Stanbic!UploadCut
    PROVE  StanbicInv'
<1>1. /\ UNCHANGED <<Stanbic!docVars, second, outbox, inbox, todo, bank, lost>> /\ Stanbic!TypeOK
       /\ sync' = Stanbic!Idle /\ faults' \in 0..MaxFaults
       /\ pardon' \subseteq Stanbic!Excuse /\ pardon' # {}
  BY FaultIsBounded DEF Stanbic!UploadCut, StanbicInv, Stanbic!TypeOK, Stanbic!Excuse
<1>2. SyncType'
  BY <1>1 DEF SyncType
<1>3. Stanbic!TypeOK'
  BY <1>1, <1>2 DEF Stanbic!TypeOK, AnswerType, SyncType, Status, Stanbic!docVars
<1>. QED  BY <1>1, <1>3 DEF StanbicInv

(***************************************************************************)
(* Answers.                                                                *)
(***************************************************************************)
\* Downloading and reading leave everything but the answers.
LEMMA ReadingStep ==
    ASSUME StanbicInv,
           UNCHANGED <<initiation, cheque, drafts, maker, second, outbox, sync, bank, pardon, lost>>,
           AnswerType', inbox' \subseteq Stanbic!Answer, todo' \subseteq inbox', faults' \in 0..MaxFaults
    PROVE  StanbicInv'
<1>1. Stanbic!TypeOK'
  BY DEF StanbicInv, Stanbic!TypeOK, AnswerType
<1>2. ASSUME pardon' = {} PROVE MadeInv' /\ FilesInv'
  <2>1. Stanbic!TypeOK /\ MadeInv /\ FilesInv
    BY <1>2 DEF StanbicInv
  <2>. QED  BY <2>1, FilesStay DEF MadeInv, Out
<1>. QED  BY <1>1, <1>2 DEF StanbicInv

LEMMA StoreKeeps ==
    ASSUME StanbicInv, Stanbic!Store
    PROVE  StanbicInv'
<1>1. PICK f \in todo :
         /\ Stanbic!New(f)
         /\ answer' = [answer EXCEPT ![f[1]] = Stanbic!Saved(answer[f[1]], initiation[f[1]], f[2])]
         /\ todo' = todo \ {f}
  BY DEF Stanbic!Store
<1>2. UNCHANGED <<initiation, cheque, drafts, maker, second, outbox, sync, inbox, bank, faults, pardon, lost>>
  BY DEF Stanbic!Store
<1>3. f[1] \in Docs /\ f[2] \in Kinds /\ todo' \subseteq inbox /\ inbox \subseteq Stanbic!Answer
      /\ faults \in 0..MaxFaults
  BY <1>1 DEF StanbicInv, Stanbic!TypeOK, Stanbic!Answer
<1>. DEFINE d == f[1]
            k == f[2]
            a == answer[d]
            new == Stanbic!Saved(a, initiation[d], k)
<1>4. AnswerType /\ k \notin a.stored
  BY <1>1, StanbicTypes DEF StanbicInv, Stanbic!New
<1>5. /\ a \in [stored : SUBSET Kinds, flag : SUBSET Kinds, status : SUBSET Kinds]
      /\ a.flag \cup a.status = a.stored /\ a.flag \cap a.status = {}
  BY <1>3, <1>4 DEF AnswerType
<1>6. /\ new \in [stored : SUBSET Kinds, flag : SUBSET Kinds, status : SUBSET Kinds]
      /\ new.flag \cup new.status = new.stored /\ new.flag \cap new.status = {}
  <2>. HIDE DEF a, d, k
  <2>1. CASE initiation[d] = "submitted"
    <3>1. new = [stored |-> a.stored \cup {k}, flag |-> {}, status |-> a.status \cup a.flag \cup {k}]
      BY <2>1 DEF Stanbic!Saved
    <3>. HIDE DEF new
    <3>. QED  BY <1>3, <1>5, <3>1 DEF k
  <2>2. CASE initiation[d] # "submitted"
    <3>1. new = [a EXCEPT !.stored = a.stored \cup {k}, !.flag = a.flag \cup {k}]
      BY <2>2 DEF Stanbic!Saved
    <3>. HIDE DEF new
    <3>2. /\ new \in [stored : SUBSET Kinds, flag : SUBSET Kinds, status : SUBSET Kinds]
          /\ new.stored = a.stored \cup {k} /\ new.flag = a.flag \cup {k} /\ new.status = a.status
      BY <1>3, <1>5, <3>1 DEF k
    <3>. QED  BY <1>4, <1>5, <3>2
  <2>. QED  BY <2>1, <2>2
<1>7. answer' = [answer EXCEPT ![d] = new]
  BY <1>1
<1>. HIDE DEF new, d
<1>8. AnswerType'
  BY <1>3, <1>4, <1>6, <1>7 DEF AnswerType, d
<1>. QED  BY <1>2, <1>3, <1>8, ReadingStep

LEMMA FilesOfBankKeep ==
    ASSUME StanbicInv,
           \/ Stanbic!Download \/ Stanbic!StartReading \/ Stanbic!Skip
           \/ Stanbic!StopAtCancelled \/ Stanbic!StopAtConflict
    PROVE  StanbicInv'
<1>1. /\ UNCHANGED <<Stanbic!docVars, second, outbox, sync, bank, pardon, lost>> /\ Stanbic!TypeOK
  BY DEF Stanbic!Download, Stanbic!StartReading, Stanbic!Skip,
         Stanbic!StopAtCancelled, Stanbic!StopAtConflict, StanbicInv
<1>2. inbox' \subseteq Stanbic!Answer /\ todo' \subseteq inbox'
  BY <1>1 DEF Stanbic!Download, Stanbic!StartReading, Stanbic!Skip,
              Stanbic!StopAtCancelled, Stanbic!StopAtConflict, Stanbic!TypeOK
<1>3. faults' \in 0..MaxFaults
  BY <1>1, FaultIsBounded
     DEF Stanbic!Download, Stanbic!StartReading, Stanbic!Skip,
         Stanbic!StopAtCancelled, Stanbic!StopAtConflict, Stanbic!TypeOK
<1>4. AnswerType'
  BY <1>1, StanbicTypes DEF AnswerType, Stanbic!docVars
<1>. QED  BY <1>1, <1>2, <1>3, <1>4, ReadingStep DEF Stanbic!docVars

LEMMA StanbicKeeps == StanbicInv /\ [Stanbic!Next]_stanbicVars => StanbicInv'
<1>. SUFFICES ASSUME StanbicInv, [Stanbic!Next]_stanbicVars PROVE StanbicInv'
  OBVIOUS
<1>1. CASE UNCHANGED stanbicVars
  <2>1. inbox' \subseteq Stanbic!Answer /\ todo' \subseteq inbox' /\ faults' \in 0..MaxFaults
    BY <1>1 DEF stanbicVars, StanbicInv, Stanbic!TypeOK
  <2>2. AnswerType'
    BY <1>1, StanbicTypes DEF stanbicVars, StanbicInv, AnswerType
  <2>. QED  BY <1>1, <2>1, <2>2, ReadingStep DEF stanbicVars
<1>2. CASE Stanbic!SubmitSlips \/ Stanbic!RemoveNumber
  BY <1>2, PayrollKeeps
<1>3. ASSUME NEW u \in Payers, NEW named \in BOOLEAN,
             Stanbic!StartMaking(u, named) \/ Stanbic!GiveUpMaking(u)
      PROVE  StanbicInv'
  BY <1>3, MakersKeep
<1>4. ASSUME NEW u \in Payers, Stanbic!FinishMaking(u) PROVE StanbicInv'
  BY <1>4, InitiationIsMade
<1>5. ASSUME NEW d \in Docs, Stanbic!Submit(d) PROVE StanbicInv'
  BY <1>5, InitiationSubmits
<1>6. ASSUME NEW d \in Docs, Stanbic!SubmitRolledBack(d) PROVE StanbicInv'
  BY <1>6, SubmitRolledBackKeeps
<1>7. ASSUME NEW d \in Docs, Stanbic!Cancel(d) \/ Stanbic!Delete(d) PROVE StanbicInv'
  BY <1>7, InitiationEnds
<1>8. CASE Stanbic!Upload
  BY <1>8, UploadKeeps
<1>9. CASE Stanbic!Uploaded
  BY <1>9, UploadedKeeps
<1>10. CASE Stanbic!UploadCut
  BY <1>10, UploadCutKeeps
<1>11. CASE Stanbic!Store
  BY <1>11, StoreKeeps
<1>12. CASE \/ Stanbic!Download \/ Stanbic!StartReading \/ Stanbic!Skip
           \/ Stanbic!StopAtCancelled \/ Stanbic!StopAtConflict
  BY <1>12, FilesOfBankKeep
<1>. QED  BY <1>1, <1>2, <1>3, <1>4, <1>5, <1>6, <1>7, <1>8, <1>9, <1>10, <1>11, <1>12
          DEF Stanbic!Next, Stanbic!Transfer, Stanbic!Read

LEMMA AlwaysStanbic == StanbicSpec => []StanbicInv
<1>1. MCInit => Stanbic!Init
  BY DEF MCInit
<1>2. [StanbicNext]_<<vars, stanbicVars>> => [Stanbic!Next]_stanbicVars
  BY DEF StanbicNext
<1>. QED  BY <1>1, <1>2, InitStanbic, StanbicKeeps, PTL DEF StanbicSpec

\* Every variable keeps its type; each stored answer is either flagged or in the
\* status, never both and never neither.
THEOREM InitiationsTyped == StanbicSpec => []Stanbic!TypeOK
<1>1. StanbicInv => Stanbic!TypeOK
  BY DEF StanbicInv
<1>. QED  BY <1>1, AlwaysStanbic, PTL

\* Without one of the five excuses the bank gets the payroll once
\* (make_payments_initiation, upload), for any number of users and initiations.
THEOREM PayrollReachesBankOnce == StanbicSpec => []PayrollPaidOnce
<1>1. StanbicInv => PayrollPaidOnce
  <2>. SUFFICES ASSUME StanbicInv, pardon = {}, NEW d \in Docs
                PROVE  /\ bank[d] <= 1
                       /\ \A e \in Docs : bank[d] > 0 /\ bank[e] > 0 => d = e
    BY DEF PayrollPaidOnce, Stanbic!PaidOnce
  <2>. QED  BY DEF StanbicInv, FilesInv, MadeInv, Out
<1>. QED  BY <1>1, AlwaysStanbic, PTL
=============================================================================
