------------------------ MODULE ImportTrackerProofs ------------------------
(***************************************************************************)
(* What ImportTracker proves for any invoices, payments and vouchers.      *)
(* Types, differences and the status rest on one lemma, Moves, which says  *)
(* what a step may do to one tracker; what becomes of the entries of       *)
(* cancelled documents is told by CancelPaymentTakes and Fates.            *)
(***************************************************************************)
EXTENDS ImportTracker, FiniteSetTheorems, TLAPS

With(r, D) == [r EXCEPT !.differences = @ \cup D]

\* What a request makes of tracker i before it saves it.
Change(i, s) ==
    \/ s = tracker[i]
    \/ \E p \in Payment \ tracker[i].payments :
          \/ s = WithPayment(i, p)
          \/ \E e \in Nat : s = With(WithPayment(i, p), {Row(p, e)})
    \/ \E v \in Voucher \ tracker[i].vouchers :
          \/ s = WithVoucher(i, v)
          \/ \E e \in Nat : s = With(WithVoucher(i, v), {Row(v, e)})
    \/ \E p \in Payment : s = WithoutPayment(i, p)
    \/ \E v \in Voucher : s = WithoutVoucher(i, v)
    \/ \E d \in Document, e \in Nat : s = With(tracker[i], {ManualRow(d, e)})
    \/ \E D \in SUBSET (tracker[i].payments \cup tracker[i].vouchers) : \E g \in [D -> Nat] :
          s = [tracker[i] EXCEPT !.differences = {Row(d, g[d]) : d \in D}]

\* What a step makes of tracker i.
Moved(i) ==
    \/ tracker'[i] = tracker[i]
    \/ tracker'[i] = NoTracker
    \/ tracker'[i] = [NoTracker EXCEPT !.doc = "draft", !.status = "Draft"]
    \/ tracker'[i] = [NoTracker EXCEPT !.doc = "submitted", !.status = "Active"]
    \/ tracker'[i] = [tracker[i] EXCEPT !.doc = "submitted", !.status = "Active"]
    \/ tracker'[i] = Cancelled(i)
    \/ \E s : Change(i, s) /\ tracker'[i] = Saved(i, s)

-----------------------------------------------------------------------------
(* The books: how many entries there are and which are posted. *)

BooksInv ==
    /\ made \in [Invoice -> Nat]
    /\ \A i \in Invoice : posted[i] \cup stuck[i] \subseteq 1..made[i] /\ made[i] <= MaxEntries[i]
    /\ posted \in [Invoice -> SUBSET Entry] /\ stuck \in [Invoice -> SUBSET Entry]

\* Posting one entry in each tracker of B keeps the books.
LEMMA PostingKeepsBooks ==
    ASSUME BooksInv, NEW B \in SUBSET Invoice, PostEntries(B)
    PROVE  BooksInv'
<1>1. made' \in [Invoice -> Nat]
  BY DEF BooksInv, PostEntries
<1>2. \A i \in Invoice : made[i] + 1 \in Entry
  BY DEF BooksInv, Entry
<1>3. posted' \in [Invoice -> SUBSET Entry] /\ stuck' \in [Invoice -> SUBSET Entry]
  BY <1>2 DEF BooksInv, PostEntries
<1>4. ASSUME NEW i \in Invoice
      PROVE  posted'[i] \cup stuck'[i] \subseteq 1..made'[i] /\ made'[i] <= MaxEntries[i]
  <2>1. made[i] \in Nat /\ MaxEntries[i] \in Nat
    BY BoundAssumption DEF BooksInv
  <2>2. CASE i \in B
    BY <2>1, <2>2 DEF BooksInv, PostEntries
  <2>3. CASE i \notin B
    BY <2>1, <2>3 DEF BooksInv, PostEntries
  <2>4. QED
    BY <2>2, <2>3
<1>5. QED
  BY <1>1, <1>3, <1>4 DEF BooksInv

\* Cancelling entries of one tracker keeps the books.
LEMMA CancellingKeepsBooks ==
    ASSUME BooksInv, NEW i \in Invoice, NEW S, CancelEntries(i, S)
    PROVE  BooksInv'
<1>1. PICK lost \in SUBSET (S \cap posted[i]) :
         /\ posted' = [posted EXCEPT ![i] = @ \ (S \ lost)]
         /\ stuck' = [stuck EXCEPT ![i] = @ \cup lost]
  BY DEF CancelEntries
<1>2. made' = made
  BY DEF CancelEntries
<1>3. posted' \in [Invoice -> SUBSET Entry] /\ stuck' \in [Invoice -> SUBSET Entry]
  BY <1>1 DEF BooksInv
<1>4. \A j \in Invoice : posted'[j] \cup stuck'[j] \subseteq posted[j] \cup stuck[j]
  BY <1>1 DEF BooksInv
<1>5. QED
  BY <1>2, <1>3, <1>4 DEF BooksInv

-----------------------------------------------------------------------------
(* What a step does to a tracker. *)

Shape == tracker \in [Invoice -> Tracker] /\ made \in [Invoice -> Nat]

\* The difference a payment or voucher gets is one row, or none.
LEMMA WithDifferenceIsRow ==
    ASSUME made \in [Invoice -> Nat], NEW i \in Invoice, NEW r, NEW d, NEW B
    PROVE  \/ WithDifference(i, r, d, B) = r
           \/ \E e \in Nat : WithDifference(i, r, d, B) = With(r, {Row(d, e)})
<1>1. (IF i \in B THEN made[i] + 1 ELSE NoEntry) \in Nat
  BY DEF NoEntry
<1>2. QED
  BY <1>1 DEF WithDifference, With

LEMMA LinkPaymentMoves ==
    ASSUME Shape, NEW p \in Payment, NEW F \in SUBSET Invoice, NEW G \in SUBSET Invoice,
           \A i \in F \cup G : p \notin tracker[i].payments,
           LinkPayment(p, F, G), NEW j \in Invoice
    PROVE  Moved(j)
<1>1. PICK B \in Bookings(p, G) :
        tracker' = [i \in Invoice |->
            IF i \in F THEN Saved(i, WithPayment(i, p))
            ELSE IF i \in G THEN Saved(i, WithDifference(i, WithPayment(i, p), p, B))
            ELSE tracker[i]]
  BY DEF LinkPayment
<1>2. CASE j \in F
  <2>1. Change(j, WithPayment(j, p))
    BY <1>2 DEF Change
  <2>2. QED
    BY <1>1, <1>2, <2>1 DEF Moved
<1>3. CASE j \notin F /\ j \in G
  <2>1. PICK s : s = WithDifference(j, WithPayment(j, p), p, B)
    OBVIOUS
  <2>2. s = WithPayment(j, p) \/ \E e \in Nat : s = With(WithPayment(j, p), {Row(p, e)})
    BY <2>1, WithDifferenceIsRow DEF Shape
  <2>3. Change(j, s)
    BY <1>3, <2>2 DEF Change
  <2>4. QED
    BY <1>1, <1>3, <2>1, <2>3 DEF Moved
<1>4. CASE j \notin F /\ j \notin G
  BY <1>1, <1>4 DEF Moved
<1>5. QED
  BY <1>2, <1>3, <1>4

LEMMA LinkVoucherMoves ==
    ASSUME Shape, NEW v \in Voucher, NEW I \in SUBSET Invoice, NEW plain \in SUBSET I,
           \A i \in I : v \notin tracker[i].vouchers,
           LinkVoucher(v, I, plain), NEW j \in Invoice
    PROVE  Moved(j)
<1>1. PICK B \in Bookings(v, I \ plain) :
        tracker' = [i \in Invoice |->
            IF i \in plain THEN Saved(i, WithVoucher(i, v))
            ELSE IF i \in I THEN Saved(i, WithDifference(i, WithVoucher(i, v), v, B))
            ELSE tracker[i]]
  BY DEF LinkVoucher
<1>2. CASE j \in plain
  <2>1. Change(j, WithVoucher(j, v))
    BY <1>2 DEF Change
  <2>2. QED
    BY <1>1, <1>2, <2>1 DEF Moved
<1>3. CASE j \notin plain /\ j \in I
  <2>1. PICK s : s = WithDifference(j, WithVoucher(j, v), v, B)
    OBVIOUS
  <2>2. s = WithVoucher(j, v) \/ \E e \in Nat : s = With(WithVoucher(j, v), {Row(v, e)})
    BY <2>1, WithDifferenceIsRow, SMTT(60) DEF Shape
  <2>3. Change(j, s)
    BY <1>3, <2>2 DEF Change
  <2>4. QED
    BY <1>1, <1>3, <2>1, <2>3 DEF Moved
<1>4. CASE j \notin plain /\ j \notin I
  BY <1>1, <1>4 DEF Moved
<1>5. QED
  BY <1>2, <1>3, <1>4

\* What a recalculation numbers its new entries with.
LEMMA RecalculatedNumbers ==
    ASSUME Shape, NEW i \in Invoice,
           NEW N \in SUBSET (tracker[i].payments \cup tracker[i].vouchers),
           NEW f \in Bijection(N, made[i] + 1 .. made[i] + Cardinality(N))
    PROVE  /\ f \in [N -> Nat] /\ Range(f) = made[i] + 1 .. made[i] + Cardinality(N)
           /\ Cardinality(N) \in Nat
<1>1. Cardinality(N) \in Nat
  <2>1. N \subseteq Payment \cup Voucher
    BY DEF Shape, Tracker
  <2>2. IsFiniteSet(Payment \cup Voucher)
    BY DocumentAssumption, FS_Union
  <2>3. QED
    BY <2>1, <2>2, FS_Subset, FS_CardinalityType
<1>2. /\ f \in [N -> made[i] + 1 .. made[i] + Cardinality(N)]
      /\ \A n \in made[i] + 1 .. made[i] + Cardinality(N) : \E d \in N : f[d] = n
  BY DEF Bijection, Injection, Surjection
<1>3. made[i] + 1 .. made[i] + Cardinality(N) \subseteq Nat
  BY <1>1 DEF Shape
<1>4. QED
  BY <1>1, <1>2, <1>3 DEF Range

LEMMA RedoMoves ==
    ASSUME Shape, NEW i \in Invoice,
           NEW D \in SUBSET (tracker[i].payments \cup tracker[i].vouchers), NEW N \in SUBSET D,
           NEW f \in Bijection(N, made[i] + 1 .. made[i] + Cardinality(N)),
           Redo(i, D, N, f), NEW j \in Invoice
    PROVE  Moved(j)
<1> DEFINE g == [d \in D |-> IF d \in N THEN f[d] ELSE NoEntry]
           s == [tracker[i] EXCEPT !.differences = {Row(d, g[d]) : d \in D}]
<1>5. f \in [N -> Nat] /\ Range(f) = made[i] + 1 .. made[i] + Cardinality(N)
  BY RecalculatedNumbers
<1>6. g \in [D -> Nat]
  BY <1>5 DEF NoEntry
<1>7. tracker' = [tracker EXCEPT ![i] = Saved(i, s)]
  <2>1. {Row(d, IF d \in N THEN f[d] ELSE NoEntry) : d \in D} = {Row(d, g[d]) : d \in D}
    OBVIOUS
  <2>2. QED
    BY <2>1 DEF KeptRows, Redo
<1> HIDE DEF g
<1>9. Change(i, s)
  BY <1>6 DEF Change
<1>10. QED
  <2>1. CASE j = i
    <3>1. tracker'[i] = Saved(i, s)
      BY <1>7 DEF Shape
    <3>2. QED
      BY <1>9, <2>1, <3>1 DEF Moved
  <2>2. CASE j # i
    BY <1>7, <2>2 DEF Moved, Shape
  <2>3. QED
    BY <2>1, <2>2

\* A step that only rewrites tracker i does to it what its value says.
LEMMA OneTrackerMoves ==
    ASSUME Shape, NEW i \in Invoice, NEW r, NEW j \in Invoice,
           tracker' = [tracker EXCEPT ![i] = r],
           \/ r \in {NoTracker, [NoTracker EXCEPT !.doc = "draft", !.status = "Draft"],
                     [NoTracker EXCEPT !.doc = "submitted", !.status = "Active"]}
           \/ r = [tracker[i] EXCEPT !.doc = "submitted", !.status = "Active"]
           \/ r = Cancelled(i)
           \/ \E s : Change(i, s) /\ r = Saved(i, s)
    PROVE  Moved(j)
<1>1. CASE j = i
  <2>1. tracker'[i] = r
    BY DEF Shape
  <2>2. QED
    BY <1>1, <2>1 DEF Moved
<1>2. CASE j # i
  BY <1>2 DEF Moved, Shape
<1>3. QED
  BY <1>1, <1>2

\* Every step moves every tracker in one of the ways of Moved.
LEMMA Moves ==
    ASSUME Shape, [Next]_vars, NEW j \in Invoice
    PROVE  Moved(j)
<1>1. ASSUME NEW i \in Invoice, SubmitInvoice(i)
      PROVE  Moved(j)
  <2>1. PICK r \in {NoTracker, [NoTracker EXCEPT !.doc = "draft", !.status = "Draft"],
                    [NoTracker EXCEPT !.doc = "submitted", !.status = "Active"]} :
           tracker' = [tracker EXCEPT ![i] = r]
    BY <1>1 DEF SubmitInvoice
  <2>2. QED
    BY <2>1, OneTrackerMoves
<1>2. ASSUME NEW i \in Invoice, SubmitTracker(i)
      PROVE  Moved(j)
  <2>1. PICK r : r = [tracker[i] EXCEPT !.doc = "submitted", !.status = "Active"]
    OBVIOUS
  <2>2. tracker' = [tracker EXCEPT ![i] = r]
    BY <1>2, <2>1 DEF SubmitTracker, Shape, Tracker
  <2>3. QED
    BY <2>1, <2>2, OneTrackerMoves
<1>3. ASSUME NEW i \in Invoice, CancelTracker(i)
      PROVE  Moved(j)
  <2>1. tracker' = [tracker EXCEPT ![i] = Cancelled(i)]
    BY <1>3 DEF CancelTracker
  <2>2. QED
    BY <2>1, OneTrackerMoves
<1>4. ASSUME NEW i \in Invoice, CancelInvoice(i)
      PROVE  Moved(j)
  BY <1>3, <1>4 DEF CancelInvoice, Moved
<1>5. ASSUME NEW p \in Payment, SubmitPayment(p)
      PROVE  Moved(j)
  <2>1. \E F, G \in SUBSET Invoice :
            /\ \A i \in F \cup G : p \notin tracker[i].payments
            /\ LinkPayment(p, F, G)
    <3>1. PICK refs \in SUBSET Invoice : \E stop \in OpenTrackers(p, refs) \cup {None} :
             \E failed \in SUBSET MayFail(p, Invoice) :
                LinkPayment(p, failed, {i \in {stop} \ {None} : p \notin tracker[i].payments})
      BY <1>5 DEF SubmitPayment, MayFail, OpenTrackers
    <3>2. PICK stop \in OpenTrackers(p, refs) \cup {None} :
             \E failed \in SUBSET MayFail(p, Invoice) :
                LinkPayment(p, failed, {i \in {stop} \ {None} : p \notin tracker[i].payments})
      BY <3>1
    <3>3. PICK G : G = {i \in {stop} \ {None} : p \notin tracker[i].payments}
      OBVIOUS
    <3>4. PICK F \in SUBSET MayFail(p, Invoice) : LinkPayment(p, F, G)
      BY <3>2, <3>3
    <3>5. /\ F \in SUBSET Invoice /\ G \in SUBSET Invoice
          /\ \A i \in F \cup G : p \notin tracker[i].payments
      BY <3>2, <3>3, <3>4 DEF MayFail, OpenTrackers
    <3>6. QED
      BY <3>4, <3>5
  <2>2. QED
    BY <2>1, LinkPaymentMoves
<1>6. ASSUME NEW i \in Invoice, NEW p \in Payment, LinkManually(p, i)
      PROVE  Moved(j)
  <2>1. \E F, G \in SUBSET {i} : LinkPayment(p, F, G)
    BY <1>6 DEF LinkManually
  <2>2. PICK F \in SUBSET {i}, G \in SUBSET {i} : LinkPayment(p, F, G)
    BY <2>1
  <2>3. \A k \in F \cup G : p \notin tracker[k].payments
    BY <1>6 DEF LinkManually
  <2>4. QED
    BY <2>2, <2>3, LinkPaymentMoves
<1>7. ASSUME NEW p \in Payment, CancelPayment(p)
      PROVE  Moved(j)
  <2>1. \/ tracker' = tracker
        \/ \E i \in Invoice : tracker' = [tracker EXCEPT ![i] = Saved(i, WithoutPayment(i, p))]
    BY <1>7 DEF CancelPayment
  <2>2. CASE tracker' = tracker
    BY <2>2 DEF Moved
  <2>3. ASSUME NEW i \in Invoice, tracker' = [tracker EXCEPT ![i] = Saved(i, WithoutPayment(i, p))]
        PROVE  Moved(j)
    <3>1. PICK r : r = Saved(i, WithoutPayment(i, p))
      OBVIOUS
    <3>2. Change(i, WithoutPayment(i, p))
      BY DEF Change
    <3>3. QED
      BY <2>3, <3>1, <3>2, OneTrackerMoves
  <2>4. QED
    BY <2>1, <2>2, <2>3
<1>8. ASSUME NEW v \in Voucher, SubmitVoucher(v)
      PROVE  Moved(j)
  <2>1. PICK I \in SUBSET {i \in Invoice : v \notin tracker[i].vouchers} :
           \E plain \in SUBSET {i \in I : <<v, i>> \in Differs} : LinkVoucher(v, I, plain)
    BY <1>8 DEF SubmitVoucher
  <2>2. PICK plain \in SUBSET I : LinkVoucher(v, I, plain)
    BY <2>1
  <2>3. QED
    BY <2>2, LinkVoucherMoves
<1>9. ASSUME NEW v \in Voucher, CancelVoucher(v)
      PROVE  Moved(j)
  <2>1. PICK I \in SUBSET Invoice :
           tracker' = [i \in Invoice |->
               IF i \in I THEN Saved(i, WithoutVoucher(i, v)) ELSE tracker[i]]
    BY <1>9 DEF CancelVoucher
  <2>2. Change(j, WithoutVoucher(j, v))
    BY DEF Change
  <2>3. QED
    BY <2>1, <2>2 DEF Moved
<1>10. ASSUME NEW i \in Invoice, NEW d \in Document, ManualEntry(i, d)
       PROVE  Moved(j)
  <2>1. PICK B \in {{}, {i}} :
           tracker' = [tracker EXCEPT ![i] = Saved(i, [tracker[i] EXCEPT !.differences =
                @ \cup {ManualRow(d, IF i \in B THEN made[i] + 1 ELSE NoEntry)}])]
    BY <1>10 DEF ManualEntry
  <2>2. PICK e \in Nat : e = IF i \in B THEN made[i] + 1 ELSE NoEntry
    BY DEF NoEntry, Shape
  <2>3. PICK s : s = With(tracker[i], {ManualRow(d, e)})
    OBVIOUS
  <2>4. tracker' = [tracker EXCEPT ![i] = Saved(i, s)]
    <3>1. s = [tracker[i] EXCEPT !.differences =
                 @ \cup {ManualRow(d, IF i \in B THEN made[i] + 1 ELSE NoEntry)}]
      BY <2>2, <2>3 DEF With
    <3>2. QED
      BY <2>1, <3>1
  <2>5. Change(i, s)
    BY <2>2, <2>3 DEF Change
  <2>6. QED
    BY <2>4, <2>5, OneTrackerMoves
<1>11. ASSUME NEW i \in Invoice, Recalculate(i)
       PROVE  Moved(j)
  <2>1. PICK D \in Recalculated(i) : \E N \in {{}, D} :
           \E f \in Bijection(N, made[i] + 1 .. made[i] + Cardinality(N)) : Redo(i, D, N, f)
    BY <1>11 DEF Recalculate
  <2>2. PICK N \in SUBSET D :
           \E f \in Bijection(N, made[i] + 1 .. made[i] + Cardinality(N)) : Redo(i, D, N, f)
    BY <2>1
  <2>3. PICK f \in Bijection(N, made[i] + 1 .. made[i] + Cardinality(N)) : Redo(i, D, N, f)
    BY <2>2
  <2>4. D \in SUBSET (tracker[i].payments \cup tracker[i].vouchers)
    BY DEF Recalculated
  <2>5. QED
    BY <2>3, <2>4, RedoMoves
<1>12. ASSUME NEW i \in Invoice, UpdatePending(i)
       PROVE  Moved(j)
  <2>1. tracker' = [tracker EXCEPT ![i] = Saved(i, tracker[i])]
    BY <1>12 DEF UpdatePending
  <2>2. Change(i, tracker[i])
    BY DEF Change
  <2>3. QED
    BY <2>1, <2>2, OneTrackerMoves
<1>13. CASE UNCHANGED vars
  BY <1>13 DEF Moved, vars
<1>14. QED
  BY <1>1, <1>2, <1>3, <1>4, <1>5, <1>6, <1>7, <1>8, <1>9, <1>10, <1>11, <1>12, <1>13
     DEF Next, CancelTrackerOnly

-----------------------------------------------------------------------------
(* Types. *)

LEMMA WithTyped ==
    ASSUME NEW r \in Tracker, NEW x \in Difference
    PROVE  With(r, {x}) \in Tracker
BY DEF With, Tracker

\* What is saved is a tracker again.
LEMMA ChangeTyped ==
    ASSUME NEW i \in Invoice, tracker[i] \in Tracker, NEW s, Change(i, s)
    PROVE  s \in Tracker
<1>1. \A d \in Document, e \in Nat : Row(d, e) \in Difference /\ ManualRow(d, e) \in Difference
  BY DEF Row, ManualRow, Difference, Entry, NoEntry
<1>2. Payment \subseteq Document /\ Voucher \subseteq Document
  BY DEF Document
<1>3. CASE s = tracker[i]
  BY <1>3
<1>4. ASSUME NEW p \in Payment
      PROVE  /\ WithPayment(i, p) \in Tracker
             /\ \A e \in Nat : With(WithPayment(i, p), {Row(p, e)}) \in Tracker
  <2>1. WithPayment(i, p) \in Tracker
    BY DEF WithPayment, Tracker
  <2>2. QED
    BY <1>1, <1>2, <2>1, WithTyped
<1>5. ASSUME NEW v \in Voucher
      PROVE  /\ WithVoucher(i, v) \in Tracker
             /\ \A e \in Nat : With(WithVoucher(i, v), {Row(v, e)}) \in Tracker
  <2>1. WithVoucher(i, v) \in Tracker
    BY SMTT(60) DEF WithVoucher, Tracker
  <2>2. QED
    BY <1>1, <1>2, <2>1, WithTyped
<1>6. \A p \in Payment : WithoutPayment(i, p) \in Tracker
  BY DEF WithoutPayment, Tracker
<1>7. \A v \in Voucher : WithoutVoucher(i, v) \in Tracker
  BY DEF WithoutVoucher, Tracker
<1>8. \A d \in Document, e \in Nat : With(tracker[i], {ManualRow(d, e)}) \in Tracker
  BY <1>1, WithTyped
<1>9. ASSUME NEW D \in SUBSET (tracker[i].payments \cup tracker[i].vouchers), NEW g \in [D -> Nat]
      PROVE  [tracker[i] EXCEPT !.differences = {Row(d, g[d]) : d \in D}] \in Tracker
  <2>1. D \subseteq Document
    BY <1>2 DEF Tracker
  <2>2. {Row(d, g[d]) : d \in D} \subseteq Difference
    BY <1>1, <2>1
  <2>3. QED
    BY <2>2 DEF Tracker
<1>10. QED
  BY <1>3, <1>4, <1>5, <1>6, <1>7, <1>8, <1>9 DEF Change

LEMMA SavedTyped ==
    ASSUME NEW i, NEW s \in Tracker
    PROVE  Saved(i, s) \in Tracker
BY DEF Saved, StatusOf, Tracker

LEMMA MovedTyped ==
    ASSUME NEW i \in Invoice, tracker[i] \in Tracker, Moved(i)
    PROVE  tracker'[i] \in Tracker
<1>1. ASSUME NEW s, Change(i, s), tracker'[i] = Saved(i, s)
      PROVE  tracker'[i] \in Tracker
  BY <1>1, ChangeTyped, SavedTyped
<1>2. CASE \/ tracker'[i] = tracker[i]
           \/ tracker'[i] = [tracker[i] EXCEPT !.doc = "submitted", !.status = "Active"]
           \/ tracker'[i] = Cancelled(i)
  BY <1>2 DEF Cancelled, Tracker
<1>3. NoTracker \in Tracker
  BY DEF NoTracker, Tracker
<1>4. CASE tracker'[i] \in {NoTracker, [NoTracker EXCEPT !.doc = "draft", !.status = "Draft"],
                            [NoTracker EXCEPT !.doc = "submitted", !.status = "Active"]}
  BY <1>3, <1>4 DEF Tracker
<1>5. QED
  BY <1>1, <1>2, <1>4 DEF Moved

\* A step keeps tracker a function on the invoices.
LEMMA TrackerIsFunction ==
    ASSUME Shape, [Next]_vars
    PROVE  tracker' = [i \in Invoice |-> tracker'[i]]
<1> DEFINE F(t) == t = [i \in Invoice |-> t[i]]
<1>1. ASSUME NEW i \in Invoice, NEW r, tracker' = [tracker EXCEPT ![i] = r]
      PROVE  F(tracker')
  BY <1>1 DEF Shape
<1>2. ASSUME NEW i \in Invoice, SubmitInvoice(i)
      PROVE  F(tracker')
  BY <1>1, <1>2 DEF SubmitInvoice
<1>3. CASE tracker' = tracker
  BY <1>3 DEF Shape
<1>4. ASSUME NEW i \in Invoice, CancelInvoice(i) \/ CancelTrackerOnly(i)
      PROVE  F(tracker')
  BY <1>1, <1>3, <1>4 DEF CancelInvoice, CancelTrackerOnly, CancelTracker
<1>5. ASSUME NEW i \in Invoice, SubmitTracker(i)
      PROVE  F(tracker')
  BY <1>5 DEF SubmitTracker, Shape
<1>6. ASSUME NEW i \in Invoice, Recalculate(i) \/ UpdatePending(i)
      PROVE  F(tracker')
  BY <1>1, <1>6 DEF Recalculate, Redo, UpdatePending
<1>7. ASSUME NEW i \in Invoice, NEW d \in Document, ManualEntry(i, d)
      PROVE  F(tracker')
  BY <1>1, <1>7 DEF ManualEntry
<1>8. ASSUME NEW p \in Payment, SubmitPayment(p) \/ \E i \in Invoice : LinkManually(p, i)
      PROVE  F(tracker')
  <2>1. \E A, G : LinkPayment(p, A, G)
    BY <1>8 DEF SubmitPayment, LinkManually
  <2>2. QED
    BY <2>1 DEF LinkPayment
<1>9. ASSUME NEW p \in Payment, CancelPayment(p)
      PROVE  F(tracker')
  BY <1>1, <1>3, <1>9 DEF CancelPayment
<1>10. ASSUME NEW v \in Voucher, SubmitVoucher(v) \/ CancelVoucher(v)
       PROVE  F(tracker')
  BY <1>10 DEF SubmitVoucher, LinkVoucher, CancelVoucher
<1>11. QED
  BY <1>2, <1>3, <1>4, <1>5, <1>6, <1>7, <1>8, <1>9, <1>10 DEF Next, vars

\* A recalculation keeps the books.
LEMMA RedoKeepsBooks ==
    ASSUME BooksInv, Shape, NEW i \in Invoice, Recalculate(i)
    PROVE  BooksInv'
<1>1. PICK D \in Recalculated(i) : \E N \in {{}, D} :
         \E f \in Bijection(N, made[i] + 1 .. made[i] + Cardinality(N)) : Redo(i, D, N, f)
  BY DEF Recalculate
<1>2. PICK N \in SUBSET (tracker[i].payments \cup tracker[i].vouchers) :
         \E f \in Bijection(N, made[i] + 1 .. made[i] + Cardinality(N)) : Redo(i, D, N, f)
  BY <1>1 DEF Recalculated
<1>3. PICK f \in Bijection(N, made[i] + 1 .. made[i] + Cardinality(N)) : Redo(i, D, N, f)
  BY <1>2
<1> DEFINE n == Cardinality(N)
<1>4. n \in Nat /\ Range(f) = made[i] + 1 .. made[i] + n
  BY RecalculatedNumbers
<1> HIDE DEF n
<1>5. /\ made[i] + n <= MaxEntries[i]
      /\ made' = [made EXCEPT ![i] = @ + n]
      /\ posted' = [posted EXCEPT ![i] = @ \cup Range(f)]
      /\ stuck' = stuck
  BY <1>3 DEF Redo, Recalculate, n
<1>6. made[i] \in Nat /\ posted[i] \subseteq 1..made[i] /\ stuck[i] \subseteq 1..made[i]
  BY DEF BooksInv
<1>7. Range(f) \subseteq Entry
  BY <1>4, <1>6 DEF Entry
<1>8. made' \in [Invoice -> Nat]
  BY <1>4, <1>5, <1>6 DEF BooksInv
<1>9. posted' \in [Invoice -> SUBSET Entry] /\ stuck' \in [Invoice -> SUBSET Entry]
  BY <1>5, <1>7 DEF BooksInv
<1>10. ASSUME NEW j \in Invoice
       PROVE  posted'[j] \cup stuck'[j] \subseteq 1..made'[j] /\ made'[j] <= MaxEntries[j]
  <2>1. CASE j = i
    <3>1. /\ posted'[i] = posted[i] \cup (made[i] + 1 .. made[i] + n)
          /\ made'[i] = made[i] + n /\ stuck'[i] = stuck[i]
      BY <1>4, <1>5 DEF BooksInv
    <3>2. posted[i] \cup stuck[i] \cup (made[i] + 1 .. made[i] + n) \subseteq 1..(made[i] + n)
      BY <1>4, <1>6
    <3>3. QED
      BY <1>5, <2>1, <3>1, <3>2
  <2>2. CASE j # i
    BY <1>5, <2>2 DEF BooksInv
  <2>3. QED
    BY <2>1, <2>2
<1>11. QED
  BY <1>8, <1>9, <1>10 DEF BooksInv

\* A payment is only linked to trackers of invoices.
LEMMA LinksInInvoices ==
    ASSUME NEW p \in Payment, SubmitPayment(p) \/ \E i \in Invoice : LinkManually(p, i)
    PROVE  \E F, G : F \in SUBSET Invoice /\ G \in SUBSET Invoice /\ LinkPayment(p, F, G)
<1>1. CASE SubmitPayment(p)
  <2>1. PICK refs \in SUBSET Invoice : \E stop \in OpenTrackers(p, refs) \cup {None} :
           \E failed \in SUBSET Invoice :
              LinkPayment(p, failed, {i \in {stop} \ {None} : p \notin tracker[i].payments})
    BY <1>1 DEF SubmitPayment, MayFail, OpenTrackers
  <2>2. PICK stop \in OpenTrackers(p, refs) \cup {None} :
           \E failed \in SUBSET Invoice :
              LinkPayment(p, failed, {i \in {stop} \ {None} : p \notin tracker[i].payments})
    BY <2>1
  <2>3. {i \in {stop} \ {None} : p \notin tracker[i].payments} \in SUBSET Invoice
    BY DEF OpenTrackers
  <2>4. QED
    BY <2>2, <2>3
<1>2. CASE \E i \in Invoice : LinkManually(p, i)
  BY <1>2 DEF LinkManually
<1>3. QED
  BY <1>1, <1>2

\* Every step keeps the books.
LEMMA StepKeepsBooks ==
    ASSUME BooksInv, Shape, [Next]_vars
    PROVE  BooksInv'
<1>1. CASE UNCHANGED entries
  BY <1>1 DEF BooksInv, entries
<1>2. ASSUME NEW d, NEW I \in SUBSET Invoice, NEW B \in Bookings(d, I), PostEntries(B)
      PROVE  BooksInv'
  <2>1. B \in SUBSET Invoice
    BY <1>2 DEF Bookings
  <2>2. QED
    BY <1>2, <2>1, PostingKeepsBooks
<1>3. ASSUME NEW p \in Payment, SubmitPayment(p) \/ \E i \in Invoice : LinkManually(p, i)
      PROVE  BooksInv'
  <2>1. \E F, G : G \in SUBSET Invoice /\ LinkPayment(p, F, G)
    BY <1>3, LinksInInvoices
  <2>2. QED
    BY <1>2, <2>1 DEF LinkPayment
<1>4. ASSUME NEW v \in Voucher, SubmitVoucher(v)
      PROVE  BooksInv'
  BY <1>2, <1>4 DEF SubmitVoucher, LinkVoucher
<1>5. ASSUME NEW i \in Invoice, NEW d \in Document, ManualEntry(i, d)
      PROVE  BooksInv'
  BY <1>5, PostingKeepsBooks DEF ManualEntry
<1>6. ASSUME NEW i \in Invoice, CancelTracker(i)
      PROVE  BooksInv'
  BY <1>6, CancellingKeepsBooks DEF CancelTracker
<1>7. ASSUME NEW i \in Invoice, CancelInvoice(i)
      PROVE  BooksInv'
  BY <1>1, <1>6, <1>7 DEF CancelInvoice
<1>8. ASSUME NEW p \in Payment, CancelPayment(p)
      PROVE  BooksInv'
  BY <1>1, <1>8, CancellingKeepsBooks DEF CancelPayment
<1>9. QED
  BY <1>1, <1>3, <1>4, <1>5, <1>6, <1>7, <1>8, RedoKeepsBooks
     DEF Next, vars, SubmitInvoice, SubmitTracker, CancelTrackerOnly, CancelVoucher, UpdatePending

LEMMA InitTypes == Init => TypeOK /\ Shape /\ BooksInv
BY BoundAssumption DEF Init, TypeOK, Shape, BooksInv, NoTracker, Tracker, Entry

LEMMA StepKeepsTypes == TypeOK /\ [Next]_vars => TypeOK'
<1> SUFFICES ASSUME TypeOK, [Next]_vars
             PROVE  TypeOK'
  OBVIOUS
<1>1. Shape /\ BooksInv
  BY DEF TypeOK, Shape, BooksInv
<1>2. BooksInv'
  BY <1>1, StepKeepsBooks
<1>3. tracker' \in [Invoice -> Tracker]
  <2>1. \A i \in Invoice : tracker'[i] \in Tracker
    BY <1>1, Moves, MovedTyped DEF Shape
  <2>2. QED
    BY <1>1, <2>1, TrackerIsFunction
<1>4. doc' \in [Document -> {"draft", "submitted", "cancelled"}]
  BY DEF TypeOK, Next, vars, SubmitInvoice, CancelInvoice, SubmitTracker, CancelTrackerOnly,
         SubmitPayment, LinkManually, CancelPayment, SubmitVoucher, CancelVoucher, ManualEntry,
         Recalculate, UpdatePending
<1>5. linked' \in [Payment -> Invoice \cup {None}]
  <2>1. CASE linked' = linked
    BY <2>1 DEF TypeOK
  <2>2. ASSUME NEW p, NEW F, NEW G \in SUBSET Invoice, LinkPayment(p, F, G)
        PROVE  linked' \in [Payment -> Invoice \cup {None}]
    BY <2>2 DEF LinkPayment, TypeOK
  <2>3. ASSUME NEW p \in Payment, SubmitPayment(p) \/ \E i \in Invoice : LinkManually(p, i)
        PROVE  linked' \in [Payment -> Invoice \cup {None}]
    <3>1. \E F, G : G \in SUBSET Invoice /\ LinkPayment(p, F, G)
      BY <2>3, LinksInInvoices
    <3>2. QED
      BY <2>2, <3>1
  <2>4. QED
    BY <2>1, <2>3
       DEF Next, vars, SubmitInvoice, CancelInvoice, SubmitTracker, CancelTrackerOnly,
           CancelPayment, SubmitVoucher, CancelVoucher, ManualEntry, Recalculate, UpdatePending
<1>6. QED
  BY <1>2, <1>3, <1>4, <1>5 DEF TypeOK, BooksInv

\* Every document, tracker and link keeps its type, and the entries of a tracker
\* in the accounts are among those made for it (create_exchange_difference_je).
THEOREM TypeCorrect == Spec => []TypeOK
<1>1. Init => TypeOK
  BY InitTypes
<1>2. QED
  BY <1>1, StepKeepsTypes, PTL DEF Spec

-----------------------------------------------------------------------------
(* Differences and rows. *)

\* A computed row of a document that had none keeps the match.
LEMMA AddingKeepsMatch ==
    ASSUME NEW r \in Tracker, NEW d, NEW e, Matching(r),
           d \in r.payments \cup r.vouchers,
           \A x \in r.differences : ~x.manual => x.ref # d
    PROVE  Matching(With(r, {Row(d, e)}))
<1>1. With(r, {Row(d, e)}).differences = r.differences \cup {Row(d, e)}
  BY DEF With, Tracker
<1>2. With(r, {Row(d, e)}).payments = r.payments /\ With(r, {Row(d, e)}).vouchers = r.vouchers
  BY DEF With, Tracker
<1>3. Row(d, e).ref = d /\ ~Row(d, e).manual
  BY DEF Row
<1>4. QED
  BY <1>1, <1>2, <1>3 DEF Matching

LEMMA ChangeKeepsMatch ==
    ASSUME NEW i \in Invoice, tracker[i] \in Tracker, Matching(tracker[i]), NEW s, Change(i, s)
    PROVE  Matching(s)
<1>1. CASE s = tracker[i]
  BY <1>1
<1>2. ASSUME NEW p \in Payment \ tracker[i].payments
      PROVE  /\ Matching(WithPayment(i, p))
             /\ \A e \in Nat : Matching(With(WithPayment(i, p), {Row(p, e)}))
  <2>1. /\ WithPayment(i, p).differences = tracker[i].differences
        /\ WithPayment(i, p).payments = tracker[i].payments \cup {p}
        /\ WithPayment(i, p).vouchers = tracker[i].vouchers
        /\ WithPayment(i, p) \in Tracker
    BY DEF WithPayment, Tracker
  <2>2. Matching(WithPayment(i, p))
    BY <2>1 DEF Matching
  <2>3. p \notin tracker[i].payments \cup tracker[i].vouchers
    BY DocumentAssumption DEF Tracker
  <2>4. \A x \in tracker[i].differences : ~x.manual => x.ref # p
    BY <2>3 DEF Matching
  <2>5. QED
    BY <2>1, <2>2, <2>4, AddingKeepsMatch
<1>3. ASSUME NEW v \in Voucher \ tracker[i].vouchers
      PROVE  /\ Matching(WithVoucher(i, v))
             /\ \A e \in Nat : Matching(With(WithVoucher(i, v), {Row(v, e)}))
  <2>1. /\ WithVoucher(i, v).differences = tracker[i].differences
        /\ WithVoucher(i, v).payments = tracker[i].payments
        /\ WithVoucher(i, v).vouchers = tracker[i].vouchers \cup {v}
        /\ WithVoucher(i, v) \in Tracker
    BY DEF WithVoucher, Tracker
  <2>2. Matching(WithVoucher(i, v))
    BY <2>1 DEF Matching
  <2>3. v \notin tracker[i].payments \cup tracker[i].vouchers
    BY DocumentAssumption DEF Tracker
  <2>4. \A x \in tracker[i].differences : ~x.manual => x.ref # v
    BY <2>3 DEF Matching
  <2>5. QED
    BY <2>1, <2>2, <2>4, AddingKeepsMatch
<1>4. ASSUME NEW p \in Payment
      PROVE  Matching(WithoutPayment(i, p))
  <2>1. /\ WithoutPayment(i, p).differences = {x \in tracker[i].differences : x.ref # p}
        /\ WithoutPayment(i, p).payments = tracker[i].payments \ {p}
        /\ WithoutPayment(i, p).vouchers = tracker[i].vouchers
    BY DEF WithoutPayment, Tracker
  <2>2. QED
    BY <2>1 DEF Matching
<1>5. ASSUME NEW v \in Voucher
      PROVE  Matching(WithoutVoucher(i, v))
  <2>1. /\ WithoutVoucher(i, v).differences = {x \in tracker[i].differences : x.ref # v}
        /\ WithoutVoucher(i, v).payments = tracker[i].payments
        /\ WithoutVoucher(i, v).vouchers = tracker[i].vouchers \ {v}
    BY DEF WithoutVoucher, Tracker
  <2>2. QED
    BY <2>1 DEF Matching
<1>6. ASSUME NEW d \in Document, NEW e \in Nat
      PROVE  Matching(With(tracker[i], {ManualRow(d, e)}))
  <2>1. /\ With(tracker[i], {ManualRow(d, e)}).differences
              = tracker[i].differences \cup {ManualRow(d, e)}
        /\ With(tracker[i], {ManualRow(d, e)}).payments = tracker[i].payments
        /\ With(tracker[i], {ManualRow(d, e)}).vouchers = tracker[i].vouchers
    BY DEF With, Tracker
  <2>2. ManualRow(d, e).manual
    BY DEF ManualRow
  <2>3. QED
    BY <2>1, <2>2 DEF Matching
<1>7. ASSUME NEW D \in SUBSET (tracker[i].payments \cup tracker[i].vouchers), NEW g \in [D -> Nat]
      PROVE  Matching([tracker[i] EXCEPT !.differences = {Row(d, g[d]) : d \in D}])
  <2> DEFINE r == [tracker[i] EXCEPT !.differences = {Row(d, g[d]) : d \in D}]
  <2>1. /\ r.differences = {Row(d, g[d]) : d \in D}
        /\ r.payments = tracker[i].payments /\ r.vouchers = tracker[i].vouchers
    BY DEF Tracker
  <2> HIDE DEF r
  <2>2. \A d \in D : Row(d, g[d]).ref = d
    BY DEF Row
  <2>3. Matching(r)
    BY <2>1, <2>2 DEF Matching
  <2>4. QED
    BY <2>3 DEF r
<1>8. QED
  BY <1>1, <1>2, <1>3, <1>4, <1>5, <1>6, <1>7 DEF Change

\* A tracker that is just made has no rows and is not Completed.
LEMMA NewTrackerEmpty ==
    ASSUME NEW r \in {NoTracker, [NoTracker EXCEPT !.doc = "draft", !.status = "Draft"],
                      [NoTracker EXCEPT !.doc = "submitted", !.status = "Active"]}
    PROVE  r.differences = {} /\ r.status # "Completed"
<1>1. CASE r = NoTracker
  BY <1>1 DEF NoTracker
<1>2. CASE r = [NoTracker EXCEPT !.doc = "draft", !.status = "Draft"]
  BY <1>2 DEF NoTracker
<1>3. CASE r = [NoTracker EXCEPT !.doc = "submitted", !.status = "Active"]
  BY <1>3 DEF NoTracker
<1>4. QED
  BY <1>1, <1>2, <1>3

LEMMA MovedKeepsMatch ==
    ASSUME NEW i \in Invoice, tracker[i] \in Tracker, Matching(tracker[i]), Moved(i)
    PROVE  Matching(tracker'[i])
<1>1. ASSUME NEW s, Change(i, s), tracker'[i] = Saved(i, s)
      PROVE  Matching(tracker'[i])
  <2>1. s \in Tracker /\ Matching(s)
    BY <1>1, ChangeTyped, ChangeKeepsMatch
  <2>2. /\ tracker'[i].differences = s.differences
        /\ tracker'[i].payments = s.payments /\ tracker'[i].vouchers = s.vouchers
    BY <1>1, <2>1 DEF Saved, Tracker
  <2>3. QED
    BY <2>1, <2>2 DEF Matching
<1>2. CASE \/ tracker'[i] = tracker[i]
           \/ tracker'[i] = [tracker[i] EXCEPT !.doc = "submitted", !.status = "Active"]
           \/ tracker'[i] = Cancelled(i)
  <2>1. /\ tracker'[i].differences = tracker[i].differences
        /\ tracker'[i].payments = tracker[i].payments
        /\ tracker'[i].vouchers = tracker[i].vouchers
    BY <1>2 DEF Cancelled, Tracker
  <2>2. QED
    BY <2>1 DEF Matching
<1>3. CASE tracker'[i] \in {NoTracker, [NoTracker EXCEPT !.doc = "draft", !.status = "Draft"],
                            [NoTracker EXCEPT !.doc = "submitted", !.status = "Active"]}
  <2>1. tracker'[i].differences = {}
    BY <1>3, NewTrackerEmpty
  <2>2. QED
    BY <2>1 DEF Matching
<1>4. QED
  BY <1>1, <1>2, <1>3 DEF Moved

\* For any documents and rates: what a tracker computed is always about a
\* payment or voucher it has, once for each (add_payment_detail,
\* calculate_payment_exchange_difference, recalculate_import_differences).
THEOREM DifferencesMatch == Spec => []DifferencesMatchRows
<1>1. Init => DifferencesMatchRows
  BY DEF Init, DifferencesMatchRows, Matching, NoTracker
<1>2. TypeOK /\ DifferencesMatchRows /\ [Next]_vars => DifferencesMatchRows'
  <2> SUFFICES ASSUME TypeOK, DifferencesMatchRows, [Next]_vars, NEW i \in Invoice
               PROVE  Matching(tracker'[i])
    BY DEF DifferencesMatchRows, Matching
  <2>1. Shape /\ tracker[i] \in Tracker
    BY DEF TypeOK, Shape
  <2>2. Matching(tracker[i])
    BY DEF DifferencesMatchRows
  <2>3. QED
    BY <2>1, <2>2, Moves, MovedKeepsMatch
<1>3. QED
  BY <1>1, <1>2, TypeCorrect, PTL DEF Spec

-----------------------------------------------------------------------------
(* Completed trackers. *)

\* No step leaves a tracker Completed that its payments do not pay.
LEMMA MovedKeepsPaid ==
    ASSUME NEW i \in Invoice, tracker[i] \in Tracker, Moved(i),
           tracker[i].status = "Completed" => TotalPaid(tracker[i].payments) >= Amount[i],
           tracker'[i].status = "Completed"
    PROVE  TotalPaid(tracker'[i].payments) >= Amount[i]
<1>1. ASSUME NEW s, Change(i, s), tracker'[i] = Saved(i, s)
      PROVE  TotalPaid(tracker'[i].payments) >= Amount[i]
  <2>1. s \in Tracker
    BY <1>1, ChangeTyped
  <2>2. tracker'[i].payments = s.payments /\ StatusOf(i, s) = "Completed"
    BY <1>1, <2>1 DEF Saved, Tracker
  <2>3. TotalPaid(s.payments) >= Amount[i]
    BY <2>2 DEF StatusOf
  <2>4. QED
    BY <2>2, <2>3
<1>2. CASE tracker'[i] = tracker[i]
  BY <1>2
<1>3. CASE \/ tracker'[i] = [tracker[i] EXCEPT !.doc = "submitted", !.status = "Active"]
           \/ tracker'[i] = Cancelled(i)
  BY <1>3 DEF Cancelled, Tracker
<1>4. CASE tracker'[i] \in {NoTracker, [NoTracker EXCEPT !.doc = "draft", !.status = "Draft"],
                            [NoTracker EXCEPT !.doc = "submitted", !.status = "Active"]}
  BY <1>4, NewTrackerEmpty
<1>5. QED
  BY <1>1, <1>2, <1>3, <1>4 DEF Moved

\* For any amounts: a tracker is Completed only while its payments pay its
\* invoice (set_status).
THEOREM CompletedWhenPaid == Spec => []CompletedIsPaid
<1>1. Init => CompletedIsPaid
  BY DEF Init, CompletedIsPaid, NoTracker
<1>2. TypeOK /\ CompletedIsPaid /\ [Next]_vars => CompletedIsPaid'
  <2> SUFFICES ASSUME TypeOK, CompletedIsPaid, [Next]_vars, NEW i \in Invoice,
                      tracker'[i].status = "Completed"
               PROVE  TotalPaid(tracker'[i].payments) >= Amount[i]
    BY DEF CompletedIsPaid
  <2>1. Shape /\ tracker[i] \in Tracker
    BY DEF TypeOK, Shape
  <2>2. tracker[i].status = "Completed" => TotalPaid(tracker[i].payments) >= Amount[i]
    BY DEF CompletedIsPaid
  <2>3. QED
    BY <2>1, <2>2, Moves, MovedKeepsPaid
<1>3. QED
  BY <1>1, <1>2, TypeCorrect, PTL DEF Spec

-----------------------------------------------------------------------------
(* Entries of cancelled payments. *)

\* Only CancelPayment cancels a payment.
LEMMA WhoCancelsPayments ==
    ASSUME TypeOK, Next, NEW p \in Payment, doc[p] = "submitted", doc'[p] = "cancelled"
    PROVE  CancelPayment(p)
<1>1. p \in Document /\ \A d \in Invoice \cup Voucher : d \in Document /\ d # p
  BY DocumentAssumption DEF Document
<1>2. doc \in [Document -> {"draft", "submitted", "cancelled"}]
  BY DEF TypeOK
<1>3. \A i \in Invoice : ~SubmitInvoice(i) /\ ~CancelInvoice(i)
  BY <1>1, <1>2 DEF SubmitInvoice, CancelInvoice
<1>4. \A v \in Voucher : ~SubmitVoucher(v) /\ ~CancelVoucher(v)
  BY <1>1, <1>2 DEF SubmitVoucher, CancelVoucher
<1>5. \A i \in Invoice : /\ ~SubmitTracker(i) /\ ~CancelTrackerOnly(i)
                         /\ ~Recalculate(i) /\ ~UpdatePending(i)
                         /\ \A q \in Payment : ~LinkManually(q, i)
                         /\ \A d \in Document : ~ManualEntry(i, d)
  BY DEF SubmitTracker, CancelTrackerOnly, Recalculate, UpdatePending, LinkManually, ManualEntry
<1>6. ASSUME NEW q \in Payment, SubmitPayment(q)
      PROVE  FALSE
  <2>1. q \in Document /\ doc' = [doc EXCEPT ![q] = "submitted"]
    BY <1>6 DEF SubmitPayment, Document
  <2>2. QED
    BY <1>1, <1>2, <2>1
<1>7. ASSUME NEW q \in Payment, CancelPayment(q)
      PROVE  q = p
  <2>1. q \in Document /\ doc' = [doc EXCEPT ![q] = "cancelled"]
    BY <1>7 DEF CancelPayment, Document
  <2>2. QED
    BY <1>1, <1>2, <2>1
<1>8. QED
  BY <1>3, <1>4, <1>5, <1>6, <1>7 DEF Next

LEMMA CancelPaymentTakes ==
    ASSUME TypeOK, NEW p \in Payment, CancelPayment(p)
    PROVE  TakesItsEntries(p)
<1> SUFFICES ASSUME NEW i \in Invoice, tracker[i].doc = "submitted"
             PROVE  EntriesOf(i, p) \cap posted'[i] \subseteq stuck'[i]
  BY DEF TakesItsEntries, EntriesOf
<1>1. CASE linked[p] = i
  <2>1. i # None
    BY DocumentAssumption
  <2>2. CancelEntries(i, EntriesOf(i, p))
    BY <1>1, <2>1 DEF CancelPayment
  <2>3. PICK lost \in SUBSET (EntriesOf(i, p) \cap posted[i]) :
           /\ posted' = [posted EXCEPT ![i] = @ \ (EntriesOf(i, p) \ lost)]
           /\ stuck' = [stuck EXCEPT ![i] = @ \cup lost]
    BY <2>2 DEF CancelEntries
  <2>4. posted'[i] = posted[i] \ (EntriesOf(i, p) \ lost) /\ stuck'[i] = stuck[i] \cup lost
    BY <2>3 DEF TypeOK
  <2>5. QED
    BY <2>4
<1>2. CASE linked[p] # i
  <2>1. tracker'[i] = tracker[i]
    BY <1>2 DEF CancelPayment, TypeOK
  <2>2. p \notin Named(tracker[i])
    BY <2>1 DEF CancelPayment, Released
  <2>3. EntriesOf(i, p) = {}
    BY <2>2 DEF EntriesOf, Named
  <2>4. QED
    BY <2>3
<1>3. QED
  BY <1>1, <1>2

\* For any trackers: once a payment is cancelled, no submitted tracker's entry
\* for it is left in the accounts but those whose cancellation failed
\* (unlink_payment_from_import_tracker).
THEOREM CancelledPaymentTakesEntries == Spec => PaymentTakesItsEntries
<1>1. TypeOK /\ [Next]_vars => [CancelledTakesEntries]_vars
  BY WhoCancelsPayments, CancelPaymentTakes DEF CancelledTakesEntries
<1>2. QED
  BY <1>1, TypeCorrect, PTL DEF Spec, PaymentTakesItsEntries
-----------------------------------------------------------------------------
(* Entries of cancelled trackers. *)

Open(r) == r.doc \in {"draft", "submitted"}

\* What a step does to a tracker and its entries.
Kept(i) == tracker'[i] = tracker[i] /\ posted'[i] \subseteq posted[i] /\ stuck[i] \subseteq stuck'[i]
StaysOpen(i) == Open(tracker[i]) /\ Open(tracker'[i])
Fate(i) == Kept(i) \/ StaysOpen(i) \/ SubmitInvoice(i) \/ CancelTracker(i)

\* No save changes whether a tracker is submitted.
LEMMA SavesKeepDoc ==
    ASSUME TypeOK, NEW i \in Invoice
    PROVE  /\ Saved(i, tracker[i]).doc = tracker[i].doc
           /\ \A D : Saved(i, [tracker[i] EXCEPT !.differences = D]).doc = tracker[i].doc
           /\ \A p : /\ Saved(i, WithPayment(i, p)).doc = tracker[i].doc
                     /\ \A B : Saved(i, WithDifference(i, WithPayment(i, p), p, B)).doc = tracker[i].doc
                     /\ WithoutPayment(i, p).doc = tracker[i].doc
           /\ \A v : /\ Saved(i, WithVoucher(i, v)).doc = tracker[i].doc
                     /\ \A B : Saved(i, WithDifference(i, WithVoucher(i, v), v, B)).doc = tracker[i].doc
                     /\ WithoutVoucher(i, v).doc = tracker[i].doc
<1>1. tracker[i] \in Tracker
  BY DEF TypeOK
<1>2. QED
  BY <1>1 DEF Saved, WithPayment, WithVoucher, WithDifference, WithoutPayment, WithoutVoucher, Tracker

\* Posting elsewhere leaves the entries of i alone.
LEMMA PostingElsewhere ==
    ASSUME NEW i \in Invoice, NEW B, i \notin B, PostEntries(B)
    PROVE  posted'[i] = posted[i] /\ stuck'[i] = stuck[i]
BY DEF PostEntries

\* Cancelling entries takes none back and forgets no failure.
LEMMA CancellingOnlyRemoves ==
    ASSUME TypeOK, NEW i \in Invoice, NEW j \in Invoice, NEW S, CancelEntries(j, S)
    PROVE  posted'[i] \subseteq posted[i] /\ stuck[i] \subseteq stuck'[i]
BY DEF CancelEntries, TypeOK

LEMMA LinkPaymentFate ==
    ASSUME TypeOK, NEW p \in Payment, NEW F \in SUBSET Invoice, NEW G \in SUBSET Invoice,
           LinkPayment(p, F, G), NEW i \in Invoice
    PROVE  Fate(i)
<1>1. PICK B \in Bookings(p, G) :
        /\ PostEntries(B)
        /\ tracker' = [j \in Invoice |->
              IF j \in F THEN Saved(j, WithPayment(j, p))
              ELSE IF j \in G THEN Saved(j, WithDifference(j, WithPayment(j, p), p, B))
              ELSE tracker[j]]
        /\ \A j \in F \cup G : CanSave(j, tracker'[j])
  BY DEF LinkPayment
<1>2. CASE i \in F \cup G
  <2>1. tracker'[i].doc = tracker[i].doc
    BY <1>1, <1>2, SavesKeepDoc
  <2>2. QED
    BY <1>1, <1>2, <2>1 DEF CanSave, Open, StaysOpen, Fate
<1>3. CASE i \notin F \cup G
  <2>1. i \notin B
    BY <1>3 DEF Bookings
  <2>2. QED
    BY <1>1, <1>3, <2>1, PostingElsewhere DEF Kept, Fate
<1>4. QED
  BY <1>2, <1>3

LEMMA SubmitVoucherFate ==
    ASSUME TypeOK, NEW v \in Voucher, SubmitVoucher(v), NEW i \in Invoice
    PROVE  Fate(i)
<1>1. PICK I \in SUBSET {j \in Invoice : v \notin tracker[j].vouchers} :
        \E plain \in SUBSET {j \in I : <<v, j>> \in Differs} : LinkVoucher(v, I, plain)
  BY DEF SubmitVoucher
<1>2. PICK plain \in SUBSET {j \in I : <<v, j>> \in Differs} : LinkVoucher(v, I, plain)
  BY <1>1
<1>3. PICK B \in Bookings(v, I \ plain) :
        /\ PostEntries(B)
        /\ tracker' = [j \in Invoice |->
              IF j \in plain THEN Saved(j, WithVoucher(j, v))
              ELSE IF j \in I THEN Saved(j, WithDifference(j, WithVoucher(j, v), v, B))
              ELSE tracker[j]]
        /\ \A j \in I : CanSave(j, tracker'[j])
  BY <1>2 DEF LinkVoucher
<1>4. CASE i \in I
  <2>1. tracker'[i].doc = tracker[i].doc
    BY <1>3, <1>4, SavesKeepDoc
  <2>2. QED
    BY <1>3, <1>4, <2>1 DEF CanSave, Open, StaysOpen, Fate
<1>5. CASE i \notin I
  <2>1. i \notin B /\ i \notin plain
    BY <1>5 DEF Bookings
  <2>2. QED
    BY <1>3, <1>5, <2>1, PostingElsewhere DEF Kept, Fate
<1>6. QED
  BY <1>4, <1>5

LEMMA CancelPaymentFate ==
    ASSUME TypeOK, NEW p \in Payment, CancelPayment(p), NEW i \in Invoice
    PROVE  Fate(i)
<1>1. CASE linked[p] = None /\ UNCHANGED <<tracker, entries>>
  BY <1>1 DEF entries, Kept, Fate
<1>2. ASSUME NEW j \in Invoice, CancelEntries(j, EntriesOf(j, p)),
             \/ /\ CanSave(j, WithoutPayment(j, p))
                /\ tracker' = [tracker EXCEPT ![j] = Saved(j, WithoutPayment(j, p))]
             \/ UNCHANGED tracker
      PROVE  Fate(i)
  <2>1. posted'[i] \subseteq posted[i] /\ stuck[i] \subseteq stuck'[i]
    BY <1>2, CancellingOnlyRemoves
  <2>2. CASE tracker'[i] = tracker[i]
    BY <2>1, <2>2 DEF Kept, Fate
  <2>3. CASE tracker'[i] # tracker[i]
    <3>1. j = i /\ CanSave(i, WithoutPayment(i, p)) /\ tracker'[i] = Saved(i, WithoutPayment(i, p))
      BY <1>2, <2>3 DEF TypeOK
    <3>2. Open(tracker[i])
      BY <3>1, SavesKeepDoc DEF CanSave, Open
    <3>3. tracker'[i].doc = tracker[i].doc
      BY <3>1 DEF Saved, WithoutPayment, TypeOK, Tracker
    <3>4. QED
      BY <3>2, <3>3 DEF Open, StaysOpen, Fate
  <2>4. QED
    BY <2>2, <2>3
<1>3. QED
  BY <1>1, <1>2 DEF CancelPayment

LEMMA CancelVoucherFate ==
    ASSUME TypeOK, NEW v \in Voucher, CancelVoucher(v), NEW i \in Invoice
    PROVE  Fate(i)
<1>1. PICK I \in SUBSET {j \in Invoice : v \in tracker[j].vouchers} :
        /\ \A j \in I : CanSave(j, WithoutVoucher(j, v))
        /\ tracker' = [j \in Invoice |->
              IF j \in I THEN Saved(j, WithoutVoucher(j, v)) ELSE tracker[j]]
  BY DEF CancelVoucher
<1>2. CASE i \in I
  <2>1. Open(tracker[i])
    BY <1>1, <1>2, SavesKeepDoc DEF CanSave, Open
  <2>2. tracker'[i].doc = tracker[i].doc
    <3>1. tracker'[i] = Saved(i, WithoutVoucher(i, v)) /\ tracker[i] \in Tracker
      BY <1>1, <1>2 DEF TypeOK
    <3>2. QED
      BY <3>1 DEF Saved, WithoutVoucher, Tracker
  <2>3. QED
    BY <2>1, <2>2 DEF Open, StaysOpen, Fate
<1>3. CASE i \notin I
  BY <1>1, <1>3 DEF CancelVoucher, entries, Kept, Fate
<1>4. QED
  BY <1>2, <1>3

LEMMA CancelTrackerFate ==
    ASSUME TypeOK, NEW j \in Invoice, CancelTracker(j), NEW i \in Invoice
    PROVE  Fate(i)
<1>1. CASE i = j
  BY <1>1 DEF Fate
<1>2. CASE i # j
  <2>1. tracker'[i] = tracker[i]
    BY <1>2 DEF CancelTracker, TypeOK
  <2>2. QED
    BY <2>1, CancellingOnlyRemoves DEF CancelTracker, Kept, Fate
<1>3. QED
  BY <1>1, <1>2

\* A step on one tracker of which it only changes the rows.
LEMMA RowsFate ==
    ASSUME TypeOK, NEW j \in Invoice, NEW D,
           tracker' = [tracker EXCEPT ![j] = Saved(j, [tracker[j] EXCEPT !.differences = D])],
           CanSave(j, tracker'[j]),
           \A k \in Invoice : k # j => posted'[k] = posted[k] /\ stuck'[k] = stuck[k],
           NEW i \in Invoice
    PROVE  Fate(i)
<1>1. CASE i = j
  <2>1. tracker'[i].doc = tracker[i].doc
    BY <1>1, SavesKeepDoc DEF TypeOK
  <2>2. QED
    BY <1>1, <2>1 DEF CanSave, Open, StaysOpen, Fate
<1>2. CASE i # j
  BY <1>2 DEF TypeOK, Kept, Fate
<1>3. QED
  BY <1>1, <1>2

\* Whatever the step, only an open tracker is rewritten and gets entries.
LEMMA Fates ==
    ASSUME TypeOK, Next, NEW i \in Invoice
    PROVE  Fate(i)
<1>1. ASSUME NEW j \in Invoice, SubmitInvoice(j)
      PROVE  Fate(i)
  <2>1. CASE i = j
    BY <1>1, <2>1 DEF Fate
  <2>2. CASE i # j
    BY <1>1, <2>2 DEF SubmitInvoice, TypeOK, entries, Kept, Fate
  <2>3. QED
    BY <2>1, <2>2
<1>2. ASSUME NEW j \in Invoice, SubmitTracker(j)
      PROVE  Fate(i)
  <2>1. CASE i = j
    <3>1. tracker[i].doc = "draft" /\ tracker'[i].doc = "submitted"
      BY <1>2, <2>1 DEF SubmitTracker, TypeOK, Tracker
    <3>2. QED
      BY <3>1 DEF Open, StaysOpen, Fate
  <2>2. CASE i # j
    BY <1>2, <2>2 DEF SubmitTracker, TypeOK, entries, Kept, Fate
  <2>3. QED
    BY <2>1, <2>2
<1>3. ASSUME NEW j \in Invoice, CancelTrackerOnly(j)
      PROVE  Fate(i)
  BY <1>3, CancelTrackerFate DEF CancelTrackerOnly
<1>4. ASSUME NEW j \in Invoice, CancelInvoice(j)
      PROVE  Fate(i)
  <2>1. CASE UNCHANGED <<tracker, entries>>
    BY <2>1 DEF entries, Kept, Fate
  <2>2. QED
    BY <1>4, <2>1, CancelTrackerFate DEF CancelInvoice
<1>5. ASSUME NEW j \in Invoice, Recalculate(j)
      PROVE  Fate(i)
  <2>1. PICK D, N, f : Redo(j, D, N, f)
    BY <1>5 DEF Recalculate
  <2>2. \A k \in Invoice : k # j => posted'[k] = posted[k] /\ stuck'[k] = stuck[k]
    BY <1>5, <2>1 DEF Redo, Recalculate, TypeOK
  <2>3. PICK E : tracker' = [tracker EXCEPT ![j] = Saved(j, [tracker[j] EXCEPT !.differences = E])]
    BY <2>1 DEF Redo
  <2>4. QED
    BY <1>5, <2>2, <2>3, RowsFate DEF Recalculate
<1>6. ASSUME NEW j \in Invoice, UpdatePending(j)
      PROVE  Fate(i)
  <2>1. CASE i = j
    <3>1. tracker[i].doc = "submitted" /\ tracker'[i].doc = tracker[i].doc
      BY <1>6, <2>1, SavesKeepDoc DEF UpdatePending, TypeOK
    <3>2. QED
      BY <3>1 DEF Open, StaysOpen, Fate
  <2>2. CASE i # j
    BY <1>6, <2>2 DEF UpdatePending, TypeOK, entries, Kept, Fate
  <2>3. QED
    BY <2>1, <2>2
<1>7. ASSUME NEW p \in Payment, SubmitPayment(p) \/ \E j \in Invoice : LinkManually(p, j)
      PROVE  Fate(i)
  BY <1>7, LinkPaymentFate, LinksInInvoices
<1>8. ASSUME NEW j \in Invoice, NEW d \in Document, ManualEntry(j, d)
      PROVE  Fate(i)
  <2>1. PICK B \in {{}, {j}} :
           /\ PostEntries(B)
           /\ tracker' = [tracker EXCEPT ![j] = Saved(j, [tracker[j] EXCEPT !.differences =
                @ \cup {ManualRow(d, IF j \in B THEN made[j] + 1 ELSE NoEntry)}])]
    BY <1>8 DEF ManualEntry
  <2>2. \A k \in Invoice : k # j => posted'[k] = posted[k] /\ stuck'[k] = stuck[k]
    BY <2>1, PostingElsewhere
  <2>3. PICK E : tracker' = [tracker EXCEPT ![j] = Saved(j, [tracker[j] EXCEPT !.differences = E])]
    BY <2>1
  <2>4. QED
    BY <1>8, <2>2, <2>3, RowsFate DEF ManualEntry
<1>9. QED
  BY <1>1, <1>2, <1>3, <1>4, <1>5, <1>6, <1>7, <1>8,
     CancelPaymentFate, SubmitVoucherFate, CancelVoucherFate DEF Next

\* An invoice that is not submitted has no tracker yet.
DraftHasNone == \A i \in Invoice : doc[i] = "draft" => tracker[i].doc = "none"

LEMMA InvoicesLeaveDraft ==
    ASSUME TypeOK, Next, NEW i \in Invoice, doc'[i] = "draft"
    PROVE  doc[i] = "draft" /\ ~SubmitInvoice(i)
<1>1. i \in Document /\ doc \in [Document -> {"draft", "submitted", "cancelled"}]
  BY DEF TypeOK, Document
<1>2. ~SubmitInvoice(i)
  BY <1>1 DEF SubmitInvoice
<1>3. \/ doc' = doc
      \/ \E d \in Document : doc' = [doc EXCEPT ![d] = "submitted"]
      \/ \E d \in Document : doc' = [doc EXCEPT ![d] = "cancelled"]
  BY DEF Next, SubmitInvoice, CancelInvoice, SubmitTracker, CancelTrackerOnly, SubmitPayment,
         LinkManually, CancelPayment, SubmitVoucher, CancelVoucher, ManualEntry, Recalculate,
         UpdatePending, Document
<1>4. QED
  BY <1>1, <1>2, <1>3

\* For any documents and any sequence of links and recalculations: once a
\* tracker is cancelled, the entries its rows name are out of the accounts, but
\* those whose cancellation failed (cancel_related_journal_entries).
THEOREM CancelledTakesRows == Spec => []CancelledLeavesNoEntry
<1>1. Init => DraftHasNone /\ CancelledLeavesNoEntry
  BY DEF Init, NoTracker, DraftHasNone, CancelledLeavesNoEntry
<1>2. TypeOK /\ DraftHasNone /\ CancelledLeavesNoEntry /\ [Next]_vars
      => DraftHasNone' /\ CancelledLeavesNoEntry'
  <2> SUFFICES ASSUME TypeOK, DraftHasNone, CancelledLeavesNoEntry, [Next]_vars
               PROVE  DraftHasNone' /\ CancelledLeavesNoEntry'
    OBVIOUS
  <2>1. CASE UNCHANGED vars
    BY <2>1 DEF vars, entries, DraftHasNone, CancelledLeavesNoEntry, NamedEntries
  <2>2. CASE Next
    <3>1. ASSUME NEW i \in Invoice, doc'[i] = "draft"
          PROVE  tracker'[i].doc = "none"
      <4>1. tracker[i].doc = "none" /\ ~SubmitInvoice(i)
        BY <2>2, <3>1, InvoicesLeaveDraft DEF DraftHasNone
      <4>2. QED
        BY <2>2, <4>1, Fates DEF Fate, Kept, StaysOpen, Open, CancelTracker
    <3>2. ASSUME NEW i \in Invoice, tracker'[i].doc = "cancelled"
          PROVE  NamedEntries(tracker'[i]) \cap posted'[i] \subseteq stuck'[i]
      <4>1. CASE Kept(i)
        BY <3>2, <4>1 DEF Kept, CancelledLeavesNoEntry
      <4>2. CASE CancelTracker(i)
        <5>1. PICK lost \in SUBSET (NamedEntries(tracker[i]) \cap posted[i]) :
                 /\ posted' = [posted EXCEPT ![i] = @ \ (NamedEntries(tracker[i]) \ lost)]
                 /\ stuck' = [stuck EXCEPT ![i] = @ \cup lost]
          BY <4>2 DEF CancelTracker, CancelEntries
        <5>2. posted'[i] = posted[i] \ (NamedEntries(tracker[i]) \ lost)
              /\ stuck'[i] = stuck[i] \cup lost
          BY <5>1 DEF TypeOK
        <5>3. tracker'[i] = Cancelled(i)
          BY <4>2 DEF CancelTracker, TypeOK
        <5>4. NamedEntries(tracker'[i]) = NamedEntries(tracker[i])
          BY <5>3 DEF NamedEntries, Cancelled, TypeOK, Tracker
        <5>5. QED
          BY <5>2, <5>4
      <4>3. ~StaysOpen(i)
        BY <3>2 DEF StaysOpen, Open
      <4>4. ~SubmitInvoice(i)
        <5>1. /\ NoTracker.doc = "none"
              /\ [NoTracker EXCEPT !.doc = "draft", !.status = "Draft"].doc = "draft"
              /\ [NoTracker EXCEPT !.doc = "submitted", !.status = "Active"].doc = "submitted"
          BY DEF NoTracker
        <5>2. SUFFICES ASSUME SubmitInvoice(i)
                       PROVE  FALSE
          OBVIOUS
        <5>3. PICK r \in {NoTracker, [NoTracker EXCEPT !.doc = "draft", !.status = "Draft"],
                          [NoTracker EXCEPT !.doc = "submitted", !.status = "Active"]} :
                 tracker' = [tracker EXCEPT ![i] = r]
          BY <5>2 DEF SubmitInvoice
        <5>4. tracker'[i] = r
          BY <5>3 DEF TypeOK
        <5>5. QED
          BY <3>2, <5>1, <5>4
      <4>5. QED
        BY <2>2, <4>1, <4>2, <4>3, <4>4, Fates DEF Fate
    <3>3. QED
      BY <3>1, <3>2 DEF DraftHasNone, CancelledLeavesNoEntry
  <2>3. QED
    BY <2>1, <2>2
<1>3. QED
  BY <1>1, <1>2, TypeCorrect, PTL DEF Spec
=============================================================================
