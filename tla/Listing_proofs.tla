--------------------------- MODULE Listing_proofs ----------------------------
(***************************************************************************)
(* Theorems about Listing, for any table and any bound on what is read of   *)
(* it: what a walk by index reads of a table that changes meanwhile, and    *)
(* what is decided from that.                                              *)
(***************************************************************************)
EXTENDS Listing, SequenceTheorems, WellFoundedInduction, TLAPS

(* The rows the walk has yet to come to. *)
Ahead(table) == {table[k] : k \in {k \in DOMAIN table : k > index}}

Typed ==
  /\ rows \in Seq(Rows) /\ OneRowEach(rows) /\ endless \in BOOLEAN
  /\ pc \in {"idle", "walking", "read"} /\ index \in Nat /\ found \in Seq(Mappings)
  /\ held \in [Slots -> SUBSET Mappings] /\ passed \subseteq Rows /\ moved \in BOOLEAN

-----------------------------------------------------------------------------
LEMMA NatBelow == IsWellFoundedOn({ss \in Nat \X Nat : ss[1] < ss[2]}, Nat)
  BY NatLessThanWellFounded, Zenon DEF OpToRel

LEMMA LeastIndex ==
  ASSUME NEW T, T \subseteq Nat, T # {}
  PROVE  \E i \in T : \A j \in T : i <= j
<1> DEFINE below == {ss \in Nat \X Nat : ss[1] < ss[2]}
<1>1. IsWellFoundedOn(below, Nat)
  BY NatBelow
<1>2. \A i, j \in Nat : ~(i <= j) => <<j, i>> \in below
  OBVIOUS
<1> HIDE DEF below
<1>3. PICK i \in T : \A j \in T : ~(<<j, i>> \in below)
  BY <1>1, WFMin
<1> QED
  BY <1>2, <1>3

-----------------------------------------------------------------------------
(* The table after a change of it. *)

LEMMA Inserted ==
  ASSUME NEW s \in Seq(Rows), NEW m \in Rows, NEW i \in 1 .. Len(s) + 1
  PROVE  LET t == InsertAt(s, i, m)
         IN /\ t \in Seq(Rows) /\ Len(t) = Len(s) + 1
            /\ \A k \in 1 .. Len(t) :
                 t[k] = IF k < i THEN s[k] ELSE IF k = i THEN m ELSE s[k - 1]
<1> DEFINE front == SubSeq(s, 1, i - 1)
           back == SubSeq(s, i, Len(s))
           upTo == front \o <<m>>
<1>1. Len(s) \in Nat /\ DOMAIN s = 1 .. Len(s) /\ i \in Nat /\ i >= 1 /\ i <= Len(s) + 1
  OBVIOUS
<1>2. /\ front \in Seq(Rows) /\ Len(front) = i - 1
      /\ \A k \in 1 .. i - 1 : front[k] = s[k]
  BY <1>1, SubSeqProperties
<1>3. /\ back \in Seq(Rows) /\ Len(back) = Len(s) - i + 1
      /\ \A k \in 1 .. Len(s) - i + 1 : back[k] = s[i + k - 1]
  BY <1>1, SubSeqProperties
<1> HIDE DEF front, back
<1>4. <<m>> \in Seq(Rows) /\ Len(<<m>>) = 1 /\ <<m>>[1] = m
  OBVIOUS
<1>5. /\ upTo \in Seq(Rows) /\ Len(upTo) = i
      /\ \A k \in 1 .. i : upTo[k] = IF k < i THEN s[k] ELSE m
  <2>1. /\ upTo \in Seq(Rows) /\ Len(upTo) = Len(front) + Len(<<m>>)
        /\ \A k \in 1 .. Len(front) + Len(<<m>>) :
             upTo[k] = IF k <= Len(front) THEN front[k] ELSE <<m>>[k - Len(front)]
    BY <1>2, <1>4, ConcatProperties, Zenon
  <2> QED
    BY <2>1, <1>1, <1>2, <1>4
<1> HIDE DEF upTo
<1>6. /\ upTo \o back \in Seq(Rows) /\ Len(upTo \o back) = Len(upTo) + Len(back)
      /\ \A k \in 1 .. Len(upTo) + Len(back) :
           (upTo \o back)[k] = IF k <= Len(upTo) THEN upTo[k] ELSE back[k - Len(upTo)]
  BY <1>3, <1>5, ConcatProperties, Zenon
<1>7. InsertAt(s, i, m) = upTo \o back
  BY DEF InsertAt, upTo, front, back
<1>8. Len(upTo \o back) = Len(s) + 1
  BY <1>1, <1>3, <1>5, <1>6
<1>9. \A k \in 1 .. Len(s) + 1 :
        (upTo \o back)[k] = IF k < i THEN s[k] ELSE IF k = i THEN m ELSE s[k - 1]
  <2> SUFFICES ASSUME NEW k \in 1 .. Len(s) + 1
               PROVE  (upTo \o back)[k] = IF k < i THEN s[k] ELSE IF k = i THEN m ELSE s[k - 1]
    OBVIOUS
  <2>1. CASE k <= i
    BY <2>1, <1>1, <1>3, <1>5, <1>6
  <2>2. CASE ~(k <= i)
    <3>1. k - i \in 1 .. Len(s) - i + 1 /\ i + (k - i) - 1 = k - 1
      BY <2>2, <1>1
    <3>2. back[k - i] = s[k - 1]
      BY <3>1, <1>3
    <3> QED
      BY <2>2, <3>2, <1>1, <1>3, <1>5, <1>6
  <2> QED
    BY <2>1, <2>2
<1> QED
  BY <1>6, <1>7, <1>8, <1>9

LEMMA Removed ==
  ASSUME NEW s \in Seq(Rows), NEW i \in DOMAIN s
  PROVE  LET t == RemoveAt(s, i)
         IN /\ t \in Seq(Rows) /\ Len(t) = Len(s) - 1
            /\ \A k \in 1 .. Len(t) : t[k] = IF k < i THEN s[k] ELSE s[k + 1]
<1> DEFINE front == SubSeq(s, 1, i - 1)
           back == SubSeq(s, i + 1, Len(s))
<1>1. Len(s) \in Nat /\ DOMAIN s = 1 .. Len(s) /\ i \in Nat /\ i >= 1 /\ i <= Len(s)
  OBVIOUS
<1>2. /\ front \in Seq(Rows) /\ Len(front) = i - 1
      /\ \A k \in 1 .. i - 1 : front[k] = s[k]
  BY <1>1, SubSeqProperties
<1>3. /\ back \in Seq(Rows) /\ Len(back) = Len(s) - i
      /\ \A k \in 1 .. Len(s) - i : back[k] = s[i + k]
  BY <1>1, SubSeqProperties
<1> HIDE DEF front, back
<1>4. /\ front \o back \in Seq(Rows) /\ Len(front \o back) = Len(front) + Len(back)
      /\ \A k \in 1 .. Len(front) + Len(back) :
           (front \o back)[k] = IF k <= Len(front) THEN front[k] ELSE back[k - Len(front)]
  BY <1>2, <1>3, ConcatProperties, Zenon
<1>5. RemoveAt(s, i) = front \o back
  BY DEF RemoveAt, front, back
<1>6. Len(front \o back) = Len(s) - 1
  BY <1>1, <1>2, <1>3, <1>4
<1>7. \A k \in 1 .. Len(s) - 1 : (front \o back)[k] = IF k < i THEN s[k] ELSE s[k + 1]
  <2> SUFFICES ASSUME NEW k \in 1 .. Len(s) - 1
               PROVE  (front \o back)[k] = IF k < i THEN s[k] ELSE s[k + 1]
    OBVIOUS
  <2>1. CASE k < i
    BY <2>1, <1>1, <1>2, <1>3, <1>4
  <2>2. CASE ~(k < i)
    <3>1. k - (i - 1) \in 1 .. Len(s) - i /\ i + (k - (i - 1)) = k + 1
      BY <2>2, <1>1
    <3>2. back[k - (i - 1)] = s[k + 1]
      BY <3>1, <1>3
    <3> QED
      BY <2>2, <3>2, <1>1, <1>2, <1>3, <1>4
  <2> QED
    BY <2>1, <2>2
<1> QED
  BY <1>4, <1>5, <1>6, <1>7

LEMMA Overwritten ==
  ASSUME NEW s \in Seq(Rows), NEW m \in Rows, NEW i \in DOMAIN s
  PROVE  LET t == ReplaceAt(s, i, m)
         IN /\ t \in Seq(Rows) /\ Len(t) = Len(s)
            /\ \A k \in 1 .. Len(t) : t[k] = IF k = i THEN m ELSE s[k]
  BY DEF ReplaceAt

-----------------------------------------------------------------------------
(* What a step of others leaves of the rows the walk has yet to come to:    *)
(* those still in the table are ahead or were passed over, and where one    *)
(* went for a new row, that is ahead.  Where all that happened is that a    *)
(* row was added to be read, it comes last.                                *)
Displaced(table, over, added) ==
  /\ \A m \in Ahead(rows) : m \in ToSet(table) => m \in Ahead(table) \cup over
  /\ \A m \in Ahead(rows) : m \notin ToSet(table) =>
       \A n \in ToSet(table) \ ToSet(rows) : n \in Ahead(table)
  /\ added => /\ index <= Len(rows) /\ Len(table) = Len(rows) + 1
              /\ \A k \in DOMAIN rows : table[k] = rows[k]

LEMMA OthersDisplace ==
  ASSUME Typed, Others
  PROVE  \E table \in Seq(Rows), over \in SUBSET Rows, added \in BOOLEAN :
           Becomes(table, over, added) /\ Displaced(table, over, added)
<1>1. /\ DOMAIN rows = 1 .. Len(rows) /\ Len(rows) \in Nat /\ index \in Nat
      /\ \A k \in DOMAIN rows : rows[k] \in Rows
      /\ \A k, j \in DOMAIN rows : rows[k] = rows[j] => k = j
  BY DEF Typed, OneRowEach
<1>2. ASSUME NEW m \in Rows, NEW i \in 1 .. Len(rows) + 1, Insert(m, i)
      PROVE  \E table \in Seq(Rows), over \in SUBSET Rows, added \in BOOLEAN :
               Becomes(table, over, added) /\ Displaced(table, over, added)
  <2> DEFINE table == InsertAt(rows, i, m)
             added == i = Len(rows) + 1 /\ i > index
  <2>1. Becomes(table, {}, added) /\ added \in BOOLEAN
    BY <1>2 DEF Insert
  <2>2. /\ table \in Seq(Rows) /\ Len(table) = Len(rows) + 1
        /\ \A k \in 1 .. Len(table) :
             table[k] = IF k < i THEN rows[k] ELSE IF k = i THEN m ELSE rows[k - 1]
    BY Inserted DEF Typed
  <2> HIDE DEF table
  <2>3. DOMAIN table = 1 .. Len(rows) + 1
    BY <2>2
  <2>4. \A k \in DOMAIN rows : IF k < i THEN table[k] = rows[k] ELSE table[k + 1] = rows[k]
    BY <1>1, <2>2
  <2>5. \A k \in DOMAIN rows : k > index => rows[k] \in Ahead(table)
    <3> SUFFICES ASSUME NEW k \in DOMAIN rows, k > index PROVE rows[k] \in Ahead(table)
      OBVIOUS
    <3>1. k \in DOMAIN table /\ k + 1 \in DOMAIN table /\ k + 1 > index
      BY <1>1, <2>3
    <3> QED
      BY <2>4, <3>1 DEF Ahead
  <2>6. Ahead(rows) \subseteq Ahead(table) /\ Ahead(table) \subseteq ToSet(table)
    BY <2>5 DEF Ahead, ToSet
  <2>7. added => /\ index <= Len(rows) /\ Len(table) = Len(rows) + 1
                 /\ \A k \in DOMAIN rows : table[k] = rows[k]
    BY <1>1, <2>2, <2>4
  <2>8. Displaced(table, {}, added)
    BY <2>6, <2>7 DEF Displaced
  <2> QED
    BY <2>1, <2>2, <2>8
<1>3. ASSUME NEW m \in Rows, NEW i \in DOMAIN rows, Overwrite(m, i)
      PROVE  \E table \in Seq(Rows), over \in SUBSET Rows, added \in BOOLEAN :
               Becomes(table, over, added) /\ Displaced(table, over, added)
  <2> DEFINE table == ReplaceAt(rows, i, m)
  <2>1. Becomes(table, {}, FALSE)
    BY <1>3 DEF Overwrite
  <2>2. /\ table \in Seq(Rows) /\ Len(table) = Len(rows)
        /\ \A k \in 1 .. Len(table) : table[k] = IF k = i THEN m ELSE rows[k]
    BY Overwritten DEF Typed
  <2> HIDE DEF table
  <2>3. DOMAIN table = DOMAIN rows
    BY <1>1, <2>2
  <2>4. ASSUME NEW k \in DOMAIN rows, k > index
        PROVE  IF k = i THEN m \in Ahead(table) ELSE rows[k] \in Ahead(table)
    BY <1>1, <2>2, <2>3, <2>4 DEF Ahead
  <2>5. \A n \in ToSet(table) : n = m \/ \E j \in DOMAIN rows : j # i /\ n = rows[j]
    BY <1>1, <2>2, <2>3 DEF ToSet
  <2>6. \A n \in ToSet(table) \ ToSet(rows) : n = m
    BY <2>5 DEF ToSet
  <2>7. \A k \in DOMAIN rows : k > index /\ rows[k] \in ToSet(table) => rows[k] \in Ahead(table)
    BY <1>1, <2>4, <2>5
  <2>8. \A k \in DOMAIN rows : rows[k] \notin ToSet(table) => k = i
    BY <1>1, <2>2, <2>3 DEF ToSet
  <2>9. Displaced(table, {}, FALSE)
    BY <2>4, <2>6, <2>7, <2>8 DEF Displaced, Ahead
  <2> QED
    BY <2>1, <2>2, <2>9
<1>4. ASSUME NEW i \in DOMAIN rows, Delete(i)
      PROVE  \E table \in Seq(Rows), over \in SUBSET Rows, added \in BOOLEAN :
               Becomes(table, over, added) /\ Displaced(table, over, added)
  <2> DEFINE table == RemoveAt(rows, i)
             over == IF i <= index /\ index < Len(rows) THEN {rows[index + 1]} ELSE {}
  <2>1. Becomes(table, over, FALSE)
    BY <1>4 DEF Delete
  <2>2. /\ table \in Seq(Rows) /\ Len(table) = Len(rows) - 1
        /\ \A k \in 1 .. Len(table) : table[k] = IF k < i THEN rows[k] ELSE rows[k + 1]
    BY Removed DEF Typed
  <2>3. over \in SUBSET Rows
    BY <1>1
  <2> HIDE DEF table
  <2>4. DOMAIN table = 1 .. Len(rows) - 1
    BY <1>1, <2>2
  <2>5. \A k \in DOMAIN table : \E j \in DOMAIN rows : j # i /\ table[k] = rows[j]
    <3> SUFFICES ASSUME NEW k \in DOMAIN table
                 PROVE  \E j \in DOMAIN rows : j # i /\ table[k] = rows[j]
      OBVIOUS
    <3>1. k \in DOMAIN rows /\ k + 1 \in DOMAIN rows
      BY <1>1, <2>4
    <3>2. CASE k < i
      BY <3>1, <3>2, <2>2, <2>4
    <3>3. CASE ~(k < i)
      <4>1. k + 1 # i /\ table[k] = rows[k + 1]
        BY <3>1, <3>3, <2>2, <2>4, <1>1
      <4> QED
        BY <3>1, <4>1
    <3> QED
      BY <3>2, <3>3
  <2>6. rows[i] \notin ToSet(table) /\ ToSet(table) \subseteq ToSet(rows)
    BY <1>1, <2>5 DEF ToSet
  <2>7. \A k \in DOMAIN rows : k > index /\ k # i => rows[k] \in Ahead(table) \cup over
    <3> SUFFICES ASSUME NEW k \in DOMAIN rows, k > index, k # i
                 PROVE  rows[k] \in Ahead(table) \cup over
      OBVIOUS
    <3>1. CASE k < i
      <4>1. k \in DOMAIN table /\ table[k] = rows[k]
        BY <3>1, <1>1, <2>2, <2>4
      <4> QED
        BY <4>1 DEF Ahead
    <3>2. CASE k > i
      <4>1. k - 1 \in DOMAIN table /\ ~(k - 1 < i) /\ (k - 1) + 1 = k
        BY <3>2, <1>1, <2>4
      <4>2. table[k - 1] = rows[k]
        BY <4>1, <2>2, <2>4
      <4>3. CASE k - 1 > index
        BY <4>1, <4>2, <4>3 DEF Ahead
      <4>4. CASE k = index + 1
        BY <3>2, <4>4, <1>1
      <4> QED
        BY <4>3, <4>4, <1>1
    <3> QED
      BY <3>1, <3>2, <1>1
  <2>8. Displaced(table, over, FALSE)
    BY <2>6, <2>7 DEF Displaced, Ahead
  <2> QED
    BY <2>1, <2>2, <2>3, <2>8
<1> QED
  BY <1>2, <1>3, <1>4 DEF Others
-----------------------------------------------------------------------------
(* What holds of a walk. *)

(* What was read of a slot it held, as it does what it holds now.          *)
HeldIsKnown ==
  /\ \A m \in ToSet(found) : m \in held[Identity(m)]
  /\ pc = "walking" => \A s \in Slots : At(rows, s) \subseteq held[s]

(* A row that is still there since the walk began was read, passed over or  *)
(* is ahead.                                                               *)
StandingAccounted ==
  /\ pc = "walking" =>
       /\ standing \subseteq ToSet(rows)
       /\ standing \ (passed \cup {Unreadable}) \subseteq ToSet(found) \cup Ahead(rows)
  /\ StandingRowsAreRead

(* A slot of which no row was read has one ahead, or there is a reason.     *)
Excused(s) == s \in free \/ s \in SlotsPassed \/ TakesTurns(s)
SlotsAccounted ==
  pc # "idle" =>
    \A s \in Slots :
      \/ \E m \in ToSet(found) : Identity(m) = s
      \/ Excused(s)
      \/ pc = "walking" /\ At(rows, s) \cap Ahead(rows) # {}

(* While rows are at most added at the end, what was read is the first rows *)
(* of the table - all of them, when it never ends and the walk is past it.  *)
FirstRowsRead ==
  pc = "walking" /\ ~moved /\ passed = {} =>
    /\ ToSet(found) = {rows[k] : k \in {k \in DOMAIN rows : k <= index}} \ {Unreadable}
    /\ ~endless =>
         /\ index <= Len(rows)
         /\ \A j, k \in DOMAIN found : j < k =>
              \E p, q \in 1 .. index : p < q /\ found[j] = rows[p] /\ found[k] = rows[q]

LEMMA KeepIs ==
  ASSUME NEW listing \in Seq(Mappings), NEW row \in Mappings \cup {Unreadable}
  PROVE  /\ Keep(listing, row) \in Seq(Mappings)
         /\ ToSet(Keep(listing, row)) = ToSet(listing) \cup ({row} \ {Unreadable})
         /\ \A j, k \in DOMAIN Keep(listing, row) : j < k =>
              /\ j \in DOMAIN listing /\ Keep(listing, row)[j] = listing[j]
              /\ \/ k \in DOMAIN listing /\ Keep(listing, row)[k] = listing[k]
                 \/ row # Unreadable /\ Keep(listing, row)[k] = row
<1>1. CASE row = Unreadable
  BY <1>1 DEF Keep
<1>2. CASE row # Unreadable
  <2> DEFINE kept == Append(listing, row)
  <2>1. /\ kept \in Seq(Mappings) /\ Len(kept) = Len(listing) + 1
        /\ \A k \in 1 .. Len(listing) : kept[k] = listing[k]
        /\ kept[Len(listing) + 1] = row
    BY <1>2
  <2>2. /\ Len(listing) \in Nat /\ DOMAIN listing = 1 .. Len(listing)
        /\ DOMAIN kept = 1 .. Len(listing) + 1
    BY <2>1
  <2> HIDE DEF kept
  <2>3. ToSet(kept) = ToSet(listing) \cup {row}
    BY <2>1, <2>2 DEF ToSet
  <2>4. Keep(listing, row) = kept
    BY <1>2 DEF Keep, kept
  <2> QED
    BY <1>2, <2>1, <2>2, <2>3, <2>4
<1> QED
  BY <1>1, <1>2

LEMMA RowsAre ==
  ASSUME Typed
  PROVE  /\ DOMAIN rows = 1 .. Len(rows) /\ Len(rows) \in Nat
         /\ \A k \in DOMAIN rows : rows[k] \in Mappings \cup {Unreadable}
         /\ ToSet(rows) \subseteq Mappings \cup {Unreadable}
         /\ \A m \in Mappings : m # Unreadable /\ Identity(m) \in Slots
  BY ListingAssumption DEF Typed, ToSet, Mappings, Identity

(* The row an index is answered with: the one at it, or the last again.     *)
LEMMA AnsweredIs ==
  ASSUME Typed, Answered # 0
  PROVE  /\ Answered \in DOMAIN rows
         /\ index < Len(rows) => Answered = index + 1
         /\ ~(index < Len(rows)) => endless /\ Answered = Len(rows)
  BY RowsAre DEF Answered, Typed

LEMMA OverIs ==
  ASSUME Over
  PROVE  pc' = "idle" /\ found' = <<>> /\ passed' = {} /\ index' = 0 /\ UNCHANGED gateway
         /\ DOMAIN found' = {} /\ ToSet(found') = {}
<1>1. DOMAIN <<>> = {}
  OBVIOUS
<1> QED
  BY <1>1 DEF Over, ToSet

LEMMA TypeCorrect == Spec => []Typed
<1>1. Init => Typed
  <2>1. <<>> \in Seq(Rows) /\ <<>> \in Seq(Mappings) /\ DOMAIN <<>> = {}
    OBVIOUS
  <2> QED
    <3> SUFFICES ASSUME Init PROVE Typed
      OBVIOUS
    <3>1. rows \in Seq(Rows) /\ found \in Seq(Mappings) /\ OneRowEach(rows)
      BY <2>1 DEF Init, OneRowEach
    <3>2. held \in [Slots -> SUBSET Mappings] /\ passed \subseteq Rows
      BY DEF Init
    <3>3. endless \in BOOLEAN /\ pc = "idle" /\ index = 0 /\ moved = FALSE
      BY ListingAssumption DEF Init
    <3> QED
      BY <3>1, <3>2, <3>3 DEF Typed
<1>2. Typed /\ [Next]_vars => Typed'
  <2> SUFFICES ASSUME Typed, [Next]_vars PROVE Typed'
    OBVIOUS
  <2>1. CASE Begin
    <3>1. \A s \in Slots : At(rows, s) \subseteq Mappings
      BY RowsAre DEF At, Readable
    <3>2. <<>> \in Seq(Mappings)
      OBVIOUS
    <3>3. held' \in [Slots -> SUBSET Mappings] /\ moved' \in BOOLEAN
      BY <2>1, <3>1 DEF Begin
    <3> QED
      BY <2>1, <3>2, <3>3 DEF Begin, gateway, Typed
  <2>2. CASE ReadRow
    <3>1. found' \in Seq(Mappings)
      BY <2>2, RowsAre, AnsweredIs, KeepIs DEF ReadRow, Typed
    <3> QED
      BY <2>2, <3>1 DEF ReadRow, gateway, history, Typed
  <2>3. CASE Complete
    <3>1. passed' \subseteq Rows
      BY <2>3 DEF Complete, Typed
    <3> QED
      BY <2>3, <3>1 DEF Complete, gateway, Typed
  <2>4. CASE Over
    <3>1. <<>> \in Seq(Mappings)
      OBVIOUS
    <3>2. held' \in [Slots -> SUBSET Mappings]
      BY <2>4 DEF Over
    <3>3. moved' = FALSE
      BY <2>4 DEF Over
    <3> QED
      BY <2>4, <3>1, <3>2, <3>3 DEF Over, gateway, Typed
  <2>5. CASE Others
    <3>1. PICK table \in Seq(Rows), over \in SUBSET Rows, added \in BOOLEAN :
            Becomes(table, over, added)
      BY <2>5, OthersDisplace
    <3>2. rows' = table /\ OneRowEach(table) /\ UNCHANGED <<endless, pc, index, found>>
      BY <3>1 DEF Becomes, walk
    <3>3. \A s \in Slots : At(table, s) \subseteq Mappings
      BY ListingAssumption DEF At, Readable, ToSet
    <3>4. held' \in [Slots -> SUBSET Mappings] /\ passed' \subseteq Rows /\ moved' \in BOOLEAN
      BY <3>1, <3>3 DEF Becomes, history, Typed
    <3>5. OneRowEach(rows)'
      BY <3>2 DEF OneRowEach
    <3> QED
      BY <3>2, <3>4, <3>5 DEF Typed
  <2>6. CASE UNCHANGED vars
    BY <2>6 DEF vars, gateway, walk, history, Typed, OneRowEach
  <2> QED
    BY <2>1, <2>2, <2>3, <2>4, <2>5, <2>6
    DEF Next, Walk, Fault, EndOfTable, LimitReached, EndsEarly, Fails, Decided
<1> QED
  BY <1>1, <1>2, PTL DEF Spec
-----------------------------------------------------------------------------
LEMMA NextHeldIsKnown ==
  ASSUME Typed, HeldIsKnown, [Next]_vars
  PROVE  HeldIsKnown'
<1>1. CASE Begin
  <2>1. found' = <<>> /\ rows' = rows /\ held' = [s \in Slots |-> At(rows, s)]
    BY <1>1 DEF Begin, gateway
  <2>2. DOMAIN <<>> = {}
    OBVIOUS
  <2>3. ToSet(found') = {}
    BY <2>1, <2>2 DEF ToSet
  <2>4. \A s \in Slots : At(rows', s) \subseteq held'[s]
    BY <2>1
  <2> QED
    BY <2>3, <2>4 DEF HeldIsKnown
<1>2. CASE ReadRow
  <2>1. Answered \in DOMAIN rows /\ pc = "walking" /\ UNCHANGED <<rows, pc, held>>
        /\ found' = Keep(found, rows[Answered])
    BY <1>2, AnsweredIs DEF ReadRow, gateway, history
  <2>2. rows[Answered] \in Mappings \cup {Unreadable} /\ rows[Answered] \in ToSet(rows)
    BY <2>1, RowsAre DEF ToSet
  <2>3. rows[Answered] # Unreadable =>
          /\ Identity(rows[Answered]) \in Slots
          /\ rows[Answered] \in At(rows, Identity(rows[Answered]))
    BY <2>2, RowsAre DEF At, Readable
  <2>4. ToSet(found') = ToSet(found) \cup ({rows[Answered]} \ {Unreadable})
    BY <2>1, <2>2, KeepIs DEF Typed
  <2>5. \A m \in ToSet(found') : m \in held[Identity(m)]
    BY <2>1, <2>3, <2>4 DEF HeldIsKnown
  <2> QED
    BY <2>1, <2>5 DEF HeldIsKnown
<1>3. CASE Complete
  BY <1>3 DEF Complete, gateway, HeldIsKnown
<1>4. CASE Over
  BY <1>4, OverIs DEF HeldIsKnown
<1>5. CASE Others
  <2>1. PICK table \in Seq(Rows), over \in SUBSET Rows, added \in BOOLEAN :
          Becomes(table, over, added)
    BY <1>5, OthersDisplace
  <2>2. rows' = table /\ UNCHANGED <<pc, found>>
    BY <2>1 DEF Becomes, walk
  <2>3. CASE pc = "idle"
    <3>1. held' = held /\ pc' # "walking"
      BY <2>1, <2>2, <2>3 DEF Becomes, history
    <3> QED
      BY <2>2, <3>1 DEF HeldIsKnown
  <2>4. CASE pc # "idle"
    <3>1. held' = [s \in Slots |-> held[s] \cup At(table, s)]
      BY <2>1, <2>4 DEF Becomes
    <3>2. \A m \in ToSet(found) : m \in Mappings /\ Identity(m) \in Slots
      BY RowsAre DEF Typed, ToSet
    <3>3. \A m \in ToSet(found) : m \in held'[Identity(m)]
      BY <3>1, <3>2 DEF HeldIsKnown
    <3>4. \A s \in Slots : At(table, s) \subseteq held'[s]
      BY <3>1
    <3> QED
      BY <2>2, <3>3, <3>4 DEF HeldIsKnown
  <2> QED
    BY <2>3, <2>4
<1>6. CASE UNCHANGED vars
  BY <1>6 DEF vars, gateway, walk, history, HeldIsKnown
<1> QED
  BY <1>1, <1>2, <1>3, <1>4, <1>5, <1>6
  DEF Next, Walk, Fault, EndOfTable, LimitReached, EndsEarly, Fails, Decided

LEMMA NextStandingAccounted ==
  ASSUME Typed, StandingAccounted, [Next]_vars
  PROVE  StandingAccounted'
<1>1. CASE Begin
  <2>1. pc' = "walking" /\ index' = 0 /\ rows' = rows /\ standing' = ToSet(rows)
    BY <1>1 DEF Begin, gateway
  <2>2. Ahead(rows)' = ToSet(rows)
    BY <2>1, RowsAre DEF Ahead, ToSet
  <2> QED
    BY <2>1, <2>2 DEF StandingAccounted, StandingRowsAreRead
<1>2. CASE ReadRow
  <2>1. /\ pc = "walking" /\ UNCHANGED <<rows, pc, standing, passed>>
        /\ Answered \in DOMAIN rows /\ index' = index + 1
        /\ found' = Keep(found, rows[Answered])
    BY <1>2, AnsweredIs DEF ReadRow, gateway, history
  <2>2. ToSet(found') = ToSet(found) \cup ({rows[Answered]} \ {Unreadable})
    BY <2>1, RowsAre, KeepIs DEF Typed
  <2>3. Ahead(rows) \subseteq Ahead(rows)' \cup {rows[Answered]}
    <3> SUFFICES ASSUME NEW k \in DOMAIN rows, k > index
                 PROVE  rows[k] \in Ahead(rows)' \cup {rows[Answered]}
      BY DEF Ahead
    <3>1. CASE k = index + 1
      BY <3>1, <1>2, RowsAre, AnsweredIs DEF ReadRow, Typed
    <3>2. CASE k > index + 1
      BY <3>2, <2>1 DEF Ahead
    <3> QED
      BY <3>1, <3>2, RowsAre DEF Typed
  <2> QED
    BY <2>1, <2>2, <2>3 DEF StandingAccounted, StandingRowsAreRead
<1>3. CASE pc = "walking" /\ Complete
  <2>1. Ahead(rows) \subseteq passed'
    <3> SUFFICES ASSUME NEW k \in DOMAIN rows, k > index PROVE rows[k] \in passed'
      BY DEF Ahead
    <3>1. k \in index + 1 .. Len(rows)
      BY RowsAre DEF Typed
    <3> QED
      BY <1>3, <3>1 DEF Complete
  <2>2. pc' = "read" /\ passed \subseteq passed' /\ UNCHANGED <<standing, found>>
    BY <1>3 DEF Complete
  <2> QED
    BY <1>3, <2>1, <2>2 DEF StandingAccounted, StandingRowsAreRead
<1>4. CASE Over
  BY <1>4, OverIs DEF StandingAccounted, StandingRowsAreRead
<1>5. CASE Others
  <2>1. PICK table \in Seq(Rows), over \in SUBSET Rows, added \in BOOLEAN :
          Becomes(table, over, added) /\ Displaced(table, over, added)
    BY <1>5, OthersDisplace
  <2>2. rows' = table /\ pc # "read" /\ UNCHANGED <<pc, index, found>>
    BY <2>1 DEF Becomes, walk
  <2>3. Ahead(rows)' = Ahead(table)
    BY <2>2 DEF Ahead
  <2>4. CASE pc = "idle"
    BY <2>2, <2>4 DEF StandingAccounted, StandingRowsAreRead
  <2>5. CASE pc = "walking"
    <3>1. standing' = standing \cap ToSet(table) /\ passed' = passed \cup over
      BY <2>1, <2>5 DEF Becomes
    <3>2. \A m \in Ahead(rows) : m \in ToSet(table) => m \in Ahead(table) \cup over
      BY <2>1 DEF Displaced
    <3>3. standing' \subseteq ToSet(rows')
      BY <2>2, <3>1
    <3>4. standing' \ (passed' \cup {Unreadable}) \subseteq ToSet(found) \cup Ahead(table)
      BY <2>5, <3>1, <3>2 DEF StandingAccounted
    <3> QED
      BY <2>2, <2>3, <2>5, <3>3, <3>4 DEF StandingAccounted, StandingRowsAreRead
  <2> QED
    BY <2>2, <2>4, <2>5 DEF Typed
<1>6. CASE UNCHANGED vars
  BY <1>6 DEF vars, gateway, walk, history, StandingAccounted, StandingRowsAreRead, Ahead
<1> QED
  BY <1>1, <1>2, <1>3, <1>4, <1>5, <1>6
  DEF Next, Walk, Fault, EndOfTable, LimitReached, EndsEarly, Fails, Decided

(* Whatever changes during a walk, a row that was there all through it is   *)
(* in the listing, but for one row for each removed before the index and   *)
(* those behind what seemed the end of the table.                          *)
THEOREM NoStandingRowIsMissed == Spec => []StandingRowsAreRead
<1>1. Init => StandingAccounted
  BY DEF Init, StandingAccounted, StandingRowsAreRead
<1>2. StandingAccounted => StandingRowsAreRead
  BY DEF StandingAccounted
<1> QED
  BY <1>1, <1>2, TypeCorrect, NextStandingAccounted, PTL DEF Spec
-----------------------------------------------------------------------------
(* An excuse holds on while the walk does. *)
LEMMA StaysExcused ==
  ASSUME Typed, free \subseteq free', passed \subseteq passed',
         \A s \in Slots : held[s] \subseteq held'[s],
         NEW s \in Slots, Excused(s)
  PROVE  Excused(s)'
<1>1. CASE s \in free
  BY <1>1 DEF Excused
<1>2. CASE s \in SlotsPassed
  BY <1>2 DEF Excused, SlotsPassed
<1>3. CASE TakesTurns(s)
  BY <1>3 DEF Excused, TakesTurns
<1> QED
  BY <1>1, <1>2, <1>3 DEF Excused

LEMMA NextSlotsAccounted ==
  ASSUME Typed, HeldIsKnown, SlotsAccounted, [Next]_vars
  PROVE  SlotsAccounted'
<1>1. CASE Begin
  <2>1. pc' = "walking" /\ index' = 0 /\ rows' = rows /\ free' = FreeIn(rows)
    BY <1>1 DEF Begin, gateway
  <2>2. Ahead(rows)' = ToSet(rows)
    BY <2>1, RowsAre DEF Ahead, ToSet
  <2>3. \A s \in Slots : At(rows, s)' = At(rows, s) /\ At(rows, s) \subseteq ToSet(rows)
    BY <2>1 DEF At, Readable
  <2>4. \A s \in Slots : s \in free' \/ At(rows, s) # {}
    BY <2>1 DEF FreeIn
  <2>5. \A s \in Slots : s \in free' => Excused(s)'
    BY DEF Excused
  <2> QED
    BY <2>1, <2>2, <2>3, <2>4, <2>5 DEF SlotsAccounted
<1>2. CASE ReadRow
  <2>1. /\ pc = "walking" /\ UNCHANGED <<rows, pc, held, free, passed>>
        /\ Answered \in DOMAIN rows /\ index' = index + 1
        /\ found' = Keep(found, rows[Answered])
    BY <1>2, AnsweredIs DEF ReadRow, gateway, history
  <2>2. ToSet(found') = ToSet(found) \cup ({rows[Answered]} \ {Unreadable})
    BY <2>1, RowsAre, KeepIs DEF Typed
  <2>3. Ahead(rows) \subseteq Ahead(rows)' \cup {rows[Answered]}
    <3> SUFFICES ASSUME NEW k \in DOMAIN rows, k > index
                 PROVE  rows[k] \in Ahead(rows)' \cup {rows[Answered]}
      BY DEF Ahead
    <3>1. CASE k = index + 1
      BY <3>1, <1>2, RowsAre, AnsweredIs DEF ReadRow, Typed
    <3>2. CASE k > index + 1
      BY <3>2, <2>1 DEF Ahead
    <3> QED
      BY <3>1, <3>2, RowsAre DEF Typed
  <2> SUFFICES ASSUME NEW s \in Slots
               PROVE  \/ \E m \in ToSet(found') : Identity(m) = s
                      \/ Excused(s)'
                      \/ (At(rows, s) \cap Ahead(rows))' # {}
    BY <2>1 DEF SlotsAccounted
  <2>4. CASE \E m \in ToSet(found) : Identity(m) = s
    BY <2>2, <2>4
  <2>5. CASE Excused(s)
    BY <2>1, <2>5, StaysExcused
  <2>6. CASE \E m \in At(rows, s) : m \in Ahead(rows)
    <3>1. PICK m \in At(rows, s) : m \in Ahead(rows)
      BY <2>6
    <3>2. m # Unreadable /\ Identity(m) = s /\ m \in At(rows, s)'
      BY <3>1, <2>1 DEF At, Readable
    <3> QED
      BY <3>1, <3>2, <2>2, <2>3
  <2> QED
    BY <2>1, <2>4, <2>5, <2>6 DEF SlotsAccounted
<1>3. CASE pc = "walking" /\ Complete
  <2>1. Ahead(rows) \subseteq passed'
    <3> SUFFICES ASSUME NEW k \in DOMAIN rows, k > index PROVE rows[k] \in passed'
      BY DEF Ahead
    <3>1. k \in index + 1 .. Len(rows)
      BY RowsAre DEF Typed
    <3> QED
      BY <1>3, <3>1 DEF Complete
  <2>2. pc' = "read" /\ passed \subseteq passed' /\ UNCHANGED <<held, free, found>>
    BY <1>3 DEF Complete
  <2>3. \A s \in Slots : At(rows, s) \cap Ahead(rows) # {} => s \in SlotsPassed'
    BY <2>1 DEF SlotsPassed, At, Readable
  <2> SUFFICES ASSUME NEW s \in Slots
               PROVE  (\E m \in ToSet(found') : Identity(m) = s) \/ Excused(s)'
    BY DEF SlotsAccounted
  <2>4. Excused(s) => Excused(s)'
    BY <2>2, StaysExcused
  <2>5. s \in SlotsPassed' => Excused(s)'
    BY DEF Excused
  <2> QED
    BY <1>3, <2>2, <2>3, <2>4, <2>5 DEF SlotsAccounted
<1>4. CASE Over
  BY <1>4, OverIs DEF SlotsAccounted
<1>5. CASE Others
  <2>1. PICK table \in Seq(Rows), over \in SUBSET Rows, added \in BOOLEAN :
          Becomes(table, over, added) /\ Displaced(table, over, added)
    BY <1>5, OthersDisplace
  <2>2. /\ rows' = table /\ OneRowEach(table) /\ pc # "read"
        /\ UNCHANGED <<pc, index, found>>
    BY <2>1 DEF Becomes, walk
  <2>3. Ahead(rows)' = Ahead(table)
    BY <2>2 DEF Ahead
  <2>4. CASE pc = "idle"
    BY <2>2, <2>4 DEF SlotsAccounted
  <2>5. CASE pc = "walking"
    <3>1. /\ held' = [s \in Slots |-> held[s] \cup At(table, s)]
          /\ free' = free \cup FreeIn(table) /\ passed' = passed \cup over
      BY <2>1, <2>5 DEF Becomes
    <3>2. \A s \in Slots : held[s] \subseteq held'[s]
      BY <3>1
    <3> SUFFICES ASSUME NEW s \in Slots
                 PROVE  \/ \E m \in ToSet(found) : Identity(m) = s
                        \/ Excused(s)'
                        \/ At(table, s) \cap Ahead(table) # {}
      BY <2>2, <2>3, <2>5 DEF SlotsAccounted, At
    <3>3. CASE \E m \in ToSet(found) : Identity(m) = s
      BY <3>3
    <3>4. CASE Excused(s)
      BY <3>1, <3>2, <3>4, StaysExcused
    <3>5. CASE \E m \in At(rows, s) : m \in Ahead(rows)
      <4>1. PICK m \in At(rows, s) : m \in Ahead(rows)
        BY <3>5
      <4>2. m \in ToSet(rows) /\ m # Unreadable /\ Identity(m) = s /\ m \in held[s]
        BY <4>1, <2>5 DEF At, Readable, HeldIsKnown
      <4>3. CASE m \in ToSet(table)
        <5>1. m \in At(table, s)
          BY <4>2, <4>3 DEF At, Readable
        <5>2. m \in Ahead(table) \cup over
          BY <4>1, <4>3, <2>1 DEF Displaced
        <5>3. m \in over => Excused(s)'
          BY <4>2, <3>1 DEF Excused, SlotsPassed
        <5> QED
          BY <5>1, <5>2, <5>3
      <4>4. CASE m \notin ToSet(table) /\ At(table, s) = {}
        BY <4>4, <3>1 DEF FreeIn, Excused
      <4>5. CASE m \notin ToSet(table) /\ At(table, s) # {}
        <5>1. PICK n \in At(table, s) : TRUE
          BY <4>5
        <5>2. n \in ToSet(table) /\ n # Unreadable /\ Identity(n) = s /\ n # m
          BY <4>5, <5>1 DEF At, Readable
        <5>3. CASE n.remote # m.remote
          <6>1. m \in held'[s] /\ n \in held'[s]
            BY <4>2, <5>1, <3>1
          <6> QED
            BY <5>3, <6>1 DEF Excused, TakesTurns
        <5>4. CASE n.remote = m.remote
          <6>1. n \notin ToSet(rows)
            BY <4>2, <5>2, <5>4 DEF Typed, OneRowEach, Clash, ToSet
          <6>2. n \in Ahead(table)
            BY <2>1, <4>1, <4>5, <5>2, <6>1 DEF Displaced
          <6> QED
            BY <5>1, <6>2
        <5> QED
          BY <5>3, <5>4
      <4> QED
        BY <4>3, <4>4, <4>5
    <3> QED
      BY <2>5, <3>3, <3>4, <3>5 DEF SlotsAccounted
  <2> QED
    BY <2>2, <2>4, <2>5 DEF Typed
<1>6. CASE UNCHANGED vars
  <2>1. UNCHANGED <<rows, endless, pc, index, found, standing, held, free, passed>>
    BY <1>6 DEF vars, gateway, walk, history
  <2>2. \A s \in Slots : Excused(s) => Excused(s)'
    BY <2>1, StaysExcused
  <2>3. Ahead(rows)' = Ahead(rows) /\ \A s \in Slots : At(rows, s)' = At(rows, s)
    BY <2>1 DEF Ahead, At
  <2> QED
    BY <2>1, <2>2, <2>3 DEF SlotsAccounted
<1> QED
  BY <1>1, <1>2, <1>3, <1>4, <1>5, <1>6
  DEF Next, Walk, Fault, EndOfTable, LimitReached, EndsEarly, Fails, Decided

(* The row a slot is looked up in is one that was read.                     *)
LEMMA LastListedIs ==
  ASSUME Typed
  PROVE  /\ DOMAIN LastListed(found) = {Identity(m) : m \in ToSet(found)}
         /\ \A s \in DOMAIN LastListed(found) :
              LastListed(found)[s] \in ToSet(found) /\ Identity(LastListed(found)[s]) = s
<1>1. /\ DOMAIN found = 1 .. Len(found) /\ Len(found) \in Nat
      /\ \A m \in ToSet(found) : Identity(m) \in Slots
  BY RowsAre DEF Typed, ToSet
<1>2. DOMAIN LastListed(found) = {s \in Slots : LookedUp(found, s) # {}}
  BY DEF LastListed
<1>3. DOMAIN LastListed(found) = {Identity(m) : m \in ToSet(found)}
  BY <1>1, <1>2 DEF LookedUp, ToSet
<1>4. ASSUME NEW s \in DOMAIN LastListed(found)
      PROVE  LastListed(found)[s] \in ToSet(found) /\ Identity(LastListed(found)[s]) = s
  <2> DEFINE here == LookedUp(found, s)
             isLast(i) == \A j \in here : j <= i
             fromEnd == {Len(found) - i : i \in here}
  <2>1. here # {} /\ here \subseteq 1 .. Len(found)
    BY <1>1, <1>2 DEF LookedUp
  <2>2. fromEnd \subseteq Nat /\ fromEnd # {}
    BY <1>1, <2>1
  <2>3. PICK d \in fromEnd : \A e \in fromEnd : d <= e
    <3> HIDE DEF fromEnd
    <3> QED
      BY <2>2, LeastIndex
  <2>4. PICK last \in here : d = Len(found) - last
    OBVIOUS
  <2>5. isLast(last)
    <3> SUFFICES ASSUME NEW j \in here PROVE j <= last
      OBVIOUS
    <3>1. Len(found) - last <= Len(found) - j
      BY <2>3, <2>4
    <3> QED
      BY <3>1, <2>1, <1>1
  <2>6. LastListed(found)[s] = found[CHOOSE i \in here : isLast(i)]
    BY <1>2 DEF LastListed
  <2>7. (CHOOSE i \in here : isLast(i)) \in here
    BY <2>5
  <2> QED
    BY <2>6, <2>7 DEF LookedUp, ToSet
<1> QED
  BY <1>3, <1>4

(* Though a listing may mix moments, what is decided for a forward is what  *)
(* the table called for at one moment of the walk - unless a row of its    *)
(* slot was passed over, or rows for two RemoteHosts took turns in it.     *)
THEOREM DecisionsAreDue == Spec => []EachDecisionWasDue
<1>1. Init => HeldIsKnown /\ SlotsAccounted
  <2>1. DOMAIN <<>> = {}
    OBVIOUS
  <2> QED
    BY <2>1 DEF Init, HeldIsKnown, SlotsAccounted, ToSet
<1>2. Typed /\ HeldIsKnown /\ SlotsAccounted => EachDecisionWasDue
  <2> SUFFICES ASSUME Typed, HeldIsKnown, SlotsAccounted, pc = "read",
                      NEW f \in Forwards, NEW options \in Options
               PROVE  \/ Identity(f) \in SlotsPassed \/ TakesTurns(Identity(f))
                      \/ Decision(f, options) = "add" /\ Identity(f) \in free
                      \/ \E m \in held[Identity(f)] : Decision(f, options) = KindOf(f, m, options)
    BY DEF EachDecisionWasDue
  <2> DEFINE s == Identity(f)
  <2>1. s \in Slots
    BY DEF Forwards, Identity
  <2>2. CASE s \in DOMAIN LastListed(found)
    <3> DEFINE m == LastListed(found)[s]
    <3>1. m \in held[s]
      BY <2>2, LastListedIs DEF HeldIsKnown
    <3>2. Decision(f, options) = KindOf(f, m, options)
      BY <2>2 DEF Decision, ForForward
    <3> QED
      BY <3>1, <3>2
  <2>3. CASE s \notin DOMAIN LastListed(found)
    <3>1. Decision(f, options) = "add"
      BY <2>3 DEF Decision, ForForward
    <3>2. ~\E m \in ToSet(found) : Identity(m) = s
      BY <2>3, LastListedIs
    <3>3. Excused(s)
      BY <2>1, <3>2 DEF SlotsAccounted
    <3> QED
      BY <3>1, <3>3 DEF Excused
  <2> QED
    BY <2>2, <2>3
<1> QED
  BY <1>1, <1>2, TypeCorrect, NextHeldIsKnown, NextSlotsAccounted, PTL DEF Spec
-----------------------------------------------------------------------------
FirstRows == {rows[k] : k \in {k \in DOMAIN rows : k <= index}}

LEMMA NextFirstRowsRead ==
  ASSUME Typed, FirstRowsRead, [Next]_vars
  PROVE  FirstRowsRead'
<1>1. CASE Begin
  <2>1. found' = <<>> /\ rows' = rows /\ index' = 0
    BY <1>1 DEF Begin, gateway
  <2>2. DOMAIN found' = {} /\ ToSet(found') = {}
    <3>1. DOMAIN <<>> = {}
      OBVIOUS
    <3> QED
      BY <2>1, <3>1 DEF ToSet
  <2>3. FirstRows' = {} /\ index' <= Len(rows')
    BY <2>1, RowsAre DEF FirstRows
  <2> QED
    BY <2>2, <2>3 DEF FirstRowsRead, FirstRows
<1>2. CASE ReadRow
  <2>1. /\ pc = "walking" /\ UNCHANGED <<rows, endless, pc, moved, passed>>
        /\ Answered \in DOMAIN rows /\ index' = index + 1
        /\ found' = Keep(found, rows[Answered])
        /\ index < Len(rows) => Answered = index + 1
        /\ ~(index < Len(rows)) => endless /\ Answered = Len(rows)
    BY <1>2, AnsweredIs DEF ReadRow, gateway, history
  <2> SUFFICES ASSUME ~moved, passed = {}
               PROVE  /\ ToSet(found') = FirstRows' \ {Unreadable}
                      /\ ~endless =>
                           /\ index + 1 <= Len(rows)
                           /\ \A j, k \in DOMAIN found' : j < k =>
                                \E p, q \in 1 .. index + 1 :
                                  p < q /\ found'[j] = rows[p] /\ found'[k] = rows[q]
    BY <2>1 DEF FirstRowsRead, FirstRows
  <2>2. /\ DOMAIN rows = 1 .. Len(rows) /\ Len(rows) \in Nat /\ index \in Nat
        /\ rows[Answered] \in Mappings \cup {Unreadable}
    BY <2>1, RowsAre DEF Typed
  <2>3. /\ ToSet(found') = ToSet(found) \cup ({rows[Answered]} \ {Unreadable})
        /\ \A j, k \in DOMAIN found' : j < k =>
             /\ j \in DOMAIN found /\ found'[j] = found[j]
             /\ \/ k \in DOMAIN found /\ found'[k] = found[k]
                \/ rows[Answered] # Unreadable /\ found'[k] = rows[Answered]
    BY <2>1, <2>2, KeepIs DEF Typed
  <2>4. ToSet(found) = FirstRows \ {Unreadable}
    BY <2>1 DEF FirstRowsRead, FirstRows
  <2>5. FirstRows' = FirstRows \cup {rows[Answered]}
    <3>1. FirstRows' = {rows[k] : k \in {k \in DOMAIN rows : k <= index + 1}}
      BY <2>1 DEF FirstRows
    <3>2. CASE index < Len(rows)
      <4>1. \A k \in DOMAIN rows : (k <= index + 1) <=> (k <= index \/ k = Answered)
        <5>1. Answered = index + 1
          BY <2>1, <3>2
        <5>2. \A k \in 1 .. Len(rows) : (k <= index + 1) <=> (k <= index \/ k = index + 1)
          BY <2>2
        <5> QED
          BY <5>1, <5>2, <2>2
      <4> QED
        BY <3>1, <4>1, <2>1 DEF FirstRows
    <3>3. CASE ~(index < Len(rows))
      <4>1. \A k \in DOMAIN rows : k <= index + 1 /\ k <= index
        BY <2>2, <3>3
      <4> QED
        BY <3>1, <4>1, <2>1 DEF FirstRows
    <3> QED
      BY <3>2, <3>3
  <2>6. ToSet(found') = FirstRows' \ {Unreadable}
    BY <2>3, <2>4, <2>5
  <2>7. ASSUME ~endless
        PROVE  /\ index + 1 <= Len(rows)
               /\ \A j, k \in DOMAIN found' : j < k =>
                    \E p, q \in 1 .. index + 1 :
                      p < q /\ found'[j] = rows[p] /\ found'[k] = rows[q]
    <3>1. index + 1 <= Len(rows) /\ Answered = index + 1
      BY <2>1, <2>2, <2>7
    <3> SUFFICES ASSUME NEW j \in DOMAIN found', NEW k \in DOMAIN found', j < k
                 PROVE  \E p, q \in 1 .. index + 1 :
                          p < q /\ found'[j] = rows[p] /\ found'[k] = rows[q]
      BY <3>1
    <3>2. CASE k \in DOMAIN found /\ found'[k] = found[k]
      <4>1. PICK p \in 1 .. index, q \in 1 .. index :
              p < q /\ found[j] = rows[p] /\ found[k] = rows[q]
        BY <2>1, <2>3, <2>7, <3>2 DEF FirstRowsRead
      <4>2. p \in 1 .. index + 1 /\ q \in 1 .. index + 1
        BY <2>2
      <4> QED
        BY <2>3, <3>2, <4>1, <4>2
    <3>3. CASE found'[k] = rows[Answered]
      <4>1. j \in DOMAIN found /\ found'[j] = found[j]
        BY <2>3
      <4>2. found[j] \in FirstRows
        BY <2>4, <4>1 DEF ToSet
      <4>3. PICK p \in DOMAIN rows : p <= index /\ found[j] = rows[p]
        BY <4>2 DEF FirstRows
      <4>4. p \in 1 .. index + 1 /\ index + 1 \in 1 .. index + 1 /\ p < index + 1
        BY <2>2, <4>3
      <4> QED
        BY <3>1, <3>3, <4>1, <4>3, <4>4
    <3> QED
      BY <2>3, <3>2, <3>3
  <2> QED
    BY <2>6, <2>7
<1>3. CASE Complete
  BY <1>3 DEF Complete, FirstRowsRead
<1>4. CASE Over
  BY <1>4, OverIs DEF FirstRowsRead
<1>5. CASE Others
  <2>1. PICK table \in Seq(Rows), over \in SUBSET Rows, added \in BOOLEAN :
          Becomes(table, over, added) /\ Displaced(table, over, added)
    BY <1>5, OthersDisplace
  <2>2. rows' = table /\ UNCHANGED <<endless, pc, index, found>>
    BY <2>1 DEF Becomes, walk
  <2>3. CASE pc # "walking"
    BY <2>2, <2>3 DEF FirstRowsRead
  <2>4. CASE pc = "walking" /\ added
    <3>1. /\ index <= Len(rows) /\ Len(table) = Len(rows) + 1
          /\ \A k \in DOMAIN rows : table[k] = rows[k]
      BY <2>1, <2>4 DEF Displaced
    <3>2. passed' = {} => passed = {}
      BY <2>1, <2>4 DEF Becomes
    <3>3. ~moved' => ~moved
      BY <2>1, <2>4 DEF Becomes
    <3>4. /\ DOMAIN rows = 1 .. Len(rows) /\ Len(rows) \in Nat /\ index \in Nat
          /\ DOMAIN table = 1 .. Len(rows) + 1
      BY <3>1, RowsAre DEF Typed
    <3>5. \A k : k \in DOMAIN table /\ k <= index <=> k \in DOMAIN rows /\ k <= index
      BY <3>1, <3>4
    <3>6. FirstRows' = FirstRows
      BY <2>2, <3>1, <3>5 DEF FirstRows
    <3>7. \A k \in 1 .. index : table[k] = rows[k]
      BY <3>1, <3>4
    <3>8. index <= Len(table)
      BY <3>1, <3>4
    <3> SUFFICES ASSUME ~moved', passed' = {}
                 PROVE  /\ ToSet(found) = FirstRows' \ {Unreadable}
                        /\ ~endless =>
                             /\ index <= Len(table)
                             /\ \A j, k \in DOMAIN found : j < k =>
                                  \E p, q \in 1 .. index :
                                    p < q /\ found[j] = table[p] /\ found[k] = table[q]
      BY <2>2 DEF FirstRowsRead, FirstRows
    <3>9. /\ ToSet(found) = FirstRows \ {Unreadable}
          /\ ~endless => \A j, k \in DOMAIN found : j < k =>
               \E p, q \in 1 .. index : p < q /\ found[j] = rows[p] /\ found[k] = rows[q]
      BY <2>4, <3>2, <3>3 DEF FirstRowsRead, FirstRows
    <3> QED
      BY <3>6, <3>7, <3>8, <3>9
  <2>5. CASE pc = "walking" /\ ~added
    <3>1. moved'
      BY <2>1, <2>5 DEF Becomes
    <3> QED
      BY <3>1 DEF FirstRowsRead
  <2> QED
    BY <2>3, <2>4, <2>5
<1>6. CASE UNCHANGED vars
  BY <1>6 DEF vars, gateway, walk, history, FirstRowsRead
<1> QED
  BY <1>1, <1>2, <1>3, <1>4, <1>5, <1>6
  DEF Next, Walk, Fault, EndOfTable, LimitReached, EndsEarly, Fails, Decided

(* A walk during which rows were at most added ahead of it, and that is not *)
(* cut short, reads the table as it is when the walk ends, in its order:    *)
(* module Daemon may take such a walk for one step.                        *)
THEOREM AnUndisturbedWalkIsOneStep == Spec => ReadsOneMoment
<1>1. Init => FirstRowsRead
  BY DEF Init, FirstRowsRead
<1>2. Typed /\ FirstRowsRead /\ [Next]_vars =>
        (pc = "walking" /\ pc' = "read" /\ ~moved /\ passed' = {} =>
           /\ ToSet(found') = Readable(rows)
           /\ ~endless => InOrder(found', rows))
  <2> SUFFICES ASSUME Typed, FirstRowsRead, [Next]_vars,
                      pc = "walking", pc' = "read", ~moved, passed' = {}
               PROVE  /\ ToSet(found') = Readable(rows)
                      /\ ~endless => InOrder(found', rows)
    OBVIOUS
  <2>1. Complete
    <3>1. CASE Begin
      BY <3>1 DEF Begin
    <3>2. CASE ReadRow
      BY <3>2 DEF ReadRow
    <3>3. CASE Over
      BY <3>3 DEF Over
    <3>4. CASE Others
      <4>1. PICK table \in Seq(Rows), over \in SUBSET Rows, added \in BOOLEAN :
              Becomes(table, over, added)
        BY <3>4, OthersDisplace
      <4> QED
        BY <4>1 DEF Becomes, walk
    <3>5. CASE UNCHANGED vars
      BY <3>5 DEF vars, walk
    <3> QED
      BY <3>1, <3>2, <3>3, <3>4, <3>5
      DEF Next, Walk, Fault, EndOfTable, LimitReached, EndsEarly, Fails, Decided
  <2>2. /\ found' = found /\ passed = {}
        /\ passed' = passed \cup {rows[i] : i \in index + 1 .. Len(rows)}
    BY <2>1 DEF Complete
  <2>3. DOMAIN rows = 1 .. Len(rows) /\ Len(rows) \in Nat /\ index \in Nat
    BY RowsAre DEF Typed
  <2>4. Len(rows) <= index
    <3> SUFFICES ASSUME index < Len(rows) PROVE FALSE
      BY <2>3
    <3>1. Len(rows) \in index + 1 .. Len(rows)
      BY <2>3
    <3> QED
      BY <2>2, <3>1
  <2>5. \A k \in DOMAIN rows : k <= index
    BY <2>3, <2>4
  <2>6. ToSet(found) = ToSet(rows) \ {Unreadable}
    BY <2>2, <2>5 DEF FirstRowsRead, ToSet
  <2>7. ASSUME ~endless PROVE InOrder(found, rows)
    <3>1. index <= Len(rows)
      BY <2>2, <2>7 DEF FirstRowsRead
    <3>2. index = Len(rows)
      <4>1. \A a, b \in Nat : a <= b /\ b <= a => a = b
        OBVIOUS
      <4> QED
        BY <4>1, <2>3, <2>4, <3>1, Zenon
    <3> SUFFICES ASSUME NEW j \in DOMAIN found, NEW k \in DOMAIN found, j < k
                 PROVE  \E p, q \in DOMAIN rows :
                          p < q /\ found[j] = rows[p] /\ found[k] = rows[q]
      BY DEF InOrder
    <3>3. PICK p \in 1 .. index, q \in 1 .. index :
            p < q /\ found[j] = rows[p] /\ found[k] = rows[q]
      BY <2>2, <2>7 DEF FirstRowsRead
    <3> QED
      BY <2>3, <3>2, <3>3
  <2> QED
    BY <2>2, <2>6, <2>7 DEF Readable
<1> QED
  BY <1>1, <1>2, TypeCorrect, NextFirstRowsRead, PTL DEF Spec, ReadsOneMoment
==============================================================================
