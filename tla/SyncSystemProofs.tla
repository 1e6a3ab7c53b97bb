--------------------------- MODULE SyncSystemProofs ---------------------------
(***************************************************************************)
(* What SyncSystem keeps for every set of tabs, notes, items and labels,   *)
(* every plan and every number of calls.                                   *)
(***************************************************************************)
EXTENDS SyncSystem, StoreProofs, SequenceTheorems, WellFoundedInduction

------------------------------------------------------------------------------
(* A batch, mutation after mutation. *)

\* Induction on the numbers below n, by the least that fails.
LEMMA LeastElement ==
  ASSUME NEW T \in SUBSET Nat, T # {}
  PROVE  \E n \in T : \A m \in T : n <= m
<1> DEFINE R == {ss \in Nat \X Nat : ss[1] < ss[2]}
<1>1. IsWellFoundedOn(R, Nat)
  BY NatLessThanWellFounded DEF OpToRel
<1>2. \E n \in T : \A m \in T : ~ (<<m, n>> \in R)
  <2> HIDE DEF R
  <2> QED BY <1>1, WFMin
<1>3. PICK n \in T : \A m \in T : ~ (<<m, n>> \in R)
  BY <1>2
<1>4. ASSUME NEW m \in T PROVE n <= m
  <2>1. m \in Nat /\ n \in Nat /\ ~ (<<m, n>> \in R)
    BY <1>3
  <2>2. m < n => <<m, n>> \in R
    BY <2>1
  <2> QED
    BY <2>1, <2>2
<1> QED
  BY <1>4

\* The databases batch b can lead to, mutation after mutation.
Onto(T, m) == {Apply(e, m) : e \in {q \in T : ~Rejects(q, m)}}
Folds(f, d, b, n) ==
  /\ DOMAIN f = 0 .. n /\ f[0] = {d}
  /\ \A j \in 1 .. n : f[j] = Onto(f[j - 1], b[j])

LEMMA FoldExists ==
  ASSUME NEW d, NEW b, NEW n \in Nat
  PROVE  \E f : Folds(f, d, b, n)
<1> DEFINE T == {k \in Nat : ~ \E f : Folds(f, d, b, k)}
<1>1. SUFFICES ASSUME T # {} PROVE FALSE
  OBVIOUS
<1>2. PICK k \in T : \A m \in T : k <= m
  <2> HIDE DEF T
  <2>1. T \in SUBSET Nat
    BY DEF T
  <2> QED BY <1>1, <2>1, LeastElement
<1>3. CASE k = 0
  <2>1. Folds([j \in 0 .. 0 |-> {d}], d, b, 0)
    BY DEF Folds
  <2> QED BY <1>2, <1>3, <2>1
<1>4. CASE k # 0
  <2>1. k \in Nat /\ k - 1 \in Nat /\ ~ (k <= k - 1)
    BY <1>4
  <2>2. PICK f : Folds(f, d, b, k - 1)
    BY <1>2, <2>1
  <2> DEFINE g == [j \in 0 .. k |-> IF j = k THEN Onto(f[k - 1], b[k]) ELSE f[j]]
  <2>3. g[0] = {d}
    BY <2>1, <2>2, <1>4 DEF Folds
  <2>4. ASSUME NEW j \in 1 .. k PROVE g[j] = Onto(g[j - 1], b[j])
    <3>1. CASE j = k
      BY <2>1, <3>1
    <3>2. CASE j # k
      <4>1. j \in 1 .. k - 1 /\ j \in 0 .. k /\ j - 1 \in 0 .. k /\ j - 1 # k
        BY <2>1, <3>2
      <4> QED BY <2>2, <3>2, <4>1 DEF Folds
    <3> QED BY <3>1, <3>2
  <2>5. Folds(g, d, b, k)
    <3> HIDE DEF g
    <3>1. DOMAIN g = 0 .. k
      BY DEF g
    <3> QED BY <2>3, <2>4, <3>1 DEF Folds
  <2> QED BY <2>5
<1> QED BY <1>3, <1>4

LEMMA BatchFold ==
  ASSUME NEW d, NEW b, Len(b) \in Nat
  PROVE  \E f : Folds(f, d, b, Len(b)) /\ ApplyBatch(d, b) = f[Len(b)]
<1> DEFINE Is(f) == f = [j \in 0 .. Len(b) |-> IF j = 0 THEN {d} ELSE Onto(f[j - 1], b[j])]
           g == CHOOSE f : Is(f)
<1>1. PICK f : Folds(f, d, b, Len(b))
  BY FoldExists
<1>2. Is(f)
  <2> DEFINE h == [j \in 0 .. Len(b) |-> IF j = 0 THEN {d} ELSE Onto(f[j - 1], b[j])]
  <2>1. f = [j \in DOMAIN f |-> f[j]] /\ DOMAIN f = 0 .. Len(b)
    BY <1>1 DEF Folds
  <2>2. \A j \in 0 .. Len(b) : f[j] = h[j]
    BY <1>1 DEF Folds
  <2>3. f = h
    BY <2>1, <2>2
  <2> QED BY <2>3
<1>3. Is(g)
  <2> HIDE DEF Is
  <2> QED BY <1>2
<1>4. ApplyBatch(d, b) = g[Len(b)]
  BY DEF ApplyBatch, Onto
<1>5. Folds(g, d, b, Len(b))
  <2> HIDE DEF g
  <2>1. DOMAIN g = 0 .. Len(b)
    BY <1>3
  <2>2. g[0] = {d}
    BY <1>3
  <2>3. ASSUME NEW j \in 1 .. Len(b) PROVE g[j] = Onto(g[j - 1], b[j])
    <3>1. j \in 0 .. Len(b) /\ j # 0
      OBVIOUS
    <3>2. g[j] = IF j = 0 THEN {d} ELSE Onto(g[j - 1], b[j])
      BY <1>3, <3>1, Zenon
    <3> QED BY <3>1, <3>2
  <2> QED BY <2>1, <2>2, <2>3 DEF Folds
<1> QED BY <1>4, <1>5

\* What holds of d, and is kept by each mutation of a batch, holds of what the batch
\* makes of d: Good(k) is the set of databases that are right after k mutations.
LEMMA BatchInduction ==
  ASSUME NEW d, NEW b, Len(b) \in Nat, NEW Good,
         d \in Good[0],
         \A k \in 1 .. Len(b) : \A e \in Good[k - 1] : ~Rejects(e, b[k]) => Apply(e, b[k]) \in Good[k]
  PROVE  ApplyBatch(d, b) \subseteq Good[Len(b)]
<1>1. PICK f : Folds(f, d, b, Len(b)) /\ ApplyBatch(d, b) = f[Len(b)]
  BY BatchFold
<1> DEFINE T == {k \in Nat : k <= Len(b) /\ ~(f[k] \subseteq Good[k])}
<1>2. SUFFICES ASSUME T # {} PROVE FALSE
  BY <1>1
<1>3. PICK k \in T : \A m \in T : k <= m
  <2> HIDE DEF T
  <2>1. T \in SUBSET Nat
    BY DEF T
  <2> QED BY <1>2, <2>1, LeastElement
<1>4. k # 0
  BY <1>1, <1>3 DEF Folds
<1>5. k - 1 \in Nat /\ k \in 1 .. Len(b) /\ k - 1 \notin T
  BY <1>3, <1>4
<1>6. f[k - 1] \subseteq Good[k - 1]
  BY <1>5
<1>7. f[k] = Onto(f[k - 1], b[k])
  BY <1>1, <1>5 DEF Folds
<1>8. f[k] \subseteq Good[k]
  BY <1>5, <1>6, <1>7 DEF Onto
<1> QED BY <1>3, <1>8

------------------------------------------------------------------------------
(* What the server does to its rows. *)

Stamp == Nat \ {0}
Bundle == Bundles(Stamp, Nat)

LEMMA BundleKinds ==
  ASSUME NEW m \in Bundle
  PROVE  /\ IsNoteBundle(m) \/ IsItemBundle(m) \/ IsLinkBundle(m)
         /\ m.entity = "item" => m.note = NoteOf[m.id]
         /\ m.hlc \in Stamp
<1>1. Stamp \in SUBSET (Nat \ {0}) /\ Nat \in SUBSET Nat
  BY DEF Stamp
<1>2. CASE m \in NoteBundles(Stamp, Nat)
  BY <1>1, <1>2, NoteBundleShape DEF IsNoteBundle
<1>3. CASE m \in ItemBundles(Stamp, NoteOf)
  BY <1>1, <1>3, ItemBundleShape, SyncSystemAssumption
<1>4. CASE m \in LinkBundles(Stamp)
  BY <1>1, <1>4, LinkBundleShape DEF IsLinkBundle
<1> QED BY <1>2, <1>3, <1>4 DEF Bundle, Bundles

\* Of a table T with keys K, whose rows have fields F.
Below(T, K, s) == \A x \in K : T[x] # NoRow => T[x].seq <= s
Older(T, K, F, s) == \A x \in K : T[x] # NoRow => \A f \in F : T[x].clk[f] < s
Grown(T, U, K, F) ==
  \A x \in K : T[x] # NoRow => U[x] # NoRow /\ \A f \in F : T[x].clk[f] <= U[x].clk[f]

\* Table U is table T after a merge of m, under counter s, into row k: into r, which
\* is the row that is there or a fresh one.
Writes(T, U, K, F, Row, k, r, m, s) ==
  /\ NoRow \notin Row /\ \A x \in Row : x.clk \in [F -> Nat] /\ x.seq \in Nat
  /\ T \in [K -> Row \cup {NoRow}] /\ s \in Nat /\ Below(T, K, s)
  /\ m.hlc \in Stamp /\ DOMAIN m.set \subseteq F
  /\ k \in K /\ r \in Row /\ Merge(r, m, s) \in Row /\ Merged(r, m, s)
  /\ T[k] # NoRow => r = T[k]
  /\ T[k] = NoRow => r.seq = 0 /\ \A f \in F : r.clk[f] = 0
  /\ U = [T EXCEPT ![k] = Merge(r, m, s)]

Written(T, U, K, F, k, m, s, n) ==
  /\ Grown(T, U, K, F) /\ Below(U, K, s + n) /\ n \in Nat
  /\ U[k] # NoRow /\ \A f \in DOMAIN m.set : U[k].clk[f] >= m.hlc
  /\ \A t \in Nat : Older(T, K, F, t) /\ m.hlc < t => Older(U, K, F, t)
  /\ \A x \in K : x # k => U[x] = T[x]

LEMMA MergeIntoTable ==
  ASSUME NEW T, NEW U, NEW K, NEW F, NEW Row, NEW k, NEW r, NEW m, NEW s,
         Writes(T, U, K, F, Row, k, r, m, s)
  PROVE  Written(T, U, K, F, k, m, s, Cardinality(Accepted(r, m)))
<1> DEFINE q == Merge(r, m, s)
           acc == Accepted(r, m)
<1> USE DEF Writes
<1>1. /\ \A f \in F : q.clk[f] = IF f \in acc THEN m.hlc ELSE r.clk[f]
      /\ q.seq = IF acc = {} THEN r.seq ELSE s + Cardinality(acc)
      /\ Cardinality(acc) \in Nat
  BY DEF Merged
<1>2. acc \subseteq F /\ \A f \in F : f \in acc <=> f \in DOMAIN m.set /\ m.hlc > r.clk[f]
  BY DEF Accepted
<1>3. r.clk \in [F -> Nat] /\ r.seq \in Nat /\ q \in Row /\ m.hlc \in Nat /\ m.hlc > 0
  BY DEF Stamp
<1>4. \A x \in K : U[x] = IF x = k THEN q ELSE T[x]
  OBVIOUS
<1> HIDE DEF q, acc
<1>5. \A f \in F : r.clk[f] <= q.clk[f]
  BY <1>1, <1>2, <1>3
<1>6. Grown(T, U, K, F)
  <2> SUFFICES ASSUME NEW x \in K, T[x] # NoRow
               PROVE  U[x] # NoRow /\ \A f \in F : T[x].clk[f] <= U[x].clk[f]
    BY DEF Grown
  <2>1. CASE x = k
    BY <1>3, <1>4, <1>5, <2>1
  <2>2. CASE x # k
    <3>1. T[x] \in Row /\ U[x] = T[x]
      BY <1>4, <2>2
    <3>2. T[x].clk \in [F -> Nat]
      BY <3>1
    <3> QED BY <3>1, <3>2
  <2> QED BY <2>1, <2>2
<1>7. Below(U, K, s + Cardinality(acc))
  <2>1. r.seq <= s
    BY <1>3 DEF Below
  <2>2. q.seq <= s + Cardinality(acc)
    BY <1>1, <1>3, <2>1
  <2>3. ASSUME NEW x \in K, x # k, U[x] # NoRow PROVE U[x].seq <= s + Cardinality(acc)
    <3>1. U[x] = T[x] /\ T[x] \in Row
      BY <1>4, <2>3
    <3>2. T[x].seq \in Nat /\ T[x].seq <= s
      BY <2>3, <3>1 DEF Below
    <3> QED BY <1>1, <3>1, <3>2
  <2> QED BY <1>4, <2>2, <2>3 DEF Below
<1>8. U[k] # NoRow /\ \A f \in DOMAIN m.set : U[k].clk[f] >= m.hlc
  <2>1. ASSUME NEW f \in DOMAIN m.set PROVE q.clk[f] >= m.hlc
    <3>1. f \in F
      OBVIOUS
    <3>2. r.clk[f] \in Nat
      BY <1>3, <3>1
    <3> QED BY <1>1, <1>2, <1>3, <3>1, <3>2
  <2> QED BY <1>3, <1>4, <2>1
<1>9. ASSUME NEW t \in Nat, Older(T, K, F, t), m.hlc < t PROVE Older(U, K, F, t)
  <2>1. \A f \in F : q.clk[f] < t
    BY <1>1, <1>3, <1>9 DEF Older
  <2> QED BY <1>4, <1>9, <2>1 DEF Older
<1> QED BY <1>1, <1>4, <1>6, <1>7, <1>8, <1>9 DEF acc, Written

\* No row is newer than the counter; an item hangs where its creator put it.
RowsBelow(d) == /\ Below(d.notes, NoteId, d.seq) /\ Below(d.items, ItemId, d.seq)
                /\ Below(d.links, NoteId \X LabelId, d.seq)
AtHome(d) == \A i \in ItemId : d.items[i] # NoRow => d.items[i].note = NoteOf[i]
GoodDB(d) == d \in Database /\ RowsBelow(d) /\ AtHome(d)

\* Every row of d is in e still, no field's clock earlier.
Grows(d, e) ==
  /\ e.labels = d.labels /\ d.seq <= e.seq
  /\ Grown(d.notes, e.notes, NoteId, NoteField)
  /\ Grown(d.items, e.items, ItemId, ItemField)
  /\ Grown(d.links, e.links, NoteId \X LabelId, LinkField)

\* Absorbed, of any database.
Absorbs(d, m) == RowOf(d, m) # NoRow /\ \A f \in DOMAIN m.set : RowOf(d, m).clk[f] >= m.hlc

\* Every field of d was written before stamp s.
Early(d, s) == /\ Older(d.notes, NoteId, NoteField, s) /\ Older(d.items, ItemId, ItemField, s)
               /\ Older(d.links, NoteId \X LabelId, LinkField, s)

LEMMA Rows ==
  /\ NoRow \notin NoteRow /\ NoRow \notin ItemRow /\ NoRow \notin LinkRow
  /\ \A r \in NoteRow : r.clk \in [NoteField -> Nat] /\ r.seq \in Nat
  /\ \A r \in ItemRow : r.clk \in [ItemField -> Nat] /\ r.seq \in Nat
  /\ \A r \in LinkRow : r.clk \in [LinkField -> Nat] /\ r.seq \in Nat
BY StoreAssumption DEF NoteRow, ItemRow, LinkRow

\* A table nothing writes, under a counter that may have moved.
LEMMA SameTable ==
  ASSUME NEW K, NEW F, NEW Row, NoRow \notin Row,
         \A r \in Row : r.clk \in [F -> Nat] /\ r.seq \in Nat,
         NEW T \in [K -> Row \cup {NoRow}], NEW s \in Nat, NEW t \in Nat, s <= t, Below(T, K, s)
  PROVE  Grown(T, T, K, F) /\ Below(T, K, t)
<1> SUFFICES ASSUME NEW x \in K, T[x] # NoRow
             PROVE  T[x].seq <= t /\ \A f \in F : T[x].clk[f] <= T[x].clk[f]
  BY DEF Grown, Below
<1>1. T[x] \in Row /\ T[x].seq <= s
  BY DEF Below
<1> QED BY <1>1

LEMMA SameTables ==
  ASSUME NEW d, GoodDB(d), NEW t \in Nat, d.seq <= t
  PROVE  /\ Grown(d.notes, d.notes, NoteId, NoteField) /\ Below(d.notes, NoteId, t)
         /\ Grown(d.items, d.items, ItemId, ItemField) /\ Below(d.items, ItemId, t)
         /\ Grown(d.links, d.links, NoteId \X LabelId, LinkField)
         /\ Below(d.links, NoteId \X LabelId, t)
<1>1. /\ d.seq \in Nat /\ RowsBelow(d)
      /\ d.notes \in [NoteId -> NoteRow \cup {NoRow}]
      /\ d.items \in [ItemId -> ItemRow \cup {NoRow}]
      /\ d.links \in [NoteId \X LabelId -> LinkRow \cup {NoRow}]
  BY DEF GoodDB, Database
<1>2. Grown(d.notes, d.notes, NoteId, NoteField) /\ Below(d.notes, NoteId, t)
  BY <1>1, Rows, SameTable DEF RowsBelow
<1>3. Grown(d.items, d.items, ItemId, ItemField) /\ Below(d.items, ItemId, t)
  BY <1>1, Rows, SameTable DEF RowsBelow
<1>4. /\ Grown(d.links, d.links, NoteId \X LabelId, LinkField)
      /\ Below(d.links, NoteId \X LabelId, t)
  BY <1>1, Rows, SameTable DEF RowsBelow
<1> QED BY <1>2, <1>3, <1>4

LEMMA ApplyStep ==
  ASSUME NEW d, GoodDB(d), NEW m \in Bundle
  PROVE  LET a == Apply(d, m) IN
         /\ GoodDB(a) /\ Grows(d, a) /\ Absorbs(a, m)
         /\ \A s \in Nat : Early(d, s) /\ m.hlc < s => Early(a, s)
         /\ \A n \in NoteId : a.notes[n] # NoRow =>
              d.notes[n] # NoRow \/ (m.entity = "note" /\ m.id = n)
<1> DEFINE a == Apply(d, m)
<1>1. /\ d \in Database /\ d.seq \in Nat /\ m.hlc \in Stamp /\ RowsBelow(d)
      /\ d.notes \in [NoteId -> NoteRow \cup {NoRow}]
      /\ d.items \in [ItemId -> ItemRow \cup {NoRow}]
      /\ d.links \in [NoteId \X LabelId -> LinkRow \cup {NoRow}]
  BY BundleKinds DEF GoodDB, Database
<1>2. CASE IsNoteBundle(m)
  <2> DEFINE r == NoteAt(d, m)
             q == Merge(r, m, d.seq)
             new == Cardinality(Accepted(r, m))
  <2>1. NoteEffect(d, m, a, r, q)
    BY <1>1, <1>2, ApplyNoteEffect
  <2>2. Merged(r, m, d.seq)
    BY <1>1, <1>2, <2>1, MergeNote DEF NoteEffect
  <2>3. m.id \in NoteId /\ m.entity = "note" /\ DOMAIN m.set \subseteq NoteField
    BY <1>2 DEF IsNoteBundle, NoteSetOK
  <2>4. /\ d.notes[m.id] # NoRow => r = d.notes[m.id]
        /\ d.notes[m.id] = NoRow => r.seq = 0 /\ \A f \in NoteField : r.clk[f] = 0
    BY DEF NoteAt, OrFresh, FreshNote
  <2> HIDE DEF a, r
  <2>5. /\ r \in NoteRow /\ q \in NoteRow /\ a.notes = [d.notes EXCEPT ![m.id] = q]
        /\ a.seq = d.seq + new /\ a.items = d.items /\ a.links = d.links
        /\ a.labels = d.labels /\ a \in Database
    BY <2>1 DEF NoteEffect
  <2>6. Written(d.notes, a.notes, NoteId, NoteField, m.id, m, d.seq, new)
    <3>1. Writes(d.notes, a.notes, NoteId, NoteField, NoteRow, m.id, r, m, d.seq)
      BY <1>1, <2>2, <2>3, <2>4, <2>5, Rows DEF RowsBelow, Writes, q
    <3> QED BY <3>1, MergeIntoTable
  <2>7. d.seq + new \in Nat /\ d.seq <= d.seq + new
    BY <1>1, <2>6 DEF Written
  <2>8. GoodDB(a) /\ Grows(d, a)
    BY <2>5, <2>6, <2>7, SameTables DEF Written, GoodDB, Grows, RowsBelow, AtHome
  <2>9. Absorbs(a, m)
    BY <2>3, <2>6 DEF Written, Absorbs, RowOf
  <2>10. \A s \in Nat : Early(d, s) /\ m.hlc < s => Early(a, s)
    BY <2>5, <2>6 DEF Written, Early
  <2>11. \A n \in NoteId : a.notes[n] # NoRow => d.notes[n] # NoRow \/ n = m.id
    BY <2>6 DEF Written
  <2> QED BY <2>3, <2>8, <2>9, <2>10, <2>11 DEF a
<1>3. CASE IsItemBundle(m)
  <2> DEFINE r == ItemAt(d, m)
             q == Merge(r, m, d.seq)
             new == Cardinality(Accepted(r, m))
  <2>1. ItemEffect(d, m, a, r, q)
    BY <1>1, <1>3, ApplyItemEffect
  <2>2. Merged(r, m, d.seq) /\ q.note = r.note
    BY <1>1, <1>3, <2>1, MergeItem DEF ItemEffect
  <2>3. /\ m.id \in ItemId /\ m.entity = "item" /\ DOMAIN m.set \subseteq ItemField
        /\ m.note = NoteOf[m.id]
    BY <1>3, BundleKinds DEF IsItemBundle, ItemSetOK
  <2>4. /\ d.items[m.id] # NoRow => r = d.items[m.id]
        /\ d.items[m.id] = NoRow => r.seq = 0 /\ \A f \in ItemField : r.clk[f] = 0
        /\ d.items[m.id] = NoRow => r.note = m.note
    BY DEF ItemAt, OrFresh, FreshItem
  <2> HIDE DEF a, r
  <2>5. /\ r \in ItemRow /\ q \in ItemRow /\ a.items = [d.items EXCEPT ![m.id] = q]
        /\ a.seq = d.seq + new /\ a.notes = d.notes /\ a.links = d.links
        /\ a.labels = d.labels /\ a \in Database
    BY <2>1 DEF ItemEffect
  <2> HIDE DEF q
  <2>6. Written(d.items, a.items, ItemId, ItemField, m.id, m, d.seq, new)
    <3>1. Writes(d.items, a.items, ItemId, ItemField, ItemRow, m.id, r, m, d.seq)
      BY <1>1, <2>2, <2>3, <2>4, <2>5, Rows DEF RowsBelow, Writes, q
    <3> QED BY <3>1, MergeIntoTable
  <2>7. d.seq + new \in Nat /\ d.seq <= d.seq + new
    BY <1>1, <2>6 DEF Written
  <2>8. AtHome(a)
    <3>1. \A i \in ItemId : a.items[i] = IF i = m.id THEN q ELSE d.items[i]
      BY <1>1, <2>5
    <3>2. q.note = NoteOf[m.id]
      BY <2>2, <2>3, <2>4 DEF GoodDB, AtHome
    <3> QED BY <3>1, <3>2 DEF GoodDB, AtHome
  <2>9. GoodDB(a) /\ Grows(d, a)
    BY <2>5, <2>6, <2>7, <2>8, SameTables DEF Written, GoodDB, Grows, RowsBelow
  <2>10. Absorbs(a, m)
    BY <2>3, <2>6 DEF Written, Absorbs, RowOf
  <2>11. \A s \in Nat : Early(d, s) /\ m.hlc < s => Early(a, s)
    BY <2>5, <2>6 DEF Written, Early
  <2> QED BY <2>5, <2>9, <2>10, <2>11 DEF a
<1>4. CASE IsLinkBundle(m)
  <2> DEFINE p == <<m.note, m.label>>
             r == LinkAt(d, m)
             q == Merge(r, m, d.seq)
             new == Cardinality(Accepted(r, m))
  <2>1. LinkEffect(d, m, a, r, q)
    BY <1>1, <1>4, ApplyLinkEffect
  <2>2. Merged(r, m, d.seq)
    BY <1>1, <1>4, <2>1, MergeLink DEF LinkEffect
  <2>3. /\ p \in NoteId \X LabelId /\ m.entity = "note_label" /\ DOMAIN m.set \subseteq LinkField
    BY <1>4 DEF IsLinkBundle
  <2>4. /\ d.links[p] # NoRow => r = d.links[p]
        /\ d.links[p] = NoRow => r.seq = 0 /\ \A f \in LinkField : r.clk[f] = 0
    BY DEF LinkAt, OrFresh, FreshLink
  <2> HIDE DEF a, r
  <2>5. /\ r \in LinkRow /\ q \in LinkRow /\ a.links = [d.links EXCEPT ![p] = q]
        /\ a.seq = d.seq + new /\ a.notes = d.notes /\ a.items = d.items
        /\ a.labels = d.labels /\ a \in Database
    BY <2>1 DEF LinkEffect
  <2>6. RowOf(a, m) = a.links[p]
    BY <2>3 DEF RowOf
  <2> HIDE DEF q, p
  <2>7. Written(d.links, a.links, NoteId \X LabelId, LinkField, p, m, d.seq, new)
    <3>1. Writes(d.links, a.links, NoteId \X LabelId, LinkField, LinkRow, p, r, m, d.seq)
      BY <1>1, <2>2, <2>3, <2>4, <2>5, Rows DEF RowsBelow, Writes, q
    <3> QED BY <3>1, MergeIntoTable
  <2>8. d.seq + new \in Nat /\ d.seq <= d.seq + new
    BY <1>1, <2>7 DEF Written
  <2>9. GoodDB(a) /\ Grows(d, a)
    BY <2>5, <2>7, <2>8, SameTables DEF Written, GoodDB, Grows, RowsBelow, AtHome
  <2>10. Absorbs(a, m)
    BY <2>6, <2>7 DEF Written, Absorbs
  <2>11. \A s \in Nat : Early(d, s) /\ m.hlc < s => Early(a, s)
    BY <2>5, <2>7 DEF Written, Early
  <2> QED BY <2>5, <2>9, <2>10, <2>11 DEF a
<1> QED BY <1>2, <1>3, <1>4, BundleKinds

LEMMA GrowsOn ==
  ASSUME NEW d, NEW e, NEW f, d \in Database, e \in Database, f \in Database,
         Grows(d, e), Grows(e, f)
  PROVE  Grows(d, f)
<1>1. /\ d.seq \in Nat /\ e.seq \in Nat /\ f.seq \in Nat
      /\ \A x \in {d, e, f} : /\ x.notes \in [NoteId -> NoteRow \cup {NoRow}]
                              /\ x.items \in [ItemId -> ItemRow \cup {NoRow}]
                              /\ x.links \in [NoteId \X LabelId -> LinkRow \cup {NoRow}]
  BY DEF Database
<1>2. ASSUME NEW K, NEW F, NEW Row, \A r \in Row : r.clk \in [F -> Nat] /\ r.seq \in Nat,
             NEW T \in [K -> Row \cup {NoRow}], NEW U \in [K -> Row \cup {NoRow}],
             NEW V \in [K -> Row \cup {NoRow}], Grown(T, U, K, F), Grown(U, V, K, F)
      PROVE  Grown(T, V, K, F)
  <2> SUFFICES ASSUME NEW x \in K, T[x] # NoRow
               PROVE  V[x] # NoRow /\ \A g \in F : T[x].clk[g] <= V[x].clk[g]
    BY DEF Grown
  <2>1. /\ U[x] # NoRow /\ \A g \in F : T[x].clk[g] <= U[x].clk[g]
        /\ V[x] # NoRow /\ \A g \in F : U[x].clk[g] <= V[x].clk[g]
    BY <1>2 DEF Grown
  <2>2. T[x] \in Row /\ U[x] \in Row /\ V[x] \in Row
    BY <2>1
  <2>3. \A g \in F : T[x].clk[g] \in Nat /\ U[x].clk[g] \in Nat /\ V[x].clk[g] \in Nat
    BY <1>2, <2>2
  <2> QED BY <2>1, <2>3
<1>3. Grown(d.notes, f.notes, NoteId, NoteField)
  BY <1>1, <1>2, Rows DEF Grows
<1>4. Grown(d.items, f.items, ItemId, ItemField)
  BY <1>1, <1>2, Rows DEF Grows
<1>5. Grown(d.links, f.links, NoteId \X LabelId, LinkField)
  BY <1>1, <1>2, Rows DEF Grows
<1> QED BY <1>1, <1>3, <1>4, <1>5 DEF Grows

\* The row a bundle is about.
LEMMA RowIsAbout ==
  ASSUME NEW m \in Bundle
  PROVE  /\ m.entity = "note" => m.id \in NoteId /\ DOMAIN m.set \subseteq NoteField
         /\ m.entity = "item" => /\ m.id \in ItemId /\ DOMAIN m.set \subseteq ItemField
                                 /\ m.note = NoteOf[m.id]
         /\ m.entity = "note_label" =>
              /\ m.note \in NoteId /\ m.label \in LabelId /\ DOMAIN m.set \subseteq LinkField
         /\ m.entity \in {"note", "item", "note_label"}
         /\ NoteIdOf(m) \in NoteId /\ m.hlc \in Nat /\ m.hlc > 0
<1>1. m.entity = "note" => m.id \in NoteId /\ DOMAIN m.set \subseteq NoteField
  BY BundleKinds DEF IsNoteBundle, IsItemBundle, IsLinkBundle, NoteSetOK
<1>2. m.entity = "item" => /\ m.id \in ItemId /\ DOMAIN m.set \subseteq ItemField
                           /\ m.note = NoteOf[m.id]
  BY BundleKinds DEF IsNoteBundle, IsItemBundle, IsLinkBundle, ItemSetOK
<1>3. m.entity = "note_label" =>
        /\ m.note \in NoteId /\ m.label \in LabelId /\ DOMAIN m.set \subseteq LinkField
  BY BundleKinds DEF IsNoteBundle, IsItemBundle, IsLinkBundle
<1>4. m.entity \in {"note", "item", "note_label"} /\ m.hlc \in Nat /\ m.hlc > 0
  BY BundleKinds DEF IsNoteBundle, IsItemBundle, IsLinkBundle, Stamp
<1>5. NoteIdOf(m) \in NoteId
  BY BundleKinds DEF IsNoteBundle, IsItemBundle, IsLinkBundle, NoteIdOf
<1> QED BY <1>1, <1>2, <1>3, <1>4, <1>5

\* What has been taken in stays taken in, while rows only grow.
LEMMA AbsorbedStays ==
  ASSUME NEW d \in Database, NEW e \in Database, Grows(d, e), NEW m \in Bundle, Absorbs(d, m)
  PROVE  Absorbs(e, m)
<1>1. /\ d.notes \in [NoteId -> NoteRow \cup {NoRow}]
      /\ d.items \in [ItemId -> ItemRow \cup {NoRow}]
      /\ d.links \in [NoteId \X LabelId -> LinkRow \cup {NoRow}]
      /\ e.notes \in [NoteId -> NoteRow \cup {NoRow}]
      /\ e.items \in [ItemId -> ItemRow \cup {NoRow}]
      /\ e.links \in [NoteId \X LabelId -> LinkRow \cup {NoRow}]
  BY DEF Database
<1> DEFINE Taken(T, k) == T[k] # NoRow /\ \A f \in DOMAIN m.set : T[k].clk[f] >= m.hlc
           Lasts(T, U, K, F, Row, k) ==
             /\ \A r \in Row : r.clk \in [F -> Nat] /\ r.seq \in Nat
             /\ T \in [K -> Row \cup {NoRow}] /\ U \in [K -> Row \cup {NoRow}]
             /\ Grown(T, U, K, F) /\ k \in K /\ DOMAIN m.set \subseteq F
<1>2. ASSUME NEW T, NEW U, NEW K, NEW F, NEW Row, NEW k, Lasts(T, U, K, F, Row, k), Taken(T, k)
      PROVE  Taken(U, k)
  <2>1. U[k] # NoRow /\ \A f \in F : T[k].clk[f] <= U[k].clk[f]
    BY <1>2 DEF Grown
  <2>2. \A f \in F : T[k].clk[f] \in Nat /\ U[k].clk[f] \in Nat
    BY <1>2, <2>1
  <2>3. m.hlc \in Nat
    BY RowIsAbout
  <2> QED BY <1>2, <2>1, <2>2, <2>3
<1>3. CASE m.entity = "note"
  <2>1. RowOf(d, m) = d.notes[m.id] /\ RowOf(e, m) = e.notes[m.id]
    BY <1>3 DEF RowOf
  <2>2. Lasts(d.notes, e.notes, NoteId, NoteField, NoteRow, m.id)
    BY <1>1, <1>3, Rows, RowIsAbout DEF Grows
  <2> HIDE DEF Lasts
  <2> QED BY <1>2, <2>1, <2>2 DEF Absorbs
<1>4. CASE m.entity = "item"
  <2>1. RowOf(d, m) = d.items[m.id] /\ RowOf(e, m) = e.items[m.id]
    BY <1>4 DEF RowOf
  <2>2. Lasts(d.items, e.items, ItemId, ItemField, ItemRow, m.id)
    BY <1>1, <1>4, Rows, RowIsAbout DEF Grows
  <2> HIDE DEF Lasts
  <2> QED BY <1>2, <2>1, <2>2 DEF Absorbs
<1>5. CASE m.entity = "note_label"
  <2> DEFINE p == <<m.note, m.label>>
  <2>1. RowOf(d, m) = d.links[p] /\ RowOf(e, m) = e.links[p]
    BY <1>5 DEF RowOf
  <2>2. p \in NoteId \X LabelId
    BY <1>5, RowIsAbout
  <2> HIDE DEF p
  <2>3. Lasts(d.links, e.links, NoteId \X LabelId, LinkField, LinkRow, p)
    BY <1>1, <1>5, <2>2, Rows, RowIsAbout DEF Grows
  <2> HIDE DEF Lasts
  <2> QED BY <1>2, <2>1, <2>3 DEF Absorbs
<1> QED BY <1>3, <1>4, <1>5, RowIsAbout

\* A whole batch.
LEMMA BatchEffect ==
  ASSUME NEW d, GoodDB(d), NEW b \in Seq(Bundle), NEW a \in ApplyBatch(d, b)
  PROVE  /\ GoodDB(a) /\ Grows(d, a)
         /\ \A m \in ToSet(b) : Absorbs(a, m)
         /\ \A s \in Nat : Early(d, s) /\ (\A m \in ToSet(b) : m.hlc < s) => Early(a, s)
         /\ \A n \in NoteId : a.notes[n] # NoRow =>
              d.notes[n] # NoRow \/ \E m \in ToSet(b) : m.entity = "note" /\ m.id = n
<1> DEFINE Good(k) == {e \in Database :
                 /\ GoodDB(e) /\ Grows(d, e)
                 /\ \A j \in 1 .. k : Absorbs(e, b[j])
                 /\ \A s \in Nat : Early(d, s) /\ (\A j \in 1 .. k : b[j].hlc < s) => Early(e, s)
                 /\ \A n \in NoteId : e.notes[n] # NoRow =>
                      \/ d.notes[n] # NoRow
                      \/ \E j \in 1 .. k : b[j].entity = "note" /\ b[j].id = n}
           G == [k \in 0 .. Len(b) |-> Good(k)]
<1>1. Len(b) \in Nat /\ \A j \in 1 .. Len(b) : b[j] \in Bundle
  OBVIOUS
<1>2. d \in Good(0)
  <2>1. d \in Database /\ d.seq \in Nat /\ d.seq <= d.seq
    BY DEF GoodDB, Database
  <2>2. Grows(d, d)
    BY <2>1, SameTables DEF Grows
  <2> QED BY <2>1, <2>2
<1>3. ASSUME NEW k \in 1 .. Len(b), NEW e \in Good(k - 1)
      PROVE  Apply(e, b[k]) \in Good(k)
  <2> DEFINE m == b[k]
             q == Apply(e, m)
  <2>1. m \in Bundle /\ \A j \in 1 .. k : j \in 1 .. k - 1 \/ j = k
    BY <1>1
  <2>2. /\ GoodDB(e) /\ Grows(d, e) /\ d \in Database /\ e \in Database
        /\ \A j \in 1 .. k - 1 : Absorbs(e, b[j])
    BY <1>3 DEF GoodDB
  <2> HIDE DEF m, Good, G
  <2>3. /\ GoodDB(q) /\ Grows(e, q) /\ Absorbs(q, m)
        /\ \A s \in Nat : Early(e, s) /\ m.hlc < s => Early(q, s)
        /\ \A n \in NoteId : q.notes[n] # NoRow =>
             e.notes[n] # NoRow \/ (m.entity = "note" /\ m.id = n)
    BY <2>1, <2>2, ApplyStep
  <2> HIDE DEF q
  <2>4. q \in Database
    BY <2>3 DEF GoodDB
  <2>5. Grows(d, q)
    BY <2>2, <2>3, <2>4, GrowsOn
  <2>6. \A j \in 1 .. k : Absorbs(q, b[j])
    <3>1. ASSUME NEW j \in 1 .. k - 1 PROVE Absorbs(q, b[j])
      <4>1. b[j] \in Bundle /\ Absorbs(e, b[j])
        BY <1>1, <2>2
      <4> QED BY <2>2, <2>3, <2>4, <4>1, AbsorbedStays
    <3> QED BY <2>1, <2>3, <3>1 DEF m
  <2>7. ASSUME NEW s \in Nat, Early(d, s), \A j \in 1 .. k : b[j].hlc < s PROVE Early(q, s)
    <3>1. k \in 1 .. k /\ \A j \in 1 .. k - 1 : j \in 1 .. k
      BY <1>1
    <3>2. Early(e, s)
      BY <1>3, <2>7, <3>1 DEF Good
    <3> QED BY <2>3, <2>7, <3>1, <3>2 DEF m
  <2>8. ASSUME NEW n \in NoteId, q.notes[n] # NoRow, d.notes[n] = NoRow
        PROVE  \E j \in 1 .. k : b[j].entity = "note" /\ b[j].id = n
    <3>1. k \in 1 .. k /\ \A j \in 1 .. k - 1 : j \in 1 .. k
      BY <1>1
    <3> QED BY <1>3, <2>3, <2>8, <3>1 DEF m, Good
  <2> QED BY <2>3, <2>4, <2>5, <2>6, <2>7, <2>8 DEF Good, q, m
<1> HIDE DEF Good
<1>4. ApplyBatch(d, b) \subseteq G[Len(b)]
  <2>1. d \in G[0]
    BY <1>1, <1>2
  <2>2. \A k \in 1 .. Len(b) : k \in 0 .. Len(b) /\ k - 1 \in 0 .. Len(b)
    BY <1>1
  <2>3. \A k \in 1 .. Len(b) : \A e \in G[k - 1] : ~Rejects(e, b[k]) => Apply(e, b[k]) \in G[k]
    BY <1>3, <2>2
  <2> HIDE DEF G
  <2> QED BY <1>1, <2>1, <2>3, BatchInduction
<1>5. a \in Good(Len(b))
  BY <1>1, <1>4
<1>6. \A m : m \in ToSet(b) <=> \E j \in 1 .. Len(b) : m = b[j]
  BY DEF ToSet
<1> QED BY <1>5, <1>6 DEF Good

\* What one action may do to the database when the notes of S have been purged: of what
\* is not moot every row stays, and no field's clock goes back.
GrownBut(T, U, K, F, Gone) ==
  \A x \in K \ Gone : T[x] # NoRow => U[x] # NoRow /\ \A f \in F : T[x].clk[f] <= U[x].clk[f]
Evolves(d, e, S) ==
  /\ GoodDB(e) /\ d.seq <= e.seq
  /\ \A l \in LabelId : d.labels[l] = NoRow => e.labels[l] = NoRow
  /\ GrownBut(d.notes, e.notes, NoteId, NoteField, S)
  /\ GrownBut(d.items, e.items, ItemId, ItemField, {i \in ItemId : NoteOf[i] \in S})
  /\ GrownBut(d.links, e.links, NoteId \X LabelId, LinkField,
              {p \in NoteId \X LabelId : p[1] \in S \/ e.labels[p[2]] = NoRow})

\* Moot, of any database and purged notes.
MootIn(d, S, m) == NoteIdOf(m) \in S \/ (m.entity = "note_label" /\ d.labels[m.label] = NoRow)

LEMMA GrowsEvolves ==
  ASSUME NEW d, NEW e, GoodDB(e), Grows(d, e), NEW S
  PROVE  Evolves(d, e, S)
BY DEF Evolves, Grows, Grown, GrownBut

LEMMA SameEvolves ==
  ASSUME NEW d, GoodDB(d), NEW S
  PROVE  Evolves(d, d, S)
<1>1. d.seq \in Nat /\ d.seq <= d.seq
  BY DEF GoodDB, Database
<1>2. Grows(d, d)
  BY <1>1, SameTables DEF Grows
<1> QED BY <1>2, GrowsEvolves

LEMMA PurgeEvolves ==
  ASSUME NEW d, GoodDB(d), NEW n \in NoteId, NEW S, n \in S
  PROVE  LET e == Purge(d, {n}) IN
         /\ Evolves(d, e, S)
         /\ \A x \in NoteId : e.notes[x] = IF x = n THEN NoRow ELSE d.notes[x]
         /\ \A s \in Nat : Early(d, s) => Early(e, s)
<1> DEFINE e == Purge(d, {n})
<1>1. d \in Database /\ d.seq \in Nat /\ d.seq <= d.seq
  BY DEF GoodDB, Database
<1>2. /\ e.seq = d.seq /\ e.labels = d.labels
      /\ \A x \in NoteId : e.notes[x] = IF x = n THEN NoRow ELSE d.notes[x]
      /\ \A i \in ItemId : e.items[i] = IF i \in ItemsOf(d, n) THEN NoRow ELSE d.items[i]
      /\ \A p \in NoteId \X LabelId : e.links[p] = IF p[1] = n THEN NoRow ELSE d.links[p]
  BY <1>1 DEF Purge, Database
<1>3. e \in Database
  BY <1>1, PurgeType
<1> HIDE DEF e
<1>4. GoodDB(e)
  BY <1>2, <1>3 DEF GoodDB, RowsBelow, Below, AtHome
<1>5. Grows(d, d)
  BY <1>1, SameTables DEF Grows
<1>6. \A i \in ItemId : i \in ItemsOf(d, n) => NoteOf[i] \in S
  BY DEF ItemsOf, GoodDB, AtHome
<1>7. GrownBut(d.notes, e.notes, NoteId, NoteField, S)
  BY <1>2, <1>5 DEF Grows, Grown, GrownBut
<1>8. GrownBut(d.items, e.items, ItemId, ItemField, {i \in ItemId : NoteOf[i] \in S})
  BY <1>2, <1>5, <1>6 DEF Grows, Grown, GrownBut
<1>9. GrownBut(d.links, e.links, NoteId \X LabelId, LinkField,
               {p \in NoteId \X LabelId : p[1] \in S \/ e.labels[p[2]] = NoRow})
  BY <1>2, <1>5 DEF Grows, Grown, GrownBut
<1>10. Evolves(d, e, S)
  BY <1>1, <1>2, <1>4, <1>7, <1>8, <1>9 DEF Evolves
<1>11. \A s \in Nat : Early(d, s) => Early(e, s)
  BY <1>2 DEF Early, Older
<1> QED BY <1>2, <1>10, <1>11 DEF e

LEMMA RemoveLabelEvolves ==
  ASSUME NEW d, GoodDB(d), NEW l \in LabelId, NEW S
  PROVE  LET e == RemoveLabel(d, l) IN
         /\ Evolves(d, e, S) /\ e.notes = d.notes
         /\ \A s \in Nat : Early(d, s) => Early(e, s)
<1> DEFINE e == RemoveLabel(d, l)
<1>1. d \in Database /\ d.seq \in Nat /\ d.seq <= d.seq
  BY DEF GoodDB, Database
<1>2. /\ e.seq = d.seq /\ e.notes = d.notes /\ e.items = d.items
      /\ \A x \in LabelId : e.labels[x] = IF x = l THEN NoRow ELSE d.labels[x]
      /\ \A p \in NoteId \X LabelId : e.links[p] = IF p[2] = l THEN NoRow ELSE d.links[p]
  BY <1>1 DEF RemoveLabel, Database
<1>3. e \in Database
  BY <1>1, LabelTypes
<1> HIDE DEF e
<1>4. GoodDB(e)
  BY <1>2, <1>3 DEF GoodDB, RowsBelow, Below, AtHome
<1>5. Grows(d, d)
  BY <1>1, SameTables DEF Grows
<1>6. GrownBut(d.links, e.links, NoteId \X LabelId, LinkField,
               {p \in NoteId \X LabelId : p[1] \in S \/ e.labels[p[2]] = NoRow})
  BY <1>2, <1>5 DEF Grows, Grown, GrownBut
<1>7. Evolves(d, e, S)
  BY <1>1, <1>2, <1>4, <1>5, <1>6 DEF Evolves, Grows, Grown, GrownBut
<1>8. \A s \in Nat : Early(d, s) => Early(e, s)
  BY <1>2 DEF Early, Older
<1> QED BY <1>2, <1>7, <1>8 DEF e

\* An upload loses nothing when its note does not exist yet.
LEMMA AudioEvolves ==
  ASSUME NEW d, GoodDB(d), NEW n \in NoteId, NEW t \in Text, NEW S
  PROVE  LET e == InsertAudio(d, n, t, FirstKey) IN
         /\ GoodDB(e) /\ d.seq <= e.seq /\ (d.notes[n] = NoRow => Evolves(d, e, S))
         /\ e.notes[n] \in NoteRow /\ e.notes[n].seq = e.seq
         /\ \A x \in NoteId : x # n => e.notes[x] = d.notes[x]
         /\ \A s \in Nat : Early(d, s) /\ 0 < s => Early(e, s)
<1> DEFINE e == InsertAudio(d, n, t, FirstKey)
<1>1. /\ d \in Database /\ d.seq \in Nat /\ d.seq <= d.seq + 1 /\ d.seq + 1 \in Nat
      /\ d.notes \in [NoteId -> NoteRow \cup {NoRow}]
  BY DEF GoodDB, Database
<1>2. AudioEffect(d, n, t, FirstKey, e)
  BY <1>1, InsertAudioEffect, StoreAssumption
<1> HIDE DEF e
<1>3. PICK r : AudioRow(r, t, FirstKey, d.seq + 1) /\ e.notes = [d.notes EXCEPT ![n] = r]
  BY <1>2 DEF AudioEffect
<1>4. r \in NoteRow /\ r.seq = d.seq + 1 /\ \A f \in NoteField : r.clk[f] = 0
  BY <1>3 DEF AudioRow
<1>5. /\ e \in Database /\ e.items = d.items /\ e.links = d.links /\ e.labels = d.labels
      /\ e.seq = d.seq + 1
      /\ \A x \in NoteId : e.notes[x] = IF x = n THEN r ELSE d.notes[x]
  BY <1>1, <1>2, <1>3 DEF AudioEffect
<1>6. GoodDB(e)
  <2>1. Below(e.notes, NoteId, e.seq)
    BY <1>1, <1>4, <1>5, SameTables DEF Below
  <2> QED BY <1>1, <1>5, <2>1, SameTables DEF GoodDB, RowsBelow, AtHome
<1>7. ASSUME d.notes[n] = NoRow PROVE Grows(d, e)
  <2>1. Grown(d.notes, d.notes, NoteId, NoteField)
    BY <1>1, SameTables
  <2>2. Grown(d.notes, e.notes, NoteId, NoteField)
    BY <1>5, <1>7, <2>1 DEF Grown
  <2> QED BY <1>1, <1>5, <2>2, SameTables DEF Grows
<1>8. \A s \in Nat : Early(d, s) /\ 0 < s => Early(e, s)
  BY <1>4, <1>5 DEF Early, Older
<1>9. d.notes[n] = NoRow => Evolves(d, e, S)
  BY <1>6, <1>7, GrowsEvolves
<1> QED BY <1>1, <1>4, <1>5, <1>6, <1>8, <1>9 DEF e

\* Done, of any database and purged notes, stays.
LEMMA DoneStays ==
  ASSUME NEW d \in Database, NEW e, NEW S, NEW S0 \in SUBSET S, Evolves(d, e, S), NEW m \in Bundle,
         Absorbs(d, m) \/ MootIn(d, S0, m)
  PROVE  Absorbs(e, m) \/ MootIn(e, S, m)
<1>1. e \in Database
  BY DEF Evolves, GoodDB
<1>2. /\ d.notes \in [NoteId -> NoteRow \cup {NoRow}]
      /\ d.items \in [ItemId -> ItemRow \cup {NoRow}]
      /\ d.links \in [NoteId \X LabelId -> LinkRow \cup {NoRow}]
      /\ e.notes \in [NoteId -> NoteRow \cup {NoRow}]
      /\ e.items \in [ItemId -> ItemRow \cup {NoRow}]
      /\ e.links \in [NoteId \X LabelId -> LinkRow \cup {NoRow}]
  BY <1>1 DEF Database
<1>3. CASE MootIn(d, S0, m)
  BY <1>3, RowIsAbout DEF MootIn, Evolves
<1>4. SUFFICES ASSUME Absorbs(d, m), ~MootIn(e, S, m) PROVE Absorbs(e, m)
  BY <1>3
<1> DEFINE Taken(T, k) == T[k] # NoRow /\ \A f \in DOMAIN m.set : T[k].clk[f] >= m.hlc
           Lasts(T, U, K, F, Gone, Row, k) ==
             /\ \A r \in Row : r.clk \in [F -> Nat] /\ r.seq \in Nat
             /\ T \in [K -> Row \cup {NoRow}] /\ U \in [K -> Row \cup {NoRow}]
             /\ GrownBut(T, U, K, F, Gone) /\ k \in K \ Gone /\ DOMAIN m.set \subseteq F
<1>5. ASSUME NEW T, NEW U, NEW K, NEW F, NEW Gone, NEW Row, NEW k,
             Lasts(T, U, K, F, Gone, Row, k), Taken(T, k)
      PROVE  Taken(U, k)
  <2>1. U[k] # NoRow /\ \A f \in F : T[k].clk[f] <= U[k].clk[f]
    BY <1>5 DEF GrownBut
  <2>2. \A f \in F : T[k].clk[f] \in Nat /\ U[k].clk[f] \in Nat
    BY <1>5, <2>1
  <2>3. m.hlc \in Nat
    BY RowIsAbout
  <2> QED BY <1>5, <2>1, <2>2, <2>3
<1>6. CASE m.entity = "note"
  <2>1. RowOf(d, m) = d.notes[m.id] /\ RowOf(e, m) = e.notes[m.id]
    BY <1>6 DEF RowOf
  <2>2. Lasts(d.notes, e.notes, NoteId, NoteField, S, NoteRow, m.id)
    BY <1>2, <1>4, <1>6, Rows, RowIsAbout DEF Evolves, MootIn, NoteIdOf
  <2> HIDE DEF Lasts
  <2> QED BY <1>4, <1>5, <2>1, <2>2 DEF Absorbs
<1>7. CASE m.entity = "item"
  <2>1. RowOf(d, m) = d.items[m.id] /\ RowOf(e, m) = e.items[m.id]
    BY <1>7 DEF RowOf
  <2>2. Lasts(d.items, e.items, ItemId, ItemField, {i \in ItemId : NoteOf[i] \in S},
              ItemRow, m.id)
    BY <1>2, <1>4, <1>7, Rows, RowIsAbout DEF Evolves, MootIn, NoteIdOf
  <2> HIDE DEF Lasts
  <2> QED BY <1>4, <1>5, <2>1, <2>2 DEF Absorbs
<1>8. CASE m.entity = "note_label"
  <2> DEFINE p == <<m.note, m.label>>
             Gone == {q \in NoteId \X LabelId : q[1] \in S \/ e.labels[q[2]] = NoRow}
  <2>1. RowOf(d, m) = d.links[p] /\ RowOf(e, m) = e.links[p]
    BY <1>8 DEF RowOf
  <2>2. p \in NoteId \X LabelId
    BY <1>8, RowIsAbout
  <2>3. p[1] = m.note /\ p[2] = m.label
    OBVIOUS
  <2>4. p \notin Gone
    <3> HIDE DEF p
    <3> QED BY <1>4, <1>8, <2>3 DEF MootIn, NoteIdOf
  <2> HIDE DEF p
  <2>5. Lasts(d.links, e.links, NoteId \X LabelId, LinkField, Gone, LinkRow, p)
    BY <1>2, <1>8, <2>2, <2>4, Rows, RowIsAbout DEF Evolves
  <2> HIDE DEF Lasts, Gone
  <2> QED BY <1>4, <1>5, <2>1, <2>5 DEF Absorbs
<1> QED BY <1>6, <1>7, <1>8, RowIsAbout

------------------------------------------------------------------------------
(* What the user's operations queue. *)

LEMMA NoteBundleMember ==
  ASSUME NEW n \in NoteId, NEW h \in Stamp
  PROVE  /\ \A k \in {"text", "checklist"} : MutateNote(n, "kind", k, h) \in Bundle
         /\ \A f \in {"title", "body", "position", "archivePosition"}, v \in Text :
              MutateNote(n, f, v, h) \in Bundle
         /\ \A f \in {"title", "body", "color"}, v \in Text : SetNoteField(n, f, v, h) \in Bundle
         /\ Pin(n, h) \in Bundle /\ Unpin(n, h) \in Bundle
         /\ Unarchive(n, h) \in Bundle /\ RestoreNote(n, h) \in Bundle
         /\ \A p \in Text : Archive(n, p, h) \in Bundle
         /\ \A t \in Nat : TrashNote(n, t, h) \in Bundle
<1> DEFINE Of(o, g) == UNION {
    {MutateNote(o, "kind", k, g) : k \in {"text", "checklist"}},
    {MutateNote(o, f, v, g) : f \in {"title", "body", "position", "archivePosition"},
                              v \in Text},
    {SetNoteField(o, f, v, g) : f \in {"title", "body", "color"}, v \in Text},
    {Pin(o, g), Unpin(o, g), Unarchive(o, g), RestoreNote(o, g)},
    {Archive(o, p, g) : p \in Text},
    {TrashNote(o, t, g) : t \in Nat}}
<1>1. NoteBundles(Stamp, Nat) = UNION {Of(o, g) : o \in NoteId, g \in Stamp}
  BY DEF NoteBundles
<1>2. Of(n, h) \subseteq Bundle
  <2> HIDE DEF Of
  <2> QED BY <1>1 DEF Bundle, Bundles
<1> QED BY <1>2

LEMMA ItemBundleMember ==
  ASSUME NEW i \in ItemId, NEW h \in Stamp
  PROVE  /\ \A f \in {"text", "position"}, v \in Text : MutateItem(i, NoteOf[i], f, v, h) \in Bundle
         /\ \A v \in Text : SetItemField(i, NoteOf[i], "text", v, h) \in Bundle
         /\ \A b \in BOOLEAN : SetItemField(i, NoteOf[i], "checked", b, h) \in Bundle
         /\ RemoveItem(i, NoteOf[i], h) \in Bundle
<1> DEFINE Of(j, g) == UNION {
    {MutateItem(j, NoteOf[j], f, v, g) : f \in {"text", "position"}, v \in Text},
    {SetItemField(j, NoteOf[j], "text", v, g) : v \in Text},
    {SetItemField(j, NoteOf[j], "checked", b, g) : b \in BOOLEAN},
    {RemoveItem(j, NoteOf[j], g)}}
<1>1. ItemBundles(Stamp, NoteOf) = UNION {Of(j, g) : j \in ItemId, g \in Stamp}
  BY DEF ItemBundles
<1>2. Of(i, h) \subseteq Bundle
  <2> HIDE DEF Of
  <2> QED BY <1>1 DEF Bundle, Bundles
<1> QED BY <1>2

LEMMA LinkBundleMember ==
  ASSUME NEW n \in NoteId, NEW l \in LabelId, NEW b \in BOOLEAN, NEW h \in Stamp
  PROVE  LinkWrite(n, l, b, h) \in Bundle
BY DEF Bundle, Bundles, LinkBundles

\* A stamp is a positive number.
LEMMA RankType ==
  ASSUME NEW k \in H!Clock
  PROVE  Rank(k) \in Stamp
<1>1. k.wall \in Nat /\ k.ctr \in Nat /\ k.dev \in Client
  BY DEF H!Clock
<1>2. Cardinality(Client) \in Nat
  BY SyncSystemAssumption, FS_CardinalityType
<1>3. H!CtrLimit \in Nat
  BY SyncSystemAssumption
<1>4. k.wall * H!CtrLimit \in Nat
  BY <1>1, <1>3
<1>5. (k.wall * H!CtrLimit + k.ctr) * Cardinality(Client) \in Nat
  BY <1>1, <1>2, <1>4
<1>6. k.dev \in Nat
  BY <1>1, <1>2, SyncSystemAssumption
<1> QED BY <1>5, <1>6 DEF Rank, Stamp

\* The state of a tab.
Tab == [notes : [NoteId -> NoteVal \cup {NoRow}], items : [ItemId -> ItemVal \cup {NoRow}],
        links : SUBSET (NoteId \X LabelId), pending : Seq(Bundle), cursor : Nat,
        labels : SUBSET LabelId, due : SUBSET {"flush", "pull"}, clock : H!Clock]

\* The bundles write note n, item i, attachment p.
Adds(new, n)     == \E j \in 1 .. Len(new) : new[j].entity = "note" /\ new[j].id = n
Lists(new, i)    == \E j \in 1 .. Len(new) : new[j].entity = "item" /\ new[j].id = i
Attaches(new, p) == \E j \in 1 .. Len(new) :
  new[j].entity = "note_label" /\ <<new[j].note, new[j].label>> = p

\* Tab q shows what tab k does, but for the notes of N, the items of I and the
\* attachments of L, and has all the notes.
Redraws(k, q, N, I, L) ==
  /\ \A n \in NoteId : q.notes[n] = k.notes[n] \/ n \in N
  /\ \A n \in NoteId : k.notes[n] # NoRow => q.notes[n] # NoRow
  /\ \A i \in ItemId : q.items[i] = k.items[i] \/ i \in I
  /\ \A p \in NoteId \X LabelId : (p \in q.links <=> p \in k.links) \/ p \in L

\* An operation queues the bundles `new`, leaves the cursor and the clock alone, and shows
\* nothing else that it has not queued.
Queues(k, q, new) ==
  /\ q \in Tab /\ q.pending = k.pending \o new /\ new \in Seq(Bundle)
  /\ q.cursor = k.cursor /\ q.clock = k.clock
  /\ Redraws(k, q, {n \in NoteId : Adds(new, n)}, {i \in ItemId : Lists(new, i)},
             {p \in NoteId \X LabelId : Attaches(new, p)})

Redrawn(k, p, N, I, L) ==
  /\ p \in Tab /\ p.pending = k.pending /\ p.cursor = k.cursor /\ p.clock = k.clock
  /\ Redraws(k, p, N, I, L)

LEMMA QueueShape ==
  ASSUME NEW k, NEW p, NEW N, NEW I, NEW L, Redrawn(k, p, N, I, L), NEW new \in Seq(Bundle),
         \A n \in N : Adds(new, n), \A i \in I : Lists(new, i), \A a \in L : Attaches(new, a)
  PROVE  Queues(k, Queue(p, new), new)
<1> DEFINE q == Queue(p, new)
           s == p.pending \o new
           w == p.due \cup {"flush"}
<1>1. p \in Tab /\ s \in Seq(Bundle) /\ w \in SUBSET {"flush", "pull"}
  BY DEF Redrawn, Tab
<1>2. q = [p EXCEPT !.pending = s, !.due = w]
  BY DEF Queue
<1> HIDE DEF q, s, w
<1>3. /\ q \in Tab /\ q.pending = s /\ q.cursor = p.cursor /\ q.clock = p.clock
      /\ q.notes = p.notes /\ q.items = p.items /\ q.links = p.links
  BY <1>1, <1>2 DEF Tab
<1>4. Redraws(k, q, {n \in NoteId : Adds(new, n)}, {i \in ItemId : Lists(new, i)},
              {a \in NoteId \X LabelId : Attaches(new, a)})
  BY <1>3 DEF Redrawn, Redraws
<1> QED BY <1>3, <1>4 DEF Redrawn, Queues, s, q

LEMMA WithTypes ==
  /\ \A val \in NoteVal : \A set : NoteSetOK(set) => With(val, set) \in NoteVal
  /\ \A val \in ItemVal, f \in {"text", "position"}, v \in Text : With(val, One(f, v)) \in ItemVal
  /\ \A val \in ItemVal, b \in BOOLEAN : With(val, One("checked", b)) \in ItemVal
<1>1. ASSUME NEW val \in NoteVal, NEW set, NoteSetOK(set)
      PROVE  With(val, set) \in NoteVal
  BY <1>1 DEF With, NoteSetOK, NoteVal
<1>2. ASSUME NEW val \in ItemVal, NEW f \in {"text", "position"}, NEW v \in Text
      PROVE  With(val, One(f, v)) \in ItemVal
  BY DEF With, One, ItemVal
<1>3. ASSUME NEW val \in ItemVal, NEW b \in BOOLEAN
      PROVE  With(val, One("checked", b)) \in ItemVal
  BY DEF With, One, ItemVal
<1> QED BY <1>1, <1>2, <1>3

LEMMA PatchNoteShape ==
  ASSUME NEW k \in Tab, NEW n \in NoteId, NEW set, NoteSetOK(set)
  PROVE  Redrawn(k, PatchNote(k, n, set), {n}, {}, {})
<1> DEFINE p == PatchNote(k, n, set)
           N == [o \in NoteId |-> IF o = n /\ k.notes[n] # NoRow
                                  THEN With(k.notes[n], set) ELSE k.notes[o]]
<1>1. k.notes \in [NoteId -> NoteVal \cup {NoRow}] /\ NoRow \notin NoteVal
  BY StoreAssumption DEF Tab
<1>2. k.notes[n] # NoRow => With(k.notes[n], set) \in NoteVal
  BY <1>1, WithTypes
<1>3. N \in [NoteId -> NoteVal \cup {NoRow}]
  BY <1>1, <1>2
<1>4. p = [k EXCEPT !.notes = N]
  BY DEF PatchNote
<1>5. \A o \in NoteId : N[o] = k.notes[o] \/ o \in {n}
  OBVIOUS
<1>6. \A o \in NoteId : k.notes[o] # NoRow => N[o] # NoRow
  BY <1>1, <1>2
<1> HIDE DEF N, p
<1>7. /\ p \in Tab /\ p.notes = N /\ p.pending = k.pending /\ p.cursor = k.cursor
      /\ p.clock = k.clock /\ p.items = k.items /\ p.links = k.links
  BY <1>3, <1>4 DEF Tab
<1>8. Redraws(k, p, {n}, {}, {})
  BY <1>5, <1>6, <1>7 DEF Redraws
<1> QED BY <1>7, <1>8 DEF Redrawn, p

LEMMA ItemsShape ==
  ASSUME NEW k \in Tab, NEW i, NEW I \in [ItemId -> ItemVal \cup {NoRow}],
         \A j \in ItemId : I[j] = k.items[j] \/ j = i
  PROVE  Redrawn(k, [k EXCEPT !.items = I], {}, {i}, {})
BY DEF Redrawn, Redraws, Tab

LEMMA LinksShape ==
  ASSUME NEW k \in Tab, NEW a, NEW L \in SUBSET (NoteId \X LabelId),
         \A p \in NoteId \X LabelId : (p \in L <=> p \in k.links) \/ p = a
  PROVE  Redrawn(k, [k EXCEPT !.links = L], {}, {}, {a})
BY DEF Redrawn, Redraws, Tab

LEMMA PatchItemShape ==
  ASSUME NEW k \in Tab, NEW i \in ItemId, NEW set,
         \A val \in ItemVal : With(val, set) \in ItemVal
  PROVE  Redrawn(k, PatchItem(k, i, set), {}, {i}, {})
<1> DEFINE I == [j \in ItemId |-> IF j = i /\ k.items[i] # NoRow
                                  THEN With(k.items[i], set) ELSE k.items[j]]
<1>1. k.items \in [ItemId -> ItemVal \cup {NoRow}]
  BY DEF Tab
<1>2. I \in [ItemId -> ItemVal \cup {NoRow}] /\ \A j \in ItemId : I[j] = k.items[j] \/ j = i
  BY <1>1
<1>3. PatchItem(k, i, set) = [k EXCEPT !.items = I]
  BY DEF PatchItem
<1> HIDE DEF I
<1> QED BY <1>2, <1>3, ItemsShape

\* Of one bundle.
LEMMA QueueOne ==
  ASSUME NEW k, NEW p, NEW N, NEW I, NEW L, Redrawn(k, p, N, I, L), NEW m \in Bundle,
         \A n \in N : m.entity = "note" /\ m.id = n,
         \A i \in I : m.entity = "item" /\ m.id = i,
         \A a \in L : m.entity = "note_label" /\ <<m.note, m.label>> = a
  PROVE  Queues(k, Queue(p, <<m>>), <<m>>)
<1> DEFINE new == <<m>>
<1>1. new \in Seq(Bundle) /\ 1 \in 1 .. Len(new) /\ new[1] = m
  OBVIOUS
<1> HIDE DEF new
<1>2. /\ \A n \in N : Adds(new, n)
      /\ \A i \in I : Lists(new, i)
      /\ \A a \in L : Attaches(new, a)
  BY <1>1 DEF Adds, Lists, Attaches
<1>3. Queues(k, Queue(p, new), new)
  BY <1>1, <1>2, QueueShape
<1> QED BY <1>3 DEF new

\* Of one bundle, that writes the note, the item, the attachment shown anew.
LEMMA PatchNoteQueued ==
  ASSUME NEW k \in Tab, NEW n \in NoteId, NEW set, NoteSetOK(set), NEW m \in Bundle,
         m.entity = "note", m.id = n
  PROVE  Queues(k, Queue(PatchNote(k, n, set), <<m>>), <<m>>)
<1> DEFINE p == PatchNote(k, n, set)
<1>1. Redrawn(k, p, {n}, {}, {})
  BY PatchNoteShape
<1> HIDE DEF p
<1>2. Queues(k, Queue(p, <<m>>), <<m>>)
  BY <1>1, QueueOne
<1> QED BY <1>2 DEF p

LEMMA ItemsQueued ==
  ASSUME NEW k \in Tab, NEW i, NEW p, Redrawn(k, p, {}, {i}, {}), NEW m \in Bundle,
         m.entity = "item", m.id = i
  PROVE  Queues(k, Queue(p, <<m>>), <<m>>)
BY QueueOne

LEMMA PatchItemQueued ==
  ASSUME NEW k \in Tab, NEW i \in ItemId, NEW set, \A val \in ItemVal : With(val, set) \in ItemVal,
         NEW m \in Bundle, m.entity = "item", m.id = i
  PROVE  Queues(k, Queue(PatchItem(k, i, set), <<m>>), <<m>>)
<1> DEFINE p == PatchItem(k, i, set)
<1>1. Redrawn(k, p, {}, {i}, {})
  BY PatchItemShape
<1> HIDE DEF p
<1>2. Queues(k, Queue(p, <<m>>), <<m>>)
  BY <1>1, ItemsQueued
<1> QED BY <1>2 DEF p

LEMMA LinksQueued ==
  ASSUME NEW k \in Tab, NEW a, NEW L \in SUBSET (NoteId \X LabelId),
         \A q \in NoteId \X LabelId : (q \in L <=> q \in k.links) \/ q = a,
         NEW m \in Bundle, m.entity = "note_label", <<m.note, m.label>> = a
  PROVE  Queues(k, Queue([k EXCEPT !.links = L], <<m>>), <<m>>)
<1> DEFINE p == [k EXCEPT !.links = L]
<1>1. Redrawn(k, p, {}, {}, {a})
  BY LinksShape
<1> HIDE DEF p
<1>2. Queues(k, Queue(p, <<m>>), <<m>>)
  BY <1>1, QueueOne
<1> QED BY <1>2 DEF p

LEMMA OneFieldOK ==
  \A f \in {"title", "body", "position", "archivePosition"}, v \in Text : NoteSetOK(One(f, v))
BY DEF NoteSetOK, One, NoteField

LEMMA SetsOK ==
  ASSUME NEW n \in NoteId, NEW h \in Stamp
  PROVE  /\ NoteSetOK(Pin(n, h).set) /\ NoteSetOK(Unpin(n, h).set)
         /\ NoteSetOK(Unarchive(n, h).set) /\ NoteSetOK(RestoreNote(n, h).set)
         /\ \A p \in Text : NoteSetOK(Archive(n, p, h).set)
         /\ \A t \in Nat : NoteSetOK(TrashNote(n, t, h).set)
<1>1. \A m \in Bundle : m.entity = "note" => NoteSetOK(m.set)
  BY BundleKinds DEF IsNoteBundle, IsItemBundle, IsLinkBundle
<1>2. /\ Pin(n, h).entity = "note" /\ Unpin(n, h).entity = "note"
      /\ Unarchive(n, h).entity = "note" /\ RestoreNote(n, h).entity = "note"
      /\ \A p : Archive(n, p, h).entity = "note" /\ TrashNote(n, p, h).entity = "note"
  BY DEF Pin, Unpin, Unarchive, RestoreNote, Archive, TrashNote, MutateNote, NoteWrite
<1> QED BY <1>1, <1>2, NoteBundleMember

\* The operations, given the stamps they draw.
Drawn(S) == \A j \in 0 .. 3 : S[j] \in Stamp

\* What the bundles of the operations are about.
LEMMA SingleShape ==
  /\ \A n, f, v, h : LET m == SetNoteField(n, f, v, h) IN
       m.hlc = h /\ m.entity = "note" /\ m.id = n
  /\ \A n, h : \A m \in {Pin(n, h), Unpin(n, h), Unarchive(n, h), RestoreNote(n, h)} :
       m.hlc = h /\ m.entity = "note" /\ m.id = n
  /\ \A n, p, h : \A m \in {Archive(n, p, h), TrashNote(n, p, h), Reorder(n, "position", p, h)} :
       m.hlc = h /\ m.entity = "note" /\ m.id = n
  /\ \A i, n, f, v, h : LET m == SetItemField(i, n, f, v, h) IN
       m.hlc = h /\ m.entity = "item" /\ m.id = i
  /\ \A i, n, v, h : \A m \in {RemoveItem(i, n, h), ReorderItem(i, n, v, h)} :
       m.hlc = h /\ m.entity = "item" /\ m.id = i
  /\ \A n, l, b, h : LET m == LinkWrite(n, l, b, h) IN
       m.hlc = h /\ m.entity = "note_label" /\ m.note = n /\ m.label = l
BY DEF SetNoteField, Pin, Unpin, Unarchive, RestoreNote, Archive, TrashNote, Reorder, MutateNote,
       NoteWrite, SetItemField, RemoveItem, ReorderItem, MutateItem, ItemWrite, LinkWrite

\* What an operation on a shown note, item or label of the tab queues.
LEMMA NoteOps ==
  ASSUME NEW k \in Tab, NEW n \in NoteId, NEW S, Drawn(S)
  PROVE  /\ \A v \in Text :
              Queues(k, EditNote(k, n, "title", v, S), <<SetNoteField(n, "title", v, S[0])>>)
         /\ \E m \in {Pin(n, S[0]), Unpin(n, S[0])} : Queues(k, TogglePinned(k, n, S), <<m>>)
         /\ \A p \in Text : \E m \in {Archive(n, p, S[0]), Unarchive(n, S[0])} :
              Queues(k, ToggleArchived(k, n, p, S), <<m>>)
         /\ \A t \in Nat : Queues(k, SetTrashed(k, n, t, S), <<TrashNote(n, t, S[0])>>)
         /\ Queues(k, SetTrashed(k, n, Nil, S), <<RestoreNote(n, S[0])>>)
         /\ \A v \in Text : Queues(k, ReorderNote(k, n, "position", v, S),
                                   <<Reorder(n, "position", v, S[0])>>)
         /\ \A l \in LabelId, b \in BOOLEAN :
              Queues(k, SetLabel(k, n, l, b, S), <<LinkWrite(n, l, b, S[0])>>)
<1>1. S[0] \in Stamp
  BY DEF Drawn
<1>2. ASSUME NEW v \in Text
      PROVE  Queues(k, EditNote(k, n, "title", v, S), <<SetNoteField(n, "title", v, S[0])>>)
  <2> DEFINE m == SetNoteField(n, "title", v, S[0])
  <2>1. m \in Bundle /\ m.entity = "note" /\ m.id = n /\ NoteSetOK(One("title", v))
    BY <1>1, OneFieldOK, SingleShape, NoteBundleMember
  <2> HIDE DEF m
  <2>2. Queues(k, Queue(PatchNote(k, n, One("title", v)), <<m>>), <<m>>)
    BY <2>1, PatchNoteQueued
  <2> QED BY <2>2 DEF EditNote, m
<1>3. \E m \in {Pin(n, S[0]), Unpin(n, S[0])} : Queues(k, TogglePinned(k, n, S), <<m>>)
  <2> DEFINE m == IF k.notes[n].pinned THEN Unpin(n, S[0]) ELSE Pin(n, S[0])
  <2>1. /\ m \in {Pin(n, S[0]), Unpin(n, S[0])} /\ m \in Bundle /\ NoteSetOK(m.set)
        /\ m.entity = "note" /\ m.id = n
    BY <1>1, NoteBundleMember, SetsOK, SingleShape
  <2>2. TogglePinned(k, n, S) = Queue(PatchNote(k, n, m.set), <<m>>)
    BY DEF TogglePinned
  <2> HIDE DEF m
  <2> QED BY <2>1, <2>2, PatchNoteQueued
<1>4. ASSUME NEW p \in Text
      PROVE  \E m \in {Archive(n, p, S[0]), Unarchive(n, S[0])} :
               Queues(k, ToggleArchived(k, n, p, S), <<m>>)
  <2> DEFINE m == IF k.notes[n].archived THEN Unarchive(n, S[0]) ELSE Archive(n, p, S[0])
  <2>1. /\ m \in {Archive(n, p, S[0]), Unarchive(n, S[0])} /\ m \in Bundle /\ NoteSetOK(m.set)
        /\ m.entity = "note" /\ m.id = n
    BY <1>1, NoteBundleMember, SetsOK, SingleShape
  <2>2. ToggleArchived(k, n, p, S) = Queue(PatchNote(k, n, m.set), <<m>>)
    BY DEF ToggleArchived
  <2> HIDE DEF m
  <2> QED BY <2>1, <2>2, PatchNoteQueued
<1>5. ASSUME NEW t \in Nat
      PROVE  Queues(k, SetTrashed(k, n, t, S), <<TrashNote(n, t, S[0])>>)
  <2> DEFINE m == TrashNote(n, t, S[0])
  <2>1. t # Nil
    BY StoreAssumption
  <2>2. SetTrashed(k, n, t, S) = Queue(PatchNote(k, n, m.set), <<m>>)
    BY <2>1 DEF SetTrashed
  <2>3. m \in Bundle /\ NoteSetOK(m.set) /\ m.entity = "note" /\ m.id = n
    BY <1>1, NoteBundleMember, SetsOK, SingleShape
  <2> HIDE DEF m
  <2>4. Queues(k, Queue(PatchNote(k, n, m.set), <<m>>), <<m>>)
    BY <2>3, PatchNoteQueued
  <2> QED BY <2>2, <2>4 DEF m
<1>6. Queues(k, SetTrashed(k, n, Nil, S), <<RestoreNote(n, S[0])>>)
  <2> DEFINE m == RestoreNote(n, S[0])
  <2>1. SetTrashed(k, n, Nil, S) = Queue(PatchNote(k, n, m.set), <<m>>)
    BY DEF SetTrashed
  <2>2. m \in Bundle /\ NoteSetOK(m.set) /\ m.entity = "note" /\ m.id = n
    BY <1>1, NoteBundleMember, SetsOK, SingleShape
  <2> HIDE DEF m
  <2>3. Queues(k, Queue(PatchNote(k, n, m.set), <<m>>), <<m>>)
    BY <2>2, PatchNoteQueued
  <2> QED BY <2>1, <2>3 DEF m
<1>7. ASSUME NEW v \in Text
      PROVE  Queues(k, ReorderNote(k, n, "position", v, S), <<Reorder(n, "position", v, S[0])>>)
  <2> DEFINE m == Reorder(n, "position", v, S[0])
  <2>1. m \in Bundle
    BY <1>1, NoteBundleMember DEF Reorder
  <2>2. m.entity = "note" /\ m.id = n /\ NoteSetOK(One("position", v))
    BY OneFieldOK, SingleShape
  <2> HIDE DEF m
  <2>3. Queues(k, Queue(PatchNote(k, n, One("position", v)), <<m>>), <<m>>)
    BY <2>1, <2>2, PatchNoteQueued
  <2> QED BY <2>3 DEF ReorderNote, m
<1>8. ASSUME NEW l \in LabelId, NEW b \in BOOLEAN
      PROVE  Queues(k, SetLabel(k, n, l, b, S), <<LinkWrite(n, l, b, S[0])>>)
  <2> DEFINE L == IF b THEN k.links \cup {<<n, l>>} ELSE k.links \ {<<n, l>>}
  <2> DEFINE m == LinkWrite(n, l, b, S[0])
  <2>1. /\ L \in SUBSET (NoteId \X LabelId)
        /\ \A q \in NoteId \X LabelId : (q \in L <=> q \in k.links) \/ q = <<n, l>>
    BY DEF Tab
  <2>2. SetLabel(k, n, l, b, S) = Queue([k EXCEPT !.links = L], <<m>>)
    BY DEF SetLabel
  <2>3. m \in Bundle /\ m.entity = "note_label" /\ <<m.note, m.label>> = <<n, l>>
    BY <1>1, LinkBundleMember, SingleShape
  <2> HIDE DEF L, m
  <2>4. Queues(k, Queue([k EXCEPT !.links = L], <<m>>), <<m>>)
    BY <2>1, <2>3, LinksQueued
  <2> QED BY <2>2, <2>4 DEF m
<1> QED BY <1>2, <1>3, <1>4, <1>5, <1>6, <1>7, <1>8

LEMMA ItemOps ==
  ASSUME NEW k \in Tab, NEW i \in ItemId, NEW S, Drawn(S)
  PROVE  /\ \A b \in BOOLEAN :
              Queues(k, EditItem(k, i, NoteOf[i], "checked", b, S),
                     <<SetItemField(i, NoteOf[i], "checked", b, S[0])>>)
         /\ \A v \in Text :
              Queues(k, EditItem(k, i, NoteOf[i], "text", v, S),
                     <<SetItemField(i, NoteOf[i], "text", v, S[0])>>)
         /\ Queues(k, DeleteItem(k, i, NoteOf[i], S), <<RemoveItem(i, NoteOf[i], S[0])>>)
         /\ \A v \in Text :
              Queues(k, MoveItem(k, i, NoteOf[i], v, S), <<ReorderItem(i, NoteOf[i], v, S[0])>>)
         /\ \A v \in Text :
              Queues(k, AddItem(k, i, NoteOf[i], v, S), InsertItemWrites(i, NoteOf[i], v, S))
<1>1. S[0] \in Stamp /\ S[1] \in Stamp
  BY DEF Drawn
<1>2. k.items \in [ItemId -> ItemVal \cup {NoRow}]
  BY DEF Tab
<1>3. ASSUME NEW b \in BOOLEAN
      PROVE  Queues(k, EditItem(k, i, NoteOf[i], "checked", b, S),
                    <<SetItemField(i, NoteOf[i], "checked", b, S[0])>>)
  <2> DEFINE m == SetItemField(i, NoteOf[i], "checked", b, S[0])
  <2>1. m \in Bundle /\ m.entity = "item" /\ m.id = i
    BY <1>1, SingleShape, ItemBundleMember
  <2>2. \A val \in ItemVal : With(val, One("checked", b)) \in ItemVal
    BY WithTypes
  <2> HIDE DEF m
  <2>3. Queues(k, Queue(PatchItem(k, i, One("checked", b)), <<m>>), <<m>>)
    BY <2>1, <2>2, PatchItemQueued
  <2> QED BY <2>3 DEF EditItem, m
<1>4. ASSUME NEW v \in Text
      PROVE  Queues(k, EditItem(k, i, NoteOf[i], "text", v, S),
                    <<SetItemField(i, NoteOf[i], "text", v, S[0])>>)
  <2> DEFINE m == SetItemField(i, NoteOf[i], "text", v, S[0])
  <2>1. m \in Bundle /\ m.entity = "item" /\ m.id = i
    BY <1>1, SingleShape, ItemBundleMember
  <2>2. \A val \in ItemVal : With(val, One("text", v)) \in ItemVal
    BY WithTypes
  <2> HIDE DEF m
  <2>3. Queues(k, Queue(PatchItem(k, i, One("text", v)), <<m>>), <<m>>)
    BY <2>1, <2>2, PatchItemQueued
  <2> QED BY <2>3 DEF EditItem, m
<1>5. Queues(k, DeleteItem(k, i, NoteOf[i], S), <<RemoveItem(i, NoteOf[i], S[0])>>)
  <2> DEFINE I == [k.items EXCEPT ![i] = NoRow]
  <2>1. I \in [ItemId -> ItemVal \cup {NoRow}] /\ \A j \in ItemId : I[j] = k.items[j] \/ j = i
    BY <1>2
  <2> DEFINE m == RemoveItem(i, NoteOf[i], S[0])
  <2>2. DeleteItem(k, i, NoteOf[i], S) = Queue([k EXCEPT !.items = I], <<m>>)
    BY DEF DeleteItem
  <2>3. m \in Bundle
    BY <1>1, ItemBundleMember
  <2>4. m.entity = "item" /\ m.id = i
    BY SingleShape
  <2>5. m \in Bundle /\ m.entity = "item" /\ m.id = i
    BY <2>3, <2>4
  <2> HIDE DEF I, m
  <2> DEFINE p == [k EXCEPT !.items = I]
  <2>6. Redrawn(k, p, {}, {i}, {})
    BY <2>1, ItemsShape
  <2> HIDE DEF p
  <2>7. Queues(k, Queue(p, <<m>>), <<m>>)
    BY <2>5, <2>6, ItemsQueued
  <2> QED BY <2>2, <2>7 DEF m, p
<1>6. ASSUME NEW v \in Text
      PROVE  Queues(k, MoveItem(k, i, NoteOf[i], v, S), <<ReorderItem(i, NoteOf[i], v, S[0])>>)
  <2> DEFINE m == ReorderItem(i, NoteOf[i], v, S[0])
  <2>1. m \in Bundle
    BY <1>1, ItemBundleMember DEF ReorderItem
  <2>2. m.entity = "item" /\ m.id = i
    BY SingleShape
  <2>3. \A val \in ItemVal : With(val, One("position", v)) \in ItemVal
    BY WithTypes
  <2> HIDE DEF m
  <2>4. Queues(k, Queue(PatchItem(k, i, One("position", v)), <<m>>), <<m>>)
    BY <2>1, <2>2, <2>3, PatchItemQueued
  <2> QED BY <2>4 DEF MoveItem, m
<1>7. ASSUME NEW v \in Text
      PROVE  Queues(k, AddItem(k, i, NoteOf[i], v, S), InsertItemWrites(i, NoteOf[i], v, S))
  <2> DEFINE val == With(FreshItem(NoteOf[i]).val, One("position", v))
             I == [k.items EXCEPT ![i] = val]
             new == InsertItemWrites(i, NoteOf[i], v, S)
  <2>1. FreshItem(NoteOf[i]).val \in ItemVal
    BY FreshType, SyncSystemAssumption DEF ItemRow
  <2>2. val \in ItemVal
    BY <2>1, WithTypes
  <2> HIDE DEF val
  <2>3. I \in [ItemId -> ItemVal \cup {NoRow}] /\ \A j \in ItemId : I[j] = k.items[j] \/ j = i
    BY <1>2, <2>2
  <2>4. new \in Seq(Bundle)
    BY <1>1, ItemBundleMember, StoreAssumption DEF InsertItemWrites
  <2>5. AddItem(k, i, NoteOf[i], v, S) = Queue([k EXCEPT !.items = I], new)
    BY DEF AddItem, val
  <2>6. Lists(new, i)
    <3> DEFINE a == MutateItem(i, NoteOf[i], "text", Blank, S[0])
               b == MutateItem(i, NoteOf[i], "position", v, S[1])
    <3>1. a.entity = "item" /\ a.id = i
      BY DEF MutateItem, ItemWrite
    <3>2. new = <<a, b>>
      BY DEF InsertItemWrites
    <3> HIDE DEF a, b, new
    <3>3. 1 \in 1 .. Len(new) /\ new[1] = a
      BY <3>2
    <3> QED BY <3>1, <3>3 DEF Lists
  <2> DEFINE p == [k EXCEPT !.items = I]
  <2> HIDE DEF I, new
  <2>7. Redrawn(k, p, {}, {i}, {})
    BY <2>3, ItemsShape
  <2> HIDE DEF p
  <2>8. Queues(k, Queue(p, new), new)
    BY <2>4, <2>6, <2>7, QueueShape
  <2> QED BY <2>5, <2>8 DEF new, p
<1> QED BY <1>3, <1>4, <1>5, <1>6, <1>7

LEMMA AddNoteOp ==
  ASSUME NEW k \in Tab, NEW n \in NoteId, NEW kind \in {"text", "checklist"}, NEW v \in Text,
         NEW S, Drawn(S)
  PROVE  LET new == AddNoteWrites(n, kind, v, Blank, FirstKey, S) IN
         /\ Queues(k, AddNote(k, n, kind, v, Blank, FirstKey, S), new)
         /\ Len(new) \in 1 .. 4
         /\ \A j \in 1 .. Len(new) :
              new[j].hlc = S[j - 1] /\ new[j].entity = "note" /\ new[j].id = n
<1> DEFINE new == AddNoteWrites(n, kind, v, Blank, FirstKey, S)
           set == [kind |-> kind, title |-> v, body |-> Blank, position |-> FirstKey]
           val == With(FreshNote.val, set)
           N == [k.notes EXCEPT ![n] = val]
<1>1. S[0] \in Stamp /\ S[1] \in Stamp /\ S[2] \in Stamp /\ S[3] \in Stamp
  BY DEF Drawn
<1> DEFINE a == MutateNote(n, "kind", kind, S[0])
           b == MutateNote(n, "title", v, S[1])
           c == MutateNote(n, "body", Blank, S[2])
           p == MutateNote(n, "position", FirstKey, S[3])
           q == MutateNote(n, "position", FirstKey, S[2])
<1>2. a \in Bundle /\ b \in Bundle /\ c \in Bundle /\ p \in Bundle /\ q \in Bundle
  BY <1>1, NoteBundleMember, StoreAssumption
<1>3. /\ a.hlc = S[0] /\ b.hlc = S[1] /\ c.hlc = S[2] /\ p.hlc = S[3] /\ q.hlc = S[2]
      /\ \A m \in {a, b, c, p, q} : m.entity = "note" /\ m.id = n
  BY DEF MutateNote, NoteWrite
<1> DEFINE s == <<a, b>>
           r == IF kind = "text" THEN <<c, p>> ELSE <<q>>
<1>4. new = s \o r
  BY DEF AddNoteWrites
<1> HIDE DEF new, a, b, c, p, q
<1>5. s \in Seq(Bundle) /\ Len(s) = 2 /\ s[1] = a /\ s[2] = b
  BY <1>2
<1>6. /\ r \in Seq(Bundle) /\ Len(r) \in 1 .. 2
      /\ \A j \in 1 .. Len(r) : r[j].hlc = S[j + 1] /\ r[j].entity = "note" /\ r[j].id = n
  <2>1. CASE kind = "text"
    BY <1>2, <1>3, <2>1
  <2>2. CASE kind # "text"
    BY <1>2, <1>3, <2>2
  <2> QED BY <2>1, <2>2
<1> HIDE DEF s, r
<1>7. new \in Seq(Bundle) /\ Len(new) = 2 + Len(r)
  <2>1. s \o r \in Seq(Bundle) /\ Len(s \o r) = Len(s) + Len(r)
    BY <1>5, <1>6, ConcatProperties
  <2> QED BY <1>4, <1>5, <2>1
<1>8. ASSUME NEW j \in 1 .. Len(new)
      PROVE  new[j].hlc = S[j - 1] /\ new[j].entity = "note" /\ new[j].id = n
  <2>1. CASE j = 1
    BY <1>3, <1>4, <1>5, <1>6, <2>1
  <2>2. CASE j = 2
    BY <1>3, <1>4, <1>5, <1>6, <2>2
  <2>3. CASE j > 2
    <3>1. j - 2 \in 1 .. Len(r) /\ new[j] = r[j - 2]
      BY <1>4, <1>5, <1>6, <1>7, <2>3
    <3>2. (j - 2) + 1 = j - 1
      OBVIOUS
    <3> QED BY <1>6, <3>1, <3>2
  <2> QED BY <2>1, <2>2, <2>3, <1>6, <1>7
<1>9. FreshNote.val \in NoteVal /\ NoteSetOK(set)
  BY FreshType, StoreAssumption DEF NoteRow, NoteSetOK, NoteField
<1>10. val \in NoteVal
  <2> HIDE DEF set
  <2> QED BY <1>9, WithTypes
<1>11. k.notes \in [NoteId -> NoteVal \cup {NoRow}] /\ NoRow \notin NoteVal
  BY StoreAssumption DEF Tab
<1>12. AddNote(k, n, kind, v, Blank, FirstKey, S) = Queue([k EXCEPT !.notes = N], new)
  BY DEF AddNote, new
<1> HIDE DEF val
<1>13. /\ N \in [NoteId -> NoteVal \cup {NoRow}]
       /\ \A o \in NoteId : N[o] = k.notes[o] \/ o \in {n}
       /\ \A o \in NoteId : k.notes[o] # NoRow => N[o] # NoRow
  BY <1>10, <1>11
<1> HIDE DEF N
<1>14. Redrawn(k, [k EXCEPT !.notes = N], {n}, {}, {})
  BY <1>13 DEF Redrawn, Redraws, Tab
<1>15. \A o \in {n} : Adds(new, o)
  <2>1. 1 \in 1 .. Len(new)
    BY <1>6, <1>7
  <2> QED BY <1>8, <2>1 DEF Adds
<1>16. Queues(k, Queue([k EXCEPT !.notes = N], new), new)
  <2>1. (\A i \in {} : Lists(new, i)) /\ \A pair \in {} : Attaches(new, pair)
    OBVIOUS
  <2> QED BY <1>7, <1>14, <1>15, <2>1, QueueShape
<1>17. Len(new) \in 1 .. 4
  BY <1>6, <1>7
<1> QED BY <1>8, <1>12, <1>16, <1>17 DEF new

------------------------------------------------------------------------------
(* Types. *)

SyncCall  == [kind : {"sync"}, since : Nat, batch : Seq(Bundle), at : Nat,
              reply : {NoReply} \cup [ok : {FALSE}] \cup SyncReply]
ListCall  == [kind : {"list"}, at : Nat, got : {NoReply} \cup ListReply,
              todo : SUBSET ({"items", "labels"} \X NoteId), reply : {NoReply} \cup ListReply]
PurgeCall == [kind : {"purge"}, note : NoteId, at : Nat, reply : {NoReply} \cup [ok : {TRUE}]]
AudioCall == [kind : {"audio"}, note : NoteId, title : Text, at : Nat,
              reply : {NoReply} \cup UploadReply]
LabelCall == [kind : {"label"}, label : LabelId, at : Nat, reply : {NoReply} \cup Verdict]
SomeCall  == SyncCall \cup ListCall \cup PurgeCall \cup AudioCall \cup LabelCall

\* No call knows of a seq the server has not reached; a list that has more to read has
\* read its notes.
Known(k, q) ==
  /\ k.kind = "list" /\ k.todo # {} => k.got # NoReply
  /\ k.kind = "sync" /\ k.reply # NoReply /\ k.reply.ok => k.reply.seq <= q
  /\ k.kind = "list" /\ k.got # NoReply => k.got.seq <= q /\ k.got.cursor <= q
  /\ k.kind = "list" /\ k.reply # NoReply => k.reply.seq <= q /\ k.reply.cursor <= q

\* The calls of a tab.
Desk == UNION {[S -> SomeCall] : S \in SUBSET Slots}

\* The operations of a tab are numbered from 0; its clock's counter has moved by four at
\* most for each.
Ops(c) == {e.op : e \in {f \in made : f.by = c}}
ClockOK(c) ==
  /\ client[c].clock.dev = c /\ client[c].clock.wall <= now + Skew[c]
  /\ IF Edits(c) = 0 THEN client[c].clock.wall = 0 /\ client[c].clock.ctr = 0
     ELSE client[c].clock.ctr < 4 * Edits(c)
EditsOK == \A c \in Client : /\ Edits(c) \in 0 .. plan.edits /\ Ops(c) = 0 .. Edits(c) - 1
                             /\ ClockOK(c)

TypeInv ==
  /\ plan \in Plans /\ GoodDB(db) /\ now \in Nat \ {0}
  /\ client \in [Client -> Tab] /\ \A c \in Client : client[c].cursor <= db.seq
  /\ calls \in [Client -> Desk]
  /\ \A c \in Client : \A s \in Busy(c) : Known(calls[c][s], db.seq)
  /\ ghosts \subseteq SomeCall /\ \A g \in ghosts : g.reply = NoReply /\ g.kind # "list"
  /\ online \subseteq Client /\ purged \subseteq NoteId
  /\ made \subseteq [by : Client, op : Nat, m : Bundle]
  /\ EditsOK

LEMMA DeskShape ==
  /\ \A f \in Desk : DOMAIN f \subseteq Slots /\ f \in [DOMAIN f -> SomeCall]
  /\ \A S \in SUBSET Slots : \A f \in [S -> SomeCall] : f \in Desk
BY DEF Desk

\* A step of a user.
UserStep(c, k, new) ==
  /\ k \in Tab /\ new \in Seq(Bundle) /\ Len(new) \in 1 .. 4
  /\ now < MaxTime /\ Edits(c) < plan.edits
  /\ k.pending = client[c].pending \o new /\ k.cursor = client[c].cursor
  /\ k.clock = [First(c) EXCEPT !.ctr = @ + Len(new) - 1]
  /\ client' = [client EXCEPT ![c] = k]
  /\ made' = made \cup {[by |-> c, op |-> Edits(c), m |-> new[j]] : j \in 1 .. Len(new)}
  /\ \A j \in 1 .. Len(new) : new[j].hlc = Stamps(c)[j - 1]
  /\ Redraws(client[c], k, {n \in NoteId : Adds(new, n)}, {i \in ItemId : Lists(new, i)},
             {p \in NoteId \X LabelId : Attaches(new, p)})
  /\ \A n \in NoteId : Adds(new, n) => Has(c, n) \/ UnusedNote(n)
  /\ UNCHANGED <<plan, db, calls, ghosts, online, drops, now, purged>>

LEMMA FirstType ==
  ASSUME NEW c \in Client, client[c] \in Tab, now \in Nat
  PROVE  First(c) \in H!Clock /\ Wall(c) \in Nat /\ Drawn(Stamps(c))
<1>1. client[c].clock \in H!Clock
  BY DEF Tab
<1>2. Wall(c) \in Nat
  BY SyncSystemAssumption DEF Wall
<1>3. First(c) \in H!Clock
  BY <1>1, <1>2 DEF First, H!Next, H!Clock
<1>4. ASSUME NEW j \in 0 .. 3 PROVE Rank([First(c) EXCEPT !.ctr = @ + j]) \in Stamp
  <2>1. [First(c) EXCEPT !.ctr = @ + j] \in H!Clock
    BY <1>3 DEF H!Clock
  <2> QED BY <2>1, RankType
<1> QED BY <1>2, <1>3, <1>4 DEF Drawn, Stamps

LEMMA EnactShape ==
  ASSUME NEW c \in Client, client \in [Client -> Tab], now \in Nat,
         NEW q, NEW new, Queues(client[c], q, new), Enact(c, q), NEW op, May(c, op),
         Len(new) \in 1 .. 4,
         \A j \in 1 .. Len(new) : new[j].hlc = Stamps(c)[j - 1],
         \A n \in NoteId : Adds(new, n) => Has(c, n) \/ UnusedNote(n)
  PROVE  UserStep(c, client'[c], new)
<1> DEFINE s == client[c].pending
           t == SubSeq(q.pending, Len(s) + 1, Len(q.pending))
           k == [q EXCEPT !.clock = [First(c) EXCEPT !.ctr = @ + Len(new) - 1]]
<1>1. s \in Seq(Bundle) /\ new \in Seq(Bundle) /\ q.pending = s \o new /\ q \in Tab
  BY DEF Queues, Tab
<1>2. t = new
  <2>1. Len(s \o new) = Len(s) + Len(new) /\ Len(s) \in Nat /\ Len(new) \in Nat
    BY <1>1, ConcatProperties, LenProperties
  <2>2. SubSeq(s \o new, Len(s) + 1, Len(s) + Len(new)) = new
    <3>1. /\ Len(s) + 1 \in Len(s) + 1 .. Len(s) + Len(new)
          /\ Len(s) + Len(new) \in Len(s) + 1 .. Len(s) + Len(new)
      BY <2>1
    <3>2. SubSeq(s \o new, Len(s) + 1, Len(s) + Len(new)) =
            SubSeq(new, Len(s) + 1 - Len(s), Len(s) + Len(new) - Len(s))
      BY <1>1, <3>1, SubSeqOfConcat2
    <3>3. Len(s) + 1 - Len(s) = 1 /\ Len(s) + Len(new) - Len(s) = Len(new)
      BY <2>1
    <3> QED BY <1>1, <3>2, <3>3, SubSeqFull
  <2> QED BY <1>1, <2>1, <2>2
<1> HIDE DEF t
<1>3. /\ client' = [client EXCEPT ![c] = k]
      /\ made' = made \cup {[by |-> c, op |-> Edits(c), m |-> new[j]] : j \in 1 .. Len(new)}
      /\ UNCHANGED <<plan, db, calls, ghosts, online, drops, now, purged>>
  BY <1>2 DEF Enact, t
<1>4. [First(c) EXCEPT !.ctr = @ + Len(new) - 1] \in H!Clock
  <2>1. First(c) \in H!Clock
    BY FirstType
  <2>2. First(c).ctr \in Nat
    BY <2>1 DEF H!Clock
  <2>3. First(c).ctr + Len(new) - 1 \in Nat
    BY <2>2
  <2> QED BY <2>1, <2>3 DEF H!Clock
<1>5. /\ k \in Tab /\ k.pending = q.pending /\ k.cursor = q.cursor /\ k.notes = q.notes
      /\ k.items = q.items /\ k.links = q.links
      /\ k.clock = [First(c) EXCEPT !.ctr = @ + Len(new) - 1]
  BY <1>1, <1>4 DEF Tab
<1>6. client'[c] = k
  BY <1>3
<1>7. now < MaxTime /\ Edits(c) < plan.edits
  BY DEF May
<1> HIDE DEF k
<1>8. Redraws(client[c], k, {n \in NoteId : Adds(new, n)}, {i \in ItemId : Lists(new, i)},
              {p \in NoteId \X LabelId : Attaches(new, p)})
  BY <1>5 DEF Queues, Redraws
<1> QED BY <1>1, <1>3, <1>5, <1>6, <1>7, <1>8 DEF UserStep, Queues

\* The user's operation op leaves the tab in state q, with bundle m queued.
Single(c, op, q, m) ==
  /\ Queues(client[c], q, <<m>>) /\ May(c, op) /\ Enact(c, q)
  /\ m.hlc = Stamps(c)[0] /\ (m.entity = "note" => Has(c, m.id))

LEMMA EnactOne ==
  ASSUME NEW c \in Client, client \in [Client -> Tab], now \in Nat,
         NEW op, NEW q, NEW m, Single(c, op, q, m)
  PROVE  \E k, new : UserStep(c, k, new)
<1> DEFINE new == <<m>>
<1>1. Len(new) = 1 /\ \A j \in 1 .. Len(new) : j = 1 /\ new[j] = m
  OBVIOUS
<1>2. Queues(client[c], q, new)
  BY DEF Single
<1> HIDE DEF new
<1>3. \A j \in 1 .. Len(new) : new[j].hlc = Stamps(c)[j - 1]
  BY <1>1 DEF Single
<1>4. \A n \in NoteId : Adds(new, n) => Has(c, n) \/ UnusedNote(n)
  BY <1>1 DEF Adds, Single
<1>5. UserStep(c, client'[c], new)
  BY <1>1, <1>2, <1>3, <1>4, EnactShape DEF Single
<1> QED BY <1>5

LEMMA UserShape ==
  ASSUME NEW c \in Client, client \in [Client -> Tab], now \in Nat, User(c)
  PROVE  \E k, new : UserStep(c, k, new)
<1> DEFINE S == Stamps(c)
<1>1. client[c] \in Tab /\ Drawn(S) /\ Wall(c) \in Nat
  BY FirstType
<1>2. Typed \subseteq Text /\ FirstKey \in Text /\ NoteOf \in [ItemId -> NoteId]
  BY SyncSystemAssumption, StoreAssumption
<1> HIDE DEF S
<1>3. ASSUME NEW n \in NoteId, NEW kind \in {"text", "checklist"}, NEW v \in Typed,
             NewNote(c, n, kind, v)
      PROVE  \E k, new : UserStep(c, k, new)
  <2> DEFINE new == AddNoteWrites(n, kind, v, Blank, FirstKey, S)
  <2>1. /\ Queues(client[c], AddNote(client[c], n, kind, v, Blank, FirstKey, S), new)
        /\ Len(new) \in 1 .. 4
        /\ \A j \in 1 .. Len(new) :
             new[j].hlc = S[j - 1] /\ new[j].entity = "note" /\ new[j].id = n
    BY <1>1, <1>2, AddNoteOp
  <2> HIDE DEF new
  <2>2. /\ May(c, "add") /\ UnusedNote(n)
        /\ Enact(c, AddNote(client[c], n, kind, v, Blank, FirstKey, S))
    BY <1>3 DEF NewNote, S
  <2>3. \A o \in NoteId : Adds(new, o) => Has(c, o) \/ UnusedNote(o)
    BY <2>1, <2>2 DEF Adds
  <2>4. UserStep(c, client'[c], new)
    BY <2>1, <2>2, <2>3, EnactShape DEF S
  <2> QED BY <2>4
<1>4. ASSUME NEW i \in ItemId, NewItem(c, i) PROVE \E k, new : UserStep(c, k, new)
  <2> DEFINE a == MutateItem(i, NoteOf[i], "text", Blank, S[0])
             b == MutateItem(i, NoteOf[i], "position", FirstKey, S[1])
             new == InsertItemWrites(i, NoteOf[i], FirstKey, S)
  <2>1. Queues(client[c], AddItem(client[c], i, NoteOf[i], FirstKey, S), new)
    BY <1>1, <1>2, ItemOps
  <2>2. a.hlc = S[0] /\ b.hlc = S[1] /\ a.entity = "item" /\ b.entity = "item"
    BY DEF MutateItem, ItemWrite
  <2>3. new = <<a, b>>
    BY DEF InsertItemWrites
  <2> HIDE DEF new, a, b
  <2>4. /\ Len(new) = 2
        /\ \A j \in 1 .. Len(new) : new[j].hlc = S[j - 1] /\ new[j].entity = "item"
    BY <2>2, <2>3
  <2>5. May(c, "item") /\ Enact(c, AddItem(client[c], i, NoteOf[i], FirstKey, S))
    BY <1>4 DEF NewItem, S
  <2>6. \A o \in NoteId : ~Adds(new, o)
    BY <2>4 DEF Adds
  <2>7. UserStep(c, client'[c], new)
    BY <2>1, <2>4, <2>5, <2>6, EnactShape DEF S
  <2> QED BY <2>7
<1>5. ASSUME NEW n \in NoteId, NEW v \in Typed, WriteNote(c, n, v)
     PROVE  \E k, new : UserStep(c, k, new)
  <2>1. Queues(client[c], EditNote(client[c], n, "title", v, S),
               <<SetNoteField(n, "title", v, S[0])>>)
    BY <1>1, <1>2, NoteOps
  <2>2. May(c, "edit") /\ Enact(c, EditNote(client[c], n, "title", v, S)) /\ Has(c, n)
    BY <1>5 DEF WriteNote, S
  <2>3. SetNoteField(n, "title", v, S[0]).hlc = S[0] /\ SetNoteField(n, "title", v, S[0]).id = n
    BY SingleShape
  <2>4. Single(c, "edit", EditNote(client[c], n, "title", v, S), SetNoteField(n, "title", v, S[0]))
    BY <2>1, <2>2, <2>3 DEF Single, S
  <2> QED BY <2>4, EnactOne
<1>6. ASSUME NEW n \in NoteId, Pinning(c, n)
     PROVE  \E k, new : UserStep(c, k, new)
  <2>1. PICK m \in {Pin(n, S[0]), Unpin(n, S[0])} : Queues(client[c], TogglePinned(client[c], n, S), <<m>>)
    BY <1>1, <1>2, NoteOps
  <2>2. May(c, "pin") /\ Enact(c, TogglePinned(client[c], n, S)) /\ Has(c, n)
    BY <1>6 DEF Pinning, S
  <2>3. m.hlc = S[0] /\ m.id = n
    BY SingleShape
  <2>4. Single(c, "pin", TogglePinned(client[c], n, S), m)
    BY <2>1, <2>2, <2>3 DEF Single, S
  <2> QED BY <2>4, EnactOne
<1>7. ASSUME NEW n \in NoteId, Archiving(c, n)
     PROVE  \E k, new : UserStep(c, k, new)
  <2>1. PICK m \in {Archive(n, FirstKey, S[0]), Unarchive(n, S[0])} : Queues(client[c], ToggleArchived(client[c], n, FirstKey, S), <<m>>)
    BY <1>1, <1>2, NoteOps
  <2>2. May(c, "archive") /\ Enact(c, ToggleArchived(client[c], n, FirstKey, S)) /\ Has(c, n)
    BY <1>7 DEF Archiving, S
  <2>3. m.hlc = S[0] /\ m.id = n
    BY SingleShape
  <2>4. Single(c, "archive", ToggleArchived(client[c], n, FirstKey, S), m)
    BY <2>1, <2>2, <2>3 DEF Single, S
  <2> QED BY <2>4, EnactOne
<1>8. ASSUME NEW n \in NoteId, Trashing(c, n)
     PROVE  \E k, new : UserStep(c, k, new)
  <2>1. Queues(client[c], SetTrashed(client[c], n, Wall(c), S),
               <<TrashNote(n, Wall(c), S[0])>>)
    BY <1>1, <1>2, NoteOps
  <2>2. May(c, "trash") /\ Enact(c, SetTrashed(client[c], n, Wall(c), S)) /\ Has(c, n)
    BY <1>8 DEF Trashing, S
  <2>3. TrashNote(n, Wall(c), S[0]).hlc = S[0] /\ TrashNote(n, Wall(c), S[0]).id = n
    BY SingleShape
  <2>4. Single(c, "trash", SetTrashed(client[c], n, Wall(c), S), TrashNote(n, Wall(c), S[0]))
    BY <2>1, <2>2, <2>3 DEF Single, S
  <2> QED BY <2>4, EnactOne
<1>9. ASSUME NEW n \in NoteId, Restoring(c, n)
     PROVE  \E k, new : UserStep(c, k, new)
  <2>1. Queues(client[c], SetTrashed(client[c], n, Nil, S),
               <<RestoreNote(n, S[0])>>)
    BY <1>1, <1>2, NoteOps
  <2>2. May(c, "trash") /\ Enact(c, SetTrashed(client[c], n, Nil, S)) /\ Has(c, n)
    BY <1>9 DEF Restoring, S
  <2>3. RestoreNote(n, S[0]).hlc = S[0] /\ RestoreNote(n, S[0]).id = n
    BY SingleShape
  <2>4. Single(c, "trash", SetTrashed(client[c], n, Nil, S), RestoreNote(n, S[0]))
    BY <2>1, <2>2, <2>3 DEF Single, S
  <2> QED BY <2>4, EnactOne
<1>10. ASSUME NEW n \in NoteId, NEW v \in Typed, Moving(c, n, v)
     PROVE  \E k, new : UserStep(c, k, new)
  <2>1. Queues(client[c], ReorderNote(client[c], n, "position", v, S),
               <<Reorder(n, "position", v, S[0])>>)
    BY <1>1, <1>2, NoteOps
  <2>2. May(c, "move") /\ Enact(c, ReorderNote(client[c], n, "position", v, S)) /\ Has(c, n)
    BY <1>10 DEF Moving, S
  <2>3. Reorder(n, "position", v, S[0]).hlc = S[0] /\ Reorder(n, "position", v, S[0]).id = n
    BY SingleShape
  <2>4. Single(c, "move", ReorderNote(client[c], n, "position", v, S), Reorder(n, "position", v, S[0]))
    BY <2>1, <2>2, <2>3 DEF Single, S
  <2> QED BY <2>4, EnactOne
<1>11. ASSUME NEW n \in NoteId, NEW l \in LabelId, Labelling(c, n, l)
     PROVE  \E k, new : UserStep(c, k, new)
  <2> DEFINE b == <<n, l>> \notin client[c].links
  <2>1. Queues(client[c], SetLabel(client[c], n, l, b, S),
               <<LinkWrite(n, l, b, S[0])>>)
    BY <1>1, <1>2, NoteOps
  <2>2. May(c, "label") /\ Enact(c, SetLabel(client[c], n, l, b, S))
    BY <1>11 DEF Labelling, S
  <2>3. LinkWrite(n, l, b, S[0]).hlc = S[0] /\ LinkWrite(n, l, b, S[0]).entity = "note_label"
    BY SingleShape
  <2>4. Single(c, "label", SetLabel(client[c], n, l, b, S), LinkWrite(n, l, b, S[0]))
    BY <2>1, <2>2, <2>3 DEF Single, S
  <2> QED BY <2>4, EnactOne
<1>12. ASSUME NEW i \in ItemId, Checking(c, i)
     PROVE  \E k, new : UserStep(c, k, new)
  <2> DEFINE b == ~client[c].items[i].checked
  <2>0. b \in BOOLEAN
    OBVIOUS
  <2>1. Queues(client[c], EditItem(client[c], i, NoteOf[i], "checked", b, S),
               <<SetItemField(i, NoteOf[i], "checked", b, S[0])>>)
    BY <1>1, <1>2, <2>0, ItemOps
  <2>2. May(c, "check") /\ Enact(c, EditItem(client[c], i, NoteOf[i], "checked", b, S))
    BY <1>12 DEF Checking, S
  <2>3. SetItemField(i, NoteOf[i], "checked", b, S[0]).hlc = S[0] /\ SetItemField(i, NoteOf[i], "checked", b, S[0]).entity = "item"
    BY SingleShape
  <2>4. Single(c, "check", EditItem(client[c], i, NoteOf[i], "checked", b, S), SetItemField(i, NoteOf[i], "checked", b, S[0]))
    BY <2>1, <2>2, <2>3 DEF Single, S
  <2> QED BY <2>4, EnactOne
<1>13. ASSUME NEW i \in ItemId, NEW v \in Typed, WriteItem(c, i, v)
     PROVE  \E k, new : UserStep(c, k, new)
  <2>1. Queues(client[c], EditItem(client[c], i, NoteOf[i], "text", v, S),
               <<SetItemField(i, NoteOf[i], "text", v, S[0])>>)
    BY <1>1, <1>2, ItemOps
  <2>2. May(c, "write") /\ Enact(c, EditItem(client[c], i, NoteOf[i], "text", v, S))
    BY <1>13 DEF WriteItem, S
  <2>3. SetItemField(i, NoteOf[i], "text", v, S[0]).hlc = S[0] /\ SetItemField(i, NoteOf[i], "text", v, S[0]).entity = "item"
    BY SingleShape
  <2>4. Single(c, "write", EditItem(client[c], i, NoteOf[i], "text", v, S), SetItemField(i, NoteOf[i], "text", v, S[0]))
    BY <2>1, <2>2, <2>3 DEF Single, S
  <2> QED BY <2>4, EnactOne
<1>14. ASSUME NEW i \in ItemId, Deleting(c, i)
     PROVE  \E k, new : UserStep(c, k, new)
  <2>1. Queues(client[c], DeleteItem(client[c], i, NoteOf[i], S),
               <<RemoveItem(i, NoteOf[i], S[0])>>)
    BY <1>1, <1>2, ItemOps
  <2>2. May(c, "delete") /\ Enact(c, DeleteItem(client[c], i, NoteOf[i], S))
    BY <1>14 DEF Deleting, S
  <2>3. RemoveItem(i, NoteOf[i], S[0]).hlc = S[0] /\ RemoveItem(i, NoteOf[i], S[0]).entity = "item"
    BY SingleShape
  <2>4. Single(c, "delete", DeleteItem(client[c], i, NoteOf[i], S), RemoveItem(i, NoteOf[i], S[0]))
    BY <2>1, <2>2, <2>3 DEF Single, S
  <2> QED BY <2>4, EnactOne
<1>15. ASSUME NEW i \in ItemId, NEW v \in Typed, MovingItem(c, i, v)
     PROVE  \E k, new : UserStep(c, k, new)
  <2>1. Queues(client[c], MoveItem(client[c], i, NoteOf[i], v, S),
               <<ReorderItem(i, NoteOf[i], v, S[0])>>)
    BY <1>1, <1>2, ItemOps
  <2>2. May(c, "move") /\ Enact(c, MoveItem(client[c], i, NoteOf[i], v, S))
    BY <1>15 DEF MovingItem, S
  <2>3. ReorderItem(i, NoteOf[i], v, S[0]).hlc = S[0] /\ ReorderItem(i, NoteOf[i], v, S[0]).entity = "item"
    BY SingleShape
  <2>4. Single(c, "move", MoveItem(client[c], i, NoteOf[i], v, S), ReorderItem(i, NoteOf[i], v, S[0]))
    BY <2>1, <2>2, <2>3 DEF Single, S
  <2> QED BY <2>4, EnactOne
<1> QED
  BY <1>3, <1>4, <1>5, <1>6, <1>7, <1>8, <1>9, <1>10, <1>11, <1>12, <1>13, <1>14, <1>15 DEF User

------------------------------------------------------------------------------
(* The shapes of a step. *)

\* Desk g is desk f with call k put on slot s, with k in place of s's call, without s.
Placed(f, g, s, k)  == /\ g \in Desk /\ s \notin DOMAIN f /\ DOMAIN g = DOMAIN f \cup {s}
                       /\ g[s] = k /\ \A t \in DOMAIN f : g[t] = f[t]
Changed(f, g, s, k) == /\ g \in Desk /\ s \in DOMAIN f /\ DOMAIN g = DOMAIN f
                       /\ g[s] = k /\ \A t \in DOMAIN f \ {s} : g[t] = f[t]
Removed(f, g, s)    == /\ g \in Desk /\ s \in DOMAIN f /\ DOMAIN g = DOMAIN f \ {s}
                       /\ \A t \in DOMAIN g : g[t] = f[t]

\* Only the timers of the tabs differ.
Rearmed == /\ client' \in [Client -> Tab]
           /\ \A c \in Client : /\ client'[c].pending = client[c].pending
                                /\ client'[c].notes = client[c].notes
                                /\ client'[c].items = client[c].items
                                /\ client'[c].links = client[c].links
                                /\ client'[c].cursor = client[c].cursor
                                /\ client'[c].clock = client[c].clock

\* The notes a call speaks of.
Mentions(k, n) ==
  \/ k.kind = "sync" /\ k.reply # NoReply /\ k.reply.ok /\ \E r \in k.reply.changes.notes : r.id = n
  \/ k.kind = "list" /\ k.got # NoReply /\ k.got.shown.notes[n] # NoRow
  \/ k.kind = "list" /\ k.reply # NoReply /\ k.reply.shown.notes[n] # NoRow
  \/ k.kind = "purge" /\ k.note = n
  \/ k.kind = "audio" /\ k.note = n /\ k.reply # NoReply

\* A tab starts a call.
Asks(c, s, k, g, p) ==
  /\ Placed(calls[c], g, s, k) /\ calls' = [calls EXCEPT ![c] = g]
  /\ k \in SomeCall /\ k.reply = NoReply /\ k.kind # "list"
  /\ client' = [client EXCEPT ![c] = p] /\ p \in Tab
  /\ p.notes = client[c].notes /\ p.items = client[c].items /\ p.links = client[c].links
  /\ p.cursor = client[c].cursor /\ p.clock = client[c].clock
  /\ IF k.kind = "sync"
     THEN /\ p.pending = <<>> /\ k.batch = client[c].pending /\ k.since = client[c].cursor
          /\ k.batch # <<>> => k.at = now
     ELSE p.pending = client[c].pending
  /\ k.kind = "audio" => UnusedNote(k.note)
  /\ k.kind = "purge" => Has(c, k.note)
  /\ UNCHANGED <<plan, db, ghosts, online, now, made, purged>>

\* The server handles call k, with outcome o.
Serves(k, o) ==
  /\ k.reply = NoReply /\ k.kind # "list" /\ o \in Outcomes(k) /\ Arrived(k)
  /\ Torn \/ ~HalfRead
  /\ db' = o.db /\ purged' = (IF k.kind = "purge" THEN purged \cup {k.note} ELSE purged)
  /\ Rearmed
  /\ UNCHANGED <<plan, online, now, made>>
Answers(c, s, g, o) ==
  /\ Changed(calls[c], g, s, [calls[c][s] EXCEPT !.reply = o.reply])
  /\ calls' = [calls EXCEPT ![c] = g] /\ Serves(calls[c][s], o) /\ UNCHANGED ghosts
AnswersGhost(g, o) ==
  g \in ghosts /\ Serves(g, o) /\ ghosts' = ghosts \ {g} /\ UNCHANGED calls

\* A list reads on.
Reads(c, s, k, g) ==
  /\ Changed(calls[c], g, s, k) /\ calls' = [calls EXCEPT ![c] = g]
  /\ calls[c][s].kind = "list" /\ k \in ListCall /\ Known(k, db.seq)
  /\ \A n \in NoteId : Mentions(k, n) => db.notes[n] # NoRow \/ Mentions(calls[c][s], n)
  /\ UNCHANGED <<plan, db, client, ghosts, online, now, made, purged>>

\* A call ends in its tab.
Ends(c, s, g, p) ==
  /\ Removed(calls[c], g, s) /\ calls' = [calls EXCEPT ![c] = g]
  /\ client' = [client EXCEPT ![c] = p] /\ p \in Tab
  /\ p.cursor <= db.seq /\ p.clock = client[c].clock
  /\ \/ p.pending = client[c].pending
        /\ (calls[c][s].kind = "sync" => Answered(c, s, "sync"))
     \/ p.pending = calls[c][s].batch \o client[c].pending /\ calls[c][s].kind = "sync"
  /\ \A n \in NoteId : p.notes[n] # NoRow => Has(c, n) \/ Mentions(calls[c][s], n)
  /\ \/ ghosts' = ghosts
     \/ /\ ghosts' = ghosts \cup {calls[c][s]}
        /\ calls[c][s].reply = NoReply /\ calls[c][s].kind # "list"
  /\ UNCHANGED <<plan, db, online, now, made, purged>>

\* Timers, connections and the clock.
Passes == /\ Rearmed /\ online' \subseteq Client
          /\ now' = now \/ (now' = now + 1 /\ now < MaxTime)
          /\ UNCHANGED <<plan, db, calls, ghosts, made, purged>>

StepShapes ==
  \/ \E c \in Client : \E k, new : UserStep(c, k, new)
  \/ \E c \in Client : \E s, k, g, p : Asks(c, s, k, g, p)
  \/ \E c \in Client : \E s, g, o : Answers(c, s, g, o)
  \/ \E g, o : AnswersGhost(g, o)
  \/ \E c \in Client : \E s, k, g : Reads(c, s, k, g)
  \/ \E c \in Client : \E s, g, p : Ends(c, s, g, p)
  \/ Passes

LEMMA CallShape ==
  ASSUME TypeInv, NEW c \in Client, MayCall(c), NEW k \in SomeCall, Call(c, k)
  PROVE  \E s, g : Placed(calls[c], g, s, k) /\ calls' = [calls EXCEPT ![c] = g]
<1> DEFINE s == CHOOSE t \in Slots : t \notin Busy(c)
           g == [t \in Busy(c) \cup {s} |-> IF t = s THEN k ELSE calls[c][t]]
<1>1. calls \in [Client -> Desk] /\ plan \in Plans
  BY DEF TypeInv
<1>2. calls[c] \in [Busy(c) -> SomeCall] /\ Busy(c) \in SUBSET Slots
  BY <1>1, DeskShape DEF Busy
<1>3. \E t \in Slots : t \notin Busy(c)
  <2> SUFFICES ASSUME Slots = Busy(c) PROVE FALSE
    BY <1>2
  <2>1. Cardinality(Slots) \in Nat /\ plan.calls \in 1 .. Cardinality(Slots)
    BY <1>1, PlansAssumption, SyncSystemAssumption, FS_CardinalityType DEF PlanOK
  <2> QED BY <2>1 DEF MayCall
<1>4. s \in Slots /\ s \notin Busy(c)
  BY <1>3
<1>5. calls' = [calls EXCEPT ![c] = g]
  BY DEF Call
<1> HIDE DEF s
<1>6. g \in [Busy(c) \cup {s} -> SomeCall] /\ Busy(c) \cup {s} \in SUBSET Slots
  BY <1>2, <1>4
<1>7. g \in Desk
  BY <1>6, DeskShape
<1>8. Placed(calls[c], g, s, k)
  BY <1>4, <1>7 DEF Placed, Busy
<1> QED BY <1>5, <1>8

LEMMA ChangeShape ==
  ASSUME TypeInv, NEW c \in Client, NEW s \in Busy(c), NEW k \in SomeCall,
         calls' = [calls EXCEPT ![c] = [@ EXCEPT ![s] = k]]
  PROVE  \E g : Changed(calls[c], g, s, k) /\ calls' = [calls EXCEPT ![c] = g]
<1> DEFINE g == [calls[c] EXCEPT ![s] = k]
<1>1. calls \in [Client -> Desk]
  BY DEF TypeInv
<1>2. calls[c] \in [Busy(c) -> SomeCall] /\ Busy(c) \in SUBSET Slots
  BY <1>1, DeskShape DEF Busy
<1>3. g \in [Busy(c) -> SomeCall]
  BY <1>2
<1>4. g \in Desk
  BY <1>2, <1>3, DeskShape
<1>5. Changed(calls[c], g, s, k)
  BY <1>2, <1>4 DEF Changed, Busy
<1> QED BY <1>5

LEMMA FinishShape ==
  ASSUME TypeInv, NEW c \in Client, NEW s \in Busy(c), Finished(c, s)
  PROVE  \E g : Removed(calls[c], g, s) /\ calls' = [calls EXCEPT ![c] = g]
<1> DEFINE g == [t \in Busy(c) \ {s} |-> calls[c][t]]
<1>1. calls \in [Client -> Desk]
  BY DEF TypeInv
<1>2. calls[c] \in [Busy(c) -> SomeCall] /\ Busy(c) \in SUBSET Slots
  BY <1>1, DeskShape DEF Busy
<1>3. g \in [Busy(c) \ {s} -> SomeCall] /\ Busy(c) \ {s} \in SUBSET Slots
  BY <1>2
<1>4. g \in Desk
  BY <1>3, DeskShape
<1>5. Removed(calls[c], g, s)
  BY <1>4 DEF Removed, Busy
<1> QED BY <1>5 DEF Finished

------------------------------------------------------------------------------
(* What the server makes of a call. *)

LEMMA ChangesType ==
  ASSUME NEW d \in Database, NEW since
  PROVE  /\ Changes(d, since) \in ChangeRows
         /\ \A r \in Changes(d, since).notes : r.id \in NoteId /\ d.notes[r.id] # NoRow
<1> DEFINE N == {[id |-> n, val |-> d.notes[n].val] :
                   n \in {o \in NoteId : d.notes[o] # NoRow /\ d.notes[o].seq > since}}
           I == {[id |-> i, note |-> d.items[i].note, val |-> d.items[i].val] :
                   i \in {j \in ItemId : d.items[j] # NoRow /\ d.items[j].seq > since}}
           L == {[pair |-> p, attached |-> d.links[p].val["attached"]] :
                   p \in {q \in NoteId \X LabelId : d.links[q] # NoRow /\ d.links[q].seq > since}}
<1>1. /\ d.notes \in [NoteId -> NoteRow \cup {NoRow}]
      /\ d.items \in [ItemId -> ItemRow \cup {NoRow}]
      /\ d.links \in [NoteId \X LabelId -> LinkRow \cup {NoRow}]
  BY DEF Database
<1>2. N \in SUBSET [id : NoteId, val : NoteVal]
  BY <1>1 DEF NoteRow
<1>3. I \in SUBSET [id : ItemId, note : NoteId, val : ItemVal]
  BY <1>1 DEF ItemRow
<1>4. L \in SUBSET [pair : NoteId \X LabelId, attached : BOOLEAN]
  <2> SUFFICES ASSUME NEW p \in NoteId \X LabelId, d.links[p] # NoRow
               PROVE  [pair |-> p, attached |-> d.links[p].val["attached"]]
                        \in [pair : NoteId \X LabelId, attached : BOOLEAN]
    OBVIOUS
  <2>1. d.links[p] \in LinkRow
    BY <1>1
  <2>2. d.links[p].val["attached"] \in BOOLEAN
    BY <2>1 DEF LinkRow, LinkVal
  <2> QED BY <2>2
<1>5. Changes(d, since) = [notes |-> N, items |-> I, links |-> L]
  BY DEF Changes
<1>6. \A r \in N : r.id \in NoteId /\ d.notes[r.id] # NoRow
  OBVIOUS
<1> HIDE DEF N, I, L
<1> QED BY <1>2, <1>3, <1>4, <1>5, <1>6 DEF ChangeRows

\* What comes of call k, o, when S are the notes purged thereafter.
Served(k, o, S) ==
  /\ GoodDB(o.db) /\ db.seq <= o.db.seq
  /\ [k EXCEPT !.reply = o.reply] \in SomeCall /\ o.reply # NoReply
  /\ k.kind = "sync" /\ o.reply.ok =>
       /\ o.reply.seq = o.db.seq
       /\ \A m \in ToSet(k.batch) : Absorbs(o.db, m)
       /\ \A r \in o.reply.changes.notes : r.id \in NoteId /\ o.db.notes[r.id] # NoRow
  /\ k.kind = "audio" => o.db.notes[k.note] # NoRow
  /\ (k.kind = "audio" => db.notes[k.note] = NoRow) => Evolves(db, o.db, S)
  /\ \A n \in NoteId : o.db.notes[n] # NoRow =>
       \/ db.notes[n] # NoRow \/ (k.kind = "audio" /\ k.note = n)
       \/ k.kind = "sync" /\ \E m \in ToSet(k.batch) : m.entity = "note" /\ m.id = n
  /\ \A n \in NoteId : db.notes[n] # NoRow => o.db.notes[n] # NoRow \/ n \in S
  /\ \A s \in Nat :
       /\ Early(db, s) /\ 0 < s /\ (k.kind = "sync" => \A m \in ToSet(k.batch) : m.hlc < s)
       => Early(o.db, s)

LEMMA OutcomeServed ==
  ASSUME GoodDB(db), NEW k \in SomeCall, k.kind # "list", NEW o \in Outcomes(k),
         NEW S, k.kind = "purge" => k.note \in S
  PROVE  Served(k, o, S)
<1>1. db \in Database /\ db.seq \in Nat /\ db.seq <= db.seq
  BY DEF GoodDB, Database
<1>2. CASE k \in PurgeCall
  <2>1. k.kind = "purge" /\ k.note \in NoteId
    BY <1>2 DEF PurgeCall
  <2>2. o = [db |-> Purge(db, {k.note}), reply |-> [ok |-> TRUE], notify |-> TRUE]
    BY <2>1 DEF Outcomes, Purging
  <2>3. o.db = Purge(db, {k.note}) /\ o.reply = [ok |-> TRUE]
    BY <2>2
  <2>4. o.reply \in Verdict /\ o.reply \in [ok : {TRUE}]
    BY <2>3 DEF Verdict
  <2>5. o.reply # NoReply
    BY <2>4, SyncSystemAssumption
  <2>6. [k EXCEPT !.reply = o.reply] \in PurgeCall
    BY <1>2, <2>4 DEF PurgeCall
  <2>7. /\ Evolves(db, o.db, S)
        /\ \A x \in NoteId : o.db.notes[x] = IF x = k.note THEN NoRow ELSE db.notes[x]
        /\ \A s \in Nat : Early(db, s) => Early(o.db, s)
    BY <2>1, <2>3, PurgeEvolves
  <2>8. GoodDB(o.db) /\ db.seq <= o.db.seq
    BY <2>7 DEF Evolves
  <2> QED BY <2>1, <2>5, <2>6, <2>7, <2>8 DEF Served, SomeCall
<1>3. CASE k \in LabelCall
  <2>1. k.kind = "label" /\ k.label \in LabelId
    BY <1>3 DEF LabelCall
  <2>2. o = [db |-> RemoveLabel(db, k.label), reply |-> [ok |-> db.labels[k.label] # NoRow],
             notify |-> FALSE]
    BY <2>1 DEF Outcomes, DeletingLabel
  <2>3. o.db = RemoveLabel(db, k.label) /\ o.reply = [ok |-> db.labels[k.label] # NoRow]
    BY <2>2
  <2>4. o.reply \in Verdict
    BY <2>3 DEF Verdict
  <2>5. o.reply # NoReply
    BY <2>4, SyncSystemAssumption
  <2>6. [k EXCEPT !.reply = o.reply] \in LabelCall
    BY <1>3, <2>4 DEF LabelCall
  <2>7. /\ Evolves(db, o.db, S) /\ o.db.notes = db.notes
        /\ \A s \in Nat : Early(db, s) => Early(o.db, s)
    BY <2>1, <2>3, RemoveLabelEvolves
  <2>8. GoodDB(o.db) /\ db.seq <= o.db.seq
    BY <2>7 DEF Evolves
  <2> QED BY <2>1, <2>5, <2>6, <2>7, <2>8 DEF Served, SomeCall
<1>4. CASE k \in AudioCall
  <2> DEFINE e == InsertAudio(db, k.note, k.title, FirstKey)
  <2>1. k.kind = "audio" /\ k.note \in NoteId /\ k.title \in Text
    BY <1>4 DEF AudioCall
  <2>2. o = [db |-> e, reply |-> [ok |-> TRUE, seq |-> e.seq, val |-> e.notes[k.note].val],
             notify |-> TRUE]
    BY <2>1 DEF Outcomes, CreatingAudioNote
  <2> HIDE DEF e
  <2>3. o.db = e /\ o.reply = [ok |-> TRUE, seq |-> e.seq, val |-> e.notes[k.note].val]
    BY <2>2
  <2>4. /\ GoodDB(e) /\ db.seq <= e.seq /\ (db.notes[k.note] = NoRow => Evolves(db, e, S))
        /\ e.notes[k.note] \in NoteRow
        /\ \A x \in NoteId : x # k.note => e.notes[x] = db.notes[x]
        /\ \A s \in Nat : Early(db, s) /\ 0 < s => Early(e, s)
    BY <2>1, AudioEvolves DEF e
  <2>5. o.reply \in UploadReply
    BY <2>3, <2>4 DEF UploadReply, NoteRow, GoodDB, Database
  <2>6. o.reply # NoReply
    BY <2>5, SyncSystemAssumption
  <2>7. [k EXCEPT !.reply = o.reply] \in AudioCall
    BY <1>4, <2>5 DEF AudioCall
  <2>8. e.notes[k.note] # NoRow
    BY <2>4, Rows
  <2> QED BY <2>1, <2>3, <2>4, <2>6, <2>7, <2>8 DEF Served, SomeCall
<1>5. CASE k \in SyncCall
  <2>1. k.kind = "sync" /\ k.batch \in Seq(Bundle)
    BY <1>5 DEF SyncCall
  <2>2. o \in Syncing(k.since, k.batch)
    BY <2>1 DEF Outcomes
  <2>3. CASE ApplyBatch(db, k.batch) = {}
    <3>1. o.db = db /\ o.reply = [ok |-> FALSE]
      BY <2>2, <2>3 DEF Syncing
    <3>2. o.reply \in Verdict /\ o.reply \in [ok : {FALSE}] /\ ~o.reply.ok
      BY <3>1 DEF Verdict
    <3>3. o.reply # NoReply
      BY <3>2, SyncSystemAssumption
    <3>4. [k EXCEPT !.reply = o.reply] \in SyncCall
      BY <1>5, <3>2 DEF SyncCall
    <3> QED BY <1>1, <2>1, <3>1, <3>2, <3>3, <3>4, SameEvolves DEF Served, SomeCall
  <2>4. CASE ApplyBatch(db, k.batch) # {}
    <3>1. PICK e \in ApplyBatch(db, k.batch) : o.db = e /\ o.reply = Answer(e, k.since)
      BY <2>2, <2>4 DEF Syncing
    <3>2. /\ GoodDB(e) /\ Grows(db, e)
          /\ \A m \in ToSet(k.batch) : Absorbs(e, m)
          /\ \A s \in Nat : Early(db, s) /\ (\A m \in ToSet(k.batch) : m.hlc < s) => Early(e, s)
          /\ \A n \in NoteId : e.notes[n] # NoRow =>
               db.notes[n] # NoRow \/ \E m \in ToSet(k.batch) : m.entity = "note" /\ m.id = n
      BY <2>1, BatchEffect
    <3>3. /\ Changes(e, k.since) \in ChangeRows
          /\ \A r \in Changes(e, k.since).notes : r.id \in NoteId /\ e.notes[r.id] # NoRow
      BY <3>2, ChangesType DEF GoodDB
    <3>4. o.reply.seq = e.seq /\ o.reply.changes = Changes(e, k.since) /\ o.reply \in SyncReply
      BY <3>1, <3>2, <3>3 DEF Answer, SyncReply, GoodDB, Database
    <3>5. o.reply # NoReply
      BY <3>4, SyncSystemAssumption
    <3>6. [k EXCEPT !.reply = o.reply] \in SyncCall
      BY <1>5, <3>4 DEF SyncCall
    <3>7. Evolves(db, e, S)
      BY <3>2, GrowsEvolves
    <3>8. db.seq <= e.seq /\ \A n \in NoteId : db.notes[n] # NoRow => e.notes[n] # NoRow
      BY <3>2 DEF Grows, Grown
    <3> QED BY <2>1, <3>1, <3>2, <3>3, <3>4, <3>5, <3>6, <3>7, <3>8 DEF Served, SomeCall
  <2> QED BY <2>3, <2>4
<1>6. k \notin ListCall
  BY DEF ListCall
<1> QED BY <1>2, <1>3, <1>4, <1>5, <1>6 DEF SomeCall

------------------------------------------------------------------------------
(* Every step has one of the shapes. *)

LEMMA CallKinds ==
  ASSUME NEW k \in SomeCall
  PROVE  /\ k.kind = "sync" => k \in SyncCall
         /\ k.kind = "list" => k \in ListCall
         /\ k.kind = "purge" => k \in PurgeCall
         /\ k.kind = "audio" => k \in AudioCall
         /\ k.kind = "label" => k \in LabelCall
         /\ k.kind \in {"sync", "list", "purge", "audio", "label"}
BY DEF SomeCall, SyncCall, ListCall, PurgeCall, AudioCall, LabelCall

LEMMA CallIn ==
  ASSUME TypeInv, NEW c \in Client, NEW s \in Busy(c)
  PROVE  calls[c][s] \in SomeCall /\ Known(calls[c][s], db.seq)
BY DeskShape DEF TypeInv, Busy

\* A set of numbers up to q has a greatest.
LEMMA HighestType ==
  ASSUME NEW q \in Nat, NEW S \in SUBSET (0 .. q), NEW x \in 0 .. q
  PROVE  Highest(x, S) \in 0 .. q
<1> DEFINE U == S \cup {x}
           T == {q - u : u \in U}
<1>1. T \in SUBSET Nat /\ T # {}
  <2>1. x \in U /\ \A u \in U : u \in 0 .. q
    OBVIOUS
  <2> HIDE DEF U
  <2>2. \A u \in U : q - u \in Nat
    BY <2>1
  <2>3. q - x \in T
    BY <2>1
  <2> QED BY <2>2, <2>3
<1> HIDE DEF T
<1>2. PICK t \in T : \A u \in T : t <= u
  BY <1>1, LeastElement
<1>3. PICK y \in U : t = q - y
  BY <1>2 DEF T
<1>4. \A u \in U : y >= u
  <2> TAKE u \in U
  <2>1. t <= q - u
    BY <1>2 DEF T
  <2> QED BY <1>3, <2>1
<1>5. Max(U) \in U
  BY <1>3, <1>4 DEF Max
<1> QED BY <1>5 DEF Highest

LEMMA SyncNowShape ==
  ASSUME TypeInv, NEW c \in Client, NEW t, SyncNow(c, t)
  PROVE  \E s, k, g, p : Asks(c, s, k, g, p)
<1> DEFINE old == client[c]
           at == IF old.pending = <<>> THEN 0 ELSE now
           k == [kind |-> "sync", since |-> old.cursor, batch |-> old.pending, at |-> at,
                 reply |-> NoReply]
           p == [TakePending(old) EXCEPT !.due = @ \ {t}]
<1>1. client \in [Client -> Tab] /\ old \in Tab /\ now \in Nat
  BY DEF TypeInv
<1>2. at \in Nat
  BY <1>1
<1>3. old.pending # <<>> => at = now
  OBVIOUS
<1>4. MayCall(c) /\ UNCHANGED <<plan, db, ghosts, online, drops, now, made, purged>>
  BY DEF SyncNow
<1>b. client' = [client EXCEPT ![c] = p]
  BY DEF SyncNow
<1>a. Call(c, k)
  BY DEF SyncNow
<1> HIDE DEF at
<1>5. /\ k \in SyncCall /\ k.kind = "sync" /\ k.reply = NoReply /\ k.batch = old.pending
      /\ k.at = at /\ k.since = old.cursor
  BY <1>1, <1>2 DEF SyncCall, Tab
<1>6. p \in Tab /\ p.notes = old.notes /\ p.cursor = old.cursor /\ p.clock = old.clock
      /\ p.pending = <<>> /\ p.items = old.items /\ p.links = old.links
  <2> DEFINE w == (old.due \ {"flush"}) \ {t}
             u == old.due \ {t}
  <2>1. <<>> \in Seq(Bundle) /\ w \in SUBSET {"flush", "pull"} /\ u \in SUBSET {"flush", "pull"}
    BY <1>1 DEF Tab
  <2>2. p = [old EXCEPT !.pending = <<>>, !.due = w]
    BY <1>1 DEF TakePending, Tab
  <2> HIDE DEF w, p
  <2> QED BY <1>1, <2>1, <2>2 DEF Tab
<1> HIDE DEF k, p
<1>7. PICK s, g : Placed(calls[c], g, s, k) /\ calls' = [calls EXCEPT ![c] = g]
  BY <1>4, <1>a, <1>5, CallShape DEF SomeCall
<1>8. Asks(c, s, k, g, p)
  BY <1>3, <1>4, <1>b, <1>5, <1>6, <1>7 DEF Asks, SomeCall
<1> QED BY <1>8

\* The other calls leave the tab as it is.
LEMMA AskingShape ==
  ASSUME TypeInv, NEW c \in Client, NEW k \in SomeCall, k.kind \notin {"list", "sync"},
         k.reply = NoReply,
         k.kind = "audio" => UnusedNote(k.note), k.kind = "purge" => Has(c, k.note),
         MayCall(c), Call(c, k),
         UNCHANGED <<plan, db, client, ghosts, online, drops, now, made, purged>>
  PROVE  \E s, g, p : Asks(c, s, k, g, p)
<1>1. client \in [Client -> Tab] /\ client[c] \in Tab
  BY DEF TypeInv
<1>2. client' = [client EXCEPT ![c] = client[c]]
  BY <1>1
<1>3. PICK s, g : Placed(calls[c], g, s, k) /\ calls' = [calls EXCEPT ![c] = g]
  BY CallShape
<1>4. Asks(c, s, k, g, client[c])
  BY <1>1, <1>2, <1>3 DEF Asks
<1> QED BY <1>4

LEMMA AskingShapes ==
  ASSUME TypeInv, NEW c \in Client
  PROVE  /\ \A n \in NoteId : PurgeForever(c, n) => \E s, k, g, p : Asks(c, s, k, g, p)
         /\ \A n \in NoteId, v \in Typed : UploadAudio(c, n, v) => \E s, k, g, p : Asks(c, s, k, g, p)
         /\ \A l \in LabelId : DropLabel(c, l) => \E s, k, g, p : Asks(c, s, k, g, p)
<1>1. ASSUME NEW n \in NoteId, PurgeForever(c, n) PROVE \E s, k, g, p : Asks(c, s, k, g, p)
  <2> DEFINE k == [kind |-> "purge", note |-> n, at |-> 0, reply |-> NoReply]
  <2>1. k \in SomeCall /\ k.kind = "purge" /\ k.reply = NoReply /\ k.note = n
    BY DEF SomeCall, PurgeCall
  <2>2. /\ MayCall(c) /\ Has(c, n) /\ Call(c, k)
        /\ UNCHANGED <<plan, db, client, ghosts, online, drops, now, made, purged>>
    BY <1>1 DEF PurgeForever
  <2> HIDE DEF k
  <2> QED BY <2>1, <2>2, AskingShape
<1>2. ASSUME NEW n \in NoteId, NEW v \in Typed, UploadAudio(c, n, v)
      PROVE  \E s, k, g, p : Asks(c, s, k, g, p)
  <2> DEFINE k == [kind |-> "audio", note |-> n, title |-> v, at |-> 0, reply |-> NoReply]
  <2>1. k \in SomeCall /\ k.kind = "audio" /\ k.reply = NoReply /\ k.note = n
    BY SyncSystemAssumption DEF SomeCall, AudioCall
  <2>2. /\ MayCall(c) /\ UnusedNote(n) /\ Call(c, k)
        /\ UNCHANGED <<plan, db, client, ghosts, online, drops, now, made, purged>>
    BY <1>2 DEF UploadAudio
  <2> HIDE DEF k
  <2> QED BY <2>1, <2>2, AskingShape
<1>3. ASSUME NEW l \in LabelId, DropLabel(c, l) PROVE \E s, k, g, p : Asks(c, s, k, g, p)
  <2> DEFINE k == [kind |-> "label", label |-> l, at |-> 0, reply |-> NoReply]
  <2>1. k \in SomeCall /\ k.kind = "label" /\ k.reply = NoReply
    BY DEF SomeCall, LabelCall
  <2>2. /\ MayCall(c) /\ Call(c, k)
        /\ UNCHANGED <<plan, db, client, ghosts, online, drops, now, made, purged>>
    BY <1>3 DEF DropLabel
  <2> HIDE DEF k
  <2> QED BY <2>1, <2>2, AskingShape
<1> QED BY <1>1, <1>2, <1>3

LEMMA ServeShape ==
  ASSUME TypeInv, NEW k, k.reply = NoReply, k.kind # "list", NEW o \in Outcomes(k), Serve(k, o)
  PROVE  Serves(k, o)
<1>1. client \in [Client -> Tab] /\ online \subseteq Client
  BY DEF TypeInv
<1>2. CASE client' = client
  BY <1>1, <1>2 DEF Serve, Serves, Rearmed
<1>3. CASE client' = Notified
  <2>1. ASSUME NEW c \in Client
        PROVE  [client[c] EXCEPT !.due = @ \cup {"pull"}] \in Tab
    BY <1>1 DEF Tab
  <2>2. \A c \in Client : client'[c] = IF c \in online THEN [client[c] EXCEPT !.due = @ \cup {"pull"}]
                                       ELSE client[c]
    BY <1>3 DEF Notified
  <2>3. ASSUME NEW c \in Client
        PROVE  /\ client'[c] \in Tab /\ client'[c].pending = client[c].pending
               /\ client'[c].notes = client[c].notes /\ client'[c].cursor = client[c].cursor
               /\ client'[c].clock = client[c].clock
    <3>1. client[c] \in Tab
      BY <1>1
    <3>2. CASE c \in online
      <4>1. client'[c] = [client[c] EXCEPT !.due = @ \cup {"pull"}]
        BY <2>2, <3>2
      <4>2. client'[c] \in Tab
        BY <2>1, <4>1
      <4> QED BY <3>1, <4>1, <4>2 DEF Tab
    <3>3. CASE c \notin online
      BY <2>2, <3>1, <3>3
    <3> QED BY <3>2, <3>3
  <2>4. Rearmed
    BY <1>3, <2>3 DEF Rearmed, Notified
  <2> QED BY <2>4 DEF Serve, Serves
<1> QED BY <1>2, <1>3 DEF Serve

LEMMA HandleShape ==
  ASSUME TypeInv, NEW c \in Client, NEW s, Handle(c, s)
  PROVE  \E g, o : Answers(c, s, g, o)
<1>1. /\ s \in Busy(c) /\ calls[c][s].reply = NoReply /\ calls[c][s].kind # "list"
      /\ UNCHANGED ghosts
  BY DEF Handle
<1>2. PICK o \in Outcomes(calls[c][s]) :
        /\ Serve(calls[c][s], o)
        /\ calls' = [calls EXCEPT ![c][s].reply = o.reply]
  BY DEF Handle
<1> DEFINE k == [calls[c][s] EXCEPT !.reply = o.reply]
<1>3. k \in SomeCall
  <2>1. calls[c][s].kind = "purge" => calls[c][s].note \in purged \cup {calls[c][s].note}
    OBVIOUS
  <2>2. Served(calls[c][s], o, purged \cup {calls[c][s].note})
    BY <1>1, <1>2, <2>1, CallIn, OutcomeServed DEF TypeInv
  <2> QED BY <2>2 DEF Served
<1>4. calls' = [calls EXCEPT ![c] = [@ EXCEPT ![s] = k]]
  BY <1>2
<1>5. Serves(calls[c][s], o)
  BY <1>1, <1>2, ServeShape
<1>6. \E g : Changed(calls[c], g, s, k) /\ calls' = [calls EXCEPT ![c] = g]
  <2> HIDE DEF k
  <2> QED BY <1>1, <1>3, <1>4, ChangeShape
<1> QED BY <1>1, <1>5, <1>6 DEF Answers

LEMMA HandleGhostShape ==
  ASSUME TypeInv, NEW g \in ghosts, HandleGhost(g)
  PROVE  \E o : AnswersGhost(g, o)
<1>1. PICK o \in Outcomes(g) : Serve(g, o) /\ ghosts' = ghosts \ {g} /\ UNCHANGED calls
  BY DEF HandleGhost
<1>2. Serves(g, o)
  BY <1>1, ServeShape DEF TypeInv
<1> QED BY <1>1, <1>2 DEF AnswersGhost

LEMMA AuthoritativeType ==
  ASSUME NEW d \in Database
  PROVE  /\ Authoritative(d) \in ShownRows
         /\ \A n \in NoteId : Authoritative(d).notes[n] # NoRow => d.notes[n] # NoRow
<1> DEFINE N == [n \in NoteId |-> IF d.notes[n] = NoRow THEN NoRow ELSE d.notes[n].val]
           I == [i \in ItemId |-> IF d.items[i] = NoRow \/ d.items[i].val["deleted"]
                                  THEN NoRow ELSE d.items[i].val]
           L == {p \in NoteId \X LabelId : d.links[p] # NoRow /\ d.links[p].val["attached"]}
<1>1. /\ d.notes \in [NoteId -> NoteRow \cup {NoRow}]
      /\ d.items \in [ItemId -> ItemRow \cup {NoRow}]
  BY DEF Database
<1>2. N \in [NoteId -> NoteVal \cup {NoRow}]
  BY <1>1 DEF NoteRow
<1>3. I \in [ItemId -> ItemVal \cup {NoRow}]
  BY <1>1 DEF ItemRow
<1>4. L \in SUBSET (NoteId \X LabelId)
  OBVIOUS
<1>5. \A n \in NoteId : N[n] # NoRow => d.notes[n] # NoRow
  OBVIOUS
<1>6. Authoritative(d) = [notes |-> N, items |-> I, links |-> L]
  BY DEF Authoritative
<1> HIDE DEF N, I, L
<1> QED BY <1>2, <1>3, <1>4, <1>5, <1>6 DEF ShownRows

LEMMA EmptyType == EmptyDB \in Database
BY DEF EmptyDB, Database

LEMMA ReadShape ==
  ASSUME TypeInv, NEW c \in Client, NEW s, Listing(c, s), NEW got \in ListReply,
         NEW todo \in SUBSET ({"items", "labels"} \X NoteId), Read(c, s, got, todo),
         got.seq <= db.seq, got.cursor <= db.seq,
         \A n \in NoteId : got.shown.notes[n] # NoRow =>
           db.notes[n] # NoRow \/ Mentions(calls[c][s], n)
  PROVE  \E k, g : Reads(c, s, k, g)
<1> DEFINE old == calls[c][s]
           r == IF todo = {} THEN got ELSE NoReply
           k == [old EXCEPT !.got = got, !.todo = todo, !.reply = r]
<1>1. s \in Busy(c) /\ old.kind = "list"
  BY DEF Listing
<1>2. old \in ListCall
  BY <1>1, CallIn, CallKinds
<1>3. r \in {NoReply} \cup ListReply /\ (r # NoReply => r = got)
  OBVIOUS
<1>4. got # NoReply
  BY SyncSystemAssumption
<1>5. calls' = [calls EXCEPT ![c] = [@ EXCEPT ![s] = k]]
  BY DEF Read
<1>6. UNCHANGED <<plan, db, client, ghosts, online, drops, now, made, purged>>
  BY DEF Read
<1> HIDE DEF r
<1>7. k \in ListCall /\ k.kind = "list" /\ k.got = got /\ k.reply = r /\ k.todo = todo
  BY <1>2, <1>3 DEF ListCall
<1> HIDE DEF k
<1>8. Known(k, db.seq)
  BY <1>3, <1>4, <1>7 DEF Known
<1>9. PICK g : Changed(calls[c], g, s, k) /\ calls' = [calls EXCEPT ![c] = g]
  BY <1>1, <1>5, <1>7, ChangeShape DEF SomeCall
<1>10. \A n \in NoteId : Mentions(k, n) => db.notes[n] # NoRow \/ Mentions(old, n)
  BY <1>3, <1>7 DEF Mentions
<1> QED BY <1>1, <1>6, <1>7, <1>8, <1>9, <1>10 DEF Reads

LEMMA ListNotesShape ==
  ASSUME TypeInv, NEW c \in Client, NEW s, ListNotes(c, s)
  PROVE  \E k, g : Reads(c, s, k, g)
<1> DEFINE there == {n \in NoteId : db.notes[n] # NoRow}
           high == Highest(0, {db.notes[n].seq : n \in there})
           none == Authoritative(EmptyDB)
           shown == [none EXCEPT !.notes = Authoritative(db).notes]
           got == [ok |-> TRUE, seq |-> db.seq, cursor |-> high, shown |-> shown]
<1>1. db \in Database /\ db.seq \in Nat /\ RowsBelow(db)
  BY DEF TypeInv, GoodDB, Database
<1>2. high \in 0 .. db.seq
  <2>1. \A n \in there : db.notes[n].seq \in 0 .. db.seq
    BY <1>1, Rows DEF RowsBelow, Below, Database
  <2>2. {db.notes[n].seq : n \in there} \in SUBSET (0 .. db.seq)
    BY <2>1
  <2> HIDE DEF there
  <2> QED BY <1>1, <2>2, HighestType
<1>3. shown \in ShownRows /\ shown.notes = Authoritative(db).notes
  <2>1. none \in ShownRows /\ Authoritative(db) \in ShownRows
    BY <1>1, EmptyType, AuthoritativeType
  <2> HIDE DEF none
  <2> QED BY <2>1 DEF ShownRows
<1>4. Listing(c, s) /\ Read(c, s, got, {"items", "labels"} \X there)
  BY DEF ListNotes
<1>5. {"items", "labels"} \X there \in SUBSET ({"items", "labels"} \X NoteId)
  OBVIOUS
<1> HIDE DEF high, shown, there
<1>6. got \in ListReply /\ got.seq = db.seq /\ got.cursor <= db.seq /\ got.shown = shown
  BY <1>1, <1>2, <1>3 DEF ListReply
<1>7. \A n \in NoteId : shown.notes[n] # NoRow => db.notes[n] # NoRow
  BY <1>1, <1>3, AuthoritativeType
<1> HIDE DEF got
<1> QED BY <1>1, <1>4, <1>5, <1>6, <1>7, ReadShape

\* What a list that has something to read still has read already.
LEMMA ListGot ==
  ASSUME TypeInv, NEW c \in Client, NEW s, Listing(c, s), calls[c][s].todo # {}
  PROVE  /\ calls[c][s].got \in ListReply /\ calls[c][s].todo \in SUBSET ({"items", "labels"} \X NoteId)
         /\ calls[c][s].got.seq <= db.seq /\ calls[c][s].got.cursor <= db.seq
         /\ \A n \in NoteId : calls[c][s].got.shown.notes[n] # NoRow => Mentions(calls[c][s], n)
<1>1. s \in Busy(c) /\ calls[c][s].kind = "list"
  BY DEF Listing
<1>2. calls[c][s] \in ListCall /\ Known(calls[c][s], db.seq)
  BY <1>1, CallIn, CallKinds
<1>3. calls[c][s].got # NoReply
  BY <1>1, <1>2 DEF Known
<1> QED BY <1>1, <1>2, <1>3 DEF ListCall, Known, Mentions

LEMMA ListItemsShape ==
  ASSUME TypeInv, NEW c \in Client, NEW s, NEW n, ListItems(c, s, n)
  PROVE  \E k, g : Reads(c, s, k, g)
<1> DEFINE old == calls[c][s]
           live == {i \in ItemsOf(db, n) : ~db.items[i].val["deleted"]}
           high == Highest(old.got.cursor, {db.items[i].seq : i \in live})
           I == [i \in ItemId |-> IF i \in live THEN db.items[i].val ELSE old.got.shown.items[i]]
           shown == [old.got.shown EXCEPT !.items = I]
           got == [old.got EXCEPT !.cursor = high, !.shown = shown]
           todo == old.todo \ {<<"items", n>>}
<1>1. Listing(c, s) /\ <<"items", n>> \in old.todo
  BY DEF ListItems
<1>2. /\ old.got \in ListReply /\ old.todo \in SUBSET ({"items", "labels"} \X NoteId)
      /\ old.got.seq <= db.seq /\ old.got.cursor <= db.seq
      /\ \A m \in NoteId : old.got.shown.notes[m] # NoRow => Mentions(old, m)
  BY <1>1, ListGot
<1>3. Read(c, s, got, todo)
  BY DEF ListItems
<1>4. db \in Database /\ db.seq \in Nat /\ RowsBelow(db)
  BY DEF TypeInv, GoodDB, Database
<1> HIDE DEF old
<1>5. high \in 0 .. db.seq
  <2>1. \A i \in live : db.items[i].seq \in 0 .. db.seq
    BY <1>4, Rows DEF RowsBelow, Below, Database, ItemsOf
  <2>2. {db.items[i].seq : i \in live} \in SUBSET (0 .. db.seq)
    BY <2>1
  <2>a. old.got.cursor \in Nat
    BY <1>2 DEF ListReply
  <2>3. old.got.cursor \in 0 .. db.seq
    BY <1>2, <1>4, <2>a
  <2> HIDE DEF live
  <2> QED BY <1>4, <2>2, <2>3, HighestType
<1>6. old.got.shown \in ShownRows
  BY <1>2 DEF ListReply
<1>7. I \in [ItemId -> ItemVal \cup {NoRow}]
  <2>1. \A i \in live : db.items[i].val \in ItemVal
    BY <1>4 DEF Database, ItemsOf, ItemRow
  <2> QED BY <1>6, <2>1 DEF ShownRows
<1>a. high \in Nat
  BY <1>4, <1>5
<1> HIDE DEF high, I
<1>8. shown \in ShownRows /\ shown.notes = old.got.shown.notes
  BY <1>6, <1>7 DEF ShownRows
<1> HIDE DEF shown
<1>9. /\ got \in ListReply /\ got.seq = old.got.seq /\ got.cursor = high /\ got.shown = shown
  <2>1. PICK x \in Nat, w \in ShownRows, r \in ListReply : x = high /\ w = shown /\ r = old.got
    BY <1>2, <1>a, <1>8
  <2>2. got = [r EXCEPT !.cursor = x, !.shown = w]
    BY <2>1
  <2> HIDE DEF got
  <2> QED BY <2>1, <2>2 DEF ListReply
<1>10. todo \in SUBSET ({"items", "labels"} \X NoteId) /\ got.cursor <= db.seq
  BY <1>2, <1>5, <1>9
<1> HIDE DEF got, todo
<1> QED BY <1>1, <1>2, <1>3, <1>8, <1>9, <1>10, ReadShape DEF old

LEMMA ListLabelsShape ==
  ASSUME TypeInv, NEW c \in Client, NEW s, NEW n, ListLabels(c, s, n)
  PROVE  \E k, g : Reads(c, s, k, g)
<1> DEFINE old == calls[c][s]
           L == old.got.shown.links \cup {p \in Authoritative(db).links : p[1] = n}
           shown == [old.got.shown EXCEPT !.links = L]
           got == [old.got EXCEPT !.shown = shown]
           todo == old.todo \ {<<"labels", n>>}
<1>1. Listing(c, s) /\ <<"labels", n>> \in old.todo
  BY DEF ListLabels
<1>2. /\ old.got \in ListReply /\ old.todo \in SUBSET ({"items", "labels"} \X NoteId)
      /\ old.got.seq <= db.seq /\ old.got.cursor <= db.seq
      /\ \A m \in NoteId : old.got.shown.notes[m] # NoRow => Mentions(old, m)
  BY <1>1, ListGot
<1>3. Read(c, s, got, todo)
  BY DEF ListLabels
<1>4. db \in Database
  BY DEF TypeInv, GoodDB
<1> HIDE DEF old
<1>5. old.got.shown \in ShownRows /\ Authoritative(db) \in ShownRows
  BY <1>2, <1>4, AuthoritativeType DEF ListReply
<1>6. L \in SUBSET (NoteId \X LabelId)
  BY <1>5 DEF ShownRows
<1> HIDE DEF L
<1>7. shown \in ShownRows /\ shown.notes = old.got.shown.notes
  BY <1>5, <1>6 DEF ShownRows
<1> HIDE DEF shown
<1>8. /\ got \in ListReply /\ got.seq = old.got.seq /\ got.cursor = old.got.cursor
      /\ got.shown = shown
  BY <1>2, <1>7 DEF ListReply
<1>9. todo \in SUBSET ({"items", "labels"} \X NoteId)
  BY <1>2
<1> HIDE DEF got, todo
<1> QED BY <1>1, <1>2, <1>3, <1>7, <1>8, <1>9, ReadShape DEF old

LEMMA EndShape ==
  ASSUME TypeInv, NEW c \in Client, NEW s \in Busy(c), Finished(c, s), NEW p \in Tab,
         client' = [client EXCEPT ![c] = p], p.cursor <= db.seq, p.clock = client[c].clock,
         \/ p.pending = client[c].pending
            /\ (calls[c][s].kind = "sync" => Answered(c, s, "sync"))
         \/ p.pending = calls[c][s].batch \o client[c].pending /\ calls[c][s].kind = "sync",
         \A n \in NoteId : p.notes[n] # NoRow => Has(c, n) \/ Mentions(calls[c][s], n),
         \/ ghosts' = ghosts
         \/ /\ ghosts' = ghosts \cup {calls[c][s]}
            /\ calls[c][s].reply = NoReply /\ calls[c][s].kind # "list",
         UNCHANGED <<plan, db, online, now, made, purged>>
  PROVE  \E g, q : Ends(c, s, g, q)
<1>1. PICK g : Removed(calls[c], g, s) /\ calls' = [calls EXCEPT ![c] = g]
  BY FinishShape
<1> QED BY <1>1 DEF Ends

LEMMA ReconcileShape ==
  ASSUME NEW k \in Tab, NEW q \in Nat, NEW ch \in ChangeRows
  PROVE  LET p == Reconcile(k, q, ch) IN
         /\ p \in Tab /\ p.pending = k.pending /\ p.clock = k.clock
         /\ p.cursor = IF q > k.cursor THEN q ELSE k.cursor
         /\ \A n \in NoteId : p.notes[n] # NoRow => k.notes[n] # NoRow \/ \E r \in ch.notes : r.id = n
<1> DEFINE notes == [n \in NoteId |-> IF \E r \in ch.notes : r.id = n
                                      THEN (CHOOSE r \in ch.notes : r.id = n).val ELSE k.notes[n]]
           known(n) == notes[n] # NoRow
           cursor == IF q > k.cursor THEN q ELSE k.cursor
           items == [i \in ItemId |->
                       ItemAfter(k.items[i], {r \in ch.items : r.id = i /\ known(r.note)})]
           links == {p \in k.links : ~ \E r \in ch.links : r.pair = p /\ known(p[1])}
                    \cup {r.pair : r \in {o \in ch.links : o.attached /\ known(o.pair[1])}}
<1>1. /\ ch.notes \in SUBSET [id : NoteId, val : NoteVal]
      /\ ch.items \in SUBSET [id : ItemId, note : NoteId, val : ItemVal]
      /\ ch.links \in SUBSET [pair : NoteId \X LabelId, attached : BOOLEAN]
  BY DEF ChangeRows
<1>2. /\ k.notes \in [NoteId -> NoteVal \cup {NoRow}] /\ k.items \in [ItemId -> ItemVal \cup {NoRow}]
      /\ k.links \in SUBSET (NoteId \X LabelId) /\ k.cursor \in Nat
  BY DEF Tab
<1>3. notes \in [NoteId -> NoteVal \cup {NoRow}]
  <2> SUFFICES ASSUME NEW n \in NoteId, \E r \in ch.notes : r.id = n
               PROVE  (CHOOSE r \in ch.notes : r.id = n).val \in NoteVal
    BY <1>2
  <2> DEFINE r0 == CHOOSE r \in ch.notes : r.id = n
  <2>1. r0 \in ch.notes
    OBVIOUS
  <2> HIDE DEF r0
  <2> QED BY <1>1, <2>1 DEF r0
<1>4. \A n \in NoteId : notes[n] # NoRow => k.notes[n] # NoRow \/ \E r \in ch.notes : r.id = n
  OBVIOUS
<1> HIDE DEF notes
<1>5. items \in [ItemId -> ItemVal \cup {NoRow}]
  <2> SUFFICES ASSUME NEW i \in ItemId, NEW rows \in SUBSET ch.items
               PROVE  ItemAfter(k.items[i], rows) \in ItemVal \cup {NoRow}
    <3> HIDE DEF known
    <3>1. \A i \in ItemId : {r \in ch.items : r.id = i /\ known(r.note)} \in SUBSET ch.items
      OBVIOUS
    <3> QED BY <3>1
  <2>1. CASE rows = {}
    BY <1>2, <2>1 DEF ItemAfter
  <2>2. CASE rows # {}
    <3> DEFINE r0 == CHOOSE r \in rows : TRUE
    <3>1. r0 \in rows
      BY <2>2
    <3>2. ItemAfter(k.items[i], rows) = IF r0.val["deleted"] THEN NoRow ELSE r0.val
      BY <2>2 DEF ItemAfter
    <3> HIDE DEF r0
    <3>3. r0.val \in ItemVal
      BY <1>1, <3>1
    <3> QED BY <3>2, <3>3
  <2> QED BY <2>1, <2>2
<1>6. links \in SUBSET (NoteId \X LabelId)
  <2> HIDE DEF known
  <2> QED BY <1>1, <1>2
<1>7. cursor \in Nat
  BY <1>2
<1>8. Reconcile(k, q, ch) =
        [k EXCEPT !.cursor = cursor, !.notes = notes, !.items = items, !.links = links]
  BY DEF Reconcile, notes
<1> HIDE DEF cursor, items, links
<1>9. PICK p : p = [k EXCEPT !.cursor = cursor, !.notes = notes, !.items = items, !.links = links]
  OBVIOUS
<1>10. p \in Tab /\ p.pending = k.pending /\ p.clock = k.clock /\ p.cursor = cursor /\ p.notes = notes
  BY <1>3, <1>5, <1>6, <1>7, <1>9 DEF Tab
<1>11. Reconcile(k, q, ch) = p
  BY <1>8, <1>9
<1> QED BY <1>4, <1>10, <1>11 DEF cursor

LEMMA TabNow ==
  ASSUME TypeInv, NEW c \in Client
  PROVE  /\ client[c] \in Tab /\ client[c].cursor <= db.seq /\ client[c].cursor \in Nat
         /\ db.seq \in Nat /\ client \in [Client -> Tab]
         /\ client[c].notes \in [NoteId -> NoteVal \cup {NoRow}]
BY DEF TypeInv, Tab, GoodDB, Database

LEMMA ReceiveChangesShape ==
  ASSUME TypeInv, NEW c \in Client, NEW s, ReceiveChanges(c, s)
  PROVE  \E g, p : Ends(c, s, g, p)
<1> DEFINE k == calls[c][s]
           p == Reconcile(client[c], k.reply.seq, k.reply.changes)
<1>1. /\ s \in Busy(c) /\ k.kind = "sync" /\ k.reply # NoReply /\ k.reply.ok
      /\ Answered(c, s, "sync") /\ Finished(c, s)
      /\ UNCHANGED <<plan, db, ghosts, online, drops, now, made, purged>>
  BY DEF ReceiveChanges, Answered
<1>2. client' = [client EXCEPT ![c] = p]
  BY DEF ReceiveChanges
<1>3. k \in SyncCall /\ Known(k, db.seq)
  BY <1>1, CallIn, CallKinds
<1>4. k.reply \in SyncReply /\ k.reply.seq <= db.seq
  BY <1>1, <1>3 DEF SyncCall, Known
<1>5. k.reply.seq \in Nat /\ k.reply.changes \in ChangeRows
  BY <1>4 DEF SyncReply
<1>6. /\ p \in Tab /\ p.pending = client[c].pending /\ p.clock = client[c].clock
      /\ p.cursor = IF k.reply.seq > client[c].cursor THEN k.reply.seq ELSE client[c].cursor
      /\ \A n \in NoteId : p.notes[n] # NoRow =>
           client[c].notes[n] # NoRow \/ \E r \in k.reply.changes.notes : r.id = n
  BY <1>5, TabNow, ReconcileShape
<1> HIDE DEF p
<1>7. p.cursor <= db.seq
  BY <1>4, <1>6, TabNow
<1>8. \A n \in NoteId : p.notes[n] # NoRow => Has(c, n) \/ Mentions(k, n)
  BY <1>1, <1>6 DEF Has, Mentions
<1> QED BY <1>1, <1>2, <1>6, <1>7, <1>8, EndShape

LEMMA ReceiveListShape ==
  ASSUME TypeInv, NEW c \in Client, NEW s, ReceiveList(c, s)
  PROVE  \E g, p : Ends(c, s, g, p)
<1> DEFINE k == calls[c][s]
           p == Loaded(client[c], k.reply)
<1>1. /\ s \in Busy(c) /\ k.kind = "list" /\ k.reply # NoReply /\ Finished(c, s)
      /\ UNCHANGED <<plan, db, ghosts, online, drops, now, made, purged>>
  BY DEF ReceiveList, Answered
<1>2. client' = [client EXCEPT ![c] = p]
  BY DEF ReceiveList
<1>3. k \in ListCall /\ Known(k, db.seq)
  BY <1>1, CallIn, CallKinds
<1>4. k.reply \in ListReply /\ k.reply.cursor <= db.seq
  BY <1>1, <1>3 DEF ListCall, Known
<1>5. k.reply.cursor \in Nat /\ k.reply.shown \in ShownRows
  BY <1>4 DEF ListReply
<1>6. PICK x \in Nat, N \in [NoteId -> NoteVal \cup {NoRow}], I \in [ItemId -> ItemVal \cup {NoRow}],
           L \in SUBSET (NoteId \X LabelId) :
             /\ x = k.reply.cursor /\ N = k.reply.shown.notes /\ I = k.reply.shown.items
             /\ L = k.reply.shown.links
  BY <1>5 DEF ShownRows
<1>7. p = [client[c] EXCEPT !.cursor = x, !.notes = N, !.items = I, !.links = L]
  BY <1>6 DEF Loaded
<1>8. client[c] \in Tab
  BY TabNow
<1> HIDE DEF p
<1>9. p \in Tab /\ p.pending = client[c].pending /\ p.clock = client[c].clock /\ p.cursor = x
      /\ p.notes = N
  BY <1>7, <1>8 DEF Tab
<1>10. \A n \in NoteId : p.notes[n] # NoRow => Has(c, n) \/ Mentions(k, n)
  BY <1>1, <1>6, <1>9 DEF Mentions
<1> QED BY <1>1, <1>2, <1>4, <1>6, <1>9, <1>10, EndShape

LEMMA ReceiveAudioShape ==
  ASSUME TypeInv, NEW c \in Client, NEW s, ReceiveAudio(c, s)
  PROVE  \E g, p : Ends(c, s, g, p)
<1> DEFINE k == calls[c][s]
           old == client[c]
           v == IF old.notes[k.note] = NoRow THEN k.reply.val ELSE old.notes[k.note]
           N == [old.notes EXCEPT ![k.note] = v]
           p == [old EXCEPT !.notes = N]
<1>1. /\ s \in Busy(c) /\ k.kind = "audio" /\ k.reply # NoReply /\ Finished(c, s)
      /\ UNCHANGED <<plan, db, ghosts, online, drops, now, made, purged>>
  BY DEF ReceiveAudio, Answered
<1>2. client' = [client EXCEPT ![c] = p]
  BY DEF ReceiveAudio
<1>3. k \in AudioCall
  BY <1>1, CallIn, CallKinds
<1>4. k.note \in NoteId /\ k.reply.val \in NoteVal
  BY <1>1, <1>3 DEF AudioCall, UploadReply
<1>5. /\ old \in Tab /\ old.notes \in [NoteId -> NoteVal \cup {NoRow}] /\ old.cursor <= db.seq
  BY TabNow
<1>6. N \in [NoteId -> NoteVal \cup {NoRow}] /\ \A n \in NoteId : n # k.note => N[n] = old.notes[n]
  BY <1>4, <1>5
<1> HIDE DEF N
<1>7. p \in Tab /\ p.pending = old.pending /\ p.clock = old.clock /\ p.cursor = old.cursor
      /\ p.notes = N
  BY <1>5, <1>6 DEF Tab
<1>8. \A n \in NoteId : p.notes[n] # NoRow => Has(c, n) \/ Mentions(k, n)
  BY <1>1, <1>6, <1>7 DEF Has, Mentions
<1> HIDE DEF p
<1> QED BY <1>1, <1>2, <1>5, <1>7, <1>8, EndShape

LEMMA ReceiveDroppedShape ==
  ASSUME TypeInv, NEW c \in Client, NEW s, ReceiveDropped(c, s)
  PROVE  \E g, p : Ends(c, s, g, p)
<1> DEFINE k == calls[c][s]
           old == client[c]
           S == old.labels \ {k.label}
           L == {q \in old.links : q[2] # k.label}
           p == [old EXCEPT !.labels = S, !.links = L]
<1>1. /\ s \in Busy(c) /\ k.kind = "label" /\ Finished(c, s)
      /\ UNCHANGED <<plan, db, ghosts, online, drops, now, made, purged>>
  BY DEF ReceiveDropped, Answered
<1>2. client' = [client EXCEPT ![c] = p]
  BY DEF ReceiveDropped
<1>3. old \in Tab /\ old.cursor <= db.seq
  BY TabNow
<1>4. S \in SUBSET LabelId /\ L \in SUBSET (NoteId \X LabelId)
  BY <1>3 DEF Tab
<1> HIDE DEF S, L
<1>5. p \in Tab /\ p.pending = old.pending /\ p.clock = old.clock /\ p.cursor = old.cursor
      /\ p.notes = old.notes
  BY <1>3, <1>4 DEF Tab
<1>6. \A n \in NoteId : p.notes[n] # NoRow => Has(c, n) \/ Mentions(k, n)
  BY <1>5 DEF Has
<1> HIDE DEF p
<1> QED BY <1>1, <1>2, <1>3, <1>5, <1>6, EndShape

LEMMA ReceivePurgedShape ==
  ASSUME TypeInv, NEW c \in Client, NEW s, ReceivePurged(c, s)
  PROVE  \E g, p : Ends(c, s, g, p)
<1> DEFINE k == calls[c][s]
           old == client[c]
           N == [old.notes EXCEPT ![k.note] = NoRow]
           I == [i \in ItemId |-> IF NoteOf[i] = k.note THEN NoRow ELSE old.items[i]]
           L == {q \in old.links : q[1] # k.note}
           p == [old EXCEPT !.notes = N, !.items = I, !.links = L]
<1>1. /\ s \in Busy(c) /\ k.kind = "purge" /\ Finished(c, s)
      /\ UNCHANGED <<plan, db, ghosts, online, drops, now, made, purged>>
  BY DEF ReceivePurged, Answered
<1>2. client' = [client EXCEPT ![c] = p]
  BY DEF ReceivePurged, Forget
<1>3. /\ old \in Tab /\ old.cursor <= db.seq /\ old.notes \in [NoteId -> NoteVal \cup {NoRow}]
  BY TabNow
<1>4. old.items \in [ItemId -> ItemVal \cup {NoRow}] /\ old.links \in SUBSET (NoteId \X LabelId)
  BY <1>3 DEF Tab
<1>5. /\ N \in [NoteId -> NoteVal \cup {NoRow}] /\ \A n \in NoteId : N[n] # NoRow => old.notes[n] # NoRow
  BY <1>3
<1>6. I \in [ItemId -> ItemVal \cup {NoRow}] /\ L \in SUBSET (NoteId \X LabelId)
  BY <1>4
<1> HIDE DEF N, I, L
<1>7. p \in Tab /\ p.pending = old.pending /\ p.clock = old.clock /\ p.cursor = old.cursor
      /\ p.notes = N
  BY <1>3, <1>5, <1>6 DEF Tab
<1>8. \A n \in NoteId : p.notes[n] # NoRow => Has(c, n) \/ Mentions(k, n)
  BY <1>5, <1>7 DEF Has
<1> HIDE DEF p
<1> QED BY <1>1, <1>2, <1>3, <1>7, <1>8, EndShape

\* An error puts a sync's batch back.
LEMMA ErrorShape ==
  ASSUME TypeInv, NEW c \in Client, NEW s \in Busy(c), Finished(c, s),
         client' = [client EXCEPT ![c] = AfterError(c, calls[c][s])],
         \/ ghosts' = ghosts
         \/ /\ ghosts' = ghosts \cup {calls[c][s]}
            /\ calls[c][s].reply = NoReply /\ calls[c][s].kind # "list",
         UNCHANGED <<plan, db, online, now, made, purged>>
  PROVE  \E g, p : Ends(c, s, g, p)
<1> DEFINE k == calls[c][s]
           old == client[c]
<1>1. old \in Tab /\ old.cursor <= db.seq
  BY TabNow
<1>2. CASE k.kind # "sync"
  <2>1. client' = [client EXCEPT ![c] = old]
    BY <1>2 DEF AfterError
  <2>2. \A n \in NoteId : old.notes[n] # NoRow => Has(c, n)
    BY DEF Has
  <2> QED BY <1>1, <1>2, <2>1, <2>2, EndShape
<1>3. CASE k.kind = "sync"
  <2> DEFINE b == k.batch \o old.pending
             p == [old EXCEPT !.pending = b]
  <2>1. k \in SyncCall
    BY <1>3, CallIn, CallKinds
  <2>2. k.batch \in Seq(Bundle) /\ old.pending \in Seq(Bundle)
    BY <1>1, <2>1 DEF SyncCall, Tab
  <2>3. b \in Seq(Bundle)
    BY <2>2
  <2>4. client' = [client EXCEPT ![c] = p]
    BY <1>3 DEF AfterError, Requeue
  <2> HIDE DEF b
  <2>5. p \in Tab /\ p.pending = b /\ p.clock = old.clock /\ p.cursor = old.cursor
        /\ p.notes = old.notes
    BY <1>1, <2>3 DEF Tab
  <2>6. \A n \in NoteId : p.notes[n] # NoRow => Has(c, n)
    BY <2>5 DEF Has
  <2> HIDE DEF p
  <2> QED BY <1>1, <1>3, <2>4, <2>5, <2>6, EndShape DEF b
<1> QED BY <1>2, <1>3

LEMMA RefusalShape ==
  ASSUME TypeInv, NEW c \in Client, NEW s, ReceiveRefusal(c, s) \/ Fail(c, s)
  PROVE  \E g, p : Ends(c, s, g, p)
<1>1. CASE ReceiveRefusal(c, s)
  BY <1>1, ErrorShape DEF ReceiveRefusal
<1>2. CASE Fail(c, s)
  BY <1>2, ErrorShape DEF Fail
<1> QED BY <1>1, <1>2

LEMMA PassShape ==
  ASSUME TypeInv
  PROVE  /\ STick \/ Settle \/ UNCHANGED svars => Passes
         /\ \A c \in Client : Disconnect(c) \/ Reconnect(c) => Passes
<1>1. client \in [Client -> Tab] /\ online \subseteq Client
  BY DEF TypeInv
<1>2. client' = client => Rearmed
  BY <1>1 DEF Rearmed
<1>3. STick \/ Settle \/ UNCHANGED svars => Passes
  BY <1>1, <1>2 DEF STick, Settle, svars, Passes
<1>4. ASSUME NEW c \in Client, Disconnect(c) PROVE Passes
  BY <1>1, <1>2, <1>4 DEF Disconnect, Passes
<1>5. ASSUME NEW c \in Client, Reconnect(c) PROVE Passes
  <2> DEFINE w == client[c].due \cup {"pull"}
             p == [client[c] EXCEPT !.due = w]
  <2>1. client' = [client EXCEPT ![c] = p]
    BY <1>5 DEF Reconnect
  <2>2. client[c] \in Tab /\ w \in SUBSET {"flush", "pull"}
    BY <1>1 DEF Tab
  <2> HIDE DEF w
  <2>3. /\ p \in Tab /\ p.pending = client[c].pending /\ p.notes = client[c].notes
        /\ p.items = client[c].items /\ p.links = client[c].links
        /\ p.cursor = client[c].cursor /\ p.clock = client[c].clock
    BY <2>2 DEF Tab
  <2> HIDE DEF p
  <2>4. Rearmed
    BY <1>1, <2>1, <2>3 DEF Rearmed
  <2> QED BY <1>1, <1>5, <2>4 DEF Reconnect, Passes
<1> QED BY <1>3, <1>4, <1>5

LEMMA TabShape ==
  ASSUME TypeInv, NEW c \in Client, NEW s
  PROVE  /\ Handle(c, s) => StepShapes
         /\ ListNotes(c, s) \/ (\E n \in NoteId : ListItems(c, s, n) \/ ListLabels(c, s, n)) => StepShapes
         /\ \/ ReceiveChanges(c, s) \/ ReceiveRefusal(c, s) \/ ReceivePurged(c, s)
            \/ ReceiveList(c, s) \/ ReceiveAudio(c, s) \/ ReceiveDropped(c, s) \/ Fail(c, s)
            => StepShapes
<1>1. (\E k, g : Reads(c, s, k, g)) => StepShapes
  BY DEF StepShapes
<1>2. (\E g, p : Ends(c, s, g, p)) => StepShapes
  BY DEF StepShapes
<1>3. Handle(c, s) => StepShapes
  BY HandleShape DEF StepShapes
<1>4. ListNotes(c, s) \/ (\E n \in NoteId : ListItems(c, s, n) \/ ListLabels(c, s, n)) => StepShapes
  BY <1>1, ListNotesShape, ListItemsShape, ListLabelsShape
<1>5. \/ ReceiveChanges(c, s) \/ ReceiveRefusal(c, s) \/ ReceivePurged(c, s)
      \/ ReceiveList(c, s) \/ ReceiveAudio(c, s) \/ ReceiveDropped(c, s) \/ Fail(c, s)
      => StepShapes
  BY <1>2, ReceiveChangesShape, RefusalShape, ReceivePurgedShape, ReceiveListShape,
     ReceiveAudioShape, ReceiveDroppedShape
<1> QED BY <1>3, <1>4, <1>5

LEMMA StepShape ==
  ASSUME TypeInv, [SNext]_svars
  PROVE  StepShapes
<1>1. CASE UNCHANGED svars
  BY <1>1, PassShape DEF StepShapes
<1>2. CASE Settle
  BY <1>2, PassShape DEF StepShapes
<1>3. CASE Progress
  <2>1. CASE STick
    BY <2>1, PassShape DEF StepShapes
  <2>2. CASE \E g \in ghosts : HandleGhost(g)
    BY <2>2, HandleGhostShape DEF StepShapes
  <2>3. ASSUME NEW c \in Client, Reconnect(c) PROVE StepShapes
    BY <2>3, PassShape DEF StepShapes
  <2>4. ASSUME NEW c \in Client, NEW t, SyncNow(c, t) PROVE StepShapes
    BY <2>4, SyncNowShape DEF StepShapes
  <2>5. ASSUME NEW c \in Client, NEW s,
               \/ Handle(c, s) \/ ListNotes(c, s)
               \/ \E n \in NoteId : ListItems(c, s, n) \/ ListLabels(c, s, n)
               \/ ReceiveChanges(c, s) \/ ReceiveRefusal(c, s) \/ ReceivePurged(c, s)
               \/ ReceiveList(c, s) \/ ReceiveAudio(c, s) \/ ReceiveDropped(c, s)
        PROVE  StepShapes
    BY <2>5, TabShape
  <2> QED BY <1>3, <2>1, <2>2, <2>3, <2>4, <2>5 DEF Progress
<1>4. ASSUME NEW c \in Client,
             \/ User(c) \/ Disconnect(c)
             \/ \E l \in LabelId : DropLabel(c, l)
             \/ \E n \in NoteId : PurgeForever(c, n) \/ \E v \in Typed : UploadAudio(c, n, v)
             \/ \E s \in Slots : Fail(c, s)
      PROVE  StepShapes
  <2>1. CASE User(c)
    <3>1. client \in [Client -> Tab] /\ now \in Nat
      BY DEF TypeInv
    <3> QED BY <2>1, <3>1, UserShape DEF StepShapes
  <2>2. CASE Disconnect(c)
    BY <2>2, PassShape DEF StepShapes
  <2>3. (\E s, k, g, p : Asks(c, s, k, g, p)) => StepShapes
    BY DEF StepShapes
  <2>4. CASE \/ \E l \in LabelId : DropLabel(c, l)
             \/ \E n \in NoteId : PurgeForever(c, n) \/ \E v \in Typed : UploadAudio(c, n, v)
    BY <2>3, <2>4, AskingShapes
  <2>5. CASE \E s \in Slots : Fail(c, s)
    BY <2>5, TabShape
  <2> QED BY <1>4, <2>1, <2>2, <2>4, <2>5
<1> QED BY <1>1, <1>2, <1>3, <1>4 DEF SNext

------------------------------------------------------------------------------
(* Types are kept. *)

\* What the shapes say of every call of every tab.
LEMMA PlacedCalls ==
  ASSUME calls \in [Client -> Desk], NEW c \in Client, NEW g, NEW s, NEW k,
         Placed(calls[c], g, s, k), calls' = [calls EXCEPT ![c] = g]
  PROVE  /\ calls' \in [Client -> Desk] /\ s \notin Busy(c) /\ s \in Busy(c)' /\ calls'[c][s] = k
         /\ \A d \in Client : \A t \in Busy(d)' :
              \/ t \in Busy(d) /\ calls'[d][t] = calls[d][t]
              \/ d = c /\ t = s
         /\ \A d \in Client : \A t \in Busy(d) : t \in Busy(d)' /\ calls'[d][t] = calls[d][t]
BY DEF Placed, Busy

LEMMA ChangedCalls ==
  ASSUME calls \in [Client -> Desk], NEW c \in Client, NEW g, NEW s, NEW k,
         Changed(calls[c], g, s, k), calls' = [calls EXCEPT ![c] = g]
  PROVE  /\ calls' \in [Client -> Desk] /\ s \in Busy(c) /\ s \in Busy(c)' /\ calls'[c][s] = k
         /\ \A d \in Client : \A t : t \in Busy(d)' <=> t \in Busy(d)
         /\ \A d \in Client : \A t \in Busy(d) :
              calls'[d][t] = calls[d][t] \/ (d = c /\ t = s)
BY DEF Changed, Busy

LEMMA RemovedCalls ==
  ASSUME calls \in [Client -> Desk], NEW c \in Client, NEW g, NEW s,
         Removed(calls[c], g, s), calls' = [calls EXCEPT ![c] = g]
  PROVE  /\ calls' \in [Client -> Desk] /\ s \in Busy(c) /\ s \notin Busy(c)'
         /\ \A d \in Client : \A t \in Busy(d)' : t \in Busy(d) /\ calls'[d][t] = calls[d][t]
         /\ \A d \in Client : \A t \in Busy(d) : t \in Busy(d)' \/ (d = c /\ t = s)
BY DEF Removed, Busy

LEMMA KnownOn ==
  ASSUME NEW k \in SomeCall, NEW q \in Nat, NEW r \in Nat, q <= r, Known(k, q)
  PROVE  Known(k, r)
<1>1. ASSUME k.kind = "sync", k.reply # NoReply, k.reply.ok PROVE k.reply.seq <= r
  <2>1. k.reply \in SyncReply
    BY <1>1, CallKinds DEF SyncCall
  <2>2. k.reply.seq \in Nat /\ k.reply.seq <= q
    BY <1>1, <2>1 DEF SyncReply, Known
  <2> QED BY <2>2
<1>2. ASSUME NEW x \in ListReply, x.seq <= q, x.cursor <= q PROVE x.seq <= r /\ x.cursor <= r
  <2>1. x.seq \in Nat /\ x.cursor \in Nat
    BY DEF ListReply
  <2> QED BY <1>2, <2>1
<1>3. ASSUME k.kind = "list", k.got # NoReply PROVE k.got.seq <= r /\ k.got.cursor <= r
  <2>1. k.got \in ListReply
    BY <1>3, CallKinds DEF ListCall
  <2> QED BY <1>2, <1>3, <2>1 DEF Known
<1>4. ASSUME k.kind = "list", k.reply # NoReply PROVE k.reply.seq <= r /\ k.reply.cursor <= r
  <2>1. k.reply \in ListReply
    BY <1>4, CallKinds DEF ListCall
  <2> QED BY <1>2, <1>4, <2>1 DEF Known
<1> QED BY <1>1, <1>3, <1>4 DEF Known

\* The clocks and the counts of operations, where no operation is made.
LEMMA SameEdits ==
  ASSUME made' = made, NEW c \in Client
  PROVE  Edits(c)' = Edits(c) /\ Ops(c)' = Ops(c)
BY DEF Edits, Ops

LEMMA EditsKept ==
  ASSUME EditsOK, plan \in Plans, UNCHANGED <<plan, made>>, now \in Nat, now' = now \/ now' = now + 1,
         client \in [Client -> Tab], \A c \in Client : client'[c].clock = client[c].clock
  PROVE  EditsOK'
<1> SUFFICES ASSUME NEW c \in Client
             PROVE  /\ Edits(c)' \in 0 .. plan'.edits /\ Ops(c)' = 0 .. Edits(c)' - 1
                    /\ ClockOK(c)'
  BY DEF EditsOK
<1>1. Edits(c)' = Edits(c) /\ Ops(c)' = Ops(c)
  BY SameEdits
<1>2. Skew[c] \in Nat /\ client[c].clock.wall \in Nat
  BY SyncSystemAssumption DEF Tab, H!Clock
<1>3. client[c].clock.wall <= now + Skew[c] => client[c].clock.wall <= now' + Skew[c]
  BY <1>2
<1>4. ClockOK(c)'
  BY <1>1, <1>3 DEF EditsOK, ClockOK
<1> QED BY <1>1, <1>4 DEF EditsOK

\* A user's step counts as one operation and draws at most four stamps.
LEMMA EditsCount ==
  ASSUME EditsOK, plan \in Plans, now \in Nat \ {0}, client \in [Client -> Tab],
         NEW c \in Client, NEW k, NEW new, UserStep(c, k, new)
  PROVE  EditsOK'
<1> DEFINE E == Edits(c)
<1>1. E \in Nat /\ plan.edits \in Nat /\ E < plan.edits /\ Ops(c) = 0 .. E - 1
  <2>1. plan.edits \in Nat
    BY PlansAssumption DEF PlanOK
  <2>2. E \in 0 .. plan.edits /\ Ops(c) = 0 .. E - 1
    BY DEF EditsOK
  <2>3. E < plan.edits
    BY DEF UserStep
  <2> HIDE DEF E
  <2> QED BY <2>1, <2>2, <2>3
<1>2. Len(new) \in 1 .. 4 /\ plan' = plan /\ now' = now
      /\ made' = made \cup {[by |-> c, op |-> E, m |-> new[j]] : j \in 1 .. Len(new)}
  BY DEF UserStep
<1>a. PICK L \in 1 .. 4 : L = Len(new)
  BY <1>2
<1>b. L \in Nat /\ L > 0 /\ L <= 4 /\ 1 \in 1 .. L
  OBVIOUS
<1>3. Ops(c)' = 0 .. E
  <2>1. Ops(c)' = Ops(c) \cup {E}
    <3>1. 1 \in 1 .. Len(new)
      BY <1>a, <1>b
    <3>2. Ops(c)' = {e.op : e \in {f \in made' : f.by = c}}
      BY DEF Ops
    <3> HIDE DEF E
    <3>3. \A x : x \in Ops(c)' <=> \E e \in made' : e.by = c /\ e.op = x
      BY <3>2
    <3>4. \A x : x \in Ops(c) <=> \E e \in made : e.by = c /\ e.op = x
      BY DEF Ops
    <3>5. \A e : e \in made' <=> e \in made \/ \E j \in 1 .. Len(new) : e = [by |-> c, op |-> E, m |-> new[j]]
      BY <1>2
    <3>6. ASSUME NEW x, x \in Ops(c) PROVE x \in Ops(c)'
      BY <3>3, <3>4, <3>5, <3>6
    <3>7. E \in Ops(c)'
      <4>1. [by |-> c, op |-> E, m |-> new[1]] \in made'
        BY <3>1, <3>5
      <4> QED BY <3>3, <4>1
    <3>8. ASSUME NEW x, x \in Ops(c)' PROVE x \in Ops(c) \cup {E}
      <4>1. PICK e : e \in made' /\ e.by = c /\ e.op = x
        BY <3>3, <3>8
      <4> QED BY <3>4, <3>5, <4>1
    <3> QED BY <3>6, <3>7, <3>8
  <2> QED BY <1>1, <2>1
<1>4. Edits(c)' = E + 1
  <2>1. Edits(c)' = Cardinality(Ops(c)')
    BY DEF Edits, Ops
  <2>2. Cardinality(0 .. E) = E - 0 + 1
    BY <1>1, FS_Interval
  <2> QED BY <1>1, <1>3, <2>1, <2>2
<1>5. ClockOK(c)'
  <2> DEFINE last == client[c].clock
             w == now + Skew[c]
  <2>1. /\ client'[c].clock = [First(c) EXCEPT !.ctr = @ + L - 1]
        /\ First(c) = IF w <= last.wall THEN [wall |-> last.wall, ctr |-> last.ctr + 1, dev |-> c]
                      ELSE [wall |-> w, ctr |-> 0, dev |-> c]
    BY <1>a DEF UserStep, First, H!Next, Wall
  <2>2. last.wall \in Nat /\ last.ctr \in Nat /\ w \in Nat /\ w > 0
    BY SyncSystemAssumption DEF Tab, H!Clock
  <2>3. /\ last.dev = c /\ last.wall <= w
        /\ IF E = 0 THEN last.wall = 0 /\ last.ctr = 0 ELSE last.ctr < 4 * E
    BY DEF EditsOK, ClockOK
  <2> DEFINE new0 == client'[c].clock
  <2> HIDE DEF last, w, E
  <2>4. CASE w <= last.wall
    <3>1. new0.dev = c /\ new0.wall = last.wall /\ new0.ctr = last.ctr + 1 + L - 1
      BY <2>1, <2>4
    <3>2. E # 0 /\ last.ctr < 4 * E
      BY <2>2, <2>3, <2>4
    <3>3. new0.ctr < 4 * (E + 1)
      BY <1>1, <1>b, <2>2, <3>1, <3>2
    <3> QED BY <1>1, <1>2, <1>4, <2>3, <3>1, <3>3 DEF ClockOK, w
  <2>5. CASE ~(w <= last.wall)
    <3>1. new0.dev = c /\ new0.wall = w /\ new0.ctr = 0 + L - 1
      BY <2>1, <2>5
    <3>2. new0.ctr < 4 * (E + 1) /\ w <= w
      BY <1>1, <1>b, <2>2, <3>1
    <3> QED BY <1>1, <1>2, <1>4, <3>1, <3>2 DEF ClockOK, w
  <2> QED BY <2>4, <2>5
<1>6. ASSUME NEW d \in Client, d # c
      PROVE  Edits(d)' = Edits(d) /\ Ops(d)' = Ops(d) /\ client'[d] = client[d]
  <2>1. {f \in made' : f.by = d} = {f \in made : f.by = d}
    BY <1>2, <1>6
  <2>2. client'[d] = client[d]
    BY <1>6 DEF UserStep
  <2> QED BY <2>1, <2>2 DEF Edits, Ops
<1>7. \A d \in Client : d # c => ClockOK(d)'
  BY <1>2, <1>6 DEF EditsOK, ClockOK
<1> HIDE DEF E
<1>8. \A d \in Client : d # c => Edits(d)' \in 0 .. plan'.edits /\ Ops(d)' = 0 .. Edits(d)' - 1
  BY <1>2, <1>6 DEF EditsOK
<1>9. Edits(c)' \in 0 .. plan'.edits /\ Ops(c)' = 0 .. Edits(c)' - 1
  BY <1>1, <1>2, <1>3, <1>4
<1> QED BY <1>5, <1>7, <1>8, <1>9 DEF EditsOK

LEMMA ServesType ==
  ASSUME TypeInv, NEW k \in SomeCall, NEW o, Serves(k, o)
  PROVE  /\ Served(k, o, purged') /\ db' = o.db /\ GoodDB(db') /\ db.seq <= db'.seq
         /\ db.seq \in Nat /\ db'.seq \in Nat /\ purged \subseteq purged'
         /\ purged' \subseteq NoteId /\ client' \in [Client -> Tab]
         /\ \A c \in Client : client'[c].cursor <= db'.seq
         /\ EditsOK'
         /\ \A c \in Client : \A s \in Busy(c) : Known(calls[c][s], db'.seq)
<1>1. /\ GoodDB(db) /\ purged \subseteq NoteId /\ client \in [Client -> Tab] /\ now \in Nat
      /\ EditsOK /\ plan \in Plans
  BY DEF TypeInv
<1>2. k.kind # "list" /\ o \in Outcomes(k) /\ db' = o.db /\ Rearmed
      /\ purged' = (IF k.kind = "purge" THEN purged \cup {k.note} ELSE purged)
      /\ UNCHANGED <<plan, online, now, made>>
  BY DEF Serves
<1>3. k.kind = "purge" => k.note \in NoteId
  BY CallKinds DEF PurgeCall
<1>4. purged' \subseteq NoteId /\ purged \subseteq purged' /\ (k.kind = "purge" => k.note \in purged')
  BY <1>1, <1>2, <1>3
<1>5. Served(k, o, purged')
  BY <1>1, <1>2, <1>4, OutcomeServed
<1>6. GoodDB(db') /\ db.seq <= db'.seq /\ db.seq \in Nat /\ db'.seq \in Nat
  BY <1>1, <1>2, <1>5 DEF Served, GoodDB, Database
<1>7. ASSUME NEW c \in Client PROVE client'[c].cursor <= db'.seq
  <2>1. client'[c].cursor = client[c].cursor
    BY <1>2 DEF Rearmed
  <2> QED BY <1>6, <2>1, TabNow
<1>8. EditsOK'
  BY <1>1, <1>2, EditsKept DEF Rearmed
<1>9. ASSUME NEW c \in Client, NEW s \in Busy(c) PROVE Known(calls[c][s], db'.seq)
  BY <1>6, CallIn, KnownOn
<1> QED BY <1>2, <1>4, <1>5, <1>6, <1>7, <1>8, <1>9 DEF Rearmed

LEMMA TypeServed ==
  ASSUME TypeInv
  PROVE  /\ \A c \in Client : \A s, g, o : Answers(c, s, g, o) => TypeInv'
         /\ \A g, o : AnswersGhost(g, o) => TypeInv'
<1>1. ASSUME NEW c \in Client, NEW s, NEW g, NEW o, Answers(c, s, g, o)
      PROVE  TypeInv'
  <2> DEFINE k == calls[c][s]
             q == [k EXCEPT !.reply = o.reply]
  <2>1. Changed(calls[c], g, s, q) /\ calls' = [calls EXCEPT ![c] = g] /\ Serves(k, o) /\ UNCHANGED ghosts
    BY <1>1 DEF Answers
  <2>2. calls \in [Client -> Desk]
    BY DEF TypeInv
  <2> HIDE DEF q
  <2>3. /\ calls' \in [Client -> Desk] /\ s \in Busy(c) /\ calls'[c][s] = q
        /\ \A d \in Client : \A t : t \in Busy(d)' <=> t \in Busy(d)
        /\ \A d \in Client : \A t \in Busy(d) :
             calls'[d][t] = calls[d][t] \/ (d = c /\ t = s)
    BY <2>1, <2>2, ChangedCalls
  <2>4. k \in SomeCall
    BY <2>3, CallIn
  <2>5. /\ Served(k, o, purged') /\ db' = o.db /\ GoodDB(db')
        /\ db'.seq \in Nat
        /\ purged' \subseteq NoteId /\ client' \in [Client -> Tab]
        /\ \A d \in Client : client'[d].cursor <= db'.seq
        /\ EditsOK'
        /\ \A d \in Client : \A t \in Busy(d) : Known(calls[d][t], db'.seq)
    BY <2>1, <2>4, ServesType
  <2>6. Known(q, db'.seq)
    <3>1. q \in SomeCall /\ (k.kind = "sync" /\ o.reply.ok => o.reply.seq = o.db.seq)
      BY <2>5 DEF Served, q
    <3>2. q.kind = k.kind /\ q.reply = o.reply /\ k.kind # "list"
      BY <2>1, <2>4 DEF q, Serves, SomeCall, SyncCall, ListCall, PurgeCall, AudioCall, LabelCall
    <3>3. db'.seq <= db'.seq
      BY <2>5
    <3> QED BY <2>5, <3>1, <3>2, <3>3 DEF Known
  <2>7. \A d \in Client : \A t \in Busy(d)' : Known(calls'[d][t], db'.seq)
    BY <2>3, <2>5, <2>6
  <2>8. UNCHANGED <<plan, online, now, made, ghosts>>
    BY <2>1 DEF Serves
  <2> QED BY <2>3, <2>5, <2>7, <2>8 DEF TypeInv
<1>2. ASSUME NEW g, NEW o, AnswersGhost(g, o)
      PROVE  TypeInv'
  <2>1. g \in ghosts /\ Serves(g, o) /\ ghosts' = ghosts \ {g} /\ UNCHANGED calls /\ g \in SomeCall
    BY <1>2 DEF AnswersGhost, TypeInv
  <2>2. /\ db' = o.db /\ GoodDB(db')
        /\ purged' \subseteq NoteId /\ client' \in [Client -> Tab]
        /\ \A d \in Client : client'[d].cursor <= db'.seq
        /\ EditsOK'
        /\ \A d \in Client : \A t \in Busy(d) : Known(calls[d][t], db'.seq)
    BY <2>1, ServesType
  <2>3. UNCHANGED <<plan, online, now, made>>
    BY <2>1 DEF Serves
  <2>4. \A d \in Client : Busy(d)' = Busy(d)
    BY <2>1 DEF Busy
  <2>5. \A d \in Client : \A t \in Busy(d)' : Known(calls'[d][t], db'.seq)
    BY <2>1, <2>2, <2>4
  <2> QED BY <2>1, <2>2, <2>3, <2>5 DEF TypeInv
<1> QED BY <1>1, <1>2

LEMMA TypeUser ==
  ASSUME TypeInv, NEW c \in Client, NEW k, NEW new, UserStep(c, k, new)
  PROVE  TypeInv'
<1>1. /\ GoodDB(db) /\ client \in [Client -> Tab] /\ now \in Nat \ {0}
      /\ EditsOK /\ plan \in Plans /\ made \subseteq [by : Client, op : Nat, m : Bundle]
  BY DEF TypeInv
<1>2. EditsOK'
  BY <1>1, EditsCount
<1>3. /\ k \in Tab /\ client' = [client EXCEPT ![c] = k] /\ k.cursor = client[c].cursor
      /\ new \in Seq(Bundle)
      /\ made' = made \cup {[by |-> c, op |-> Edits(c), m |-> new[j]] : j \in 1 .. Len(new)}
      /\ UNCHANGED <<plan, db, calls, ghosts, online, drops, now, purged>>
  BY DEF UserStep
<1>4. client' \in [Client -> Tab] /\ \A d \in Client : client'[d].cursor <= db'.seq
  BY <1>1, <1>3, TabNow
<1>5. made' \subseteq [by : Client, op : Nat, m : Bundle]
  <2>1. Edits(c) \in Nat
    BY <1>1, PlansAssumption DEF EditsOK, PlanOK
  <2>2. \A j \in 1 .. Len(new) : new[j] \in Bundle
    BY <1>3
  <2> QED BY <1>1, <1>3, <2>1, <2>2
<1>6. \A d \in Client : \A t \in Busy(d)' : Known(calls'[d][t], db'.seq)
  BY <1>3 DEF TypeInv, Busy
<1> QED BY <1>2, <1>3, <1>4, <1>5, <1>6 DEF TypeInv

LEMMA TypeCalls ==
  ASSUME TypeInv, NEW c \in Client
  PROVE  /\ \A s, k, g, p : Asks(c, s, k, g, p) => TypeInv'
         /\ \A s, k, g : Reads(c, s, k, g) => TypeInv'
         /\ \A s, g, p : Ends(c, s, g, p) => TypeInv'
<1>1. /\ GoodDB(db) /\ client \in [Client -> Tab] /\ now \in Nat
      /\ EditsOK /\ plan \in Plans /\ calls \in [Client -> Desk]
      /\ \A d \in Client : \A t \in Busy(d) : Known(calls[d][t], db.seq)
  BY DEF TypeInv
<1>2. ASSUME NEW s, NEW k, NEW g, NEW p, Asks(c, s, k, g, p) PROVE TypeInv'
  <2>1. /\ Placed(calls[c], g, s, k) /\ calls' = [calls EXCEPT ![c] = g]
        /\ k.reply = NoReply /\ k.kind # "list"
        /\ client' = [client EXCEPT ![c] = p] /\ p \in Tab
        /\ p.cursor = client[c].cursor /\ p.clock = client[c].clock
        /\ UNCHANGED <<plan, db, ghosts, online, now, made, purged>>
    BY <1>2 DEF Asks
  <2>2. /\ calls' \in [Client -> Desk] /\ calls'[c][s] = k
        /\ \A d \in Client : \A t \in Busy(d)' :
             (t \in Busy(d) /\ calls'[d][t] = calls[d][t]) \/ (d = c /\ t = s)
    BY <1>1, <2>1, PlacedCalls
  <2>3. Known(k, db.seq)
    BY <2>1 DEF Known
  <2>4. \A d \in Client : \A t \in Busy(d)' : Known(calls'[d][t], db'.seq)
    BY <1>1, <2>1, <2>2, <2>3
  <2>5. client' \in [Client -> Tab] /\ \A d \in Client : client'[d].cursor <= db'.seq
    BY <1>1, <2>1, TabNow
  <2>6. EditsOK'
    BY <1>1, <2>1, EditsKept
  <2> QED BY <2>1, <2>2, <2>4, <2>5, <2>6 DEF TypeInv
<1>3. ASSUME NEW s, NEW k, NEW g, Reads(c, s, k, g) PROVE TypeInv'
  <2>1. /\ Changed(calls[c], g, s, k) /\ calls' = [calls EXCEPT ![c] = g] /\ Known(k, db.seq)
        /\ UNCHANGED <<plan, db, client, ghosts, online, now, made, purged>>
    BY <1>3 DEF Reads
  <2>2. /\ calls' \in [Client -> Desk] /\ calls'[c][s] = k
        /\ \A d \in Client : \A t : t \in Busy(d)' <=> t \in Busy(d)
        /\ \A d \in Client : \A t \in Busy(d) : calls'[d][t] = calls[d][t] \/ (d = c /\ t = s)
    BY <1>1, <2>1, ChangedCalls
  <2>3. \A d \in Client : \A t \in Busy(d)' : Known(calls'[d][t], db'.seq)
    BY <1>1, <2>1, <2>2
  <2>4. EditsOK'
    BY <1>1, <2>1, EditsKept
  <2>5. client' \in [Client -> Tab] /\ \A d \in Client : client'[d].cursor <= db'.seq
    BY <1>1, <2>1, TabNow
  <2> QED BY <2>1, <2>2, <2>3, <2>4, <2>5 DEF TypeInv
<1>4. ASSUME NEW s, NEW g, NEW p, Ends(c, s, g, p) PROVE TypeInv'
  <2>1. /\ Removed(calls[c], g, s) /\ calls' = [calls EXCEPT ![c] = g]
        /\ client' = [client EXCEPT ![c] = p] /\ p \in Tab
        /\ p.cursor <= db.seq /\ p.clock = client[c].clock
        /\ \/ ghosts' = ghosts
           \/ /\ ghosts' = ghosts \cup {calls[c][s]}
              /\ calls[c][s].reply = NoReply /\ calls[c][s].kind # "list"
        /\ UNCHANGED <<plan, db, online, now, made, purged>>
    BY <1>4 DEF Ends
  <2>2. /\ calls' \in [Client -> Desk] /\ s \in Busy(c)
        /\ \A d \in Client : \A t \in Busy(d)' : t \in Busy(d) /\ calls'[d][t] = calls[d][t]
    BY <1>1, <2>1, RemovedCalls
  <2>3. \A d \in Client : \A t \in Busy(d)' : Known(calls'[d][t], db'.seq)
    BY <1>1, <2>1, <2>2
  <2>4. client' \in [Client -> Tab] /\ \A d \in Client : client'[d].cursor <= db'.seq
    BY <1>1, <2>1, TabNow
  <2>5. EditsOK'
    BY <1>1, <2>1, EditsKept
  <2>6. ghosts' \subseteq SomeCall /\ \A h \in ghosts' : h.reply = NoReply /\ h.kind # "list"
    BY <2>1, <2>2, CallIn DEF TypeInv
  <2> QED BY <2>1, <2>2, <2>3, <2>4, <2>5, <2>6 DEF TypeInv
<1> QED BY <1>2, <1>3, <1>4

LEMMA TypePasses ==
  ASSUME TypeInv, Passes
  PROVE  TypeInv'
<1>1. /\ client \in [Client -> Tab] /\ now \in Nat \ {0}
      /\ EditsOK /\ plan \in Plans
      /\ \A d \in Client : \A t \in Busy(d) : Known(calls[d][t], db.seq)
  BY DEF TypeInv
<1>2. /\ Rearmed /\ online' \subseteq Client /\ (now' = now \/ now' = now + 1)
      /\ UNCHANGED <<plan, db, calls, ghosts, made, purged>>
  BY DEF Passes
<1>3. client' \in [Client -> Tab] /\ \A d \in Client : client'[d].cursor <= db'.seq
  BY <1>2, TabNow DEF Rearmed
<1>4. EditsOK'
  BY <1>1, <1>2, EditsKept DEF Rearmed
<1>5. \A d \in Client : \A t \in Busy(d)' : Known(calls'[d][t], db'.seq)
  BY <1>1, <1>2 DEF Busy
<1>6. now' \in Nat \ {0}
  BY <1>1, <1>2
<1> QED BY <1>2, <1>3, <1>4, <1>5, <1>6 DEF TypeInv

LEMMA TypeStep ==
  ASSUME TypeInv, [SNext]_svars
  PROVE  TypeInv'
BY StepShape, TypeUser, TypeCalls, TypeServed, TypePasses DEF StepShapes

\* What a tab starts with.
LEMMA StartType ==
  ASSUME NEW p \in Plans
  PROVE  /\ GoodDB(StartDB(p))
         /\ Early(StartDB(p), Rank([wall |-> 1, ctr |-> 0, dev |-> 0]))
         /\ p.past \in Seq(Bundle) /\ GoodDB([EmptyDB EXCEPT !.labels = PastLabels])
         /\ StartDB(p) \in ApplyBatch([EmptyDB EXCEPT !.labels = PastLabels], p.past)
<1> DEFINE d0 == [EmptyDB EXCEPT !.labels = PastLabels]
           r == Rank([wall |-> 1, ctr |-> 0, dev |-> 0])
<1>1. PICK S : /\ S \subseteq 1 .. r - 1 /\ p.past \in Seq(Bundles(S, 0 .. MaxTime))
               /\ S = {p.past[j].hlc : j \in 1 .. Len(p.past)}
  BY PlansAssumption
<1>2. StartDBs(p) # {}
  BY PlansAssumption
<1>a. r \in Nat
  <2>1. [wall |-> 1, ctr |-> 0, dev |-> 0] \in H!Clock \/ Client = {}
    BY SyncSystemAssumption, FS_CardinalityType DEF H!Clock
  <2> QED BY <2>1, RankType, SyncSystemAssumption, FS_CardinalityType, FS_EmptySet DEF Stamp, Rank, r
<1> HIDE DEF r
<1>3. S \in SUBSET (Nat \ {0}) /\ S \in SUBSET Stamp /\ 0 .. MaxTime \in SUBSET Nat
  <2>1. \A x \in 1 .. r - 1 : x \in Nat /\ x # 0
    BY <1>a
  <2>2. \A x \in 0 .. MaxTime : x \in Nat
    BY SyncSystemAssumption
  <2>3. \A x \in S : x \in Nat /\ x # 0
    BY <1>1, <2>1
  <2> QED BY <2>2, <2>3 DEF Stamp
<1>4. Bundles(S, 0 .. MaxTime) \subseteq Bundle
  <2>1. ASSUME NEW m \in NoteBundles(S, 0 .. MaxTime) PROVE m \in Bundle
    <3>1. PICK n \in NoteId, h \in S :
            \/ \E k \in {"text", "checklist"} : m = MutateNote(n, "kind", k, h)
            \/ \E f \in {"title", "body", "position", "archivePosition"}, v \in Text :
                 m = MutateNote(n, f, v, h)
            \/ \E f \in {"title", "body", "color"}, v \in Text : m = SetNoteField(n, f, v, h)
            \/ m \in {Pin(n, h), Unpin(n, h), Unarchive(n, h), RestoreNote(n, h)}
            \/ \E t \in Text : m = Archive(n, t, h)
            \/ \E t \in 0 .. MaxTime : m = TrashNote(n, t, h)
      BY <2>1 DEF NoteBundles
    <3>2. h \in Stamp
      BY <1>3
    <3> QED BY <1>3, <3>1, <3>2, NoteBundleMember
  <2>2. ItemBundles(S, NoteOf) \subseteq ItemBundles(Stamp, NoteOf)
    BY <1>3 DEF ItemBundles
  <2>3. LinkBundles(S) \subseteq LinkBundles(Stamp)
    BY <1>3 DEF LinkBundles
  <2> QED BY <2>1, <2>2, <2>3 DEF Bundle, Bundles
<1>5. p.past \in Seq(Bundle)
  BY <1>1, <1>4
<1>6. d0 \in Database
  BY SyncSystemAssumption DEF EmptyDB, Database
<1>7. /\ \A n \in NoteId : d0.notes[n] = NoRow
      /\ \A i \in ItemId : d0.items[i] = NoRow
      /\ \A q \in NoteId \X LabelId : d0.links[q] = NoRow
  BY DEF EmptyDB
<1> DEFINE a == StartDB(p)
<1>8. a \in ApplyBatch(d0, p.past)
  BY <1>2 DEF StartDB, StartDBs
<1> HIDE DEF d0, a
<1>9. GoodDB(d0)
  BY <1>6, <1>7 DEF GoodDB, RowsBelow, Below, AtHome
<1>10. Early(d0, r)
  BY <1>7 DEF Early, Older
<1>11. r \in Nat /\ \A m \in ToSet(p.past) : m.hlc < r
  <2>2. ASSUME NEW m \in ToSet(p.past) PROVE m.hlc < r
    <3>1. PICK j \in 1 .. Len(p.past) : m = p.past[j]
      BY <1>5 DEF ToSet
    <3>2. m.hlc \in 1 .. r - 1
      BY <1>1, <3>1
    <3> QED BY <1>a, <3>2
  <2> QED BY <1>a, <2>2
<1>12. GoodDB(a) /\ Early(a, r)
  BY <1>5, <1>8, <1>9, <1>10, <1>11, BatchEffect
<1> QED BY <1>5, <1>8, <1>9, <1>12 DEF a, r, d0

LEMMA ListType == List \in SomeCall /\ \A q : Known(List, q)
BY DEF List, SomeCall, ListCall, Known

LEMMA StartCalls ==
  ASSUME SInit
  PROVE  /\ calls \in [Client -> Desk]
         /\ \A c \in Client : \A s \in Busy(c) : calls[c][s] = List
<1> DEFINE S(c) == IF c \in plan.fresh THEN {CHOOSE t \in Slots : TRUE} ELSE {}
<1>1. Slots # {}
  <2>1. plan.calls \in 1 .. Cardinality(Slots)
    BY PlansAssumption DEF SInit, PlanOK
  <2> QED BY <2>1, FS_EmptySet
<1>2. \A c \in Client : S(c) \in SUBSET Slots
  BY <1>1
<1>3. calls = [c \in Client |-> [s \in S(c) |-> List]]
  BY DEF SInit
<1> HIDE DEF S
<1>4. ASSUME NEW c \in Client
      PROVE  calls[c] \in Desk /\ \A s \in Busy(c) : calls[c][s] = List
  <2>1. [s \in S(c) |-> List] \in [S(c) -> SomeCall]
    BY ListType
  <2>2. calls[c] = [s \in S(c) |-> List]
    BY <1>3
  <2> QED BY <1>2, <2>1, <2>2, DeskShape DEF Busy
<1> QED BY <1>3, <1>4

LEMMA TypeInit ==
  ASSUME SInit
  PROVE  TypeInv
<1>1. plan \in Plans /\ db = StartDB(plan) /\ ghosts = {} /\ online = Client /\ now = 1
      /\ made = {} /\ purged = {}
  BY DEF SInit
<1>2. GoodDB(db) /\ db \in Database /\ db.seq \in Nat
  BY <1>1, StartType DEF GoodDB, Database
<1>3. ASSUME NEW c \in Client
      PROVE  /\ client[c] \in Tab /\ client[c].cursor <= db.seq
             /\ client[c].clock = [wall |-> 0, ctr |-> 0, dev |-> c]
  <2> DEFINE d == IF c \in plan.fresh THEN EmptyDB ELSE db
             N == Authoritative(d).notes
             I == Authoritative(d).items
             L == Authoritative(d).links
             S == {l \in LabelId : PastLabels[l] # NoRow}
             w == IF c \in plan.fresh THEN {"pull"} ELSE {}
             t == [wall |-> 0, ctr |-> 0, dev |-> c]
  <2>1. d \in Database
    BY <1>2, EmptyType
  <2>2. d.seq \in Nat /\ d.seq <= db.seq
    BY <1>2 DEF EmptyDB
  <2>3. client[c] = [notes |-> N, items |-> I, links |-> L, pending |-> <<>>, cursor |-> d.seq,
                     labels |-> S, due |-> w, clock |-> t]
    BY DEF SInit
  <2> HIDE DEF d
  <2>4. /\ N \in [NoteId -> NoteVal \cup {NoRow}] /\ I \in [ItemId -> ItemVal \cup {NoRow}]
        /\ L \in SUBSET (NoteId \X LabelId)
    BY <2>1, AuthoritativeType DEF ShownRows
  <2>5. S \in SUBSET LabelId /\ w \in SUBSET {"flush", "pull"} /\ t \in H!Clock /\ <<>> \in Seq(Bundle)
    BY DEF H!Clock
  <2> HIDE DEF N, I, L, S, w, t
  <2>6. client[c] \in Tab /\ client[c].cursor = d.seq /\ client[c].clock = t
    BY <2>2, <2>3, <2>4, <2>5 DEF Tab
  <2> QED BY <2>2, <2>6 DEF t
<1>4. client \in [Client -> Tab]
  <2>1. client = [c \in Client |-> client[c]]
    BY DEF SInit
  <2> QED BY <1>3, <2>1
<1>5. /\ calls \in [Client -> Desk]
      /\ \A c \in Client : \A s \in Busy(c) : Known(calls[c][s], db.seq)
  BY StartCalls, ListType
<1>6. EditsOK
  <2> SUFFICES ASSUME NEW c \in Client
               PROVE  Edits(c) \in 0 .. plan.edits /\ Ops(c) = 0 .. Edits(c) - 1 /\ ClockOK(c)
    BY DEF EditsOK
  <2>1. Ops(c) = {} /\ {e.op : e \in {f \in made : f.by = c}} = {}
    BY <1>1 DEF Ops
  <2>2. Edits(c) = 0
    BY <2>1, FS_EmptySet DEF Edits
  <2>3. plan.edits \in Nat
    BY <1>1, PlansAssumption DEF PlanOK
  <2>4. ClockOK(c)
    <3>1. Skew[c] \in Nat
      BY SyncSystemAssumption
    <3> DEFINE t == [wall |-> 0, ctr |-> 0, dev |-> c]
    <3>4. t.wall = 0 /\ t.ctr = 0 /\ t.dev = c
      OBVIOUS
    <3>5. client[c].clock = t
      BY <1>3
    <3> HIDE DEF t
    <3>2. client[c].clock.wall = 0 /\ client[c].clock.ctr = 0 /\ client[c].clock.dev = c
      BY <3>4, <3>5
    <3>3. 0 <= 1 + Skew[c]
      BY <3>1
    <3> QED BY <1>1, <2>2, <3>2, <3>3 DEF ClockOK
  <2>5. 0 .. 0 - 1 = {}
    OBVIOUS
  <2> QED BY <2>1, <2>2, <2>3, <2>4, <2>5
<1>7. /\ now \in Nat \ {0} /\ purged \subseteq NoteId /\ online \subseteq Client
      /\ made \subseteq [by : Client, op : Nat, m : Bundle]
      /\ ghosts \subseteq SomeCall /\ \A g \in ghosts : g.reply = NoReply /\ g.kind # "list"
  BY <1>1
<1>8. \A c \in Client : client[c].cursor <= db.seq
  BY <1>3
<1> QED BY <1>1, <1>2, <1>4, <1>5, <1>6, <1>7, <1>8 DEF TypeInv

\* The counter of a tab's clock stays below four times its operations, hence below the
\* limit PlansAssumption sets.
LEMMA TypeGives ==
  ASSUME TypeInv
  PROVE  SyncTypeOK
<1>1. db \in Database /\ db.seq \in Nat /\ online \subseteq Client /\ purged \subseteq NoteId
  BY DEF TypeInv, GoodDB, Database
<1>2. ASSUME NEW c \in Client
      PROVE  client[c].clock.ctr < H!CtrLimit
  <2>1. /\ Edits(c) \in 0 .. plan.edits /\ ClockOK(c) /\ plan \in Plans
    BY DEF TypeInv, EditsOK
  <2>2. plan.edits \in Nat /\ 4 * plan.edits <= H!CtrLimit /\ H!CtrLimit \in Nat \ {0}
    BY <2>1, PlansAssumption, SyncSystemAssumption DEF PlanOK
  <2>3. client[c].clock.ctr \in Nat
    BY TabNow DEF Tab, H!Clock
  <2>4. client[c].clock.ctr = 0 \/ client[c].clock.ctr < 4 * Edits(c)
    BY <2>1 DEF ClockOK
  <2> QED BY <2>1, <2>2, <2>3, <2>4
<1>3. ASSUME NEW c \in Client
      PROVE  /\ client[c].notes \in [NoteId -> NoteVal \cup {NoRow}]
             /\ client[c].items \in [ItemId -> ItemVal \cup {NoRow}]
             /\ client[c].links \subseteq NoteId \X LabelId /\ client[c].labels \subseteq LabelId
             /\ client[c].due \subseteq {"flush", "pull"}
             /\ client[c].clock \in H!Clock
  BY TabNow DEF Tab
<1>4. \A c \in Client : client[c].cursor \in 0 .. db.seq
  BY TabNow
<1> QED BY <1>1, <1>2, <1>3, <1>4 DEF SyncTypeOK

\* Whatever the tabs, the plan and the network do: rows, replies and tabs are well typed,
\* no tab's cursor is ahead of the server's counter, and no device clock's counter
\* outgrows its digits (Apply, reconcile, hlc.next).
THEOREM SyncTyped == SSpec => []SyncTypeOK
<1>1. SInit => TypeInv
  BY TypeInit
<1>2. TypeInv /\ [SNext]_svars => TypeInv'
  BY TypeStep
<1>3. TypeInv => SyncTypeOK
  BY TypeGives
<1> QED BY <1>1, <1>2, <1>3, PTL DEF SSpec

------------------------------------------------------------------------------
(* No edit is lost. *)

\* The bundles queued so far; what the server has taken in or can do without; the calls
\* the server has answered or may still be asked to; the notes that exist or have
\* existed or are about to; the uploads the server has yet to see.
Made     == {e.m : e \in made}
Done(m)  == Absorbs(db, m) \/ MootIn(db, purged, m)
Under    == ghosts \cup {k \in SomeCall : \E c \in Client : \E s \in Busy(c) : k = calls[c][s]}
Born(n)  == \/ db.notes[n] # NoRow \/ n \in purged
            \/ \E m \in Made : m.entity = "note" /\ m.id = n
Awaits(k, n) == k.kind = "audio" /\ k.reply = NoReply /\ k.note = n

\* What is sent was queued.
Sent(k) == k.kind = "sync" => ToSet(k.batch) \subseteq Made
SentInv == /\ \A c \in Client : ToSet(client[c].pending) \subseteq Made
           /\ \A k \in Under : Sent(k)

\* What the server has answered, it has taken in.
Replied(k) == k.kind = "sync" /\ k.reply # NoReply /\ k.reply.ok => \A m \in ToSet(k.batch) : Done(m)
RepliedInv == \A k \in Under : Replied(k)

\* A note somebody shows or speaks of was born.
BornInv == /\ \A c \in Client : \A n \in NoteId : Has(c, n) => Born(n)
           /\ \A k \in Under : \A n \in NoteId : Mentions(k, n) => Born(n)

\* The note of an upload the server has not seen was not, and is nobody else's.
ReservedInv ==
  /\ \A n \in NoteId : \A k \in Under : Awaits(k, n) => ~Born(n)
  /\ \A n \in NoteId : \A g, h \in ghosts : Awaits(g, n) /\ Awaits(h, n) => g = h
  /\ \A n \in NoteId : \A c \in Client : \A s \in Busy(c) : Awaits(calls[c][s], n) =>
       /\ \A g \in ghosts : ~Awaits(g, n)
       /\ \A d \in Client : \A t \in Busy(d) : Awaits(calls[d][t], n) => d = c /\ t = s

\* An edit is in its tab's queue or in a call the tab awaits until it is done.
Carried(e) == \/ e.m \in ToSet(client[e.by].pending)
              \/ \E s \in Busy(e.by) : /\ calls[e.by][s].kind = "sync"
                                       /\ e.m \in ToSet(calls[e.by][s].batch)
CarriedInv == \A e \in made : Done(e.m) \/ Carried(e)

SafeInv == TypeInv /\ SentInv /\ RepliedInv /\ BornInv /\ ReservedInv /\ CarriedInv

LEMMA UnderWay ==
  ASSUME TypeInv
  PROVE  /\ Under \subseteq SomeCall
         /\ \A c \in Client : \A s \in Busy(c) : calls[c][s] \in Under
         /\ \A g \in ghosts : g \in Under
         /\ Made \subseteq Bundle
<1>1. ghosts \subseteq SomeCall /\ made \subseteq [by : Client, op : Nat, m : Bundle]
  BY DEF TypeInv
<1> QED BY <1>1, CallIn DEF Under, Made

\* Where neither the server nor the history moves.
LEMMA Unmoved ==
  ASSUME UNCHANGED <<db, purged, made>>
  PROVE  /\ Made' = Made /\ \A n : Born(n)' <=> Born(n)
         /\ \A m : Done(m)' <=> Done(m)
         /\ \A k : Sent(k)' <=> Sent(k)
         /\ \A k : Replied(k)' <=> Replied(k)
<1>1. Made' = Made
  BY DEF Made
<1>2. \A n : Born(n)' <=> Born(n)
  BY <1>1 DEF Born
<1>3. \A m : Done(m)' <=> Done(m)
  BY DEF Done
<1>4. \A k : Sent(k)' <=> Sent(k)
  BY <1>1 DEF Sent
<1>5. \A k : Replied(k)' <=> Replied(k)
  BY <1>3 DEF Replied
<1> QED BY <1>1, <1>2, <1>3, <1>4, <1>5

\* What the server's handling of call k does to what is born and done.
LEMMA ServesBorn ==
  ASSUME SafeInv, NEW k \in Under, NEW o, Serves(k, o)
  PROVE  /\ Made' = Made
         /\ \A n \in NoteId : Born(n) => Born(n)'
         /\ \A n \in NoteId : Born(n)' => Born(n) \/ Awaits(k, n)
         /\ \A m \in Made : Done(m) => Done(m)'
         /\ k.kind = "sync" /\ o.reply.ok => \A m \in ToSet(k.batch) : Done(m)'
         /\ k.kind = "sync" /\ o.reply.ok => \A r \in o.reply.changes.notes : Born(r.id)'
         /\ k.kind = "audio" => Born(k.note)'
<1>1. /\ TypeInv /\ k \in SomeCall /\ Made \subseteq Bundle /\ db \in Database /\ Sent(k)
      /\ \A n \in NoteId : Mentions(k, n) => Born(n)
      /\ \A n \in NoteId : Awaits(k, n) => ~Born(n)
  BY UnderWay DEF SafeInv, SentInv, BornInv, ReservedInv, TypeInv, GoodDB
<1>2. Served(k, o, purged') /\ db' = o.db /\ purged \subseteq purged'
  BY <1>1, ServesType
<1>3. /\ k.reply = NoReply /\ made' = made
      /\ purged' = (IF k.kind = "purge" THEN purged \cup {k.note} ELSE purged)
  BY DEF Serves
<1>4. Made' = Made
  BY <1>3 DEF Made
<1>5. k.kind = "audio" => k.note \in NoteId /\ Awaits(k, k.note)
  BY <1>1, <1>3, CallKinds DEF Awaits, AudioCall
<1>6. Evolves(db, db', purged')
  BY <1>1, <1>2, <1>5 DEF Served, Born
<1>7. ASSUME NEW n \in NoteId, Born(n) PROVE Born(n)'
  BY <1>2, <1>4, <1>7 DEF Served, Born
<1>8. ASSUME NEW n \in NoteId, Born(n)', ~Awaits(k, n) PROVE Born(n)
  <2>1. CASE db'.notes[n] # NoRow
    <3>1. \/ db.notes[n] # NoRow \/ (k.kind = "audio" /\ k.note = n)
          \/ k.kind = "sync" /\ \E m \in ToSet(k.batch) : m.entity = "note" /\ m.id = n
      BY <1>2, <2>1 DEF Served
    <3> QED BY <1>1, <1>3, <1>8, <3>1 DEF Born, Awaits, Sent
  <2>2. CASE n \in purged'
    <3>1. n \in purged \/ Mentions(k, n)
      BY <1>3, <2>2 DEF Mentions
    <3> QED BY <1>1, <3>1 DEF Born
  <2>3. CASE \E m \in Made' : m.entity = "note" /\ m.id = n
    BY <1>4, <2>3 DEF Born
  <2> QED BY <1>8, <2>1, <2>2, <2>3 DEF Born
<1>9. ASSUME NEW m \in Made, Done(m) PROVE Done(m)'
  <2>1. m \in Bundle
    BY <1>1
  <2> QED BY <1>1, <1>2, <1>6, <1>9, <2>1, DoneStays DEF Done
<1>10. k.kind = "sync" /\ o.reply.ok => \A m \in ToSet(k.batch) : Done(m)'
  BY <1>2 DEF Served, Done
<1>11. k.kind = "sync" /\ o.reply.ok => \A r \in o.reply.changes.notes : Born(r.id)'
  BY <1>2 DEF Served, Born
<1>12. k.kind = "audio" => Born(k.note)'
  BY <1>2 DEF Served, Born
<1> QED BY <1>4, <1>7, <1>8, <1>9, <1>10, <1>11, <1>12

LEMMA SafeAnswer ==
  ASSUME SafeInv, NEW c \in Client, NEW s, NEW g, NEW o, Answers(c, s, g, o), TypeInv'
  PROVE  SafeInv'
<1>a. PICK k, q : k = calls[c][s] /\ q = [k EXCEPT !.reply = o.reply]
  OBVIOUS
<1>1. /\ Changed(calls[c], g, s, q) /\ calls' = [calls EXCEPT ![c] = g] /\ Serves(k, o)
      /\ ghosts' = ghosts /\ Rearmed /\ made' = made
  BY <1>a DEF Answers, Serves
<1>2. TypeInv /\ calls \in [Client -> Desk]
  BY DEF SafeInv, TypeInv
<1>3. /\ s \in Busy(c) /\ s \in Busy(c)' /\ calls'[c][s] = q
      /\ \A d \in Client : \A t : t \in Busy(d)' <=> t \in Busy(d)
      /\ \A d \in Client : \A t \in Busy(d) : calls'[d][t] = calls[d][t] \/ (d = c /\ t = s)
  BY <1>1, <1>2, ChangedCalls
<1>4. k \in Under /\ k \in SomeCall
  BY <1>a, <1>2, <1>3, UnderWay, CallIn
<1>5. /\ Made' = Made
      /\ \A n \in NoteId : Born(n) => Born(n)'
      /\ \A n \in NoteId : Born(n)' => Born(n) \/ Awaits(k, n)
      /\ \A m \in Made : Done(m) => Done(m)'
      /\ k.kind = "sync" /\ o.reply.ok => \A m \in ToSet(k.batch) : Done(m)'
      /\ k.kind = "sync" /\ o.reply.ok => \A r \in o.reply.changes.notes : Born(r.id)'
      /\ k.kind = "audio" => Born(k.note)'
  BY <1>1, <1>4, ServesBorn
<1>6. Served(k, o, purged')
  BY <1>1, <1>2, <1>4, ServesType
<1>7. /\ q.reply = o.reply /\ q.kind = k.kind /\ k.kind # "list" /\ k.reply = NoReply /\ q.reply # NoReply
      /\ (k.kind = "sync" => q.batch = k.batch)
      /\ (k.kind \in {"audio", "purge"} => q.note = k.note)
  <2>1. q.reply = o.reply /\ q.kind = k.kind
        /\ (k.kind = "sync" => q.batch = k.batch)
        /\ (k.kind \in {"audio", "purge"} => q.note = k.note)
    BY <1>a, <1>4 DEF SomeCall, SyncCall, ListCall, PurgeCall, AudioCall, LabelCall
  <2> QED BY <1>1, <1>6, <2>1 DEF Serves, Served
<1>8. \A x \in Under' : x = q \/ x \in Under
  <2> SUFFICES ASSUME NEW x \in Under', x \notin ghosts PROVE x = q \/ x \in Under
    BY <1>2, UnderWay
  <2>1. PICK d, t : d \in Client /\ t \in Busy(d)' /\ x = calls'[d][t]
    BY <1>1 DEF Under
  <2> QED BY <1>2, <1>3, <2>1, UnderWay
<1>9. SentInv'
  <2>1. \A d \in Client : ToSet(client'[d].pending) \subseteq Made'
    BY <1>1, <1>5 DEF Rearmed, SafeInv, SentInv
  <2>2. Sent(k) /\ \A x \in Under : Sent(x)
    BY <1>4 DEF SafeInv, SentInv
  <2>3. \A x \in Under' : Sent(x)'
    BY <1>5, <1>7, <1>8, <2>2 DEF Sent
  <2> QED BY <2>1, <2>3 DEF SentInv
<1>10. RepliedInv'
  <2>1. \A x \in Under : Sent(x) /\ Replied(x)
    BY DEF SafeInv, SentInv, RepliedInv
  <2>2. ASSUME NEW x \in Under PROVE Replied(x)'
    BY <1>5, <2>1 DEF Sent, Replied
  <2>3. Replied(q)'
    BY <1>5, <1>7 DEF Replied
  <2> QED BY <1>8, <2>2, <2>3 DEF RepliedInv
<1>11. BornInv'
  <2>1. ASSUME NEW d \in Client, NEW n \in NoteId, Has(d, n)' PROVE Born(n)'
    <3>1. Has(d, n)
      BY <1>1, <2>1 DEF Has, Rearmed
    <3> QED BY <1>5, <3>1 DEF SafeInv, BornInv
  <2>2. \A x \in Under : \A n \in NoteId : Mentions(x, n) => Born(n)'
    BY <1>5 DEF SafeInv, BornInv
  <2>3. ASSUME NEW n \in NoteId, Mentions(q, n) PROVE Born(n)'
    <3>1. CASE k.kind = "sync"
      BY <1>5, <1>7, <2>3, <3>1 DEF Mentions
    <3>2. CASE k.kind = "purge"
      <4>1. Mentions(k, n)
        BY <1>7, <2>3, <3>2 DEF Mentions
      <4> QED BY <1>4, <2>2, <4>1
    <3>3. CASE k.kind = "audio"
      BY <1>5, <1>7, <2>3, <3>3 DEF Mentions
    <3> QED BY <1>7, <2>3, <3>1, <3>2, <3>3 DEF Mentions
  <2> QED BY <1>8, <2>1, <2>2, <2>3 DEF BornInv
<1>12. ReservedInv'
  <2>1. \A n : ~Awaits(q, n)
    BY <1>7 DEF Awaits
  <2>2. /\ \A n \in NoteId : \A x \in Under : Awaits(x, n) => ~Born(n)
        /\ \A n \in NoteId : \A x, h \in ghosts : Awaits(x, n) /\ Awaits(h, n) => x = h
        /\ \A n \in NoteId : \A d \in Client : \A t \in Busy(d) : Awaits(calls[d][t], n) =>
             /\ \A h \in ghosts : ~Awaits(h, n)
             /\ \A e \in Client : \A u \in Busy(e) : Awaits(calls[e][u], n) => e = d /\ u = t
    BY DEF SafeInv, ReservedInv
  <2>3. ASSUME NEW n \in NoteId, NEW x \in ghosts, Awaits(x, n) PROVE ~Born(n)'
    <3>1. ~Awaits(k, n)
      BY <1>a, <1>3, <2>2, <2>3
    <3> QED BY <1>2, <1>5, <2>2, <2>3, <3>1, UnderWay
  <2>4. ASSUME NEW n \in NoteId, NEW d \in Client, NEW t \in Busy(d)', Awaits(calls'[d][t], n)
        PROVE  /\ ~Born(n)' /\ t \in Busy(d) /\ Awaits(calls[d][t], n)
    <3>1. t \in Busy(d) /\ ~(d = c /\ t = s) /\ calls'[d][t] = calls[d][t]
      BY <1>3, <2>1, <2>4
    <3>2. ~Awaits(k, n)
      BY <1>a, <1>3, <2>2, <2>4, <3>1
    <3> QED BY <1>2, <1>5, <2>2, <2>4, <3>1, <3>2, UnderWay
  <2>5. ASSUME NEW n \in NoteId, NEW x \in Under', Awaits(x, n) PROVE ~Born(n)'
    <3>1. CASE x \in ghosts
      BY <2>3, <2>5, <3>1
    <3>2. CASE x \notin ghosts
      <4>1. PICK d, t : d \in Client /\ t \in Busy(d)' /\ x = calls'[d][t]
        BY <1>1, <3>2 DEF Under
      <4> QED BY <2>4, <2>5, <4>1
    <3> QED BY <3>1, <3>2
  <2>6. ASSUME NEW n \in NoteId, NEW d \in Client, NEW t \in Busy(d)', Awaits(calls'[d][t], n)
        PROVE  /\ \A h \in ghosts : ~Awaits(h, n)
               /\ \A e \in Client : \A u \in Busy(e)' : Awaits(calls'[e][u], n) => e = d /\ u = t
    BY <2>2, <2>4, <2>6
  <2> QED BY <1>1, <2>2, <2>5, <2>6 DEF ReservedInv
<1>13. CarriedInv'
  <2> SUFFICES ASSUME NEW e \in made PROVE Done(e.m)' \/ Carried(e)'
    BY <1>1 DEF CarriedInv
  <2>1. e.m \in Made /\ (Done(e.m) \/ Carried(e)) /\ e.by \in Client
    BY <1>2 DEF SafeInv, CarriedInv, Made, TypeInv
  <2>2. CASE Done(e.m)
    BY <1>5, <2>1, <2>2
  <2>3. CASE e.m \in ToSet(client[e.by].pending)
    BY <1>1, <2>1, <2>3 DEF Rearmed, Carried
  <2>4. ASSUME NEW t \in Busy(e.by), calls[e.by][t].kind = "sync", e.m \in ToSet(calls[e.by][t].batch)
        PROVE  Carried(e)'
    <3>1. t \in Busy(e.by)'
      BY <1>3, <2>1
    <3>2. calls'[e.by][t].kind = "sync" /\ calls'[e.by][t].batch = calls[e.by][t].batch
      BY <1>a, <1>3, <1>7, <2>1, <2>4
    <3> QED BY <2>4, <3>1, <3>2 DEF Carried
  <2> QED BY <2>1, <2>2, <2>3, <2>4 DEF Carried
<1> QED BY <1>9, <1>10, <1>11, <1>12, <1>13 DEF SafeInv

LEMMA SafeGhost ==
  ASSUME SafeInv, NEW g, NEW o, AnswersGhost(g, o), TypeInv'
  PROVE  SafeInv'
<1>1. g \in ghosts /\ Serves(g, o) /\ ghosts' = ghosts \ {g} /\ calls' = calls /\ Rearmed
      /\ made' = made
  BY DEF AnswersGhost, Serves
<1>2. TypeInv /\ g \in Under
  BY <1>1, UnderWay DEF SafeInv
<1>3. /\ Made' = Made
      /\ \A n \in NoteId : Born(n) => Born(n)'
      /\ \A n \in NoteId : Born(n)' => Born(n) \/ Awaits(g, n)
      /\ \A m \in Made : Done(m) => Done(m)'
  BY <1>1, <1>2, ServesBorn
<1>4. \A d \in Client : Busy(d)' = Busy(d)
  BY <1>1 DEF Busy
<1>5. \A x \in Under' : x \in Under
  BY <1>1, <1>4 DEF Under
<1>6. SentInv'
  BY <1>1, <1>3, <1>5 DEF Rearmed, SafeInv, SentInv, Sent
<1>7. RepliedInv'
  <2>1. \A x \in Under : Sent(x) /\ Replied(x)
    BY DEF SafeInv, SentInv, RepliedInv
  <2>2. ASSUME NEW x \in Under PROVE Replied(x)'
    BY <1>3, <2>1 DEF Sent, Replied
  <2> QED BY <1>5, <2>2 DEF RepliedInv
<1>8. BornInv'
  <2>1. ASSUME NEW d \in Client, NEW n \in NoteId, Has(d, n)' PROVE Born(n)'
    <3>1. Has(d, n)
      BY <1>1, <2>1 DEF Has, Rearmed
    <3> QED BY <1>3, <3>1 DEF SafeInv, BornInv
  <2>2. \A x \in Under : \A n \in NoteId : Mentions(x, n) => Born(n)'
    BY <1>3 DEF SafeInv, BornInv
  <2> QED BY <1>5, <2>1, <2>2 DEF BornInv
<1>9. ReservedInv'
  <2>1. /\ \A n \in NoteId : \A x \in Under : Awaits(x, n) => ~Born(n)
        /\ \A n \in NoteId : \A x, h \in ghosts : Awaits(x, n) /\ Awaits(h, n) => x = h
        /\ \A n \in NoteId : \A d \in Client : \A t \in Busy(d) : Awaits(calls[d][t], n) =>
             /\ \A h \in ghosts : ~Awaits(h, n)
             /\ \A e \in Client : \A u \in Busy(e) : Awaits(calls[e][u], n) => e = d /\ u = t
    BY DEF SafeInv, ReservedInv
  <2>2. ASSUME NEW n \in NoteId, NEW x \in Under', Awaits(x, n) PROVE ~Born(n)'
    <3>1. ~Awaits(g, n)
      <4>1. CASE x \in ghosts'
        BY <1>1, <2>1, <2>2, <4>1
      <4>2. CASE x \notin ghosts'
        <5>1. PICK d, t : d \in Client /\ t \in Busy(d) /\ x = calls[d][t]
          BY <1>1, <1>4, <4>2 DEF Under
        <5> QED BY <1>1, <2>1, <2>2, <5>1
      <4> QED BY <4>1, <4>2
    <3> QED BY <1>3, <1>5, <2>1, <2>2, <3>1
  <2> QED BY <1>1, <1>4, <2>1, <2>2 DEF ReservedInv
<1>10. CarriedInv'
  <2> SUFFICES ASSUME NEW e \in made PROVE Done(e.m)' \/ Carried(e)'
    BY <1>1 DEF CarriedInv
  <2>1. e.m \in Made /\ (Done(e.m) \/ Carried(e)) /\ e.by \in Client
    BY <1>2 DEF SafeInv, CarriedInv, Made, TypeInv
  <2>2. Carried(e) => Carried(e)'
    BY <1>1, <1>4, <2>1 DEF Rearmed, Carried
  <2> QED BY <1>3, <2>1, <2>2
<1> QED BY <1>6, <1>7, <1>8, <1>9, <1>10 DEF SafeInv

LEMMA InSeq ==
  ASSUME NEW b \in Seq(Bundle)
  PROVE  \A x : x \in ToSet(b) <=> \E j \in 1 .. Len(b) : x = b[j]
BY DEF ToSet

LEMMA ConcatSet ==
  ASSUME NEW a \in Seq(Bundle), NEW b \in Seq(Bundle)
  PROVE  ToSet(a \o b) = ToSet(a) \cup ToSet(b)
<1>1. a \o b \in Seq(Bundle)
  OBVIOUS
<1>2. Len(a \o b) = Len(a) + Len(b) /\ Len(a) \in Nat /\ Len(b) \in Nat
  BY ConcatProperties, LenProperties
<1>3. \A j \in 1 .. Len(a) + Len(b) : (a \o b)[j] = IF j <= Len(a) THEN a[j] ELSE b[j - Len(a)]
  BY ConcatProperties
<1> DEFINE w == a \o b
<1> HIDE DEF w
<1>4. ASSUME NEW x \in ToSet(w) PROVE x \in ToSet(a) \cup ToSet(b)
  <2>1. PICK j \in 1 .. Len(a) + Len(b) : x = w[j]
    BY <1>1, <1>2, InSeq DEF w
  <2>2. j \in 1 .. Len(a) \/ (~(j <= Len(a)) /\ j - Len(a) \in 1 .. Len(b))
    BY <1>2
  <2> QED BY <1>3, <2>1, <2>2, InSeq DEF w
<1>5. ASSUME NEW x \in ToSet(a) PROVE x \in ToSet(w)
  <2>1. PICK j \in 1 .. Len(a) : x = a[j]
    BY InSeq
  <2>2. j \in 1 .. Len(a) + Len(b) /\ j <= Len(a)
    BY <1>2
  <2>3. x = w[j]
    BY <1>3, <2>1, <2>2 DEF w
  <2> QED BY <1>1, <1>2, <2>2, <2>3, InSeq DEF w
<1>6. ASSUME NEW x \in ToSet(b) PROVE x \in ToSet(w)
  <2>1. PICK j \in 1 .. Len(b) : x = b[j]
    BY InSeq
  <2> DEFINE i == j + Len(a)
  <2>2. i \in 1 .. Len(a) + Len(b) /\ ~(i <= Len(a)) /\ i - Len(a) = j
    BY <1>2
  <2> HIDE DEF i
  <2>3. x = w[i]
    BY <1>3, <2>1, <2>2 DEF w
  <2> QED BY <1>1, <1>2, <2>2, <2>3, InSeq DEF w
<1> QED BY <1>4, <1>5, <1>6 DEF w

LEMMA SafeUser ==
  ASSUME SafeInv, NEW c \in Client, NEW k, NEW new, UserStep(c, k, new), TypeInv'
  PROVE  SafeInv'
<1>1. /\ new \in Seq(Bundle) /\ k.pending = client[c].pending \o new
      /\ client' = [client EXCEPT ![c] = k]
      /\ made' = made \cup {[by |-> c, op |-> Edits(c), m |-> new[j]] : j \in 1 .. Len(new)}
      /\ \A n \in NoteId : k.notes[n] # NoRow => Has(c, n) \/ Adds(new, n)
      /\ \A n \in NoteId : Adds(new, n) => Has(c, n) \/ UnusedNote(n)
      /\ UNCHANGED <<plan, db, calls, ghosts, online, drops, now, purged>>
  BY DEF UserStep, Redraws, Has
<1>2. TypeInv /\ client \in [Client -> Tab] /\ client[c].pending \in Seq(Bundle)
  BY TabNow DEF SafeInv, TypeInv, Tab
<1>3. /\ \A d \in Client : Busy(d)' = Busy(d)
      /\ Under' = Under
  BY <1>1 DEF Busy, Under
<1>4. ToSet(k.pending) = ToSet(client[c].pending) \cup ToSet(new)
  BY <1>1, <1>2, ConcatSet
<1>5. Made' = Made \cup ToSet(new)
  <2>1. \A x : x \in Made' <=> \E e \in made' : x = e.m
    BY DEF Made
  <2>2. \A x : x \in Made <=> \E e \in made : x = e.m
    BY DEF Made
  <2>3. \A x : x \in ToSet(new) <=> \E j \in 1 .. Len(new) : x = new[j]
    BY DEF ToSet
  <2>4. ASSUME NEW x, x \in Made' PROVE x \in Made \cup ToSet(new)
    BY <1>1, <2>1, <2>2, <2>3, <2>4
  <2>5. ASSUME NEW x, x \in Made \cup ToSet(new) PROVE x \in Made'
    <3>1. CASE x \in Made
      BY <1>1, <2>1, <2>2, <3>1
    <3>2. CASE x \in ToSet(new)
      <4>1. PICK j \in 1 .. Len(new) : x = new[j]
        BY <2>3, <3>2
      <4>2. [by |-> c, op |-> Edits(c), m |-> new[j]] \in made'
        BY <1>1
      <4> QED BY <2>1, <4>1, <4>2
    <3> QED BY <2>5, <3>1, <3>2
  <2> QED BY <2>4, <2>5
<1>6. \A n \in NoteId : Adds(new, n) <=> \E m \in ToSet(new) : m.entity = "note" /\ m.id = n
  BY <1>1, InSeq DEF Adds
<1>7. \A n \in NoteId : Born(n)' <=> Born(n) \/ Adds(new, n)
  BY <1>1, <1>5, <1>6 DEF Born
<1>8. \A m : Done(m)' <=> Done(m)
  BY <1>1 DEF Done
<1>9. SentInv'
  BY <1>1, <1>2, <1>3, <1>4, <1>5 DEF SafeInv, SentInv, Sent
<1>10. RepliedInv'
  BY <1>3, <1>8 DEF SafeInv, RepliedInv, Replied
<1>11. BornInv'
  <2>1. ASSUME NEW d \in Client, NEW n \in NoteId, Has(d, n)' PROVE Born(n)'
    <3>1. Has(d, n) \/ Adds(new, n)
      BY <1>1, <1>2, <2>1 DEF Has
    <3> QED BY <1>7, <3>1 DEF SafeInv, BornInv
  <2> QED BY <1>3, <1>7, <2>1 DEF SafeInv, BornInv
<1>12. ReservedInv'
  <2>1. ASSUME NEW n \in NoteId, NEW x \in Under, Awaits(x, n), Adds(new, n) PROVE FALSE
    <3>1. CASE Has(c, n)
      BY <2>1, <3>1 DEF SafeInv, ReservedInv, BornInv
    <3>2. CASE UnusedNote(n)
      <4>1. x \in ghosts \cup UNION {{calls[d][s] : s \in Busy(d)} : d \in Client}
        BY DEF Under
      <4> QED BY <2>1, <3>2, <4>1 DEF UnusedNote, Awaits
    <3> QED BY <1>1, <2>1, <3>1, <3>2
  <2>2. \A n \in NoteId : \A x \in Under' : Awaits(x, n) => ~Born(n)'
    BY <1>3, <1>7, <2>1 DEF SafeInv, ReservedInv
  <2> QED BY <1>1, <1>3, <2>2 DEF SafeInv, ReservedInv
<1>13. CarriedInv'
  <2>1. ASSUME NEW e \in made PROVE Done(e.m)' \/ Carried(e)'
    <3>1. e.by \in Client /\ (Done(e.m) \/ Carried(e))
      BY <1>2 DEF SafeInv, CarriedInv, TypeInv
    <3>2. CASE e.m \in ToSet(client[e.by].pending)
      BY <1>1, <1>2, <1>4, <3>1, <3>2 DEF Carried
    <3> QED BY <1>1, <1>3, <1>8, <3>1, <3>2 DEF Carried
  <2>2. ASSUME NEW j \in 1 .. Len(new), NEW e, e = [by |-> c, op |-> Edits(c), m |-> new[j]]
        PROVE  Carried(e)'
    <3>1. e.by = c /\ e.m \in ToSet(new)
      BY <2>2 DEF ToSet
    <3>2. client'[c] = k
      BY <1>1, <1>2
    <3> QED BY <1>4, <3>1, <3>2 DEF Carried
  <2>3. ASSUME NEW e \in made' PROVE Done(e.m)' \/ Carried(e)'
    <3>1. e \in made \/ \E j \in 1 .. Len(new) : e = [by |-> c, op |-> Edits(c), m |-> new[j]]
      BY <1>1
    <3> QED BY <2>1, <2>2, <3>1
  <2> QED BY <2>3 DEF CarriedInv
<1> QED BY <1>9, <1>10, <1>11, <1>12, <1>13 DEF SafeInv

LEMMA SafeAsks ==
  ASSUME SafeInv, NEW c \in Client, NEW s, NEW k, NEW g, NEW p, Asks(c, s, k, g, p), TypeInv'
  PROVE  SafeInv'
<1>1. /\ Placed(calls[c], g, s, k) /\ calls' = [calls EXCEPT ![c] = g]
      /\ k \in SomeCall /\ k.reply = NoReply /\ k.kind # "list"
      /\ client' = [client EXCEPT ![c] = p] /\ p.notes = client[c].notes
      /\ IF k.kind = "sync" THEN p.pending = <<>> /\ k.batch = client[c].pending
         ELSE p.pending = client[c].pending
      /\ k.kind = "audio" => UnusedNote(k.note)
      /\ k.kind = "purge" => Has(c, k.note)
      /\ UNCHANGED <<db, ghosts, made, purged>>
  BY DEF Asks
<1>2. TypeInv /\ client \in [Client -> Tab] /\ calls \in [Client -> Desk]
  BY DEF SafeInv, TypeInv
<1>3. /\ s \notin Busy(c) /\ s \in Busy(c)' /\ calls'[c][s] = k
      /\ \A d \in Client : \A t \in Busy(d)' :
           (t \in Busy(d) /\ calls'[d][t] = calls[d][t]) \/ (d = c /\ t = s)
      /\ \A d \in Client : \A t \in Busy(d) : t \in Busy(d)' /\ calls'[d][t] = calls[d][t]
  BY <1>1, <1>2, PlacedCalls
<1>4. /\ Made' = Made /\ \A n : Born(n)' <=> Born(n)
      /\ \A m : Done(m)' <=> Done(m)
      /\ \A x : Sent(x)' <=> Sent(x)
      /\ \A x : Replied(x)' <=> Replied(x)
  BY <1>1, Unmoved
<1>5. \A x \in Under' : x = k \/ x \in Under
  <2> SUFFICES ASSUME NEW x \in Under', x \notin ghosts PROVE x = k \/ x \in Under
    BY <1>2, UnderWay
  <2>1. PICK d, t : d \in Client /\ t \in Busy(d)' /\ x = calls'[d][t]
    BY <1>1 DEF Under
  <2> QED BY <1>2, <1>3, <2>1, UnderWay
<1>6. /\ client'[c] = p
      /\ \A d \in Client : d # c => client'[d] = client[d]
  BY <1>1, <1>2
<1>7. SentInv'
  <2>1. \A d \in Client : ToSet(client[d].pending) \subseteq Made
    BY DEF SafeInv, SentInv
  <2>2. ToSet(<<>>) = {}
    BY DEF ToSet
  <2>3. ASSUME NEW d \in Client PROVE ToSet(client'[d].pending) \subseteq Made
    BY <1>1, <1>6, <2>1, <2>2
  <2>4. Sent(k)
    BY <1>1, <2>1 DEF Sent
  <2> QED BY <1>4, <1>5, <2>3, <2>4 DEF SafeInv, SentInv
<1>8. RepliedInv'
  <2>1. Replied(k)
    BY <1>1 DEF Replied
  <2> QED BY <1>4, <1>5, <2>1 DEF SafeInv, RepliedInv
<1>9. BornInv'
  <2>1. \A d \in Client : \A n \in NoteId : Has(d, n)' <=> Has(d, n)
    BY <1>1, <1>6 DEF Has
  <2>2. \A n \in NoteId : Mentions(k, n) => Has(c, n)
    BY <1>1 DEF Mentions
  <2> QED BY <1>4, <1>5, <2>1, <2>2 DEF SafeInv, BornInv
<1>10. ReservedInv'
  <2>1. /\ \A n \in NoteId : \A x \in Under : Awaits(x, n) => ~Born(n)
        /\ \A n \in NoteId : \A x, h \in ghosts : Awaits(x, n) /\ Awaits(h, n) => x = h
        /\ \A n \in NoteId : \A d \in Client : \A t \in Busy(d) : Awaits(calls[d][t], n) =>
             /\ \A h \in ghosts : ~Awaits(h, n)
             /\ \A e \in Client : \A u \in Busy(e) : Awaits(calls[e][u], n) => e = d /\ u = t
    BY DEF SafeInv, ReservedInv
  <2>2. ASSUME NEW n \in NoteId, Awaits(k, n)
        PROVE  ~Born(n) /\ \A x \in Under : ~Awaits(x, n)
    <3>1. UnusedNote(n)
      BY <1>1, <2>2 DEF Awaits
    <3>2. ~Born(n)
      BY <3>1 DEF UnusedNote, Born, Made, NoteIdOf
    <3>3. \A x \in Under : x \in ghosts \cup UNION {{calls[d][t] : t \in Busy(d)} : d \in Client}
      BY DEF Under
    <3> QED BY <3>1, <3>2, <3>3 DEF UnusedNote, Awaits
  <2>3. \A n \in NoteId : \A x \in Under' : Awaits(x, n) => ~Born(n)'
    BY <1>4, <1>5, <2>1, <2>2
  <2>4. ASSUME NEW n \in NoteId, NEW d \in Client, NEW t \in Busy(d)', Awaits(calls'[d][t], n)
        PROVE  /\ \A h \in ghosts : ~Awaits(h, n)
               /\ \A e \in Client : \A u \in Busy(e)' : Awaits(calls'[e][u], n) => e = d /\ u = t
    <3>1. CASE Awaits(k, n)
      <4>1. \A h \in ghosts : ~Awaits(h, n)
        BY <1>2, <2>2, <3>1, UnderWay
      <4>2. \A e \in Client : \A u \in Busy(e) : ~Awaits(calls[e][u], n)
        BY <1>2, <2>2, <3>1, UnderWay
      <4>3. \A e \in Client : \A u \in Busy(e)' : Awaits(calls'[e][u], n) => e = c /\ u = s
        BY <1>3, <4>2
      <4> QED BY <2>4, <4>1, <4>3
    <3>2. CASE ~Awaits(k, n)
      <4>1. \A e \in Client : \A u \in Busy(e)' : Awaits(calls'[e][u], n) =>
              u \in Busy(e) /\ Awaits(calls[e][u], n)
        BY <1>3, <3>2
      <4> QED BY <2>1, <2>4, <4>1
    <3> QED BY <3>1, <3>2
  <2> QED BY <1>1, <2>1, <2>3, <2>4 DEF ReservedInv
<1>11. CarriedInv'
  <2> SUFFICES ASSUME NEW e \in made PROVE Done(e.m)' \/ Carried(e)'
    BY <1>1 DEF CarriedInv
  <2>1. e.by \in Client /\ (Done(e.m) \/ Carried(e))
    BY <1>2 DEF SafeInv, CarriedInv, TypeInv
  <2>2. CASE e.m \in ToSet(client[e.by].pending)
    <3>1. CASE e.by = c /\ k.kind = "sync"
      BY <1>1, <1>3, <2>2, <3>1 DEF Carried
    <3>2. CASE ~(e.by = c /\ k.kind = "sync")
      BY <1>1, <1>6, <2>1, <2>2, <3>2 DEF Carried
    <3> QED BY <3>1, <3>2
  <2>3. ASSUME NEW t \in Busy(e.by), calls[e.by][t].kind = "sync", e.m \in ToSet(calls[e.by][t].batch)
        PROVE  Carried(e)'
    <3>1. t \in Busy(e.by)' /\ calls'[e.by][t] = calls[e.by][t]
      BY <1>3, <2>1
    <3> QED BY <2>3, <3>1 DEF Carried
  <2> QED BY <1>4, <2>1, <2>2, <2>3 DEF Carried
<1> QED BY <1>7, <1>8, <1>9, <1>10, <1>11 DEF SafeInv

LEMMA SafeReads ==
  ASSUME SafeInv, NEW c \in Client, NEW s, NEW k, NEW g, Reads(c, s, k, g), TypeInv'
  PROVE  SafeInv'
<1>1. /\ Changed(calls[c], g, s, k) /\ calls' = [calls EXCEPT ![c] = g]
      /\ calls[c][s].kind = "list" /\ k \in ListCall
      /\ \A n \in NoteId : Mentions(k, n) => db.notes[n] # NoRow \/ Mentions(calls[c][s], n)
      /\ UNCHANGED <<plan, db, client, ghosts, online, now, made, purged>>
  BY DEF Reads
<1>2. TypeInv /\ calls \in [Client -> Desk] /\ k.kind = "list"
  BY <1>1 DEF SafeInv, TypeInv, ListCall
<1>3. /\ s \in Busy(c) /\ s \in Busy(c)' /\ calls'[c][s] = k
      /\ \A d \in Client : \A t : t \in Busy(d)' <=> t \in Busy(d)
      /\ \A d \in Client : \A t \in Busy(d) : calls'[d][t] = calls[d][t] \/ (d = c /\ t = s)
  BY <1>1, <1>2, ChangedCalls
<1>4. /\ Made' = Made /\ \A n : Born(n)' <=> Born(n)
      /\ \A m : Done(m)' <=> Done(m)
      /\ \A x : Sent(x)' <=> Sent(x)
      /\ \A x : Replied(x)' <=> Replied(x)
  BY <1>1, Unmoved
<1>5. \A x \in Under' : x = k \/ x \in Under
  <2> SUFFICES ASSUME NEW x \in Under', x \notin ghosts PROVE x = k \/ x \in Under
    BY <1>2, UnderWay
  <2>1. PICK d, t : d \in Client /\ t \in Busy(d)' /\ x = calls'[d][t]
    BY <1>1 DEF Under
  <2> QED BY <1>2, <1>3, <2>1, UnderWay
<1>6. SentInv' /\ RepliedInv'
  <2>1. Sent(k) /\ Replied(k)
    BY <1>2 DEF Sent, Replied
  <2> QED BY <1>1, <1>4, <1>5, <2>1 DEF SafeInv, SentInv, RepliedInv
<1>7. BornInv'
  <2>1. \A d \in Client : \A n \in NoteId : Has(d, n)' <=> Has(d, n)
    BY <1>1 DEF Has
  <2>2. calls[c][s] \in Under
    BY <1>2, <1>3, UnderWay
  <2>3. \A n \in NoteId : Mentions(k, n) => Born(n)
    BY <1>1, <2>2 DEF SafeInv, BornInv, Born
  <2> QED BY <1>4, <1>5, <2>1, <2>3 DEF SafeInv, BornInv
<1>8. ReservedInv'
  <2>1. \A n : ~Awaits(k, n)
    BY <1>2 DEF Awaits
  <2>2. /\ \A n \in NoteId : \A x \in Under : Awaits(x, n) => ~Born(n)
        /\ \A n \in NoteId : \A x, h \in ghosts : Awaits(x, n) /\ Awaits(h, n) => x = h
        /\ \A n \in NoteId : \A d \in Client : \A t \in Busy(d) : Awaits(calls[d][t], n) =>
             /\ \A h \in ghosts : ~Awaits(h, n)
             /\ \A e \in Client : \A u \in Busy(e) : Awaits(calls[e][u], n) => e = d /\ u = t
    BY DEF SafeInv, ReservedInv
  <2>3. \A n \in NoteId : \A x \in Under' : Awaits(x, n) => ~Born(n)'
    BY <1>4, <1>5, <2>1, <2>2
  <2>4. ASSUME NEW n \in NoteId, NEW d \in Client, NEW t \in Busy(d)', Awaits(calls'[d][t], n)
        PROVE  t \in Busy(d) /\ Awaits(calls[d][t], n)
    BY <1>3, <2>1, <2>4
  <2>5. ASSUME NEW n \in NoteId, NEW d \in Client, NEW t \in Busy(d)', Awaits(calls'[d][t], n)
        PROVE  /\ \A h \in ghosts' : ~Awaits(h, n)
               /\ \A e \in Client : \A u \in Busy(e)' : Awaits(calls'[e][u], n) => e = d /\ u = t
    <3>1. \A h \in ghosts' : ~Awaits(h, n)
      BY <1>1, <2>2, <2>4, <2>5
    <3> QED BY <2>2, <2>4, <2>5, <3>1
  <2>6. \A n \in NoteId : \A x, h \in ghosts' : Awaits(x, n) /\ Awaits(h, n) => x = h
    BY <1>1, <2>2
  <2> QED BY <2>3, <2>5, <2>6 DEF ReservedInv
<1>9. CarriedInv'
  <2> SUFFICES ASSUME NEW e \in made PROVE Done(e.m)' \/ Carried(e)'
    BY <1>1 DEF CarriedInv
  <2>1. e.by \in Client /\ (Done(e.m) \/ Carried(e))
    BY <1>2 DEF SafeInv, CarriedInv, TypeInv
  <2>2. ASSUME NEW t \in Busy(e.by), calls[e.by][t].kind = "sync", e.m \in ToSet(calls[e.by][t].batch)
        PROVE  Carried(e)'
    <3>1. t \in Busy(e.by)' /\ calls'[e.by][t] = calls[e.by][t]
      BY <1>1, <1>3, <2>1, <2>2
    <3> QED BY <2>2, <3>1 DEF Carried
  <2> QED BY <1>1, <1>4, <2>1, <2>2 DEF Carried
<1> QED BY <1>6, <1>7, <1>8, <1>9 DEF SafeInv

LEMMA SafeEnds ==
  ASSUME SafeInv, NEW c \in Client, NEW s, NEW g, NEW p, Ends(c, s, g, p), TypeInv'
  PROVE  SafeInv'
<1>a. PICK k : k = calls[c][s]
  OBVIOUS
<1>1. /\ Removed(calls[c], g, s) /\ calls' = [calls EXCEPT ![c] = g]
      /\ client' = [client EXCEPT ![c] = p]
      /\ \/ p.pending = client[c].pending /\ (k.kind = "sync" => k.reply # NoReply /\ k.reply.ok)
         \/ p.pending = k.batch \o client[c].pending /\ k.kind = "sync"
      /\ \A n \in NoteId : p.notes[n] # NoRow => Has(c, n) \/ Mentions(k, n)
      /\ \/ ghosts' = ghosts
         \/ ghosts' = ghosts \cup {k}
      /\ UNCHANGED <<db, made, purged>>
  BY <1>a DEF Ends, Answered
<1>2. TypeInv /\ client \in [Client -> Tab] /\ calls \in [Client -> Desk] /\ client[c].pending \in Seq(Bundle)
  BY TabNow DEF SafeInv, TypeInv, Tab
<1>3. /\ s \in Busy(c) /\ s \notin Busy(c)'
      /\ \A d \in Client : \A t \in Busy(d)' : t \in Busy(d) /\ calls'[d][t] = calls[d][t]
      /\ \A d \in Client : \A t \in Busy(d) : t \in Busy(d)' \/ (d = c /\ t = s)
  BY <1>1, <1>2, RemovedCalls
<1>4. k \in Under /\ k \in SomeCall /\ (k.kind = "sync" => k.batch \in Seq(Bundle))
  BY <1>a, <1>2, <1>3, UnderWay, CallIn, CallKinds DEF SyncCall
<1>5. /\ Made' = Made /\ \A n : Born(n)' <=> Born(n)
      /\ \A m : Done(m)' <=> Done(m)
      /\ \A x : Sent(x)' <=> Sent(x)
      /\ \A x : Replied(x)' <=> Replied(x)
  BY <1>1, Unmoved
<1>6. \A x \in Under' : x \in Under
  <2> SUFFICES ASSUME NEW x \in Under', x \notin ghosts' PROVE x \in Under
    BY <1>1, <1>2, <1>4, UnderWay
  <2>1. PICK d, t : d \in Client /\ t \in Busy(d)' /\ x = calls'[d][t]
    BY DEF Under
  <2> QED BY <1>2, <1>3, <2>1, UnderWay
<1>7. /\ client'[c] = p
      /\ \A d \in Client : d # c => client'[d] = client[d]
  BY <1>1, <1>2
<1>8. p.pending = k.batch \o client[c].pending /\ k.kind = "sync" =>
        ToSet(p.pending) = ToSet(k.batch) \cup ToSet(client[c].pending)
  BY <1>2, <1>4, ConcatSet
<1>9. SentInv'
  <2>1. ASSUME NEW d \in Client PROVE ToSet(client'[d].pending) \subseteq Made
    BY <1>1, <1>4, <1>7, <1>8 DEF SafeInv, SentInv, Sent
  <2> QED BY <1>5, <1>6, <2>1 DEF SafeInv, SentInv
<1>10. RepliedInv'
  BY <1>5, <1>6 DEF SafeInv, RepliedInv
<1>11. BornInv'
  <2>1. ASSUME NEW d \in Client, NEW n \in NoteId, Has(d, n)' PROVE Born(n)
    BY <1>1, <1>4, <1>7, <2>1 DEF SafeInv, BornInv, Has
  <2> QED BY <1>5, <1>6, <2>1 DEF SafeInv, BornInv
<1>12. ReservedInv'
  <2>1. /\ \A n \in NoteId : \A x \in Under : Awaits(x, n) => ~Born(n)
        /\ \A n \in NoteId : \A x, h \in ghosts : Awaits(x, n) /\ Awaits(h, n) => x = h
        /\ \A n \in NoteId : \A d \in Client : \A t \in Busy(d) : Awaits(calls[d][t], n) =>
             /\ \A h \in ghosts : ~Awaits(h, n)
             /\ \A e \in Client : \A u \in Busy(e) : Awaits(calls[e][u], n) => e = d /\ u = t
    BY DEF SafeInv, ReservedInv
  <2>2. \A n \in NoteId : \A x \in Under' : Awaits(x, n) => ~Born(n)'
    BY <1>5, <1>6, <2>1
  <2>3. \A n \in NoteId : Awaits(k, n) => \A h \in ghosts : ~Awaits(h, n)
    BY <1>a, <1>3, <2>1
  <2>4. \A n \in NoteId : \A x, h \in ghosts' : Awaits(x, n) /\ Awaits(h, n) => x = h
    BY <1>1, <2>1, <2>3
  <2>5. ASSUME NEW n \in NoteId, NEW d \in Client, NEW t \in Busy(d)', Awaits(calls'[d][t], n)
        PROVE  /\ t \in Busy(d) /\ Awaits(calls[d][t], n) /\ ~Awaits(k, n)
    <3>1. t \in Busy(d) /\ calls'[d][t] = calls[d][t] /\ ~(d = c /\ t = s)
      BY <1>3
    <3> QED BY <1>a, <1>3, <2>1, <2>5, <3>1
  <2>6. ASSUME NEW n \in NoteId, NEW d \in Client, NEW t \in Busy(d)', Awaits(calls'[d][t], n)
        PROVE  /\ \A h \in ghosts' : ~Awaits(h, n)
               /\ \A e \in Client : \A u \in Busy(e)' : Awaits(calls'[e][u], n) => e = d /\ u = t
    <3>1. \A h \in ghosts : ~Awaits(h, n)
      BY <2>1, <2>5, <2>6
    <3>2. \A h \in ghosts' : ~Awaits(h, n)
      BY <1>1, <2>5, <2>6, <3>1
    <3> QED BY <2>1, <2>5, <2>6, <3>2
  <2> QED BY <2>2, <2>4, <2>6 DEF ReservedInv
<1>13. CarriedInv'
  <2> SUFFICES ASSUME NEW e \in made PROVE Done(e.m)' \/ Carried(e)'
    BY <1>1 DEF CarriedInv
  <2>1. e.by \in Client /\ (Done(e.m) \/ Carried(e))
    BY <1>2 DEF SafeInv, CarriedInv, TypeInv
  <2>2. CASE e.m \in ToSet(client[e.by].pending)
    BY <1>1, <1>7, <1>8, <2>1, <2>2 DEF Carried
  <2>3. ASSUME NEW t \in Busy(e.by), calls[e.by][t].kind = "sync", e.m \in ToSet(calls[e.by][t].batch)
        PROVE  Done(e.m)' \/ Carried(e)'
    <3>1. CASE e.by = c /\ t = s
      <4>1. k.kind = "sync" /\ e.m \in ToSet(k.batch)
        BY <1>a, <2>3, <3>1
      <4>2. CASE k.reply # NoReply /\ k.reply.ok
        BY <1>4, <1>5, <4>1, <4>2 DEF SafeInv, RepliedInv, Replied
      <4>3. CASE p.pending = k.batch \o client[c].pending
        BY <1>7, <1>8, <3>1, <4>1, <4>3 DEF Carried
      <4> QED BY <1>1, <4>1, <4>2, <4>3
    <3>2. CASE ~(e.by = c /\ t = s)
      <4>1. t \in Busy(e.by)'
        BY <1>3, <2>1, <2>3, <3>2
      <4>2. calls'[e.by][t] = calls[e.by][t]
        BY <1>3, <2>1, <4>1
      <4> QED BY <2>3, <4>1, <4>2 DEF Carried
    <3> QED BY <3>1, <3>2
  <2> QED BY <1>5, <2>1, <2>2, <2>3 DEF Carried
<1> QED BY <1>9, <1>10, <1>11, <1>12, <1>13 DEF SafeInv

LEMMA SafePasses ==
  ASSUME SafeInv, Passes, TypeInv'
  PROVE  SafeInv'
<1>1. Rearmed /\ UNCHANGED <<plan, db, calls, ghosts, made, purged>>
  BY DEF Passes
<1>2. /\ Made' = Made /\ \A n : Born(n)' <=> Born(n)
      /\ \A m : Done(m)' <=> Done(m)
      /\ \A x : Sent(x)' <=> Sent(x)
      /\ \A x : Replied(x)' <=> Replied(x)
  BY <1>1, Unmoved
<1>3. /\ \A d \in Client : Busy(d)' = Busy(d)
      /\ Under' = Under
  BY <1>1 DEF Busy, Under
<1>4. /\ \A d \in Client : client'[d].pending = client[d].pending
      /\ \A d \in Client : \A n \in NoteId : Has(d, n)' <=> Has(d, n)
  BY <1>1 DEF Rearmed, Has
<1>5. SentInv' /\ RepliedInv' /\ BornInv'
  BY <1>2, <1>3, <1>4 DEF SafeInv, SentInv, RepliedInv, BornInv
<1>6. ReservedInv'
  BY <1>1, <1>2, <1>3 DEF SafeInv, ReservedInv
<1>7. CarriedInv'
  <2> SUFFICES ASSUME NEW e \in made PROVE Done(e.m)' \/ Carried(e)'
    BY <1>1 DEF CarriedInv
  <2>1. e.by \in Client /\ (Done(e.m) \/ Carried(e))
    BY DEF SafeInv, CarriedInv, TypeInv
  <2> QED BY <1>1, <1>2, <1>3, <1>4, <2>1 DEF Carried
<1> QED BY <1>5, <1>6, <1>7 DEF SafeInv

LEMMA SafeInit ==
  ASSUME SInit
  PROVE  SafeInv
<1>1. TypeInv
  BY TypeInit
<1>2. made = {} /\ ghosts = {} /\ purged = {}
  BY DEF SInit
<1>3. \A k \in Under : k = List
  <2>1. \A k \in Under : \E c \in Client : \E s \in Busy(c) : k = calls[c][s]
    BY <1>2 DEF Under
  <2> QED BY <2>1, StartCalls
<1>4. \A c \in Client : client[c].pending = <<>>
  BY DEF SInit
<1>5. ASSUME NEW c \in Client, NEW n \in NoteId, Has(c, n) PROVE db.notes[n] # NoRow
  <2>1. client[c].notes = Authoritative(IF c \in plan.fresh THEN EmptyDB ELSE db).notes
    BY DEF SInit
  <2>2. db \in Database
    BY <1>1 DEF TypeInv, GoodDB
  <2>3. CASE c \in plan.fresh
    <3>1. client[c].notes = Authoritative(EmptyDB).notes
      BY <2>1, <2>3
    <3>2. EmptyDB.notes[n] # NoRow
      BY <1>5, <3>1, EmptyType, AuthoritativeType DEF Has
    <3> QED BY <3>2 DEF EmptyDB
  <2>4. CASE c \notin plan.fresh
    BY <1>5, <2>1, <2>2, <2>4, AuthoritativeType DEF Has
  <2> QED BY <2>3, <2>4
<1>6. List.kind = "list" /\ List.got = NoReply /\ List.reply = NoReply
  BY DEF List
<1>7. ToSet(<<>>) = {}
  BY DEF ToSet
<1>8. SentInv
  BY <1>3, <1>4, <1>6, <1>7 DEF SentInv, Sent
<1>9. RepliedInv
  BY <1>3, <1>6 DEF RepliedInv, Replied
<1>10. BornInv
  BY <1>3, <1>5, <1>6 DEF BornInv, Born, Mentions
<1>11. ReservedInv
  <2>1. \A n : ~Awaits(List, n)
    BY <1>6 DEF Awaits
  <2> QED BY <1>2, <1>3, <2>1, StartCalls DEF ReservedInv
<1>12. CarriedInv
  BY <1>2 DEF CarriedInv
<1> QED BY <1>1, <1>8, <1>9, <1>10, <1>11, <1>12 DEF SafeInv

LEMMA SafeStep ==
  ASSUME SafeInv, [SNext]_svars
  PROVE  SafeInv'
<1>1. TypeInv /\ StepShapes /\ TypeInv'
  BY StepShape, TypeStep DEF SafeInv
<1>2. ASSUME NEW c \in Client, NEW k, NEW new, UserStep(c, k, new) PROVE SafeInv'
  BY <1>1, <1>2, SafeUser
<1>3. ASSUME NEW c \in Client, NEW s, NEW k, NEW g, NEW p, Asks(c, s, k, g, p) PROVE SafeInv'
  BY <1>1, <1>3, SafeAsks
<1>4. ASSUME NEW c \in Client, NEW s, NEW g, NEW o, Answers(c, s, g, o) PROVE SafeInv'
  BY <1>1, <1>4, SafeAnswer
<1>5. ASSUME NEW g, NEW o, AnswersGhost(g, o) PROVE SafeInv'
  BY <1>1, <1>5, SafeGhost
<1>6. ASSUME NEW c \in Client, NEW s, NEW k, NEW g, Reads(c, s, k, g) PROVE SafeInv'
  BY <1>1, <1>6, SafeReads
<1>7. ASSUME NEW c \in Client, NEW s, NEW g, NEW p, Ends(c, s, g, p) PROVE SafeInv'
  BY <1>1, <1>7, SafeEnds
<1>8. ASSUME Passes PROVE SafeInv'
  BY <1>1, <1>8, SafePasses
<1> QED BY <1>1, <1>2, <1>3, <1>4, <1>5, <1>6, <1>7, <1>8 DEF StepShapes

LEMMA SafeGives ==
  ASSUME SafeInv
  PROVE  NoEditLost
<1>1. \A m : Done(m) => Absorbed(m) \/ Moot(m)
  BY DEF Done, Absorbs, Absorbed, MootIn, Moot
<1> QED BY <1>1 DEF SafeInv, CarriedInv, Carried, NoEditLost

\* syncNow's catch, "so they aren't silently lost": whatever calls fail, overtake one
\* another or reach the server after all, an edit is in its tab's queue or in a call the
\* tab awaits until the server holds it or has no more use for it.
THEOREM EditsAreKept == SSpec => []NoEditLost
<1>1. SInit => SafeInv
  BY SafeInit
<1>2. SafeInv /\ [SNext]_svars => SafeInv'
  BY SafeStep
<1>3. SafeInv => NoEditLost
  BY SafeGives
<1> QED BY <1>1, <1>2, <1>3, PTL DEF SSpec

------------------------------------------------------------------------------
(* The order of stamps. *)

\* The first stamp of all that read wall time w.
Dawn(w) == Rank([wall |-> w, ctr |-> 0, dev |-> 0])

LEMMA TimesMono ==
  ASSUME NEW a \in Nat, NEW b \in Nat, NEW n \in Nat, a <= b
  PROVE  a * n <= b * n /\ a * n \in Nat /\ b * n \in Nat
<1>1. PICK d \in Nat : d = b - a
  OBVIOUS
<1>2. d * n \in Nat /\ a * n \in Nat
  OBVIOUS
<1>3. (a + d) * n = a * n + d * n
  OBVIOUS
<1>4. b = a + d
  BY <1>1
<1>5. b * n = a * n + d * n
  BY <1>3, <1>4
<1> QED BY <1>2, <1>5

\* A device exists.
LEMMA DawnType ==
  /\ \A w \in Nat : Dawn(w) \in Nat /\ 0 < Dawn(w)
  /\ \A w, v \in Nat : w <= v => Dawn(w) <= Dawn(v)
<1> DEFINE L == H!CtrLimit
           N == Cardinality(Client)
<1>1. L \in Nat /\ N \in Nat
  BY SyncSystemAssumption, FS_CardinalityType
<1>2. ASSUME NEW w \in Nat PROVE Dawn(w) = (w * L) * N + 1 /\ w * L \in Nat /\ (w * L) * N \in Nat
  <2>1. w * L \in Nat /\ (w * L) * N \in Nat
    BY <1>1, TimesMono
  <2>2. Dawn(w) = (w * L + 0) * N + 0 + 1
    BY DEF Dawn, Rank
  <2>3. w * L + 0 = w * L
    BY <2>1
  <2> QED BY <2>1, <2>2, <2>3
<1> HIDE DEF L, N
<1>3. ASSUME NEW w \in Nat, NEW v \in Nat, w <= v PROVE Dawn(w) <= Dawn(v)
  <2>1. w * L <= v * L
    BY <1>1, <1>3, TimesMono
  <2>2. (w * L) * N <= (v * L) * N
    BY <1>1, <1>2, <2>1, TimesMono
  <2> QED BY <1>2, <2>2
<1>4. \A w \in Nat : Dawn(w) \in Nat /\ 0 < Dawn(w)
  <2> TAKE w \in Nat
  <2>1. PICK x \in Nat : Dawn(w) = x + 1
    BY <1>2
  <2> QED BY <2>1
<1> QED BY <1>3, <1>4

\* While its counter fits its digits, a stamp lies within its wall time.
LEMMA RankWithin ==
  ASSUME NEW k \in H!Clock, k.ctr < H!CtrLimit
  PROVE  Dawn(k.wall) <= Rank(k) /\ Rank(k) < Dawn(k.wall + 1) /\ Rank(k) \in Nat
<1> DEFINE L == H!CtrLimit
           N == Cardinality(Client)
<1>1. L \in Nat /\ N \in Nat /\ k.wall \in Nat /\ k.ctr \in Nat /\ k.dev \in 0 .. N - 1
  BY SyncSystemAssumption, FS_CardinalityType DEF H!Clock
<1>2. Rank(k) = (k.wall * L + k.ctr) * N + k.dev + 1
  BY DEF Rank
<1>3. Dawn(k.wall) = (k.wall * L + 0) * N + 0 + 1
  BY DEF Dawn, Rank
<1>4. Dawn(k.wall + 1) = ((k.wall + 1) * L + 0) * N + 0 + 1
  BY DEF Dawn, Rank
<1>5. k.ctr < L
  OBVIOUS
<1> HIDE DEF L, N
<1>6. PICK x \in Nat : x = k.wall * L
  BY <1>1, TimesMono
<1>7. (k.wall + 1) * L = x + L
  BY <1>1, <1>6
<1> DEFINE y == x + k.ctr
<1>8. y \in Nat /\ x <= y /\ y + 1 <= x + L /\ x + L \in Nat
  BY <1>1, <1>5
<1> HIDE DEF y
<1>9. x * N <= y * N /\ (y + 1) * N <= (x + L) * N /\ x * N \in Nat /\ y * N \in Nat /\ (x + L) * N \in Nat
  BY <1>1, <1>6, <1>8, TimesMono
<1>10. (y + 1) * N = y * N + N
  BY <1>1, <1>8
<1>11. Rank(k) = y * N + k.dev + 1
  BY <1>2, <1>6 DEF y
<1>12. Dawn(k.wall) = x * N + 1
  <2>1. x + 0 = x
    OBVIOUS
  <2> QED BY <1>3, <1>6, <1>9, <2>1
<1>13. Dawn(k.wall + 1) = (x + L) * N + 1
  <2>1. (x + L) + 0 = x + L
    BY <1>8
  <2> QED BY <1>4, <1>7, <1>9, <2>1
<1>14. PICK a \in Nat, b \in Nat, d \in Nat :
         /\ a = x * N /\ b = y * N /\ d = (x + L) * N /\ a <= b /\ b + N <= d
  BY <1>9, <1>10
<1> QED BY <1>1, <1>11, <1>12, <1>13, <1>14

\* The stamps an operation draws are not before its tab's wall time, and before the next.
LEMMA StampsWithin ==
  ASSUME TypeInv, NEW c \in Client, NEW k, NEW new, UserStep(c, k, new), TypeInv'
  PROVE  \A j \in 1 .. Len(new) : /\ Dawn(now + Skew[c]) <= new[j].hlc
                                  /\ new[j].hlc < Dawn(now + 1 + Skew[c])
<1> SUFFICES ASSUME NEW j \in 1 .. Len(new)
             PROVE  Dawn(now + Skew[c]) <= new[j].hlc /\ new[j].hlc < Dawn(now + 1 + Skew[c])
  OBVIOUS
<1>1. /\ new[j].hlc = Stamps(c)[j - 1] /\ Len(new) \in 1 .. 4
      /\ k.clock = [First(c) EXCEPT !.ctr = @ + Len(new) - 1]
      /\ client' = [client EXCEPT ![c] = k] /\ now' = now
  BY DEF UserStep
<1>2. client[c] \in Tab /\ now \in Nat /\ Skew[c] \in Nat /\ client \in [Client -> Tab]
  BY TabNow, SyncSystemAssumption DEF TypeInv
<1>3. First(c) \in H!Clock /\ First(c).wall >= now + Skew[c]
  <2>1. client[c].clock.wall \in Nat
    BY <1>2 DEF Tab, H!Clock
  <2>2. First(c).wall = IF now + Skew[c] <= client[c].clock.wall THEN client[c].clock.wall
                        ELSE now + Skew[c]
    BY DEF First, H!Next, Wall
  <2> QED BY <1>2, <2>1, <2>2, FirstType
<1> DEFINE t == [First(c) EXCEPT !.ctr = @ + (j - 1)]
<1>4. PICK L \in 1 .. 4 : L = Len(new)
  BY <1>1
<1>5. j \in 1 .. L /\ j - 1 \in 0 .. 3
  BY <1>4
<1>6. First(c).wall \in Nat /\ First(c).ctr \in Nat
  BY <1>3 DEF H!Clock
<1>7. t \in H!Clock /\ t.wall = First(c).wall /\ t.ctr = First(c).ctr + (j - 1)
  BY <1>3, <1>5, <1>6 DEF H!Clock
<1>8. new[j].hlc = Rank(t)
  BY <1>1, <1>5 DEF Stamps
<1> HIDE DEF t
<1>9. k.clock.ctr = First(c).ctr + L - 1 /\ k.clock.wall = First(c).wall /\ client'[c] = k
  BY <1>1, <1>2, <1>3, <1>4 DEF H!Clock
<1>10. client'[c].clock.ctr < H!CtrLimit /\ client'[c].clock.wall <= now + Skew[c]
  <2>1. /\ Edits(c)' \in 0 .. plan'.edits /\ ClockOK(c)' /\ plan' \in Plans
    BY DEF TypeInv, EditsOK
  <2>2. plan'.edits \in Nat /\ 4 * plan'.edits <= H!CtrLimit /\ H!CtrLimit \in Nat \ {0}
    BY <2>1, PlansAssumption, SyncSystemAssumption DEF PlanOK
  <2>3. client'[c].clock.ctr \in Nat
    BY <1>3, <1>4, <1>6, <1>9
  <2>4. client'[c].clock.ctr = 0 \/ client'[c].clock.ctr < 4 * Edits(c)'
    BY <2>1 DEF ClockOK
  <2>5. client'[c].clock.wall <= now + Skew[c]
    BY <1>1, <2>1 DEF ClockOK
  <2> QED BY <2>1, <2>2, <2>3, <2>4, <2>5
<1>11. H!CtrLimit \in Nat
  BY SyncSystemAssumption
<1>12. t.ctr < H!CtrLimit
  BY <1>5, <1>6, <1>7, <1>9, <1>10, <1>11
<1>13. t.wall = now + Skew[c]
  BY <1>2, <1>3, <1>6, <1>7, <1>9, <1>10
<1>14. Dawn(t.wall) <= Rank(t) /\ Rank(t) < Dawn(t.wall + 1)
  BY <1>7, <1>12, RankWithin
<1>15. now + Skew[c] + 1 = now + 1 + Skew[c]
  BY <1>2
<1> QED BY <1>8, <1>13, <1>14, <1>15

------------------------------------------------------------------------------
(* Edits win over what had arrived. *)

\* Every device's clock is ahead of any other's by less than a mutation takes to arrive.
Lag == \A c, d \in Client : Skew[d] < Skew[c] + MinDelay

\* A batch of tab c left it no later than t, stamped before the wall time after that.
Fresh(k, c, t) == k.kind = "sync" => \A m \in ToSet(k.batch) :
  k.at <= t /\ m.hlc < Dawn(k.at + 1 + Skew[c])

\* While users act: the server holds nothing stamped as late as any device's wall time.
EarlyInv ==
  /\ TypeInv
  /\ \A c \in Client : \A m \in ToSet(client[c].pending) : m.hlc < Dawn(now + 1 + Skew[c])
  /\ \A c \in Client : \A s \in Busy(c) : Fresh(calls[c][s], c, now)
  /\ \A g \in ghosts : \E c \in Client : Fresh(g, c, now)
  /\ now < MaxTime => \A c \in Client : Early(db, Dawn(now + Skew[c]))

LEMMA EarlyLater ==
  ASSUME NEW d, GoodDB(d), NEW a \in Nat, NEW b \in Nat, a <= b, Early(d, a)
  PROVE  Early(d, b)
<1>1. d.notes \in [NoteId -> NoteRow \cup {NoRow}] /\ d.items \in [ItemId -> ItemRow \cup {NoRow}]
      /\ d.links \in [NoteId \X LabelId -> LinkRow \cup {NoRow}]
  BY DEF GoodDB, Database
<1>2. ASSUME NEW T, NEW K, NEW F, NEW Row, T \in [K -> Row \cup {NoRow}],
             \A r \in Row : r.clk \in [F -> Nat], Older(T, K, F, a)
      PROVE  Older(T, K, F, b)
  <2> SUFFICES ASSUME NEW x \in K, T[x] # NoRow, NEW f \in F PROVE T[x].clk[f] < b
    BY DEF Older
  <2>1. T[x] \in Row /\ T[x].clk[f] \in Nat /\ T[x].clk[f] < a
    BY <1>2 DEF Older
  <2> QED BY <2>1
<1>3. Older(d.notes, NoteId, NoteField, b)
  BY <1>1, <1>2, Rows DEF Early
<1>4. Older(d.items, ItemId, ItemField, b)
  BY <1>1, <1>2, Rows DEF Early
<1>5. Older(d.links, NoteId \X LabelId, LinkField, b)
  BY <1>1, <1>2, Rows DEF Early
<1> QED BY <1>3, <1>4, <1>5 DEF Early

LEMMA EarlyServed ==
  ASSUME Lag, EarlyInv, NEW k \in SomeCall, NEW o, Serves(k, o), NEW c \in Client, Fresh(k, c, now)
  PROVE  now' < MaxTime => \A d \in Client : Early(db', Dawn(now' + Skew[d]))
<1> SUFFICES ASSUME now < MaxTime, NEW d \in Client
             PROVE  Early(db', Dawn(now + Skew[d]))
  BY DEF Serves
<1>1. TypeInv /\ Early(db, Dawn(now + Skew[d])) /\ now \in Nat /\ MaxTime \in Nat /\ MinDelay \in Nat
      /\ Skew[c] \in Nat /\ Skew[d] \in Nat
  BY SyncSystemAssumption DEF EarlyInv, TypeInv
<1>2. Served(k, o, purged') /\ db' = o.db
  BY <1>1, ServesType
<1>3. now >= k.at + MinDelay
  BY <1>1 DEF Serves, Arrived
<1> DEFINE s == Dawn(now + Skew[d])
<1>4. s \in Nat /\ 0 < s
  BY <1>1, DawnType
<1>5. ASSUME k.kind = "sync", NEW m \in ToSet(k.batch) PROVE m.hlc < s
  <2>1. k.at \in Nat /\ k.batch \in Seq(Bundle)
    BY <1>5, CallKinds DEF SyncCall
  <2>2. m \in Bundle
    BY <1>5, <2>1, InSeq
  <2>3. m.hlc \in Nat
    BY <2>2, RowIsAbout
  <2>4. m.hlc < Dawn(k.at + 1 + Skew[c])
    BY <1>5 DEF Fresh
  <2>5. Skew[c] < Skew[d] + MinDelay
    BY DEF Lag
  <2>6. k.at + 1 + Skew[c] \in Nat /\ now + Skew[d] \in Nat /\ k.at + 1 + Skew[c] <= now + Skew[d]
    <3>1. \A t, u, v, w, z \in Nat : z >= t + w /\ u < v + w => t + 1 + u <= z + v
      OBVIOUS
    <3>2. {k.at, Skew[c], Skew[d], MinDelay, now} \subseteq Nat
      BY <1>1, <2>1
    <3> QED BY <1>3, <2>5, <3>1, <3>2
  <2>7. Dawn(k.at + 1 + Skew[c]) <= s /\ Dawn(k.at + 1 + Skew[c]) \in Nat
    BY <2>6, DawnType
  <2> HIDE DEF s
  <2> QED BY <1>4, <2>3, <2>4, <2>7
<1>6. Early(db, s)
  BY <1>1
<1> HIDE DEF s
<1>7. Early(o.db, s)
  BY <1>2, <1>4, <1>5, <1>6 DEF Served
<1> QED BY <1>2, <1>7 DEF s

\* A call stays fresh.
LEMMA FreshOn ==
  ASSUME NEW k \in SomeCall, NEW c \in Client, NEW t \in Nat, NEW u \in Nat, t <= u, Fresh(k, c, t)
  PROVE  Fresh(k, c, u)
<1>1. ASSUME k.kind = "sync" PROVE k.at \in Nat
  BY <1>1, CallKinds DEF SyncCall
<1>2. ASSUME k.kind = "sync", NEW m \in ToSet(k.batch)
      PROVE  k.at <= u /\ m.hlc < Dawn(k.at + 1 + Skew[c])
  <2>1. k.at <= t /\ m.hlc < Dawn(k.at + 1 + Skew[c])
    BY <1>2 DEF Fresh
  <2> QED BY <1>1, <1>2, <2>1
<1> QED BY <1>2 DEF Fresh

\* Stamps of bundles under a later bound.
LEMMA BeforeLater ==
  ASSUME NEW m \in Bundle, NEW a \in Nat, NEW b \in Nat, a <= b, m.hlc < Dawn(a)
  PROVE  m.hlc < Dawn(b)
<1>1. m.hlc \in Nat /\ Dawn(a) \in Nat /\ Dawn(b) \in Nat /\ Dawn(a) <= Dawn(b)
  BY RowIsAbout, DawnType
<1> QED BY <1>1

LEMMA EarlyUser ==
  ASSUME EarlyInv, NEW c \in Client, NEW k, NEW new, UserStep(c, k, new), TypeInv'
  PROVE  EarlyInv'
<1>1. /\ new \in Seq(Bundle) /\ k.pending = client[c].pending \o new
      /\ client' = [client EXCEPT ![c] = k]
      /\ UNCHANGED <<plan, db, calls, ghosts, now>>
  BY DEF UserStep
<1>2. TypeInv /\ client \in [Client -> Tab] /\ client[c].pending \in Seq(Bundle)
  BY TabNow DEF EarlyInv, TypeInv, Tab
<1>3. ASSUME NEW d \in Client, NEW m \in ToSet(client'[d].pending)
      PROVE  m.hlc < Dawn(now + 1 + Skew[d])
  <2>1. CASE d = c
    <3>1. m \in ToSet(client[c].pending) \cup ToSet(new)
      BY <1>1, <1>2, <1>3, <2>1, ConcatSet
    <3>2. CASE m \in ToSet(new)
      BY <1>1, <1>2, <2>1, <3>2, InSeq, StampsWithin
    <3> QED BY <2>1, <3>1, <3>2 DEF EarlyInv
  <2>2. CASE d # c
    BY <1>1, <1>2, <1>3, <2>2 DEF EarlyInv
  <2> QED BY <2>1, <2>2
<1>4. \A d \in Client : \A s \in Busy(d)' : Fresh(calls'[d][s], d, now)
  BY <1>1 DEF EarlyInv, Busy, Fresh
<1>5. \A g \in ghosts' : \E d \in Client : Fresh(g, d, now)
  BY <1>1 DEF EarlyInv, Fresh
<1>6. now' < MaxTime => \A d \in Client : Early(db', Dawn(now' + Skew[d]))
  BY <1>1 DEF EarlyInv
<1> QED BY <1>1, <1>3, <1>4, <1>5, <1>6 DEF EarlyInv

LEMMA EarlyAsks ==
  ASSUME EarlyInv, NEW c \in Client, NEW s, NEW k, NEW g, NEW p, Asks(c, s, k, g, p), TypeInv'
  PROVE  EarlyInv'
<1>1. /\ Placed(calls[c], g, s, k) /\ calls' = [calls EXCEPT ![c] = g]
      /\ k \in SomeCall /\ client' = [client EXCEPT ![c] = p]
      /\ IF k.kind = "sync"
         THEN p.pending = <<>> /\ k.batch = client[c].pending /\ (k.batch # <<>> => k.at = now)
         ELSE p.pending = client[c].pending
      /\ UNCHANGED <<plan, db, ghosts, now>>
  BY DEF Asks
<1>2. TypeInv /\ client \in [Client -> Tab] /\ calls \in [Client -> Desk] /\ now \in Nat
  BY DEF EarlyInv, TypeInv
<1>3. /\ calls' \in [Client -> Desk] /\ s \notin Busy(c) /\ s \in Busy(c)' /\ calls'[c][s] = k
      /\ \A d \in Client : \A t \in Busy(d)' :
           \/ t \in Busy(d) /\ calls'[d][t] = calls[d][t]
           \/ d = c /\ t = s
      /\ \A d \in Client : \A t \in Busy(d) : t \in Busy(d)' /\ calls'[d][t] = calls[d][t]
  <2>1. Placed(calls[c], g, s, k) /\ calls' = [calls EXCEPT ![c] = g] /\ calls \in [Client -> Desk]
    BY <1>1, <1>2
  <2> QED BY <2>1, PlacedCalls, Zenon
<1>4. ToSet(<<>>) = {}
  BY DEF ToSet
<1>5. Fresh(k, c, now)
  <2> SUFFICES ASSUME k.kind = "sync", NEW m \in ToSet(k.batch)
               PROVE  k.at <= now /\ m.hlc < Dawn(k.at + 1 + Skew[c])
    BY DEF Fresh
  <2>1. k.batch # <<>>
    BY <1>4
  <2>2. k.at = now /\ m \in ToSet(client[c].pending)
    BY <1>1, <2>1
  <2> QED BY <1>2, <2>2 DEF EarlyInv
<1>6. ASSUME NEW d \in Client, NEW m \in ToSet(client'[d].pending)
      PROVE  m \in ToSet(client[d].pending)
  BY <1>1, <1>2, <1>4, <1>6
<1>7. \A d \in Client : \A m \in ToSet(client'[d].pending) : m.hlc < Dawn(now + 1 + Skew[d])
  BY <1>6 DEF EarlyInv
<1>9. ASSUME NEW d \in Client, NEW t \in Busy(d)' PROVE Fresh(calls'[d][t], d, now)
  BY <1>3, <1>5 DEF EarlyInv
<1>10. /\ \A x \in ghosts' : \E d \in Client : Fresh(x, d, now)
       /\ now' < MaxTime => \A d \in Client : Early(db', Dawn(now' + Skew[d]))
  BY <1>1 DEF EarlyInv
<1> QED BY <1>1, <1>7, <1>9, <1>10 DEF EarlyInv

LEMMA EarlyAnswers ==
  ASSUME Lag, EarlyInv, TypeInv'
  PROVE  /\ \A c \in Client : \A s, g, o : Answers(c, s, g, o) => EarlyInv'
         /\ \A g, o : AnswersGhost(g, o) => EarlyInv'
<1>1. TypeInv /\ calls \in [Client -> Desk]
  BY DEF EarlyInv, TypeInv
<1>2. ASSUME NEW k, NEW o, Serves(k, o)
      PROVE  /\ \A c \in Client : \A m \in ToSet(client'[c].pending) :
                  m.hlc < Dawn(now' + 1 + Skew[c])
             /\ now' = now
  BY <1>2 DEF Serves, Rearmed, EarlyInv
<1>3. ASSUME NEW c \in Client, NEW s, NEW g, NEW o, Answers(c, s, g, o) PROVE EarlyInv'
  <2> DEFINE q == [calls[c][s] EXCEPT !.reply = o.reply]
  <2>1. /\ Changed(calls[c], g, s, q) /\ calls' = [calls EXCEPT ![c] = g]
        /\ Serves(calls[c][s], o) /\ ghosts' = ghosts
    BY <1>3 DEF Answers
  <2>2. q.kind = "sync" => calls[c][s].kind = "sync" /\ q.at = calls[c][s].at /\ q.batch = calls[c][s].batch
    <3>1. s \in Busy(c)
      BY <2>1 DEF Changed, Busy
    <3>2. calls[c][s] \in SomeCall
      BY <1>1, <3>1, CallIn
    <3> QED BY <3>2, CallKinds DEF SomeCall, SyncCall, ListCall, PurgeCall, AudioCall, LabelCall
  <2> HIDE DEF q
  <2>3. /\ s \in Busy(c) /\ calls'[c][s] = q
        /\ \A d \in Client : \A t : t \in Busy(d)' <=> t \in Busy(d)
        /\ \A d \in Client : \A t \in Busy(d) : calls'[d][t] = calls[d][t] \/ (d = c /\ t = s)
    BY <1>1, <2>1, ChangedCalls
  <2>4. calls[c][s] \in SomeCall /\ Fresh(calls[c][s], c, now)
    BY <1>1, <2>3, CallIn DEF EarlyInv
  <2>5. Fresh(q, c, now)
    BY <2>2, <2>4 DEF Fresh
  <2>6. now' < MaxTime => \A d \in Client : Early(db', Dawn(now' + Skew[d]))
    BY <2>1, <2>4, EarlyServed
  <2>7. ASSUME NEW d \in Client, NEW t \in Busy(d)' PROVE Fresh(calls'[d][t], d, now)
    BY <2>3, <2>5 DEF EarlyInv
  <2>8. \A x \in ghosts' : \E d \in Client : Fresh(x, d, now)
    BY <2>1 DEF EarlyInv
  <2>9. /\ \A d \in Client : \A m \in ToSet(client'[d].pending) : m.hlc < Dawn(now' + 1 + Skew[d])
        /\ now' = now
    BY <1>2, <2>1
  <2> QED BY <2>6, <2>7, <2>8, <2>9 DEF EarlyInv
<1>4. ASSUME NEW g, NEW o, AnswersGhost(g, o) PROVE EarlyInv'
  <2>1. g \in ghosts /\ Serves(g, o) /\ ghosts' = ghosts \ {g} /\ calls' = calls
    BY <1>4 DEF AnswersGhost
  <2>2. PICK c \in Client : Fresh(g, c, now)
    BY <2>1 DEF EarlyInv
  <2>3. g \in SomeCall
    BY <1>1, <2>1 DEF TypeInv
  <2>4. now' < MaxTime => \A d \in Client : Early(db', Dawn(now' + Skew[d]))
    BY <2>1, <2>2, <2>3, EarlyServed
  <2>5. /\ \A d \in Client : \A m \in ToSet(client'[d].pending) : m.hlc < Dawn(now' + 1 + Skew[d])
        /\ now' = now
    BY <1>2, <2>1
  <2>6. /\ \A d \in Client : \A t \in Busy(d)' : Fresh(calls'[d][t], d, now)
        /\ \A x \in ghosts' : \E d \in Client : Fresh(x, d, now)
    BY <2>1 DEF EarlyInv, Busy
  <2> QED BY <2>4, <2>5, <2>6 DEF EarlyInv
<1> QED BY <1>3, <1>4

LEMMA EarlyReads ==
  ASSUME EarlyInv, NEW c \in Client, NEW s, NEW k, NEW g, Reads(c, s, k, g), TypeInv'
  PROVE  EarlyInv'
<1>1. /\ Changed(calls[c], g, s, k) /\ calls' = [calls EXCEPT ![c] = g]
      /\ k \in ListCall /\ UNCHANGED <<plan, db, client, ghosts, now>>
  BY DEF Reads
<1>2. calls \in [Client -> Desk] /\ k.kind = "list"
  BY <1>1 DEF EarlyInv, TypeInv, ListCall
<1>3. /\ calls'[c][s] = k
      /\ \A d \in Client : \A t : t \in Busy(d)' <=> t \in Busy(d)
      /\ \A d \in Client : \A t \in Busy(d) : calls'[d][t] = calls[d][t] \/ (d = c /\ t = s)
  BY <1>1, <1>2, ChangedCalls
<1>4. Fresh(k, c, now)
  BY <1>1, <1>2 DEF Fresh
<1>5. \A d \in Client : \A t \in Busy(d)' : Fresh(calls'[d][t], d, now)
  BY <1>3, <1>4 DEF EarlyInv
<1> QED BY <1>1, <1>4, <1>5 DEF EarlyInv

LEMMA EarlyEnds ==
  ASSUME EarlyInv, NEW c \in Client, NEW s, NEW g, NEW p, Ends(c, s, g, p), TypeInv'
  PROVE  EarlyInv'
<1>a. PICK k : k = calls[c][s]
  OBVIOUS
<1>1. /\ Removed(calls[c], g, s) /\ calls' = [calls EXCEPT ![c] = g]
      /\ client' = [client EXCEPT ![c] = p]
      /\ \/ p.pending = client[c].pending
         \/ p.pending = k.batch \o client[c].pending /\ k.kind = "sync"
      /\ ghosts' = ghosts \/ ghosts' = ghosts \cup {k}
      /\ UNCHANGED <<plan, db, now>>
  BY <1>a DEF Ends
<1>2. TypeInv /\ client \in [Client -> Tab] /\ calls \in [Client -> Desk]
      /\ client[c].pending \in Seq(Bundle) /\ now \in Nat /\ Skew[c] \in Nat
  BY TabNow, SyncSystemAssumption DEF EarlyInv, TypeInv, Tab
<1>3. /\ s \in Busy(c)
      /\ \A d \in Client : \A t \in Busy(d)' : t \in Busy(d) /\ calls'[d][t] = calls[d][t]
  BY <1>1, <1>2, RemovedCalls
<1>4. k \in SomeCall /\ Fresh(k, c, now)
  BY <1>a, <1>2, <1>3, CallIn DEF EarlyInv
<1>5. ASSUME k.kind = "sync", NEW m \in ToSet(k.batch) PROVE m.hlc < Dawn(now + 1 + Skew[c])
  <2>1. k.at \in Nat /\ k.batch \in Seq(Bundle)
    BY <1>4, <1>5, CallKinds DEF SyncCall
  <2>2. k.at <= now /\ m.hlc < Dawn(k.at + 1 + Skew[c]) /\ m \in Bundle
    BY <1>4, <1>5, <2>1, InSeq DEF Fresh
  <2>3. k.at + 1 + Skew[c] \in Nat /\ now + 1 + Skew[c] \in Nat
        /\ k.at + 1 + Skew[c] <= now + 1 + Skew[c]
    BY <1>2, <2>1, <2>2
  <2> QED BY <2>2, <2>3, BeforeLater
<1>6. ASSUME NEW d \in Client, NEW m \in ToSet(client'[d].pending)
      PROVE  m.hlc < Dawn(now + 1 + Skew[d])
  <2>1. CASE m \in ToSet(client[d].pending)
    BY <2>1 DEF EarlyInv
  <2>2. CASE m \notin ToSet(client[d].pending)
    <3>1. d = c /\ k.kind = "sync" /\ m \in ToSet(k.batch \o client[c].pending)
      BY <1>1, <1>2, <1>6, <2>2
    <3>2. k.batch \in Seq(Bundle)
      BY <1>4, <3>1, CallKinds DEF SyncCall
    <3>3. m \in ToSet(k.batch)
      BY <1>2, <2>2, <3>1, <3>2, ConcatSet
    <3> QED BY <1>5, <3>1, <3>3
  <2> QED BY <2>1, <2>2
<1>8. \A d \in Client : \A t \in Busy(d)' : Fresh(calls'[d][t], d, now)
  BY <1>3 DEF EarlyInv
<1>9. /\ \A x \in ghosts' : \E d \in Client : Fresh(x, d, now)
      /\ now' < MaxTime => \A d \in Client : Early(db', Dawn(now' + Skew[d]))
  BY <1>1, <1>4 DEF EarlyInv
<1> QED BY <1>1, <1>6, <1>8, <1>9 DEF EarlyInv

LEMMA EarlyPasses ==
  ASSUME EarlyInv, Passes, TypeInv'
  PROVE  EarlyInv'
<1>1. /\ Rearmed /\ (now' = now \/ (now' = now + 1 /\ now < MaxTime))
      /\ UNCHANGED <<plan, db, calls, ghosts>>
  BY DEF Passes
<1>2. TypeInv /\ now \in Nat /\ now' \in Nat /\ now <= now' /\ MaxTime \in Nat
  BY <1>1, SyncSystemAssumption DEF EarlyInv, TypeInv
<1>3. \A x \in SomeCall : \A d \in Client : Fresh(x, d, now) => Fresh(x, d, now')
  BY <1>2, FreshOn
<1>4. ASSUME NEW d \in Client, NEW m \in ToSet(client'[d].pending)
      PROVE  m.hlc < Dawn(now' + 1 + Skew[d])
  <2>1. client'[d].pending = client[d].pending /\ client[d].pending \in Seq(Bundle)
    <3>1. client[d] \in Tab
      BY <1>2, TabNow
    <3> QED BY <1>1, <3>1 DEF Rearmed, Tab
  <2>2. m \in Bundle /\ m.hlc < Dawn(now + 1 + Skew[d])
    BY <1>4, <2>1, InSeq DEF EarlyInv
  <2>3. now + 1 + Skew[d] \in Nat /\ now' + 1 + Skew[d] \in Nat
        /\ now + 1 + Skew[d] <= now' + 1 + Skew[d]
    BY <1>2, SyncSystemAssumption
  <2> QED BY <2>2, <2>3, BeforeLater
<1>5. ASSUME NEW d \in Client, NEW t \in Busy(d)' PROVE Fresh(calls'[d][t], d, now')
  <2>1. t \in Busy(d) /\ calls'[d][t] = calls[d][t] /\ calls[d][t] \in SomeCall
    BY <1>1, <1>2, CallIn DEF Busy
  <2> QED BY <1>3, <2>1 DEF EarlyInv
<1>6. \A x \in ghosts' : \E d \in Client : Fresh(x, d, now')
  BY <1>1, <1>2, <1>3 DEF EarlyInv, TypeInv
<1>7. ASSUME now' < MaxTime, NEW d \in Client PROVE Early(db', Dawn(now' + Skew[d]))
  <2>1. Early(db, Dawn(now + Skew[d])) /\ GoodDB(db)
    BY <1>2, <1>7 DEF EarlyInv, TypeInv
  <2>2. now + Skew[d] \in Nat /\ now' + Skew[d] \in Nat /\ now + Skew[d] <= now' + Skew[d]
    BY <1>2, SyncSystemAssumption
  <2>3. /\ Dawn(now + Skew[d]) \in Nat /\ Dawn(now' + Skew[d]) \in Nat
        /\ Dawn(now + Skew[d]) <= Dawn(now' + Skew[d])
    BY <2>2, DawnType
  <2> QED BY <1>1, <2>1, <2>3, EarlyLater
<1> QED BY <1>4, <1>5, <1>6, <1>7 DEF EarlyInv

LEMMA EarlyInit ==
  ASSUME SInit
  PROVE  EarlyInv
<1>1. TypeInv /\ ghosts = {} /\ now = 1 /\ plan \in Plans /\ db = StartDB(plan)
  BY TypeInit DEF SInit
<1>2. \A c \in Client : client[c].pending = <<>>
  BY DEF SInit
<1>3. ToSet(<<>>) = {}
  BY DEF ToSet
<1>4. List.kind # "sync"
  BY DEF List
<1>5. \A c \in Client : \A s \in Busy(c) : Fresh(calls[c][s], c, now)
  BY <1>4, StartCalls DEF Fresh
<1>6. ASSUME NEW c \in Client PROVE Early(db, Dawn(now + Skew[c]))
  <2>1. GoodDB(db) /\ Early(db, Dawn(1))
    BY <1>1, StartType DEF Dawn
  <2>2. now + Skew[c] \in Nat /\ 1 <= now + Skew[c]
    BY <1>1, SyncSystemAssumption
  <2>3. Dawn(1) \in Nat /\ Dawn(now + Skew[c]) \in Nat /\ Dawn(1) <= Dawn(now + Skew[c])
    BY <2>2, DawnType
  <2> QED BY <2>1, <2>3, EarlyLater
<1>7. \A c \in Client : \A m \in ToSet(client[c].pending) : m.hlc < Dawn(now + 1 + Skew[c])
  BY <1>2, <1>3
<1> QED BY <1>1, <1>5, <1>6, <1>7 DEF EarlyInv

LEMMA EarlyStep ==
  ASSUME Lag, EarlyInv, [SNext]_svars
  PROVE  EarlyInv'
<1>1. TypeInv /\ StepShapes /\ TypeInv'
  BY StepShape, TypeStep DEF EarlyInv
<1>2. ASSUME NEW c \in Client, NEW k, NEW new, UserStep(c, k, new) PROVE EarlyInv'
  BY <1>1, <1>2, EarlyUser
<1>3. ASSUME NEW c \in Client, NEW s, NEW k, NEW g, NEW p, Asks(c, s, k, g, p) PROVE EarlyInv'
  BY <1>1, <1>3, EarlyAsks
<1>4. ASSUME NEW c \in Client, NEW s, NEW g, NEW o, Answers(c, s, g, o) PROVE EarlyInv'
  BY <1>1, <1>4, EarlyAnswers
<1>5. ASSUME NEW g, NEW o, AnswersGhost(g, o) PROVE EarlyInv'
  BY <1>1, <1>5, EarlyAnswers
<1>6. ASSUME NEW c \in Client, NEW s, NEW k, NEW g, Reads(c, s, k, g) PROVE EarlyInv'
  BY <1>1, <1>6, EarlyReads
<1>7. ASSUME NEW c \in Client, NEW s, NEW g, NEW p, Ends(c, s, g, p) PROVE EarlyInv'
  BY <1>1, <1>7, EarlyEnds
<1>8. ASSUME Passes PROVE EarlyInv'
  BY <1>1, <1>8, EarlyPasses
<1> QED BY <1>1, <1>2, <1>3, <1>4, <1>5, <1>6, <1>7, <1>8 DEF StepShapes

\* A bundle stamped no earlier than s is accepted whole by a row written before s.
LEMMA WinsOver ==
  ASSUME NEW d \in Database, NEW m \in Bundle, NEW s \in Nat, Early(d, s), s <= m.hlc,
         RowOf(d, m) # NoRow
  PROVE  Accepted(RowOf(d, m), m) = DOMAIN m.set /\ ~Absorbs(d, m)
<1> DEFINE r == RowOf(d, m)
<1>1. m.hlc \in Nat
  BY RowIsAbout
<1>2. \A f \in DOMAIN m.set : r.clk[f] \in Nat /\ r.clk[f] < s
  <2>1. /\ d.notes \in [NoteId -> NoteRow \cup {NoRow}]
        /\ d.items \in [ItemId -> ItemRow \cup {NoRow}]
        /\ d.links \in [NoteId \X LabelId -> LinkRow \cup {NoRow}]
    BY DEF Database
  <2>2. CASE m.entity = "note"
    <3>1. r = d.notes[m.id] /\ m.id \in NoteId /\ DOMAIN m.set \subseteq NoteField
      BY <2>2, RowIsAbout DEF RowOf
    <3> HIDE DEF r
    <3>2. r \in NoteRow /\ \A f \in NoteField : r.clk[f] < s
      BY <2>1, <3>1 DEF Early, Older, r
    <3> QED BY <3>1, <3>2, Rows
  <2>3. CASE m.entity = "item"
    <3>1. r = d.items[m.id] /\ m.id \in ItemId /\ DOMAIN m.set \subseteq ItemField
      BY <2>3, RowIsAbout DEF RowOf
    <3> HIDE DEF r
    <3>2. r \in ItemRow /\ \A f \in ItemField : r.clk[f] < s
      BY <2>1, <3>1 DEF Early, Older, r
    <3> QED BY <3>1, <3>2, Rows
  <2>4. CASE m.entity = "note_label"
    <3>1. /\ r = d.links[<<m.note, m.label>>] /\ <<m.note, m.label>> \in NoteId \X LabelId
          /\ DOMAIN m.set \subseteq LinkField
      BY <2>4, RowIsAbout DEF RowOf
    <3> HIDE DEF r
    <3>2. r \in LinkRow /\ \A f \in LinkField : r.clk[f] < s
      BY <2>1, <3>1 DEF Early, Older, r
    <3> QED BY <3>1, <3>2, Rows
  <2> QED BY <2>2, <2>3, <2>4, RowIsAbout
<1> HIDE DEF r
<1>3. \A f \in DOMAIN m.set : m.hlc > r.clk[f] /\ ~(r.clk[f] >= m.hlc)
  BY <1>1, <1>2
<1>4. DOMAIN m.set # {}
  BY BundleKinds DEF IsNoteBundle, NoteSetOK, IsItemBundle, ItemSetOK, IsLinkBundle, LinkField
<1> QED BY <1>3, <1>4 DEF Accepted, Absorbs, r

LEMMA EditsWin ==
  ASSUME EarlyInv, SNext, TypeInv'
  PROVE  \A e \in made' \ made : RowOf(db, e.m) # NoRow => Accepted(RowOf(db, e.m), e.m) = DOMAIN e.m.set
<1> SUFFICES ASSUME NEW e \in made' \ made, RowOf(db, e.m) # NoRow
             PROVE  Accepted(RowOf(db, e.m), e.m) = DOMAIN e.m.set
  OBVIOUS
<1>1. TypeInv /\ StepShapes
  BY StepShape DEF EarlyInv
<1>2. PICK c, k, new : c \in Client /\ UserStep(c, k, new)
  <2>1. made' # made
    OBVIOUS
  <2>2. ASSUME NEW c, NEW s, NEW k, NEW g, NEW p PROVE ~Asks(c, s, k, g, p)
    BY <2>1 DEF Asks
  <2>3. ASSUME NEW c, NEW s, NEW g, NEW o PROVE ~Answers(c, s, g, o)
    BY <2>1 DEF Answers, Serves
  <2>4. ASSUME NEW g, NEW o PROVE ~AnswersGhost(g, o)
    BY <2>1 DEF AnswersGhost, Serves
  <2>5. ASSUME NEW c, NEW s, NEW k, NEW g PROVE ~Reads(c, s, k, g)
    BY <2>1 DEF Reads
  <2>6. ASSUME NEW c, NEW s, NEW g, NEW p PROVE ~Ends(c, s, g, p)
    BY <2>1 DEF Ends
  <2>7. ~Passes
    BY <2>1 DEF Passes
  <2> QED BY <1>1, <2>2, <2>3, <2>4, <2>5, <2>6, <2>7 DEF StepShapes
<1>3. PICK j \in 1 .. Len(new) : e = [by |-> c, op |-> Edits(c), m |-> new[j]]
  BY <1>2 DEF UserStep
<1>4. e.m = new[j] /\ new[j] \in Bundle /\ now < MaxTime
  BY <1>2, <1>3 DEF UserStep
<1>5. Dawn(now + Skew[c]) <= e.m.hlc
  BY <1>1, <1>2, <1>4, StampsWithin
<1>6. Early(db, Dawn(now + Skew[c])) /\ db \in Database
  BY <1>1, <1>2, <1>4 DEF EarlyInv, TypeInv, GoodDB
<1>7. Dawn(now + Skew[c]) \in Nat
  <2>1. now + Skew[c] \in Nat
    BY <1>1, <1>2, SyncSystemAssumption DEF TypeInv
  <2> QED BY <2>1, DawnType
<1> QED BY <1>4, <1>5, <1>6, <1>7, WinsOver

\* hlc.go:1-3, as far as it goes: while no device's clock is ahead of another's by as much
\* as a mutation takes to arrive, an edit of a row whose current state the tab has seen
\* replaces all it writes (hlc.next, the field clocks of Apply).
THEOREM EditsWinOverTheSeen == ASSUME Lag PROVE SSpec => EditsOfSeenWin
<1>1. SInit => EarlyInv
  BY EarlyInit
<1>2. EarlyInv /\ [SNext]_svars => EarlyInv'
  BY EarlyStep
<1>3. EarlyInv /\ EarlyInv' /\ [SNext]_svars =>
        [\A e \in made' \ made :
           LET r == RowOf(db, e.m) IN
           r # NoRow /\ r.seq <= client[e.by].cursor => Accepted(r, e.m) = DOMAIN e.m.set]_svars
  <2> SUFFICES ASSUME EarlyInv, EarlyInv', SNext
               PROVE  \A e \in made' \ made :
                        LET r == RowOf(db, e.m) IN
                        r # NoRow /\ r.seq <= client[e.by].cursor
                        => Accepted(r, e.m) = DOMAIN e.m.set
    OBVIOUS
  <2>1. TypeInv'
    BY DEF EarlyInv
  <2> QED BY <2>1, EditsWin
<1> QED BY <1>1, <1>2, <1>3, PTL DEF SSpec, EditsOfSeenWin
==============================================================================
