--------------------------- MODULE ConvergeProofs ---------------------------
(***************************************************************************)
(* Every tab converges: with nothing unsent and nothing under way, a tab   *)
(* that has the server's latest seq shows the server's state.              *)
(*                                                                         *)
(* Of each row of each table, a tab shows what the server has, or has yet  *)
(* to ask for it (the row is ahead of its cursor and of what its calls     *)
(* asked for), or carries an edit of it the server has not taken in.       *)
(***************************************************************************)
EXTENDS SyncSystemProofs

\* The three tables: their keys, a row, the note a row hangs from, and whether it is out
\* of account, its note in S (the purged ones) or its label deleted.
Tables == {"note", "item", "link"}
Keys(t) == CASE t = "note" -> NoteId [] t = "item" -> ItemId [] t = "link" -> NoteId \X LabelId
RowAt(d, t, x) == CASE t = "note" -> d.notes[x] [] t = "item" -> d.items[x]
                    [] t = "link" -> d.links[x]
Home(t, x) == CASE t = "note" -> x [] t = "item" -> NoteOf[x] [] t = "link" -> x[1]
Out(d, S, t, x) == Home(t, x) \in S \/ (t = "link" /\ d.labels[x[2]] = NoRow)

\* What a tab shows of a row, and what is shown of a key: by a tab, by a list's reply.
Face(t, r) == CASE t = "note" -> (IF r = NoRow THEN NoRow ELSE r.val)
                [] t = "item" -> (IF r = NoRow \/ r.val["deleted"] THEN NoRow ELSE r.val)
                [] t = "link" -> (IF r # NoRow /\ r.val["attached"] THEN 1 ELSE 0)
Sight(k, t, x) == CASE t = "note" -> k.notes[x] [] t = "item" -> k.items[x]
                    [] t = "link" -> (IF x \in k.links THEN 1 ELSE 0)

\* What the changes of a sync's reply make of it: nothing, or its face.
Entries(ch, t, x) ==
  CASE t = "note" -> {q.val : q \in {r \in ch.notes : r.id = x}}
    [] t = "item" -> {IF q.val["deleted"] THEN NoRow ELSE q.val : q \in {r \in ch.items : r.id = x}}
    [] t = "link" -> {IF q.attached THEN 1 ELSE 0 : q \in {r \in ch.links : r.pair = x}}

\* Bundle m is about the row.
About(m, t, x) == CASE t = "note" -> m.entity = "note" /\ m.id = x
                    [] t = "item" -> m.entity = "item" /\ m.id = x
                    [] t = "link" -> m.entity = "note_label" /\ <<m.note, m.label>> = x

------------------------------------------------------------------------------
(* What the server does to the rows. *)

\* A row written since seq q.
Since(r, q) == r # NoRow /\ r.seq > q

\* Every row of e is the row of d, was written since, or is out of account; no label is
\* new.
Moved(d, e, S) ==
  /\ \A t \in Tables : \A x \in Keys(t) :
       RowAt(e, t, x) = RowAt(d, t, x) \/ Since(RowAt(e, t, x), d.seq) \/ Out(e, S, t, x)
  /\ \A l \in LabelId : d.labels[l] = NoRow => e.labels[l] = NoRow

\* The foreign keys hold.
Hangs(d) ==
  /\ \A i \in ItemId : d.items[i] # NoRow => d.notes[NoteOf[i]] # NoRow
  /\ \A p \in NoteId \X LabelId :
       d.links[p] # NoRow => d.notes[p[1]] # NoRow /\ d.labels[p[2]] # NoRow

\* A merge that accepts nothing leaves the row as it is.
LEMMA MergeNothing ==
  ASSUME NEW r, r \in NoteRow \/ r \in ItemRow \/ r \in LinkRow, NEW m, NEW s,
         Accepted(r, m) = {}
  PROVE  Merge(r, m, s) = r
<1>1. /\ r.val = [f \in DOMAIN r.val |-> r.val[f]]
      /\ r.clk = [f \in DOMAIN r.clk |-> r.clk[f]]
  <2>1. CASE r \in NoteRow
    BY <2>1 DEF NoteRow, NoteVal
  <2>2. CASE r \in ItemRow
    BY <2>2 DEF ItemRow, ItemVal
  <2>3. CASE r \in LinkRow
    BY <2>3 DEF LinkRow, LinkVal
  <2> QED BY <2>1, <2>2, <2>3
<1>2. Merge(r, m, s) = [r EXCEPT !.val = r.val, !.clk = r.clk, !.seq = r.seq]
  BY <1>1 DEF Merge
<1>3. CASE r \in NoteRow
  BY <1>2, <1>3 DEF NoteRow
<1>4. CASE r \in ItemRow
  BY <1>2, <1>4 DEF ItemRow
<1>5. CASE r \in LinkRow
  BY <1>2, <1>5 DEF LinkRow
<1> QED BY <1>3, <1>4, <1>5

\* A row a merge finds or makes is left alone or written anew.
LEMMA MergeMoves ==
  ASSUME NEW r, r \in NoteRow \/ r \in ItemRow \/ r \in LinkRow,
         NEW m, m.hlc \in Stamp, DOMAIN m.set # {}, NEW s \in Nat,
         Merged(r, m, s), Merge(r, m, s) # NoRow,
         NEW old, old # NoRow => r = old,
         old = NoRow => \A f \in DOMAIN m.set : r.clk[f] = 0
  PROVE  Merge(r, m, s) = old \/ Since(Merge(r, m, s), s)
<1> DEFINE q == Merge(r, m, s)
           acc == Accepted(r, m)
<1>1. CASE acc = {} /\ old # NoRow
  BY <1>1, MergeNothing
<1>2. CASE acc = {} /\ old = NoRow
  BY <1>2 DEF Accepted, Stamp
<1>3. CASE acc # {}
  <2>1. q.seq = s + Cardinality(acc) /\ Cardinality(acc) \in Nat /\ Cardinality(acc) > 0
    BY <1>3 DEF Merged
  <2> HIDE DEF q, acc
  <2>2. q.seq > s
    BY <2>1
  <2> QED BY <2>2 DEF Since, q
<1> QED BY <1>1, <1>2, <1>3

\* What a bundle that is not refused does to the rows, and that the foreign keys hold.
Touches(d, a) ==
  /\ \A t \in Tables : \A x \in Keys(t) :
       RowAt(a, t, x) = RowAt(d, t, x) \/ Since(RowAt(a, t, x), d.seq)
  /\ Hangs(a)

\* A bundle of a note.
LEMMA NoteMoves ==
  ASSUME NEW d, GoodDB(d), Hangs(d), NEW m, IsNoteBundle(m), ~Rejects(d, m)
  PROVE  Touches(d, Apply(d, m))
<1> DEFINE a == Apply(d, m)
           r == NoteAt(d, m)
           q == Merge(r, m, d.seq)
<1>1. d \in Database /\ d.seq \in Nat /\ d.notes \in [NoteId -> NoteRow \cup {NoRow}]
  BY DEF GoodDB, Database
<1>2. NoteEffect(d, m, a, r, q)
  BY <1>1, ApplyNoteEffect
<1>3. Merged(r, m, d.seq)
  BY <1>1, <1>2, MergeNote DEF NoteEffect
<1>4. /\ m.id \in NoteId /\ DOMAIN m.set # {} /\ DOMAIN m.set \subseteq NoteField
      /\ m.hlc \in Stamp
  BY DEF IsNoteBundle, NoteSetOK, Stamp
<1>5. /\ d.notes[m.id] # NoRow => r = d.notes[m.id]
      /\ d.notes[m.id] = NoRow => \A f \in DOMAIN m.set : r.clk[f] = 0
  BY <1>4 DEF NoteAt, OrFresh, FreshNote
<1>6. /\ r \in NoteRow /\ q \in NoteRow /\ a.notes = [d.notes EXCEPT ![m.id] = q]
      /\ a.items = d.items /\ a.links = d.links /\ a.labels = d.labels
  BY <1>2 DEF NoteEffect
<1>7. q # NoRow
  BY <1>6, Rows
<1>8. q = d.notes[m.id] \/ Since(q, d.seq)
  BY <1>1, <1>3, <1>4, <1>5, <1>6, <1>7, MergeMoves
<1> HIDE DEF a, q, r
<1>9. \A n \in NoteId : a.notes[n] = IF n = m.id THEN q ELSE d.notes[n]
  BY <1>1, <1>6
<1>10. \A t \in Tables : \A x \in Keys(t) :
         RowAt(a, t, x) = RowAt(d, t, x) \/ Since(RowAt(a, t, x), d.seq)
  BY <1>6, <1>8, <1>9 DEF Tables, Keys, RowAt
<1>11. Hangs(a)
  BY <1>6, <1>7, <1>9, SyncSystemAssumption DEF Hangs
<1> QED BY <1>10, <1>11 DEF Touches, a

\* A bundle of an item; a refused one would miss its note.
LEMMA ItemMoves ==
  ASSUME NEW d, GoodDB(d), Hangs(d), NEW m \in Bundle, IsItemBundle(m), ~Rejects(d, m)
  PROVE  Touches(d, Apply(d, m))
<1> DEFINE a == Apply(d, m)
           r == ItemAt(d, m)
           q == Merge(r, m, d.seq)
<1>1. d \in Database /\ d.seq \in Nat /\ d.items \in [ItemId -> ItemRow \cup {NoRow}]
  BY DEF GoodDB, Database
<1>2. ItemEffect(d, m, a, r, q)
  BY <1>1, ApplyItemEffect
<1>3. Merged(r, m, d.seq)
  BY <1>1, <1>2, MergeItem DEF ItemEffect
<1>4. /\ m.id \in ItemId /\ DOMAIN m.set # {} /\ DOMAIN m.set \subseteq ItemField
      /\ m.hlc \in Stamp /\ m.entity = "item" /\ m.note = NoteOf[m.id]
  BY BundleKinds DEF IsItemBundle, ItemSetOK, Stamp
<1>5. /\ d.items[m.id] # NoRow => r = d.items[m.id]
      /\ d.items[m.id] = NoRow => \A f \in DOMAIN m.set : r.clk[f] = 0
  BY <1>4 DEF ItemAt, OrFresh, FreshItem
<1>6. /\ r \in ItemRow /\ q \in ItemRow /\ a.items = [d.items EXCEPT ![m.id] = q]
      /\ a.notes = d.notes /\ a.links = d.links /\ a.labels = d.labels
  BY <1>2 DEF ItemEffect
<1>7. q # NoRow
  BY <1>6, Rows
<1>8. q = d.items[m.id] \/ Since(q, d.seq)
  BY <1>1, <1>3, <1>4, <1>5, <1>6, <1>7, MergeMoves
<1>9. d.notes[NoteOf[m.id]] # NoRow
  BY <1>4 DEF Rejects, Hangs
<1> HIDE DEF a, q, r
<1>10. \A i \in ItemId : a.items[i] = IF i = m.id THEN q ELSE d.items[i]
  BY <1>1, <1>6
<1>11. \A t \in Tables : \A x \in Keys(t) :
         RowAt(a, t, x) = RowAt(d, t, x) \/ Since(RowAt(a, t, x), d.seq)
  BY <1>6, <1>8, <1>10 DEF Tables, Keys, RowAt
<1>12. Hangs(a)
  BY <1>6, <1>9, <1>10 DEF Hangs
<1> QED BY <1>11, <1>12 DEF Touches, a

\* A bundle of an attachment; a refused one would miss its note or label.
LEMMA LinkMoves ==
  ASSUME NEW d, GoodDB(d), Hangs(d), NEW m, IsLinkBundle(m), ~Rejects(d, m)
  PROVE  Touches(d, Apply(d, m))
<1> DEFINE a == Apply(d, m)
           p == <<m.note, m.label>>
           r == LinkAt(d, m)
           q == Merge(r, m, d.seq)
<1>1. d \in Database /\ d.seq \in Nat /\ d.links \in [NoteId \X LabelId -> LinkRow \cup {NoRow}]
  BY DEF GoodDB, Database
<1>2. LinkEffect(d, m, a, r, q)
  BY <1>1, ApplyLinkEffect
<1>3. Merged(r, m, d.seq)
  BY <1>1, <1>2, MergeLink DEF LinkEffect
<1>4. /\ p \in NoteId \X LabelId /\ DOMAIN m.set # {} /\ DOMAIN m.set \subseteq LinkField
      /\ m.hlc \in Stamp /\ m.entity = "note_label" /\ p[1] = m.note /\ p[2] = m.label
  BY DEF IsLinkBundle, LinkField, Stamp
<1>5. /\ d.links[p] # NoRow => r = d.links[p]
      /\ d.links[p] = NoRow => \A f \in DOMAIN m.set : r.clk[f] = 0
  BY <1>4 DEF LinkAt, OrFresh, FreshLink
<1>6. /\ r \in LinkRow /\ q \in LinkRow /\ a.links = [d.links EXCEPT ![p] = q]
      /\ a.notes = d.notes /\ a.items = d.items /\ a.labels = d.labels
  BY <1>2 DEF LinkEffect
<1>7. q # NoRow
  BY <1>6, Rows
<1>8. q = d.links[p] \/ Since(q, d.seq)
  BY <1>1, <1>3, <1>4, <1>5, <1>6, <1>7, MergeMoves
<1>9. d.notes[p[1]] # NoRow /\ d.labels[p[2]] # NoRow
  BY <1>4 DEF Rejects, Hangs
<1> HIDE DEF a, q, r, p
<1>10. \A x \in NoteId \X LabelId : a.links[x] = IF x = p THEN q ELSE d.links[x]
  BY <1>1, <1>6
<1>11. \A t \in Tables : \A x \in Keys(t) :
         RowAt(a, t, x) = RowAt(d, t, x) \/ Since(RowAt(a, t, x), d.seq)
  BY <1>6, <1>8, <1>10 DEF Tables, Keys, RowAt
<1>12. Hangs(a)
  BY <1>6, <1>9, <1>10 DEF Hangs
<1> QED BY <1>11, <1>12 DEF Touches, a

\* No row is newer than the counter.
LEMMA RowSeq ==
  ASSUME NEW d, GoodDB(d), NEW t \in Tables, NEW x \in Keys(t), RowAt(d, t, x) # NoRow
  PROVE  RowAt(d, t, x).seq \in Nat /\ RowAt(d, t, x).seq <= d.seq /\ d.seq \in Nat
<1>1. /\ d.notes \in [NoteId -> NoteRow \cup {NoRow}]
      /\ d.items \in [ItemId -> ItemRow \cup {NoRow}]
      /\ d.links \in [NoteId \X LabelId -> LinkRow \cup {NoRow}]
      /\ d.seq \in Nat /\ RowsBelow(d)
  BY DEF GoodDB, Database
<1>2. CASE t = "note"
  BY <1>1, <1>2, Rows DEF RowAt, Keys, RowsBelow, Below
<1>3. CASE t = "item"
  BY <1>1, <1>3, Rows DEF RowAt, Keys, RowsBelow, Below
<1>4. CASE t = "link"
  BY <1>1, <1>4, Rows DEF RowAt, Keys, RowsBelow, Below
<1> QED BY <1>2, <1>3, <1>4 DEF Tables

\* One bundle after another.
LEMMA TouchesOn ==
  ASSUME NEW d, NEW e, NEW f, GoodDB(d), GoodDB(e), GoodDB(f), d.seq <= e.seq,
         Touches(d, e), Touches(e, f)
  PROVE  Touches(d, f)
<1>1. d.seq \in Nat /\ e.seq \in Nat
  BY DEF GoodDB, Database
<1>2. ASSUME NEW t \in Tables, NEW x \in Keys(t)
      PROVE  RowAt(f, t, x) = RowAt(d, t, x) \/ Since(RowAt(f, t, x), d.seq)
  <2>1. RowAt(f, t, x) = RowAt(e, t, x) \/ Since(RowAt(f, t, x), e.seq)
    BY DEF Touches
  <2>2. RowAt(e, t, x) = RowAt(d, t, x) \/ Since(RowAt(e, t, x), d.seq)
    BY DEF Touches
  <2>3. CASE Since(RowAt(f, t, x), e.seq)
    <3>1. RowAt(f, t, x) # NoRow /\ RowAt(f, t, x).seq > e.seq
      BY <2>3 DEF Since
    <3>2. RowAt(f, t, x).seq \in Nat
      BY <3>1, RowSeq
    <3> QED BY <1>1, <3>1, <3>2 DEF Since
  <2> QED BY <2>1, <2>2, <2>3
<1> QED BY <1>2 DEF Touches

\* A whole batch.
LEMMA BatchMoves ==
  ASSUME NEW d, GoodDB(d), Hangs(d), NEW b \in Seq(Bundle), NEW a \in ApplyBatch(d, b)
  PROVE  Touches(d, a)
<1> DEFINE Good == {e \in Database : GoodDB(e) /\ d.seq <= e.seq /\ Touches(d, e)}
           G == [k \in 0 .. Len(b) |-> Good]
<1>1. Len(b) \in Nat /\ \A j \in 1 .. Len(b) : b[j] \in Bundle
  OBVIOUS
<1>2. d \in Good
  <2>1. d \in Database /\ d.seq \in Nat /\ d.seq <= d.seq
    BY DEF GoodDB, Database
  <2> QED BY <2>1 DEF Touches
<1>3. ASSUME NEW e \in Good, NEW m \in Bundle, ~Rejects(e, m)
      PROVE  Apply(e, m) \in Good
  <2> DEFINE q == Apply(e, m)
  <2>1. GoodDB(e) /\ d.seq <= e.seq /\ Touches(d, e) /\ Hangs(e)
    BY <1>3 DEF Touches
  <2>2. GoodDB(q) /\ Grows(e, q)
    BY <2>1, ApplyStep
  <2>3. Touches(e, q)
    BY <1>3, <2>1, BundleKinds, NoteMoves, ItemMoves, LinkMoves
  <2> HIDE DEF q
  <2>4. q \in Database /\ d.seq \in Nat /\ e.seq \in Nat /\ q.seq \in Nat /\ e.seq <= q.seq
    BY <2>1, <2>2 DEF GoodDB, Database, Grows
  <2>5. Touches(d, q)
    BY <2>1, <2>2, <2>3, TouchesOn
  <2> QED BY <2>1, <2>2, <2>4, <2>5 DEF q
<1> HIDE DEF Good
<1>4. ApplyBatch(d, b) \subseteq G[Len(b)]
  <2>1. d \in G[0]
    BY <1>1, <1>2
  <2>2. \A k \in 1 .. Len(b) : k \in 0 .. Len(b) /\ k - 1 \in 0 .. Len(b)
    BY <1>1
  <2>3. \A k \in 1 .. Len(b) : \A e \in G[k - 1] : ~Rejects(e, b[k]) => Apply(e, b[k]) \in G[k]
    BY <1>1, <1>3, <2>2
  <2> HIDE DEF G
  <2> QED BY <1>1, <2>1, <2>3, BatchInduction
<1>5. a \in Good
  BY <1>1, <1>4
<1> QED BY <1>5 DEF Good

\* What one action of the server does, S the notes purged thereafter.
LEMMA OutcomeMoves ==
  ASSUME GoodDB(db), Hangs(db), NEW k \in SomeCall, k.kind # "list", NEW o \in Outcomes(k),
         NEW S, k.kind = "purge" => k.note \in S
  PROVE  Moved(db, o.db, S) /\ Hangs(o.db)
<1>1. db \in Database /\ db.seq \in Nat
  BY DEF GoodDB, Database
<1>2. CASE k \in PurgeCall
  <2> DEFINE e == Purge(db, {k.note})
  <2>1. k.kind = "purge" /\ k.note \in NoteId /\ k.note \in S
    BY <1>2 DEF PurgeCall
  <2>2. o.db = e
    BY <2>1 DEF Outcomes, Purging
  <2>3. /\ e.labels = db.labels
        /\ \A x \in NoteId : e.notes[x] = IF x = k.note THEN NoRow ELSE db.notes[x]
        /\ \A i \in ItemId : e.items[i] = IF i \in ItemsOf(db, k.note) THEN NoRow ELSE db.items[i]
        /\ \A p \in NoteId \X LabelId : e.links[p] = IF p[1] = k.note THEN NoRow ELSE db.links[p]
    BY <1>1 DEF Purge, Database
  <2>4. \A i \in ItemId : i \in ItemsOf(db, k.note) <=> db.items[i] # NoRow /\ NoteOf[i] = k.note
    BY DEF ItemsOf, GoodDB, AtHome
  <2> HIDE DEF e
  <2>5. Moved(db, e, S)
    BY <2>1, <2>3, <2>4 DEF Moved, Tables, Keys, RowAt, Out, Home
  <2>6. Hangs(e)
    BY <2>3, <2>4, SyncSystemAssumption DEF Hangs
  <2> QED BY <2>2, <2>5, <2>6
<1>3. CASE k \in LabelCall
  <2> DEFINE e == RemoveLabel(db, k.label)
  <2>1. k.kind = "label" /\ k.label \in LabelId
    BY <1>3 DEF LabelCall
  <2>2. o.db = e
    BY <2>1 DEF Outcomes, DeletingLabel
  <2>3. /\ e.notes = db.notes /\ e.items = db.items
        /\ \A x \in LabelId : e.labels[x] = IF x = k.label THEN NoRow ELSE db.labels[x]
        /\ \A p \in NoteId \X LabelId : e.links[p] = IF p[2] = k.label THEN NoRow ELSE db.links[p]
    BY <1>1 DEF RemoveLabel, Database
  <2> HIDE DEF e
  <2>4. Moved(db, e, S)
    BY <2>1, <2>3 DEF Moved, Tables, Keys, RowAt, Out, Home
  <2>5. Hangs(e)
    BY <2>3 DEF Hangs
  <2> QED BY <2>2, <2>4, <2>5
<1>4. CASE k \in AudioCall
  <2> DEFINE e == InsertAudio(db, k.note, k.title, FirstKey)
  <2>1. k.kind = "audio" /\ k.note \in NoteId /\ k.title \in Text
    BY <1>4 DEF AudioCall
  <2>2. o.db = e
    BY <2>1 DEF Outcomes, CreatingAudioNote
  <2>3. AudioEffect(db, k.note, k.title, FirstKey, e)
    BY <1>1, <2>1, InsertAudioEffect, StoreAssumption
  <2> HIDE DEF e
  <2>4. PICK r : AudioRow(r, k.title, FirstKey, db.seq + 1) /\ e.notes = [db.notes EXCEPT ![k.note] = r]
    BY <2>3 DEF AudioEffect
  <2>5. /\ r # NoRow /\ r.seq > db.seq /\ e.items = db.items /\ e.links = db.links
        /\ e.labels = db.labels
        /\ \A x \in NoteId : e.notes[x] = IF x = k.note THEN r ELSE db.notes[x]
    BY <1>1, <2>3, <2>4, Rows DEF AudioEffect, AudioRow, Database
  <2>6. Moved(db, e, S)
    BY <2>5 DEF Moved, Tables, Keys, RowAt, Since
  <2>7. Hangs(e)
    BY <2>5, SyncSystemAssumption DEF Hangs
  <2> QED BY <2>2, <2>6, <2>7
<1>5. CASE k \in SyncCall
  <2>1. k.kind = "sync" /\ k.batch \in Seq(Bundle)
    BY <1>5 DEF SyncCall
  <2>2. o \in Syncing(k.since, k.batch)
    BY <2>1 DEF Outcomes
  <2>3. o.db = db \/ o.db \in ApplyBatch(db, k.batch)
    BY <2>2 DEF Syncing
  <2>4. Touches(db, o.db)
    BY <2>1, <2>3, BatchMoves DEF Touches
  <2>5. o.db.labels = db.labels
    BY <2>1, <2>3, BatchEffect DEF Grows
  <2> QED BY <2>4, <2>5 DEF Touches, Moved
<1> QED BY <1>2, <1>3, <1>4, <1>5, CallKinds DEF SomeCall

------------------------------------------------------------------------------
(* What a tab knows: k its state, f its calls, with the database d and the notes of S *)
(* purged. *)

\* The seqs since which it has asked for changes, or will.
Asked(k, f) == {k.cursor} \cup {f[s].since : s \in {u \in DOMAIN f : f[u].kind = "sync"}}

\* The bundles it has still to hear of.
Holds(k, f, m) ==
  m \in ToSet(k.pending) \/ \E s \in DOMAIN f : f[s].kind = "sync" /\ m \in ToSet(f[s].batch)

Same(d, k, t, x)     == Sight(k, t, x) = Face(t, RowAt(d, t, x))
Ahead(d, k, f, t, x) == RowAt(d, t, x) # NoRow /\ \A q \in Asked(k, f) : RowAt(d, t, x).seq > q
Owes(d, k, f, t, x)  == \E m \in Bundle : Holds(k, f, m) /\ About(m, t, x) /\ ~Absorbs(d, m)
Near(d, S, k, f, t, x) ==
  Out(d, S, t, x) \/ Same(d, k, t, x) \/ Ahead(d, k, f, t, x) \/ Owes(d, k, f, t, x)
Nears(d, S, k, f) == \A t \in Tables : \A x \in Keys(t) : Near(d, S, k, f, t, x)

\* A note it does not have is ahead.
Finds(d, S, k, f) ==
  \A n \in NoteId \ S : d.notes[n] # NoRow /\ k.notes[n] = NoRow => Ahead(d, k, f, "note", n)

\* What the server has told a call of it, so far; nothing it was told is older than what
\* it has asked for.
Heard(r) == IF r.kind = "list" THEN r.got # NoReply ELSE r.kind = "sync" /\ r.reply # NoReply /\ r.reply.ok
Told(r)  == IF r.kind = "list" THEN r.got ELSE r.reply
InTurn(q, k, f) ==
  /\ \A a \in Asked(k, f) : a \in Nat /\ a <= q
  /\ \A s \in DOMAIN f : Heard(f[s]) => \A a \in Asked(k, f) : a <= Told(f[s]).seq

\* The reply of a sync has every row written since it asked, up to its seq.
SyncFaith(d, S, r) ==
  /\ \A t \in Tables : \A x \in Keys(t) :
       \/ Out(d, S, t, x)
       \/ IF RowAt(d, t, x) = NoRow THEN Entries(r.reply.changes, t, x) = {}
          ELSE RowAt(d, t, x).seq <= r.reply.seq =>
                 Entries(r.reply.changes, t, x) =
                   IF RowAt(d, t, x).seq > r.since THEN {Face(t, RowAt(d, t, x))} ELSE {}
  /\ \A q \in r.reply.changes.items : q.note = NoteOf[q.id]

\* A list has every row up to its seq, in the parts it has read.
Part(t) == CASE t = "note" -> "notes" [] t = "item" -> "items" [] t = "link" -> "labels"
ListFaith(d, S, r) ==
  /\ r.reply = (IF r.todo = {} THEN r.got ELSE NoReply)
  /\ r.got.cursor <= r.got.seq
  /\ r.todo # {} => r.got.seq = d.seq
  /\ \A t \in Tables : \A x \in Keys(t) :
       \/ Out(d, S, t, x)
       \/ IF <<Part(t), Home(t, x)>> \in r.todo THEN Sight(r.got.shown, t, x) = Face(t, NoRow)
          ELSE RowAt(d, t, x) = NoRow \/ RowAt(d, t, x).seq <= r.got.seq =>
                 Sight(r.got.shown, t, x) = Face(t, RowAt(d, t, x))

\* An item or a label in a sync's reply has its note there, or in the tab and in whatever
\* list may replace the tab's notes.
Shelters(k, f, n) ==
  /\ k.notes[n] # NoRow
  /\ \A s \in DOMAIN f : f[s].kind = "list" /\ f[s].got # NoReply => f[s].got.shown.notes[n] # NoRow
Hosted(d, S, k, f, r) ==
  \A t \in {"item", "link"} : \A x \in Keys(t) :
    \/ Out(d, S, t, x) \/ Entries(r.reply.changes, t, x) = {}
    \/ /\ d.notes[Home(t, x)] # NoRow
       /\ Entries(r.reply.changes, "note", Home(t, x)) # {} \/ Shelters(k, f, Home(t, x))

\* What an answered call has done is done.
Closed(d, S, r) == r.reply # NoReply =>
  /\ r.kind = "purge" => r.note \in S
  /\ r.kind = "label" /\ r.reply.ok => d.labels[r.label] = NoRow
  /\ r.kind = "audio" => r.note \in S \/ d.notes[r.note] # NoRow
  /\ r.kind = "list" => r.got # NoReply

Knows(d, S, k, f, r) ==
  /\ r.kind = "sync" /\ Heard(r) => SyncFaith(d, S, r) /\ Hosted(d, S, k, f, r)
  /\ r.kind = "list" /\ Heard(r) => ListFaith(d, S, r)
  /\ Closed(d, S, r)

TabInv(d, S, k, f) ==
  /\ Nears(d, S, k, f) /\ Finds(d, S, k, f) /\ InTurn(d.seq, k, f)
  /\ \A s \in DOMAIN f : Knows(d, S, k, f, f[s])

ConvergeInv ==
  SafeInv /\ EarlyInv /\ Hangs(db) /\ \A c \in Client : TabInv(db, purged, client[c], calls[c])

\* A tab shows three tables.
LEMMA SightShape ==
  \A k, q, t, x : /\ t = "note" => Sight(k, t, x) = k.notes[x]
                  /\ t = "item" => Sight(k, t, x) = k.items[x]
                  /\ t = "link" => Sight(k, t, x) = IF x \in k.links THEN 1 ELSE 0
BY DEF Sight

\* A tab that shows of x what it did, asks for no more and owes what it owed.
LEMMA NearKept ==
  ASSUME NEW d, NEW S, NEW k, NEW f, NEW t, NEW x, Near(d, S, k, f, t, x),
         NEW q, NEW g, Sight(q, t, x) = Sight(k, t, x), Asked(q, g) \subseteq Asked(k, f),
         \A m \in Bundle : Holds(k, f, m) /\ About(m, t, x) /\ ~Absorbs(d, m) => Holds(q, g, m)
  PROVE  Near(d, S, q, g, t, x)
BY DEF Near, Same, Ahead, Owes

\* A tab that loses no note and asks for no more finds what it found.
LEMMA FindsKept ==
  ASSUME NEW d, NEW S, NEW k, NEW f, Finds(d, S, k, f),
         NEW q, NEW g, \A n \in NoteId \ S : k.notes[n] # NoRow => q.notes[n] # NoRow,
         Asked(q, g) \subseteq Asked(k, f)
  PROVE  Finds(d, S, q, g)
BY DEF Finds, Ahead

\* Every row hangs from a note.
LEMMA HomeType ==
  ASSUME NEW t \in Tables, NEW x \in Keys(t)
  PROVE  Home(t, x) \in NoteId
BY SyncSystemAssumption DEF Tables, Keys, Home

\* A call knows what it did, while the tab and its lists lose no note.
LEMMA KnowsKept ==
  ASSUME NEW d, NEW S, NEW k, NEW f, NEW r, Knows(d, S, k, f, r),
         NEW q, NEW g,
         \A n \in NoteId \ S : d.notes[n] # NoRow /\ Shelters(k, f, n) => Shelters(q, g, n)
  PROVE  Knows(d, S, q, g, r)
<1>1. ASSUME Hosted(d, S, k, f, r) PROVE Hosted(d, S, q, g, r)
  <2> SUFFICES ASSUME NEW t \in {"item", "link"}, NEW x \in Keys(t),
                      ~Out(d, S, t, x), Entries(r.reply.changes, t, x) # {}
               PROVE  /\ d.notes[Home(t, x)] # NoRow
                      /\ \/ Entries(r.reply.changes, "note", Home(t, x)) # {}
                         \/ Shelters(q, g, Home(t, x))
    BY DEF Hosted
  <2>1. /\ d.notes[Home(t, x)] # NoRow
        /\ \/ Entries(r.reply.changes, "note", Home(t, x)) # {}
           \/ Shelters(k, f, Home(t, x))
    BY <1>1 DEF Hosted
  <2>2. Home(t, x) \in NoteId \ S
    BY HomeType DEF Out, Tables
  <2> QED BY <2>1, <2>2
<1> QED BY <1>1 DEF Knows

------------------------------------------------------------------------------
(* The user's operations. *)

\* What is not drawn anew is seen as before.
LEMMA RedrawnSight ==
  ASSUME NEW k, NEW q, NEW N, NEW I, NEW L, Redraws(k, q, N, I, L),
         NEW t \in Tables, NEW x \in Keys(t),
         t = "note" => x \notin N, t = "item" => x \notin I, t = "link" => x \notin L
  PROVE  Sight(q, t, x) = Sight(k, t, x)
BY DEF Redraws, Tables, Keys, Sight

\* The server has not got a new bundle.
LEMMA NewIsOwed ==
  ASSUME EarlyInv, NEW c \in Client, NEW k, NEW new, UserStep(c, k, new), TypeInv',
         NEW j \in 1 .. Len(new)
  PROVE  new[j] \in Bundle /\ ~Absorbs(db, new[j])
<1>1. new[j] \in Bundle /\ now < MaxTime
  BY DEF UserStep
<1>2. TypeInv
  BY DEF EarlyInv
<1>3. Dawn(now + Skew[c]) <= new[j].hlc
  BY <1>2, StampsWithin
<1>4. Early(db, Dawn(now + Skew[c])) /\ db \in Database
  BY <1>1 DEF EarlyInv, TypeInv, GoodDB
<1>5. Dawn(now + Skew[c]) \in Nat
  <2>1. now + Skew[c] \in Nat
    BY <1>2, SyncSystemAssumption DEF TypeInv
  <2> QED BY <2>1, DawnType
<1>6. CASE RowOf(db, new[j]) = NoRow
  BY <1>1, <1>6 DEF Absorbs
<1>7. CASE RowOf(db, new[j]) # NoRow
  BY <1>1, <1>3, <1>4, <1>5, <1>7, WinsOver
<1> QED BY <1>1, <1>6, <1>7

\* A user edits: the tab owes what it queues.
LEMMA ConvergeUser ==
  ASSUME ConvergeInv, NEW c \in Client, NEW k, NEW new, UserStep(c, k, new), TypeInv'
  PROVE  \A e \in Client : TabInv(db', purged', client'[e], calls'[e])
<1> DEFINE old == client[c]
           f == calls[c]
<1>1. /\ new \in Seq(Bundle) /\ k.pending = old.pending \o new /\ k.cursor = old.cursor
      /\ client' = [client EXCEPT ![c] = k]
      /\ Redraws(old, k, {n \in NoteId : Adds(new, n)}, {i \in ItemId : Lists(new, i)},
                 {p \in NoteId \X LabelId : Attaches(new, p)})
      /\ db' = db /\ calls' = calls /\ purged' = purged
  BY DEF UserStep
<1>2. old \in Tab /\ client \in [Client -> Tab] /\ EarlyInv /\ TabInv(db, purged, old, f)
  BY DEF ConvergeInv, EarlyInv, TypeInv
<1>3. ToSet(k.pending) = ToSet(old.pending) \cup ToSet(new)
  BY <1>1, <1>2, ConcatSet DEF Tab
<1>4. \A n \in NoteId : old.notes[n] # NoRow => k.notes[n] # NoRow
  BY <1>1 DEF Redraws
<1> HIDE DEF old, f
<1>5. Asked(k, f) = Asked(old, f)
  BY <1>1 DEF Asked
<1>6. \A m : Holds(old, f, m) \/ m \in ToSet(new) => Holds(k, f, m)
  BY <1>3 DEF Holds
<1>7. ASSUME NEW t \in Tables, NEW x \in Keys(t) PROVE Near(db, purged, k, f, t, x)
  <2>1. CASE \E j \in 1 .. Len(new) : About(new[j], t, x)
    <3>1. PICK j \in 1 .. Len(new) : About(new[j], t, x)
      BY <2>1
    <3>2. new[j] \in Bundle /\ ~Absorbs(db, new[j])
      BY <1>2, NewIsOwed
    <3>3. new[j] \in ToSet(new)
      BY <1>1, InSeq
    <3> QED BY <1>6, <3>1, <3>2, <3>3 DEF Near, Owes
  <2>2. CASE ~ \E j \in 1 .. Len(new) : About(new[j], t, x)
    <3>1. /\ t = "note" => ~Adds(new, x)
          /\ t = "item" => ~Lists(new, x)
          /\ t = "link" => ~Attaches(new, x)
      BY <2>2 DEF About, Adds, Lists, Attaches
    <3>2. Sight(k, t, x) = Sight(old, t, x)
      BY <1>1, <3>1, RedrawnSight
    <3>3. Near(db, purged, old, f, t, x)
      BY <1>2 DEF TabInv, Nears
    <3> QED BY <1>5, <1>6, <3>2, <3>3, NearKept
  <2> QED BY <2>1, <2>2
<1>8. Finds(db, purged, k, f)
  BY <1>2, <1>4, <1>5, FindsKept DEF TabInv
<1>9. InTurn(db.seq, k, f)
  BY <1>2, <1>5 DEF TabInv, InTurn
<1>10. \A n \in NoteId : Shelters(old, f, n) => Shelters(k, f, n)
  BY <1>4 DEF Shelters
<1>11. \A s \in DOMAIN f : Knows(db, purged, k, f, f[s])
  BY <1>2, <1>10, KnowsKept DEF TabInv
<1>12. TabInv(db, purged, k, f)
  BY <1>7, <1>8, <1>9, <1>11 DEF TabInv, Nears
<1>13. ASSUME NEW e \in Client PROVE TabInv(db, purged, client'[e], calls[e])
  <2>1. CASE e = c
    BY <1>1, <1>2, <1>12, <2>1 DEF f
  <2>2. CASE e # c
    BY <1>1, <1>2, <2>2 DEF ConvergeInv
  <2> QED BY <2>1, <2>2
<1> QED BY <1>1, <1>13

------------------------------------------------------------------------------
(* Timers, connections, the clock; the calls a tab starts. *)

\* Only the timers, labels or clock of a tab move.
LEMMA TabKept ==
  ASSUME NEW d, NEW S, NEW k, NEW f, TabInv(d, S, k, f),
         NEW q, q.notes = k.notes, q.items = k.items, q.links = k.links,
         q.pending = k.pending, q.cursor = k.cursor
  PROVE  TabInv(d, S, q, f)
<1>1. \A t \in Tables : \A x : Sight(q, t, x) = Sight(k, t, x)
  BY DEF Tables, Sight
<1>2. Asked(q, f) = Asked(k, f) /\ \A m : Holds(q, f, m) <=> Holds(k, f, m)
  BY DEF Asked, Holds
<1>3. Nears(d, S, q, f)
  BY <1>1, <1>2, NearKept DEF TabInv, Nears
<1>4. Finds(d, S, q, f)
  BY <1>2, FindsKept DEF TabInv
<1>5. InTurn(d.seq, q, f)
  BY <1>2 DEF TabInv, InTurn
<1>6. \A n \in NoteId : Shelters(k, f, n) => Shelters(q, f, n)
  BY DEF Shelters
<1>7. \A s \in DOMAIN f : Knows(d, S, q, f, f[s])
  BY <1>6, KnowsKept DEF TabInv
<1> QED BY <1>3, <1>4, <1>5, <1>7 DEF TabInv

\* Timers, connections and time.
LEMMA ConvergePasses ==
  ASSUME ConvergeInv, Passes
  PROVE  \A e \in Client : TabInv(db', purged', client'[e], calls'[e])
<1>1. /\ db' = db /\ calls' = calls /\ purged' = purged
      /\ \A c \in Client : /\ client'[c].notes = client[c].notes
                           /\ client'[c].items = client[c].items
                           /\ client'[c].links = client[c].links
                           /\ client'[c].pending = client[c].pending
                           /\ client'[c].cursor = client[c].cursor
  BY DEF Passes, Rearmed
<1> QED BY <1>1, TabKept DEF ConvergeInv

\* A tab asks: a sync takes the queue and the cursor along.
LEMMA ConvergeAsks ==
  ASSUME ConvergeInv, NEW c \in Client, NEW s, NEW r, NEW g, NEW p, Asks(c, s, r, g, p)
  PROVE  \A e \in Client : TabInv(db', purged', client'[e], calls'[e])
<1> DEFINE k == client[c]
           f == calls[c]
<1>1. /\ Placed(f, g, s, r) /\ calls' = [calls EXCEPT ![c] = g]
      /\ r.reply = NoReply /\ r.kind # "list"
      /\ client' = [client EXCEPT ![c] = p]
      /\ p.notes = k.notes /\ p.items = k.items /\ p.links = k.links /\ p.cursor = k.cursor
      /\ IF r.kind = "sync" THEN r.batch = k.pending /\ r.since = k.cursor
         ELSE p.pending = k.pending
      /\ db' = db /\ purged' = purged
  BY DEF Asks
<1>2. client \in [Client -> Tab] /\ calls \in [Client -> Desk] /\ TabInv(db, purged, k, f)
  BY DEF ConvergeInv, EarlyInv, TypeInv
<1> HIDE DEF k, f
<1>3. /\ s \notin DOMAIN f /\ DOMAIN g = DOMAIN f \cup {s} /\ g[s] = r
      /\ \A t \in DOMAIN f : g[t] = f[t]
  BY <1>1 DEF Placed
<1>4. Asked(p, g) = Asked(k, f)
  BY <1>1, <1>3 DEF Asked
<1>5. \A m : Holds(k, f, m) => Holds(p, g, m)
  BY <1>1, <1>3 DEF Holds
<1>6. \A t \in Tables : \A x : Sight(p, t, x) = Sight(k, t, x)
  BY <1>1 DEF Tables, Sight
<1>7. Nears(db, purged, p, g)
  BY <1>2, <1>4, <1>5, <1>6, NearKept DEF TabInv, Nears
<1>8. Finds(db, purged, p, g)
  BY <1>1, <1>2, <1>4, FindsKept DEF TabInv
<1>9. ~Heard(r) /\ Closed(db, purged, r)
  BY <1>1 DEF Heard, Closed
<1>10. InTurn(db.seq, p, g)
  BY <1>2, <1>3, <1>4, <1>9 DEF TabInv, InTurn
<1>11. \A n \in NoteId : Shelters(k, f, n) => Shelters(p, g, n)
  BY <1>1, <1>3 DEF Shelters
<1>12. \A t \in DOMAIN f : Knows(db, purged, p, g, f[t])
  BY <1>2, <1>11, KnowsKept DEF TabInv
<1>13. Knows(db, purged, p, g, r)
  BY <1>9 DEF Knows
<1>14. TabInv(db, purged, p, g)
  BY <1>3, <1>7, <1>8, <1>10, <1>12, <1>13 DEF TabInv
<1>15. ASSUME NEW e \in Client PROVE TabInv(db, purged, client'[e], calls'[e])
  <2>1. CASE e = c
    BY <1>1, <1>2, <1>14, <2>1
  <2>2. CASE e # c
    BY <1>1, <1>2, <2>2 DEF ConvergeInv
  <2> QED BY <2>1, <2>2
<1> QED BY <1>1, <1>15

------------------------------------------------------------------------------
(* The server's answers. *)

\* The row a bundle is about.
LEMMA AboutRow ==
  ASSUME NEW d, NEW m, NEW t \in Tables, NEW x, About(m, t, x)
  PROVE  RowOf(d, m) = RowAt(d, t, x)
BY DEF Tables, About, RowOf, RowAt

\* What is out of account stays out.
LEMMA OutStays ==
  ASSUME NEW d, NEW e, NEW S, NEW P, S \subseteq P, Moved(d, e, P),
         NEW t \in Tables, NEW x \in Keys(t), Out(d, S, t, x)
  PROVE  Out(e, P, t, x)
<1>1. t = "link" => x[2] \in LabelId
  BY DEF Keys
<1> QED BY <1>1 DEF Out, Moved

\* A note as a row.
LEMMA NoteKeys ==
  ASSUME NEW d, NEW S, NEW n \in NoteId
  PROVE  /\ "note" \in Tables /\ n \in Keys("note") /\ RowAt(d, "note", n) = d.notes[n]
         /\ Home("note", n) = n /\ (Out(d, S, "note", n) <=> n \in S)
BY DEF Tables, Keys, RowAt, Home, Out

\* No list is half read.
Whole(f) == \A s \in DOMAIN f :
  f[s].kind = "list" /\ f[s].got # NoReply => f[s].reply # NoReply

\* A database that has moved on, as far as the calls know.
LEMMA KnowsMoved ==
  ASSUME NEW d, NEW e, NEW S, NEW P, S \subseteq P, Moved(d, e, P), GoodDB(d), GoodDB(e),
         NEW k, NEW f, NEW r \in SomeCall, Knows(d, S, k, f, r), Known(r, d.seq),
         r.kind = "list" /\ r.got # NoReply => r.reply # NoReply
  PROVE  Knows(e, P, k, f, r)
<1>1. d.seq \in Nat
  BY DEF GoodDB, Database
<1>2. ASSUME NEW q \in Nat, q <= d.seq, NEW t \in Tables, NEW x \in Keys(t), ~Out(e, P, t, x)
      PROVE  /\ ~Out(d, S, t, x)
             /\ \/ RowAt(e, t, x) = RowAt(d, t, x)
                \/ RowAt(e, t, x) # NoRow /\ ~(RowAt(e, t, x).seq <= q)
  <2>1. ~Out(d, S, t, x)
    BY <1>2, OutStays
  <2>2. RowAt(e, t, x) = RowAt(d, t, x) \/ Since(RowAt(e, t, x), d.seq)
    BY <1>2 DEF Moved
  <2>3. RowAt(e, t, x) # NoRow => RowAt(e, t, x).seq \in Nat
    BY RowSeq
  <2> QED BY <1>1, <1>2, <2>1, <2>2, <2>3 DEF Since
<1>3. ASSUME NEW n \in NoteId \ P, d.notes[n] # NoRow PROVE e.notes[n] # NoRow
  BY <1>3, NoteKeys DEF Moved, Since
<1>4. ASSUME r.kind = "sync", Heard(r)
      PROVE  SyncFaith(e, P, r) /\ Hosted(e, P, k, f, r)
  <2>1. SyncFaith(d, S, r) /\ Hosted(d, S, k, f, r)
    BY <1>4 DEF Knows
  <2>2. r.reply.seq \in Nat /\ r.reply.seq <= d.seq
    BY <1>4, CallKinds DEF Heard, Known, SyncCall, SyncReply
  <2>3. SyncFaith(e, P, r)
    BY <1>2, <2>1, <2>2 DEF SyncFaith
  <2>4. ASSUME NEW t \in {"item", "link"}, NEW x \in Keys(t),
               ~Out(e, P, t, x), Entries(r.reply.changes, t, x) # {}
        PROVE  /\ e.notes[Home(t, x)] # NoRow
               /\ Entries(r.reply.changes, "note", Home(t, x)) # {} \/ Shelters(k, f, Home(t, x))
    <3>1. t \in Tables /\ ~Out(d, S, t, x)
      BY <1>1, <1>2, <2>4 DEF Tables
    <3>2. Home(t, x) \in NoteId \ P
      BY <2>4, <3>1, HomeType DEF Out
    <3> QED BY <1>3, <2>1, <2>4, <3>1, <3>2 DEF Hosted
  <2> QED BY <2>3, <2>4 DEF Hosted
<1>5. ASSUME r.kind = "list", Heard(r) PROVE ListFaith(e, P, r)
  <2>1. ListFaith(d, S, r) /\ r.got # NoReply
    BY <1>5 DEF Knows, Heard
  <2>2. r.got.seq \in Nat /\ r.got.seq <= d.seq
    BY <1>5, <2>1, CallKinds DEF Known, ListCall, ListReply
  <2>3. r.todo = {}
    BY <1>5, <2>1 DEF ListFaith
  <2> QED BY <1>2, <2>1, <2>2, <2>3 DEF ListFaith
<1>6. Closed(e, P, r)
  <2>1. Closed(d, S, r)
    BY DEF Knows
  <2>2. /\ r.kind = "label" => r.label \in LabelId
        /\ r.kind = "audio" => r.note \in NoteId
    BY CallKinds DEF LabelCall, AudioCall
  <2> QED BY <1>3, <2>1, <2>2 DEF Closed, Moved
<1> QED BY <1>4, <1>5, <1>6 DEF Knows

\* The calls of a desk are typed, and know of no seq beyond q.
Sound(f, q) == \A s \in DOMAIN f : f[s] \in SomeCall /\ Known(f[s], q)

\* Nothing is told of a seq the server has not reached.
LEMMA ToldSeq ==
  ASSUME NEW r \in SomeCall, NEW q, Known(r, q), Heard(r)
  PROVE  Told(r).seq \in Nat /\ Told(r).seq <= q
BY CallKinds DEF Heard, Told, Known, SyncCall, SyncReply, ListCall, ListReply

\* A tab, when the server has moved on.
LEMMA TabMoved ==
  ASSUME NEW d, NEW e, NEW S, NEW P, S \subseteq P, Moved(d, e, P), GoodDB(d), GoodDB(e),
         d.seq <= e.seq, NEW k, NEW f, Sound(f, d.seq), Whole(f), TabInv(d, S, k, f)
  PROVE  TabInv(e, P, k, f)
<1>1. d.seq \in Nat /\ e.seq \in Nat
  BY DEF GoodDB, Database
<1>2. \A a \in Asked(k, f) : a \in Nat /\ a <= d.seq
  BY DEF TabInv, InTurn
<1>3. ASSUME NEW t \in Tables, NEW x \in Keys(t), Since(RowAt(e, t, x), d.seq)
      PROVE  Ahead(e, k, f, t, x)
  <2>1. RowAt(e, t, x) # NoRow /\ RowAt(e, t, x).seq > d.seq
    BY <1>3 DEF Since
  <2>2. RowAt(e, t, x).seq \in Nat
    BY <2>1, RowSeq
  <2>3. \A a \in Asked(k, f) : RowAt(e, t, x).seq > a
    BY <1>1, <1>2, <2>1, <2>2
  <2> QED BY <2>1, <2>3 DEF Ahead
<1>4. ASSUME NEW t \in Tables, NEW x \in Keys(t) PROVE Near(e, P, k, f, t, x)
  <2>1. CASE Out(e, P, t, x)
    BY <2>1 DEF Near
  <2>2. CASE Since(RowAt(e, t, x), d.seq)
    BY <1>3, <2>2 DEF Near
  <2>3. CASE RowAt(e, t, x) = RowAt(d, t, x)
    <3>1. \A m : About(m, t, x) => (Absorbs(e, m) <=> Absorbs(d, m))
      BY <2>3, AboutRow DEF Absorbs
    <3>2. Near(d, S, k, f, t, x)
      BY DEF TabInv, Nears
    <3>3. Out(d, S, t, x) => Out(e, P, t, x)
      BY OutStays
    <3> QED BY <2>3, <3>1, <3>2, <3>3 DEF Near, Same, Ahead, Owes
  <2> QED BY <2>1, <2>2, <2>3 DEF Moved
<1>5. Finds(e, P, k, f)
  <2> SUFFICES ASSUME NEW n \in NoteId \ P, e.notes[n] # NoRow, k.notes[n] = NoRow
               PROVE  Ahead(e, k, f, "note", n)
    BY DEF Finds
  <2>1. /\ "note" \in Tables /\ n \in Keys("note") /\ ~Out(e, P, "note", n) /\ n \notin S
        /\ RowAt(d, "note", n) = d.notes[n] /\ RowAt(e, "note", n) = e.notes[n]
    BY NoteKeys
  <2>2. CASE Since(RowAt(e, "note", n), d.seq)
    BY <1>3, <2>1, <2>2
  <2>3. CASE RowAt(e, "note", n) = RowAt(d, "note", n)
    BY <2>1, <2>3 DEF TabInv, Finds, Ahead
  <2> QED BY <2>1, <2>2, <2>3 DEF Moved
<1>6. InTurn(e.seq, k, f)
  BY <1>1, <1>2 DEF TabInv, InTurn
<1>7. \A s \in DOMAIN f : Knows(e, P, k, f, f[s])
  BY KnowsMoved DEF TabInv, Sound, Whole
<1> QED BY <1>4, <1>5, <1>6, <1>7 DEF TabInv, Nears

\* What the changes since a seq are.
LEMMA ChangesEntries ==
  ASSUME NEW d, GoodDB(d), NEW q, NEW t \in Tables, NEW x \in Keys(t)
  PROVE  Entries(Changes(d, q), t, x) =
           IF RowAt(d, t, x) # NoRow /\ RowAt(d, t, x).seq > q THEN {Face(t, RowAt(d, t, x))} ELSE {}
<1> DEFINE N == {[id |-> n, val |-> d.notes[n].val] :
                   n \in {o \in NoteId : d.notes[o] # NoRow /\ d.notes[o].seq > q}}
           I == {[id |-> i, note |-> d.items[i].note, val |-> d.items[i].val] :
                   i \in {j \in ItemId : d.items[j] # NoRow /\ d.items[j].seq > q}}
           L == {[pair |-> p, attached |-> d.links[p].val["attached"]] :
                   p \in {o \in NoteId \X LabelId : d.links[o] # NoRow /\ d.links[o].seq > q}}
<1>1. Changes(d, q) = [notes |-> N, items |-> I, links |-> L]
  BY DEF Changes
<1>2. CASE t = "note"
  <2>1. x \in NoteId /\ RowAt(d, t, x) = d.notes[x]
    BY <1>2 DEF Keys, RowAt
  <2>2. {r \in N : r.id = x} = IF d.notes[x] # NoRow /\ d.notes[x].seq > q
                               THEN {[id |-> x, val |-> d.notes[x].val]} ELSE {}
    BY <2>1
  <2> HIDE DEF N, I, L
  <2>3. Entries(Changes(d, q), t, x) = {r.val : r \in {o \in N : o.id = x}}
    BY <1>1, <1>2 DEF Entries
  <2>4. d.notes[x] # NoRow => Face(t, d.notes[x]) = d.notes[x].val
    BY <1>2 DEF Face
  <2>5. CASE d.notes[x] # NoRow /\ d.notes[x].seq > q
    <3> DEFINE v == [id |-> x, val |-> d.notes[x].val]
    <3>1. {o \in N : o.id = x} = {v} /\ v.val = d.notes[x].val
      BY <2>2, <2>5
    <3> HIDE DEF v
    <3>2. Entries(Changes(d, q), t, x) = {Face(t, d.notes[x])}
      BY <2>3, <2>4, <2>5, <3>1
    <3> QED BY <2>1, <2>5, <3>2
  <2>6. CASE ~(d.notes[x] # NoRow /\ d.notes[x].seq > q)
    BY <2>1, <2>2, <2>3, <2>6
  <2> QED BY <2>5, <2>6
<1>3. CASE t = "item"
  <2>1. x \in ItemId /\ RowAt(d, t, x) = d.items[x]
    BY <1>3 DEF Keys, RowAt
  <2>2. {r \in I : r.id = x} = IF d.items[x] # NoRow /\ d.items[x].seq > q
                               THEN {[id |-> x, note |-> d.items[x].note, val |-> d.items[x].val]}
                               ELSE {}
    BY <2>1
  <2> HIDE DEF N, I, L
  <2>3. Entries(Changes(d, q), t, x) =
          {IF r.val["deleted"] THEN NoRow ELSE r.val : r \in {o \in I : o.id = x}}
    BY <1>1, <1>3 DEF Entries
  <2>4. d.items[x] # NoRow =>
          Face(t, d.items[x]) = IF d.items[x].val["deleted"] THEN NoRow ELSE d.items[x].val
    BY <1>3 DEF Face
  <2>5. CASE d.items[x] # NoRow /\ d.items[x].seq > q
    <3> DEFINE v == [id |-> x, note |-> d.items[x].note, val |-> d.items[x].val]
    <3>1. {o \in I : o.id = x} = {v} /\ v.val = d.items[x].val
      BY <2>2, <2>5
    <3> HIDE DEF v
    <3>2. Entries(Changes(d, q), t, x) = {Face(t, d.items[x])}
      BY <2>3, <2>4, <2>5, <3>1
    <3> QED BY <2>1, <2>5, <3>2
  <2>6. CASE ~(d.items[x] # NoRow /\ d.items[x].seq > q)
    BY <2>1, <2>2, <2>3, <2>6
  <2> QED BY <2>5, <2>6
<1>4. CASE t = "link"
  <2>1. x \in NoteId \X LabelId /\ RowAt(d, t, x) = d.links[x]
    BY <1>4 DEF Keys, RowAt
  <2>2. {r \in L : r.pair = x} = IF d.links[x] # NoRow /\ d.links[x].seq > q
                                 THEN {[pair |-> x, attached |-> d.links[x].val["attached"]]}
                                 ELSE {}
    BY <2>1
  <2> HIDE DEF N, I, L
  <2>3. Entries(Changes(d, q), t, x) =
          {IF r.attached THEN 1 ELSE 0 : r \in {o \in L : o.pair = x}}
    BY <1>1, <1>4 DEF Entries
  <2>4. d.links[x] # NoRow =>
          Face(t, d.links[x]) = IF d.links[x].val["attached"] THEN 1 ELSE 0
    BY <1>4 DEF Face
  <2>5. CASE d.links[x] # NoRow /\ d.links[x].seq > q
    <3> DEFINE v == [pair |-> x, attached |-> d.links[x].val["attached"]]
    <3>1. {o \in L : o.pair = x} = {v} /\ v.attached = d.links[x].val["attached"]
      BY <2>2, <2>5
    <3> HIDE DEF v
    <3>2. Entries(Changes(d, q), t, x) = {Face(t, d.links[x])}
      BY <2>3, <2>4, <2>5, <3>1
    <3> QED BY <2>1, <2>5, <3>2
  <2>6. CASE ~(d.links[x] # NoRow /\ d.links[x].seq > q)
    BY <2>1, <2>2, <2>3, <2>6
  <2> QED BY <2>5, <2>6
<1> QED BY <1>2, <1>3, <1>4 DEF Tables

\* An unanswered call has asked since no later seq than any list has read.
LEMMA Sheltered ==
  ASSUME NEW d, GoodDB(d), NEW S, NEW k, NEW f, TabInv(d, S, k, f), Sound(f, d.seq), Whole(f),
         NEW a \in Asked(k, f), NEW n \in NoteId \ S, d.notes[n] # NoRow, ~(d.notes[n].seq > a)
  PROVE  Shelters(k, f, n)
<1>1. /\ "note" \in Tables /\ n \in Keys("note") /\ RowAt(d, "note", n) = d.notes[n]
      /\ Home("note", n) = n /\ ~Out(d, S, "note", n)
  BY NoteKeys
<1>2. d.notes[n].seq \in Nat /\ a \in Nat /\ d.notes[n].seq <= a
  BY <1>1, RowSeq DEF TabInv, InTurn
<1>3. k.notes[n] # NoRow
  BY <1>1 DEF TabInv, Finds, Ahead
<1>4. ASSUME NEW s \in DOMAIN f, f[s].kind = "list", f[s].got # NoReply
      PROVE  f[s].got.shown.notes[n] # NoRow
  <2>1. Heard(f[s]) /\ Told(f[s]) = f[s].got /\ f[s].reply # NoReply
    BY <1>4 DEF Heard, Told, Whole
  <2>2. ListFaith(d, S, f[s])
    BY <1>4, <2>1 DEF TabInv, Knows
  <2>3. f[s].todo = {}
    BY <2>1, <2>2 DEF ListFaith
  <2>4. a <= f[s].got.seq /\ f[s].got.seq \in Nat
    BY <2>1, ToldSeq DEF TabInv, InTurn, Sound
  <2>5. d.notes[n].seq <= f[s].got.seq
    BY <1>2, <2>4
  <2>6. Sight(f[s].got.shown, "note", n) = Face("note", d.notes[n])
    BY <1>1, <2>2, <2>3, <2>5 DEF ListFaith
  <2>7. f[s].got.shown.notes[n] = d.notes[n].val
    BY <2>6 DEF Sight, Face
  <2>8. d.notes[n].val \in NoteVal
    BY DEF GoodDB, Database, NoteRow
  <2> QED BY <2>7, <2>8, StoreAssumption
<1> QED BY <1>3, <1>4 DEF Shelters

\* What the server tells of its changes can be relied on.
LEMMA TabAnswered ==
  ASSUME NEW d, GoodDB(d), Hangs(d), NEW S, NEW k, NEW f, TabInv(d, S, k, f), Sound(f, d.seq),
         Whole(f), NEW s, NEW g, NEW r, Changed(f, g, s, r),
         f[s].reply = NoReply, f[s].kind # "list", r.kind = f[s].kind,
         r.kind = "sync" => r.since = f[s].since /\ r.batch = f[s].batch,
         Heard(r) => r.reply.seq = d.seq /\ r.reply.changes = Changes(d, r.since),
         Closed(d, S, r)
  PROVE  TabInv(d, S, k, g)
<1>1. /\ s \in DOMAIN f /\ DOMAIN g = DOMAIN f /\ g[s] = r
      /\ \A t \in DOMAIN f \ {s} : g[t] = f[t]
  BY DEF Changed
<1>2. Asked(k, g) = Asked(k, f)
  BY <1>1 DEF Asked
<1>3. \A m : Holds(k, f, m) <=> Holds(k, g, m)
  BY <1>1 DEF Holds
<1>4. Nears(d, S, k, g)
  BY <1>2, <1>3, NearKept DEF TabInv, Nears
<1>5. Finds(d, S, k, g)
  BY <1>2, FindsKept DEF TabInv
<1>6. InTurn(d.seq, k, g)
  <2>1. Heard(r) => \A a \in Asked(k, f) : a <= Told(r).seq
    BY DEF TabInv, InTurn, Heard, Told
  <2> QED BY <1>1, <1>2, <2>1 DEF TabInv, InTurn
<1>7. \A n \in NoteId : Shelters(k, f, n) => Shelters(k, g, n)
  BY <1>1 DEF Shelters
<1>8. \A t \in DOMAIN f : Knows(d, S, k, g, f[t])
  BY <1>7, KnowsKept DEF TabInv
<1>9. ASSUME r.kind = "sync", Heard(r) PROVE SyncFaith(d, S, r) /\ Hosted(d, S, k, g, r)
  <2>1. r.reply.seq = d.seq /\ r.reply.changes = Changes(d, r.since) /\ r.since \in Asked(k, f)
    BY <1>1, <1>9 DEF Asked
  <2>2. \A t \in Tables : \A x \in Keys(t) :
          Entries(r.reply.changes, t, x) =
            IF RowAt(d, t, x) # NoRow /\ RowAt(d, t, x).seq > r.since
            THEN {Face(t, RowAt(d, t, x))} ELSE {}
    BY <2>1, ChangesEntries
  <2>3. \A q \in Changes(d, r.since).items : q.note = NoteOf[q.id]
    BY DEF Changes, GoodDB, AtHome
  <2>4. SyncFaith(d, S, r)
    BY <2>1, <2>2, <2>3 DEF SyncFaith
  <2>5. ASSUME NEW t \in {"item", "link"}, NEW x \in Keys(t), ~Out(d, S, t, x),
               Entries(r.reply.changes, t, x) # {}
        PROVE  /\ d.notes[Home(t, x)] # NoRow
               /\ Entries(r.reply.changes, "note", Home(t, x)) # {} \/ Shelters(k, g, Home(t, x))
    <3> DEFINE n == Home(t, x)
    <3>1. t \in Tables /\ RowAt(d, t, x) # NoRow
      BY <2>2, <2>5 DEF Tables
    <3>2. n \in NoteId \ S
      BY <2>5, <3>1, HomeType DEF Out
    <3>3. d.notes[n] # NoRow
      BY <2>5, <3>1 DEF Hangs, Tables, Keys, RowAt, Home
    <3> HIDE DEF n
    <3>4. Entries(r.reply.changes, "note", n) =
            IF d.notes[n].seq > r.since THEN {Face("note", d.notes[n])} ELSE {}
      BY <2>2, <3>2, <3>3, NoteKeys
    <3>5. ~(d.notes[n].seq > r.since) => Shelters(k, f, n)
      BY <2>1, <3>2, <3>3, Sheltered
    <3> QED BY <1>7, <3>2, <3>3, <3>4, <3>5 DEF n
  <2> QED BY <2>4, <2>5 DEF Hosted
<1>10. Knows(d, S, k, g, r)
  BY <1>1, <1>9 DEF Knows
<1> QED BY <1>1, <1>4, <1>5, <1>6, <1>8, <1>10 DEF TabInv

\* A call is answered.
LEMMA Replying ==
  ASSUME NEW k \in SomeCall, NEW v, NEW r, r = [k EXCEPT !.reply = v]
  PROVE  /\ r.kind = k.kind /\ r.reply = v
         /\ k.kind = "sync" => r.since = k.since /\ r.batch = k.batch
         /\ k.kind \in {"purge", "audio"} => r.note = k.note
         /\ k.kind = "label" => r.label = k.label
<1>1. CASE k \in SyncCall
  BY <1>1 DEF SyncCall
<1>2. CASE k \in ListCall
  BY <1>2 DEF ListCall
<1>3. CASE k \in PurgeCall
  BY <1>3 DEF PurgeCall
<1>4. CASE k \in AudioCall
  BY <1>4 DEF AudioCall
<1>5. CASE k \in LabelCall
  BY <1>5 DEF LabelCall
<1> QED BY <1>1, <1>2, <1>3, <1>4, <1>5 DEF SomeCall

\* What a handler's outcome says of what it did.
LEMMA OutcomeTells ==
  ASSUME GoodDB(db), NEW k \in SomeCall, k.kind # "list", NEW o \in Outcomes(k), NEW S,
         k.kind = "purge" => k.note \in S, NEW r, r = [k EXCEPT !.reply = o.reply]
  PROVE  /\ Heard(r) => r.reply.seq = o.db.seq /\ r.reply.changes = Changes(o.db, r.since)
         /\ Closed(o.db, S, r)
<1>1. /\ r.kind = k.kind /\ r.reply = o.reply
      /\ k.kind = "sync" => r.since = k.since /\ r.batch = k.batch
      /\ k.kind \in {"purge", "audio"} => r.note = k.note
      /\ k.kind = "label" => r.label = k.label
  BY Replying
<1>2. Served(k, o, S)
  BY OutcomeServed
<1>3. ASSUME Heard(r)
      PROVE  r.reply.seq = o.db.seq /\ r.reply.changes = Changes(o.db, r.since)
  <2>1. k.kind = "sync" /\ o.reply.ok
    BY <1>1, <1>3 DEF Heard
  <2>2. o \in Syncing(k.since, k.batch)
    BY <2>1 DEF Outcomes
  <2>3. o.reply = Answer(o.db, k.since)
    BY <2>1, <2>2 DEF Syncing
  <2>4. o.reply.changes = Changes(o.db, k.since) /\ o.reply.seq = o.db.seq
    BY <2>3 DEF Answer
  <2> QED BY <1>1, <2>1, <2>4
<1>4. k.kind = "label" => o.db.labels[k.label] = NoRow
  <2> SUFFICES ASSUME k.kind = "label" PROVE o.db.labels[k.label] = NoRow
    OBVIOUS
  <2>1. k.label \in LabelId
    BY CallKinds DEF LabelCall
  <2>2. o \in DeletingLabel(k.label)
    BY DEF Outcomes
  <2>3. o.db = RemoveLabel(db, k.label)
    BY <2>2 DEF DeletingLabel
  <2>4. db.labels \in [LabelId -> LabelName \cup {NoRow}] /\ db \in Database
    BY DEF GoodDB, Database
  <2> QED BY <2>1, <2>3, <2>4 DEF RemoveLabel, Database
<1>5. k.kind = "audio" => o.db.notes[k.note] # NoRow
  BY <1>2 DEF Served
<1>6. Closed(o.db, S, r)
  BY <1>1, <1>4, <1>5 DEF Closed
<1> QED BY <1>3, <1>6

\* The server handles a call: what the tabs know stays true.
LEMMA TabsServed ==
  ASSUME ConvergeInv, ~Torn, NEW k \in SomeCall, NEW o, Serves(k, o)
  PROVE  /\ GoodDB(db') /\ Hangs(db') /\ db' = o.db /\ o \in Outcomes(k)
         /\ k.kind = "purge" => k.note \in purged'
         /\ \A e \in Client : /\ TabInv(db', purged', client'[e], calls[e])
                              /\ Sound(calls[e], db'.seq) /\ Whole(calls[e])
<1>1. /\ k.kind # "list" /\ o \in Outcomes(k) /\ ~HalfRead /\ db' = o.db
      /\ purged' = (IF k.kind = "purge" THEN purged \cup {k.note} ELSE purged) /\ Rearmed
  BY DEF Serves
<1>2. purged \subseteq purged' /\ (k.kind = "purge" => k.note \in purged')
  BY <1>1
<1>3. GoodDB(db) /\ Hangs(db) /\ TypeInv
  BY DEF ConvergeInv, EarlyInv, TypeInv
<1>4. Served(k, o, purged')
  BY <1>1, <1>2, <1>3, OutcomeServed
<1>5. GoodDB(db') /\ db.seq <= db'.seq
  BY <1>1, <1>4 DEF Served
<1>6. Moved(db, db', purged') /\ Hangs(db')
  BY <1>1, <1>2, <1>3, OutcomeMoves
<1>7. ASSUME NEW e \in Client
      PROVE  /\ TabInv(db', purged', client'[e], calls[e])
             /\ Sound(calls[e], db'.seq) /\ Whole(calls[e])
  <2>1. Sound(calls[e], db.seq)
    BY <1>3, CallIn DEF Sound, Busy
  <2>2. Whole(calls[e])
    BY <1>1 DEF HalfRead, Whole, Busy
  <2>3. TabInv(db', purged', client[e], calls[e])
    BY <1>2, <1>3, <1>5, <1>6, <2>1, <2>2, TabMoved DEF ConvergeInv
  <2>4. TabInv(db', purged', client'[e], calls[e])
    BY <1>1, <2>3, TabKept DEF Rearmed
  <2>5. Sound(calls[e], db'.seq)
    <3>1. db.seq \in Nat /\ db'.seq \in Nat
      BY <1>3, <1>5 DEF GoodDB, Database
    <3>2. \A s \in DOMAIN calls[e] : Known(calls[e][s], db'.seq)
      BY <1>5, <2>1, <3>1, KnownOn DEF Sound
    <3> QED BY <2>1, <3>2 DEF Sound
  <2> QED BY <2>2, <2>4, <2>5
<1> QED BY <1>1, <1>2, <1>5, <1>6, <1>7

\* The server answers a call: what it accepts of a row moves it ahead of every tab.
LEMMA ConvergeAnswers ==
  ASSUME ConvergeInv, ~Torn, NEW c \in Client, NEW s, NEW g, NEW o, Answers(c, s, g, o)
  PROVE  Hangs(db') /\ \A e \in Client : TabInv(db', purged', client'[e], calls'[e])
<1> DEFINE k == calls[c][s]
           r == [k EXCEPT !.reply = o.reply]
<1>1. /\ Changed(calls[c], g, s, r) /\ calls' = [calls EXCEPT ![c] = g] /\ Serves(k, o)
      /\ k.reply = NoReply /\ k.kind # "list" /\ calls \in [Client -> Desk]
  BY DEF Answers, Serves, ConvergeInv, EarlyInv, TypeInv
<1>2. k \in SomeCall
  BY <1>1, CallIn DEF ConvergeInv, EarlyInv, Changed, Busy
<1>3. /\ GoodDB(db') /\ Hangs(db') /\ db' = o.db /\ o \in Outcomes(k)
      /\ k.kind = "purge" => k.note \in purged'
      /\ \A e \in Client : /\ TabInv(db', purged', client'[e], calls[e])
                           /\ Sound(calls[e], db'.seq) /\ Whole(calls[e])
  BY <1>1, <1>2, TabsServed
<1>4. GoodDB(db)
  BY DEF ConvergeInv, EarlyInv, TypeInv
<1>5. r = [k EXCEPT !.reply = o.reply]
  OBVIOUS
<1> HIDE DEF r, k
<1>6. /\ Heard(r) => r.reply.seq = db'.seq /\ r.reply.changes = Changes(db', r.since)
      /\ Closed(db', purged', r)
  BY <1>1, <1>2, <1>3, <1>4, <1>5, OutcomeTells
<1>7. r.kind = k.kind /\ (k.kind = "sync" => r.since = k.since /\ r.batch = k.batch)
  BY <1>2, <1>5, Replying
<1> USE DEF k
<1>8. TabInv(db', purged', client'[c], g)
  BY <1>1, <1>3, <1>6, <1>7, TabAnswered
<1>9. ASSUME NEW e \in Client PROVE TabInv(db', purged', client'[e], calls'[e])
  <2>1. CASE e = c
    BY <1>1, <1>8, <2>1
  <2>2. CASE e # c
    BY <1>1, <1>3, <2>2
  <2> QED BY <2>1, <2>2
<1> QED BY <1>3, <1>9

\* The server handles a late duplicate.
LEMMA ConvergeGhost ==
  ASSUME ConvergeInv, ~Torn, NEW g, NEW o, AnswersGhost(g, o)
  PROVE  Hangs(db') /\ \A e \in Client : TabInv(db', purged', client'[e], calls'[e])
<1>1. g \in SomeCall /\ Serves(g, o) /\ calls' = calls
  BY DEF AnswersGhost, ConvergeInv, EarlyInv, TypeInv
<1> QED BY <1>1, TabsServed

------------------------------------------------------------------------------
(* The reading of a list. *)

\* A list reads on.
LEMMA TabReads ==
  ASSUME NEW d, GoodDB(d), NEW S, NEW k, NEW f, TabInv(d, S, k, f),
         NEW s, NEW g, NEW r \in ListCall, Changed(f, g, s, r), f[s].kind = "list",
         r.got # NoReply, r.got.seq = d.seq, ListFaith(d, S, r)
  PROVE  TabInv(d, S, k, g)
<1>1. /\ s \in DOMAIN f /\ DOMAIN g = DOMAIN f /\ g[s] = r
      /\ \A t \in DOMAIN f \ {s} : g[t] = f[t]
  BY DEF Changed
<1>2. r.kind = "list" /\ r.todo \in SUBSET ({"items", "labels"} \X NoteId)
  BY DEF ListCall
<1>3. Asked(k, g) = Asked(k, f)
  BY <1>1, <1>2 DEF Asked
<1>4. \A m : Holds(k, f, m) <=> Holds(k, g, m)
  BY <1>1, <1>2 DEF Holds
<1>5. Nears(d, S, k, g)
  BY <1>3, <1>4, NearKept DEF TabInv, Nears
<1>6. Finds(d, S, k, g)
  BY <1>3, FindsKept DEF TabInv
<1>7. InTurn(d.seq, k, g)
  BY <1>1, <1>2, <1>3 DEF TabInv, InTurn, Heard, Told
<1>8. ASSUME NEW n \in NoteId \ S, d.notes[n] # NoRow, Shelters(k, f, n) PROVE Shelters(k, g, n)
  <2>1. /\ "note" \in Tables /\ n \in Keys("note") /\ RowAt(d, "note", n) = d.notes[n]
        /\ Home("note", n) = n /\ ~Out(d, S, "note", n)
    BY NoteKeys
  <2>2. d.notes[n].seq <= r.got.seq
    BY <1>8, <2>1, RowSeq
  <2>3. <<Part("note"), n>> \notin r.todo
    BY <1>2 DEF Part
  <2>4. Sight(r.got.shown, "note", n) = Face("note", d.notes[n])
    BY <2>1, <2>2, <2>3 DEF ListFaith
  <2>5. r.got.shown.notes[n] = d.notes[n].val
    BY <1>8, <2>4 DEF Sight, Face
  <2>6. d.notes[n].val \in NoteVal
    BY <1>8 DEF GoodDB, Database, NoteRow
  <2>7. r.got.shown.notes[n] # NoRow
    BY <2>5, <2>6, StoreAssumption
  <2> QED BY <1>1, <1>8, <2>7 DEF Shelters
<1>9. \A t \in DOMAIN f : Knows(d, S, k, g, f[t])
  BY <1>8, KnowsKept DEF TabInv
<1>10. Knows(d, S, k, g, r)
  BY <1>2 DEF Knows, Closed
<1> QED BY <1>1, <1>5, <1>6, <1>7, <1>9, <1>10 DEF TabInv

\* The list after a read.
LEMMA ReadIs ==
  ASSUME TypeInv, NEW c \in Client, NEW s, Listing(c, s), NEW got, NEW todo,
         Read(c, s, got, todo), NEW k, NEW g, Reads(c, s, k, g)
  PROVE  /\ Changed(calls[c], g, s, k) /\ calls' = [calls EXCEPT ![c] = g]
         /\ calls[c][s] \in ListCall /\ k \in ListCall
         /\ k.got = got /\ k.todo = todo /\ k.reply = IF todo = {} THEN got ELSE NoReply
         /\ UNCHANGED <<db, client, purged>>
<1> DEFINE old == calls[c][s]
           r == IF todo = {} THEN got ELSE NoReply
           q == [old EXCEPT !.got = got, !.todo = todo, !.reply = r]
<1>1. s \in Busy(c) /\ old.kind = "list"
  BY DEF Listing
<1>2. old \in ListCall
  BY <1>1, CallIn, CallKinds
<1>3. calls' = [calls EXCEPT ![c] = [@ EXCEPT ![s] = q]]
  BY DEF Read
<1>4. /\ Changed(calls[c], g, s, k) /\ calls' = [calls EXCEPT ![c] = g] /\ k \in ListCall
      /\ UNCHANGED <<db, client, purged>>
  BY DEF Reads
<1> HIDE DEF r
<1>5. q.got = got /\ q.todo = todo /\ q.reply = r
  BY <1>2 DEF ListCall
<1> HIDE DEF q
<1>6. calls \in [Client -> Desk] /\ calls[c] \in [Busy(c) -> SomeCall]
  BY DeskShape DEF TypeInv, Busy
<1>7. k = q
  <2>1. calls'[c] = [calls[c] EXCEPT ![s] = q]
    BY <1>3, <1>6
  <2>2. calls'[c] = g
    BY <1>4, <1>6
  <2>3. g[s] = q
    BY <1>1, <1>6, <2>1, <2>2
  <2> QED BY <1>4, <2>3 DEF Changed
<1> QED BY <1>2, <1>4, <1>5, <1>7 DEF r

\* What a list that has yet to read something has read is the latest.
LEMMA Unread ==
  ASSUME ConvergeInv, NEW c \in Client, NEW s, Listing(c, s), calls[c][s].todo # {}
  PROVE  /\ calls[c][s].got # NoReply /\ calls[c][s].got.seq = db.seq
         /\ ListFaith(db, purged, calls[c][s])
<1>1. /\ calls[c][s].got \in ListReply /\ s \in DOMAIN calls[c] /\ calls[c][s].kind = "list"
  BY ListGot DEF ConvergeInv, EarlyInv, Listing, Busy
<1>2. calls[c][s].got # NoReply
  BY <1>1, SyncSystemAssumption
<1>3. ListFaith(db, purged, calls[c][s])
  BY <1>1, <1>2 DEF ConvergeInv, TabInv, Knows, Heard
<1> QED BY <1>2, <1>3 DEF ListFaith

\* The first query of a list.
LEMMA NotesFaith ==
  ASSUME ConvergeInv, NEW c \in Client, NEW s, ListNotes(c, s), NEW k, NEW g, Reads(c, s, k, g)
  PROVE  ListFaith(db, purged, k) /\ k.got # NoReply /\ k.got.seq = db.seq
<1> DEFINE there == {n \in NoteId : db.notes[n] # NoRow}
           high == Highest(0, {db.notes[n].seq : n \in there})
           none == Authoritative(EmptyDB)
           shown == [none EXCEPT !.notes = Authoritative(db).notes]
           got == [ok |-> TRUE, seq |-> db.seq, cursor |-> high, shown |-> shown]
           todo == {"items", "labels"} \X there
<1>1. db \in Database /\ db.seq \in Nat /\ RowsBelow(db) /\ Hangs(db) /\ TypeInv
  BY DEF ConvergeInv, EarlyInv, TypeInv, GoodDB, Database
<1>2. high \in 0 .. db.seq
  <2>1. \A n \in there : db.notes[n].seq \in 0 .. db.seq
    BY <1>1, Rows DEF RowsBelow, Below, Database
  <2>2. {db.notes[n].seq : n \in there} \in SUBSET (0 .. db.seq)
    BY <2>1
  <2> HIDE DEF there
  <2> QED BY <1>1, <2>2, HighestType
<1>3. /\ \A n \in NoteId : shown.notes[n] = Face("note", db.notes[n])
      /\ \A i \in ItemId : shown.items[i] = NoRow
      /\ shown.links = {} /\ shown \in ShownRows
  <2>1. none = [notes |-> [n \in NoteId |-> NoRow], items |-> [i \in ItemId |-> NoRow], links |-> {}]
    BY DEF Authoritative, EmptyDB
  <2>2. none \in ShownRows /\ Authoritative(db) \in ShownRows
    BY <1>1, EmptyType, AuthoritativeType
  <2>3. \A n \in NoteId : Authoritative(db).notes[n] = Face("note", db.notes[n])
    BY DEF Authoritative, Face
  <2> HIDE DEF none
  <2> QED BY <2>1, <2>2, <2>3 DEF ShownRows
<1>4. Listing(c, s) /\ Read(c, s, got, todo)
  BY DEF ListNotes
<1> HIDE DEF high, shown
<1>5. got.seq = db.seq /\ got.cursor = high /\ got.shown = shown /\ got \in ListReply
  BY <1>1, <1>2, <1>3 DEF ListReply
<1>6. got # NoReply
  BY <1>5, SyncSystemAssumption
<1> HIDE DEF got
<1>7. \A a \in {"notes", "items", "labels"} : \A n \in NoteId :
        <<a, n>> \in todo <=> a # "notes" /\ db.notes[n] # NoRow
  OBVIOUS
<1> HIDE DEF todo, there
<1>8. k.got = got /\ k.todo = todo /\ k.reply = IF todo = {} THEN got ELSE NoReply
  BY <1>1, <1>4, ReadIs
<1>9. ASSUME NEW t \in Tables, NEW x \in Keys(t)
      PROVE  IF <<Part(t), Home(t, x)>> \in todo THEN Sight(shown, t, x) = Face(t, NoRow)
             ELSE Sight(shown, t, x) = Face(t, RowAt(db, t, x))
  <2>1. Home(t, x) \in NoteId /\ Part(t) \in {"notes", "items", "labels"}
    BY HomeType DEF Tables, Part
  <2>2. CASE t = "note"
    BY <1>3, <1>7, <2>1, <2>2 DEF Part, Keys, Home, Sight, RowAt
  <2>3. CASE t = "item"
    <3>1. x \in ItemId /\ (db.notes[Home(t, x)] = NoRow => RowAt(db, t, x) = NoRow)
      BY <1>1, <2>3 DEF Hangs, Keys, Home, RowAt
    <3>2. Sight(shown, t, x) = Face(t, NoRow)
      BY <1>3, <2>3, <3>1 DEF Sight, Face
    <3> QED BY <1>7, <2>1, <2>3, <3>1, <3>2 DEF Part
  <2>4. CASE t = "link"
    <3>1. x \in NoteId \X LabelId /\ (db.notes[Home(t, x)] = NoRow => RowAt(db, t, x) = NoRow)
      BY <1>1, <2>4 DEF Hangs, Keys, Home, RowAt
    <3>2. Sight(shown, t, x) = Face(t, NoRow)
      BY <1>3, <2>4, <3>1 DEF Sight, Face
    <3> QED BY <1>7, <2>1, <2>4, <3>1, <3>2 DEF Part
  <2> QED BY <2>2, <2>3, <2>4 DEF Tables
<1>10. high <= db.seq
  BY <1>1, <1>2
<1> QED BY <1>5, <1>6, <1>8, <1>9, <1>10 DEF ListFaith

\* The query of one note's items.
LEMMA ItemsFaith ==
  ASSUME ConvergeInv, NEW c \in Client, NEW s, NEW n \in NoteId, ListItems(c, s, n),
         NEW k, NEW g, Reads(c, s, k, g)
  PROVE  ListFaith(db, purged, k) /\ k.got # NoReply /\ k.got.seq = db.seq
<1> DEFINE old == calls[c][s]
           live == {i \in ItemsOf(db, n) : ~db.items[i].val["deleted"]}
           high == Highest(old.got.cursor, {db.items[i].seq : i \in live})
           I == [i \in ItemId |-> IF i \in live THEN db.items[i].val ELSE old.got.shown.items[i]]
           got == [old.got EXCEPT !.cursor = high, !.shown.items = I]
           todo == old.todo \ {<<"items", n>>}
<1>1. Listing(c, s) /\ <<"items", n>> \in old.todo /\ Read(c, s, got, todo)
  BY DEF ListItems
<1>2. TypeInv /\ db \in Database /\ db.seq \in Nat /\ RowsBelow(db) /\ AtHome(db)
  BY DEF ConvergeInv, EarlyInv, TypeInv, GoodDB, Database
<1>3. old.got.seq = db.seq /\ ListFaith(db, purged, old)
  BY <1>1, Unread
<1>4. old.got \in ListReply /\ old.got.shown \in ShownRows
  <2>1. old.got \in ListReply
    BY <1>1, <1>2, ListGot
  <2> QED BY <2>1 DEF ListReply
<1>5. high \in 0 .. db.seq
  <2>1. \A i \in live : db.items[i].seq \in 0 .. db.seq
    BY <1>2, Rows DEF RowsBelow, Below, Database, ItemsOf
  <2>2. {db.items[i].seq : i \in live} \in SUBSET (0 .. db.seq)
    BY <2>1
  <2>3. old.got.cursor \in Nat /\ old.got.cursor <= db.seq
    BY <1>3, <1>4 DEF ListFaith, ListReply
  <2>4. old.got.cursor \in 0 .. db.seq
    BY <1>2, <2>3
  <2> HIDE DEF live
  <2> QED BY <1>2, <2>2, <2>4, HighestType
<1>6. \A i \in ItemId : i \in live <=> /\ db.items[i] # NoRow /\ NoteOf[i] = n
                                       /\ ~db.items[i].val["deleted"]
  BY <1>2 DEF ItemsOf, AtHome
<1>7. /\ \A i \in ItemId : I[i] = IF i \in live THEN db.items[i].val ELSE old.got.shown.items[i]
      /\ I \in [ItemId -> ItemVal \cup {NoRow}]
  <2>1. \A i \in live : db.items[i].val \in ItemVal
    BY <1>2 DEF Database, ItemsOf, ItemRow
  <2> QED BY <1>4, <2>1 DEF ShownRows
<1> HIDE DEF live, high, I
<1>8. /\ got.seq = old.got.seq /\ got.cursor = high /\ got.shown.items = I
      /\ got.shown.notes = old.got.shown.notes /\ got.shown.links = old.got.shown.links
      /\ got.ok = TRUE
  BY <1>4 DEF ListReply, ShownRows
<1> HIDE DEF got
<1>9. \A a \in {"notes", "items", "labels"} : \A m \in NoteId :
        <<a, m>> \in todo <=> <<a, m>> \in old.todo /\ ~(a = "items" /\ m = n)
  OBVIOUS
<1> HIDE DEF todo
<1>10. /\ k.got = got /\ k.todo = todo /\ k.reply = IF todo = {} THEN got ELSE NoReply
       /\ k \in ListCall
  BY <1>1, <1>2, ReadIs
<1>11. k.got # NoReply
  <2>1. PICK x \in Nat, J \in [ItemId -> ItemVal \cup {NoRow}], r \in ListReply, w \in ShownRows :
          x = high /\ J = I /\ r = old.got /\ w = old.got.shown
    BY <1>2, <1>4, <1>5, <1>7
  <2>2. got = [r EXCEPT !.cursor = x, !.shown = [w EXCEPT !.items = J]]
    BY <1>4, <2>1 DEF got, ListReply, ShownRows
  <2>3. [w EXCEPT !.items = J] \in ShownRows
    BY DEF ShownRows
  <2>4. got \in ListReply
    BY <2>2, <2>3 DEF ListReply
  <2> QED BY <1>10, <2>4, SyncSystemAssumption
<1>12. ASSUME NEW t \in Tables, NEW x \in Keys(t), ~Out(db, purged, t, x)
       PROVE  IF <<Part(t), Home(t, x)>> \in todo THEN Sight(got.shown, t, x) = Face(t, NoRow)
              ELSE Sight(got.shown, t, x) = Face(t, RowAt(db, t, x))
  <2>1. Home(t, x) \in NoteId /\ Part(t) \in {"notes", "items", "labels"}
    BY HomeType DEF Tables, Part
  <2>2. IF <<Part(t), Home(t, x)>> \in old.todo
        THEN Sight(old.got.shown, t, x) = Face(t, NoRow)
        ELSE Sight(old.got.shown, t, x) = Face(t, RowAt(db, t, x))
    BY <1>2, <1>3, <1>12, RowSeq DEF ListFaith, ConvergeInv, EarlyInv, TypeInv
  <2>3. CASE t # "item"
    <3>1. Sight(got.shown, t, x) = Sight(old.got.shown, t, x)
      BY <1>8, <2>3 DEF Tables, Sight
    <3>2. Part(t) # "items"
      BY <2>3 DEF Tables, Part
    <3> QED BY <1>9, <2>1, <2>2, <3>1, <3>2
  <2>4. CASE t = "item"
    <3>1. x \in ItemId /\ Home(t, x) = NoteOf[x] /\ Part(t) = "items" /\ RowAt(db, t, x) = db.items[x]
      BY <2>4 DEF Keys, Home, Part, RowAt
    <3>2. Sight(got.shown, t, x) = I[x] /\ Sight(old.got.shown, t, x) = old.got.shown.items[x]
      BY <1>8, <2>4 DEF Sight
    <3>3. Face(t, db.items[x]) = IF db.items[x] = NoRow \/ db.items[x].val["deleted"] THEN NoRow
                                 ELSE db.items[x].val
      BY <2>4 DEF Face
    <3>4. Face(t, NoRow) = NoRow
      BY <2>4 DEF Face
    <3> QED BY <1>1, <1>6, <1>7, <1>9, <2>1, <2>2, <3>1, <3>2, <3>3, <3>4
  <2> QED BY <2>3, <2>4
<1>13. high <= db.seq
  BY <1>2, <1>5
<1> QED BY <1>3, <1>8, <1>10, <1>11, <1>12, <1>13 DEF ListFaith

\* The query of one note's attachments.
LEMMA LabelsFaith ==
  ASSUME ConvergeInv, NEW c \in Client, NEW s, NEW n \in NoteId, ListLabels(c, s, n),
         NEW k, NEW g, Reads(c, s, k, g)
  PROVE  ListFaith(db, purged, k) /\ k.got # NoReply /\ k.got.seq = db.seq
<1> DEFINE old == calls[c][s]
           L == old.got.shown.links \cup {p \in Authoritative(db).links : p[1] = n}
           got == [old.got EXCEPT !.shown.links = L]
           todo == old.todo \ {<<"labels", n>>}
<1>1. Listing(c, s) /\ <<"labels", n>> \in old.todo /\ Read(c, s, got, todo)
  BY DEF ListLabels
<1>2. TypeInv /\ GoodDB(db) /\ db \in Database
  BY DEF ConvergeInv, EarlyInv, TypeInv, GoodDB
<1>3. old.got.seq = db.seq /\ ListFaith(db, purged, old)
  BY <1>1, Unread
<1>4. old.got \in ListReply /\ old.got.shown \in ShownRows
  <2>1. old.got \in ListReply
    BY <1>1, <1>2, ListGot
  <2> QED BY <2>1 DEF ListReply
<1>5. \A p \in NoteId \X LabelId :
        p \in L <=> \/ p \in old.got.shown.links
                    \/ p[1] = n /\ db.links[p] # NoRow /\ db.links[p].val["attached"]
  BY DEF Authoritative
<1> HIDE DEF L
<1>6. /\ got.seq = old.got.seq /\ got.cursor = old.got.cursor /\ got.shown.items = old.got.shown.items
      /\ got.shown.notes = old.got.shown.notes /\ got.shown.links = L
  BY <1>4 DEF ListReply, ShownRows
<1> HIDE DEF got
<1>7. \A a \in {"notes", "items", "labels"} : \A m \in NoteId :
        <<a, m>> \in todo <=> <<a, m>> \in old.todo /\ ~(a = "labels" /\ m = n)
  OBVIOUS
<1> HIDE DEF todo
<1>8. k.got = got /\ k.todo = todo /\ k.reply = IF todo = {} THEN got ELSE NoReply
  BY <1>1, <1>2, ReadIs
<1>9. k.got # NoReply
  <2>1. L \in SUBSET (NoteId \X LabelId)
    BY <1>4 DEF ShownRows, Authoritative, L
  <2>2. PICK J \in SUBSET (NoteId \X LabelId), r \in ListReply, w \in ShownRows :
          J = L /\ r = old.got /\ w = old.got.shown
    BY <1>4, <2>1
  <2>3. got = [r EXCEPT !.shown = [w EXCEPT !.links = J]]
    BY <1>4, <2>2 DEF got, ListReply, ShownRows
  <2>4. [w EXCEPT !.links = J] \in ShownRows
    BY DEF ShownRows
  <2>5. got \in ListReply
    BY <2>3, <2>4 DEF ListReply
  <2> QED BY <1>8, <2>5, SyncSystemAssumption
<1>10. ASSUME NEW t \in Tables, NEW x \in Keys(t), ~Out(db, purged, t, x)
       PROVE  IF <<Part(t), Home(t, x)>> \in todo THEN Sight(got.shown, t, x) = Face(t, NoRow)
              ELSE Sight(got.shown, t, x) = Face(t, RowAt(db, t, x))
  <2>1. Home(t, x) \in NoteId /\ Part(t) \in {"notes", "items", "labels"}
    BY HomeType DEF Tables, Part
  <2>2. IF <<Part(t), Home(t, x)>> \in old.todo
        THEN Sight(old.got.shown, t, x) = Face(t, NoRow)
        ELSE Sight(old.got.shown, t, x) = Face(t, RowAt(db, t, x))
    BY <1>2, <1>3, <1>10, RowSeq DEF ListFaith
  <2>3. CASE t # "link"
    <3>1. Sight(got.shown, t, x) = Sight(old.got.shown, t, x)
      BY <1>6, <2>3 DEF Tables, Sight
    <3>2. Part(t) # "labels"
      BY <2>3 DEF Tables, Part
    <3> QED BY <1>7, <2>1, <2>2, <3>1, <3>2
  <2>4. CASE t = "link"
    <3>1. /\ x \in NoteId \X LabelId /\ Home(t, x) = x[1] /\ Part(t) = "labels"
          /\ RowAt(db, t, x) = db.links[x]
      BY <2>4 DEF Keys, Home, Part, RowAt
    <3>2. /\ Sight(got.shown, t, x) = IF x \in L THEN 1 ELSE 0
          /\ Sight(old.got.shown, t, x) = IF x \in old.got.shown.links THEN 1 ELSE 0
      BY <1>6, <2>4 DEF Sight
    <3>3. Face(t, db.links[x]) = IF db.links[x] # NoRow /\ db.links[x].val["attached"] THEN 1 ELSE 0
      BY <2>4 DEF Face
    <3>4. Face(t, NoRow) = 0
      BY <2>4 DEF Face
    <3>5. <<"labels", Home(t, x)>> \in todo <=> <<"labels", Home(t, x)>> \in old.todo /\ Home(t, x) # n
      BY <1>7, <2>1
    <3> QED BY <1>1, <1>5, <2>2, <3>1, <3>2, <3>3, <3>4, <3>5
  <2> QED BY <2>3, <2>4
<1> QED BY <1>3, <1>6, <1>8, <1>9, <1>10 DEF ListFaith

\* The queries of a list.
LEMMA ConvergeReads ==
  ASSUME ConvergeInv, NEW c \in Client, NEW s,
         ListNotes(c, s) \/ \E n \in NoteId : ListItems(c, s, n) \/ ListLabels(c, s, n)
  PROVE  Hangs(db') /\ \A e \in Client : TabInv(db', purged', client'[e], calls'[e])
<1>1. TypeInv /\ GoodDB(db) /\ Hangs(db) /\ calls \in [Client -> Desk]
  BY DEF ConvergeInv, EarlyInv, TypeInv
<1>2. PICK k, g : Reads(c, s, k, g)
  BY <1>1, ListNotesShape, ListItemsShape, ListLabelsShape
<1>3. ListFaith(db, purged, k) /\ k.got # NoReply /\ k.got.seq = db.seq
  BY <1>2, NotesFaith, ItemsFaith, LabelsFaith
<1>4. /\ Changed(calls[c], g, s, k) /\ calls' = [calls EXCEPT ![c] = g]
      /\ calls[c][s].kind = "list" /\ k \in ListCall
      /\ db' = db /\ client' = client /\ purged' = purged
  BY <1>2 DEF Reads
<1>5. TabInv(db, purged, client[c], g)
  BY <1>1, <1>3, <1>4, TabReads DEF ConvergeInv
<1>6. ASSUME NEW e \in Client PROVE TabInv(db, purged, client[e], calls'[e])
  <2>1. CASE e = c
    BY <1>1, <1>4, <1>5, <2>1
  <2>2. CASE e # c
    BY <1>1, <1>4, <2>2 DEF ConvergeInv
  <2> QED BY <2>1, <2>2
<1> QED BY <1>1, <1>4, <1>6

------------------------------------------------------------------------------
(* The ends of the calls. *)

\* One tab moves on its own.
LEMMA OneTab ==
  ASSUME ConvergeInv, NEW c \in Client, NEW q, NEW g, client' = [client EXCEPT ![c] = q],
         calls' = [calls EXCEPT ![c] = g], db' = db, purged' = purged, TabInv(db, purged, q, g)
  PROVE  Hangs(db') /\ \A e \in Client : TabInv(db', purged', client'[e], calls'[e])
<1>1. client \in [Client -> Tab] /\ calls \in [Client -> Desk]
  BY DEF ConvergeInv, EarlyInv, TypeInv
<1>2. ASSUME NEW e \in Client PROVE TabInv(db, purged, client'[e], calls'[e])
  <2>1. CASE e = c
    BY <1>1, <2>1
  <2>2. CASE e # c
    BY <1>1, <2>2 DEF ConvergeInv
  <2> QED BY <2>1, <2>2
<1> QED BY <1>2 DEF ConvergeInv

\* A call is over, and what it changed in the tab is out of account or ahead.
LEMMA TabEnds ==
  ASSUME NEW d, NEW S, NEW k, NEW f, TabInv(d, S, k, f), NEW s, NEW g, Removed(f, g, s),
         NEW q, q.cursor = k.cursor, \A m \in Bundle : Holds(k, f, m) => Holds(q, g, m),
         \A t \in Tables : \A x \in Keys(t) :
           Out(d, S, t, x) \/ Sight(q, t, x) = Sight(k, t, x) \/ Ahead(d, k, f, t, x),
         \A n \in NoteId \ S : k.notes[n] # NoRow => q.notes[n] # NoRow
  PROVE  TabInv(d, S, q, g)
<1>1. DOMAIN g \subseteq DOMAIN f /\ \A t \in DOMAIN g : g[t] = f[t]
  BY DEF Removed
<1>2. Asked(q, g) \subseteq Asked(k, f)
  BY <1>1 DEF Asked
<1>3. ASSUME NEW t \in Tables, NEW x \in Keys(t) PROVE Near(d, S, q, g, t, x)
  <2>1. CASE Out(d, S, t, x)
    BY <2>1 DEF Near
  <2>2. CASE Sight(q, t, x) = Sight(k, t, x)
    BY <1>2, <2>2, NearKept DEF TabInv, Nears
  <2>3. CASE Ahead(d, k, f, t, x)
    BY <1>2, <2>3 DEF Near, Ahead
  <2> QED BY <2>1, <2>2, <2>3
<1>4. Finds(d, S, q, g)
  BY <1>2, FindsKept DEF TabInv
<1>5. InTurn(d.seq, q, g)
  BY <1>1, <1>2 DEF TabInv, InTurn
<1>6. \A n \in NoteId \ S : Shelters(k, f, n) => Shelters(q, g, n)
  BY <1>1 DEF Shelters
<1>7. \A t \in DOMAIN g : Knows(d, S, q, g, g[t])
  BY <1>1, <1>6, KnowsKept DEF TabInv
<1> QED BY <1>3, <1>4, <1>5, <1>7 DEF TabInv, Nears

\* What a call that is not a sync's leaves in flight.
LEMMA StillHeld ==
  ASSUME NEW k, NEW f, NEW s, NEW g, Removed(f, g, s), f[s].kind # "sync",
         NEW q, q.pending = k.pending, NEW m, Holds(k, f, m)
  PROVE  Holds(q, g, m)
BY DEF Removed, Holds

\* A refused or failed call puts its batch back.
LEMMA ConvergeError ==
  ASSUME ConvergeInv, NEW c \in Client, NEW s, ReceiveRefusal(c, s) \/ Fail(c, s)
  PROVE  Hangs(db') /\ \A e \in Client : TabInv(db', purged', client'[e], calls'[e])
<1> DEFINE k == client[c]
           f == calls[c]
           q == AfterError(c, f[s])
<1>1. /\ s \in Busy(c) /\ Finished(c, s) /\ client' = [client EXCEPT ![c] = q]
      /\ db' = db /\ purged' = purged
  BY DEF ReceiveRefusal, Fail
<1>2. TypeInv /\ TabInv(db, purged, k, f) /\ k \in Tab /\ f[s] \in SomeCall
  BY <1>1, TabNow, CallIn DEF ConvergeInv, EarlyInv
<1>3. PICK g : Removed(f, g, s) /\ calls' = [calls EXCEPT ![c] = g]
  BY <1>1, <1>2, FinishShape
<1>4. /\ q.cursor = k.cursor /\ q.notes = k.notes /\ q.items = k.items /\ q.links = k.links
      /\ \A m : Holds(k, f, m) => Holds(q, g, m)
  <2>1. CASE f[s].kind # "sync"
    <3>1. q = k
      BY <2>1 DEF AfterError
    <3> QED BY <1>3, <2>1, <3>1, StillHeld
  <2>2. CASE f[s].kind = "sync"
    <3>1. q = [k EXCEPT !.pending = f[s].batch \o k.pending]
      BY <2>2 DEF AfterError, Requeue
    <3>2. f[s].batch \in Seq(Bundle) /\ k.pending \in Seq(Bundle)
      BY <1>2, <2>2, CallKinds DEF SyncCall, Tab
    <3>3. /\ q.pending = f[s].batch \o k.pending /\ q.cursor = k.cursor /\ q.notes = k.notes
          /\ q.items = k.items /\ q.links = k.links
      BY <1>2, <3>1 DEF Tab
    <3> HIDE DEF q
    <3>4. ToSet(q.pending) = ToSet(f[s].batch) \cup ToSet(k.pending)
      BY <3>2, <3>3, ConcatSet
    <3>5. \A m : Holds(k, f, m) => Holds(q, g, m)
      BY <1>3, <3>4 DEF Holds, Removed
    <3> QED BY <3>3, <3>5
  <2> QED BY <2>1, <2>2
<1> HIDE DEF q, k, f
<1>5. \A t \in Tables : \A x : Sight(q, t, x) = Sight(k, t, x)
  BY <1>4 DEF Tables, Sight
<1>6. TabInv(db, purged, q, g)
  BY <1>2, <1>3, <1>4, <1>5, TabEnds
<1> QED BY <1>1, <1>3, <1>6, OneTab

\* An upload's answer draws a note that is ahead.
LEMMA ConvergeAudio ==
  ASSUME ConvergeInv, NEW c \in Client, NEW s, ReceiveAudio(c, s)
  PROVE  Hangs(db') /\ \A e \in Client : TabInv(db', purged', client'[e], calls'[e])
<1> DEFINE k == client[c]
           f == calls[c]
           n == f[s].note
           v == IF k.notes[n] = NoRow THEN f[s].reply.val ELSE k.notes[n]
           q == [k EXCEPT !.notes[n] = v]
<1>1. /\ s \in Busy(c) /\ f[s].kind = "audio" /\ f[s].reply # NoReply /\ Finished(c, s)
      /\ db' = db /\ purged' = purged
  BY DEF ReceiveAudio, Answered
<1>2. client' = [client EXCEPT ![c] = q]
  BY DEF ReceiveAudio
<1>3. TypeInv /\ TabInv(db, purged, k, f) /\ k \in Tab /\ f[s] \in AudioCall
  BY <1>1, TabNow, CallIn, CallKinds DEF ConvergeInv, EarlyInv
<1>4. PICK g : Removed(f, g, s) /\ calls' = [calls EXCEPT ![c] = g]
  BY <1>1, <1>3, FinishShape
<1>5. n \in NoteId /\ f[s].reply.val \in NoteVal /\ k.notes \in [NoteId -> NoteVal \cup {NoRow}]
  BY <1>1, <1>3 DEF AudioCall, UploadReply, Tab
<1>6. /\ q.cursor = k.cursor /\ q.pending = k.pending /\ q.items = k.items /\ q.links = k.links
      /\ \A x \in NoteId : q.notes[x] = IF x = n THEN v ELSE k.notes[x]
  BY <1>3, <1>5 DEF Tab
<1>7. n \in purged \/ db.notes[n] # NoRow
  BY <1>1, <1>3 DEF TabInv, Knows, Closed, Busy
<1>8. n \in purged \/ k.notes[n] # NoRow \/ Ahead(db, k, f, "note", n)
  BY <1>3, <1>5, <1>7 DEF TabInv, Finds
<1>9. \A x \in NoteId : k.notes[x] # NoRow => q.notes[x] = k.notes[x]
  BY <1>6
<1> HIDE DEF q, v, n, k, f
<1>10. ASSUME NEW t \in Tables, NEW x \in Keys(t)
       PROVE  \/ Out(db, purged, t, x) \/ Sight(q, t, x) = Sight(k, t, x)
              \/ Ahead(db, k, f, t, x)
  <2>1. CASE t = "note"
    <3>1. x \in NoteId /\ Home(t, x) = x
      BY <2>1 DEF Keys, Home
    <3>2. Sight(q, t, x) = q.notes[x] /\ Sight(k, t, x) = k.notes[x]
      BY <2>1 DEF Sight
    <3> QED BY <1>6, <1>8, <1>9, <2>1, <3>1, <3>2 DEF Out
  <2>2. CASE t # "note"
    BY <1>6, <2>2 DEF Tables, Sight
  <2> QED BY <2>1, <2>2
<1>11. \A m : Holds(k, f, m) => Holds(q, g, m)
  BY <1>1, <1>4, <1>6, StillHeld
<1>12. TabInv(db, purged, q, g)
  BY <1>3, <1>4, <1>6, <1>9, <1>10, <1>11, TabEnds
<1> QED BY <1>1, <1>2, <1>4, <1>12, OneTab

\* A deleted label is out of account in the tab that deleted it.
LEMMA ConvergeDropped ==
  ASSUME ConvergeInv, NEW c \in Client, NEW s, ReceiveDropped(c, s)
  PROVE  Hangs(db') /\ \A e \in Client : TabInv(db', purged', client'[e], calls'[e])
<1> DEFINE k == client[c]
           f == calls[c]
           l == f[s].label
           q == [k EXCEPT !.labels = k.labels \ {l}, !.links = {p \in k.links : p[2] # l}]
<1>1. /\ s \in Busy(c) /\ f[s].kind = "label" /\ f[s].reply # NoReply /\ f[s].reply.ok
      /\ Finished(c, s) /\ db' = db /\ purged' = purged
  BY DEF ReceiveDropped, Answered
<1>2. client' = [client EXCEPT ![c] = q]
  BY DEF ReceiveDropped
<1>3. TypeInv /\ TabInv(db, purged, k, f) /\ k \in Tab
  BY TabNow DEF ConvergeInv, EarlyInv
<1>4. PICK g : Removed(f, g, s) /\ calls' = [calls EXCEPT ![c] = g]
  BY <1>1, <1>3, FinishShape
<1>5. /\ q.cursor = k.cursor /\ q.pending = k.pending /\ q.items = k.items /\ q.notes = k.notes
      /\ q.links = {p \in k.links : p[2] # l}
  BY <1>3 DEF Tab
<1>6. db.labels[l] = NoRow
  BY <1>1, <1>3 DEF TabInv, Knows, Closed, Busy
<1> HIDE DEF q, l, k, f
<1>7. ASSUME NEW t \in Tables, NEW x \in Keys(t)
      PROVE  Out(db, purged, t, x) \/ Sight(q, t, x) = Sight(k, t, x)
  <2>1. CASE t = "link" /\ x[2] = l
    BY <1>6, <2>1 DEF Out
  <2>2. CASE t = "link" /\ x[2] # l
    BY <1>5, <2>2 DEF Sight
  <2>3. CASE t # "link"
    BY <1>5, <2>3 DEF Tables, Sight
  <2> QED BY <2>1, <2>2, <2>3
<1>8. \A m : Holds(k, f, m) => Holds(q, g, m)
  BY <1>1, <1>4, <1>5, StillHeld
<1>9. TabInv(db, purged, q, g)
  BY <1>3, <1>4, <1>5, <1>7, <1>8, TabEnds
<1> QED BY <1>1, <1>2, <1>4, <1>9, OneTab

\* A purged note is out of account in the tab that purged it.
LEMMA ConvergePurged ==
  ASSUME ConvergeInv, NEW c \in Client, NEW s, ReceivePurged(c, s)
  PROVE  Hangs(db') /\ \A e \in Client : TabInv(db', purged', client'[e], calls'[e])
<1> DEFINE k == client[c]
           f == calls[c]
           n == f[s].note
           q == Forget(k, n, NoteOf)
<1>1. /\ s \in Busy(c) /\ f[s].kind = "purge" /\ f[s].reply # NoReply /\ Finished(c, s)
      /\ db' = db /\ purged' = purged
  BY DEF ReceivePurged, Answered
<1>2. client' = [client EXCEPT ![c] = q]
  BY DEF ReceivePurged
<1>3. TypeInv /\ TabInv(db, purged, k, f) /\ k \in Tab
  BY TabNow DEF ConvergeInv, EarlyInv
<1>4. PICK g : Removed(f, g, s) /\ calls' = [calls EXCEPT ![c] = g]
  BY <1>1, <1>3, FinishShape
<1>5. /\ q.cursor = k.cursor /\ q.pending = k.pending
      /\ \A x \in NoteId : q.notes[x] = IF x = n THEN NoRow ELSE k.notes[x]
      /\ \A i \in ItemId : q.items[i] = IF NoteOf[i] = n THEN NoRow ELSE k.items[i]
      /\ q.links = {p \in k.links : p[1] # n}
  BY <1>3 DEF Forget, Tab
<1>6. n \in purged
  BY <1>1, <1>3 DEF TabInv, Knows, Closed, Busy
<1> HIDE DEF q, n, k, f
<1>7. ASSUME NEW t \in Tables, NEW x \in Keys(t)
      PROVE  Out(db, purged, t, x) \/ Sight(q, t, x) = Sight(k, t, x)
  <2>1. CASE Home(t, x) = n
    BY <1>6, <2>1 DEF Out
  <2>2. CASE Home(t, x) # n
    BY <1>5, <2>2 DEF Tables, Keys, Home, Sight
  <2> QED BY <2>1, <2>2
<1>8. \A m : Holds(k, f, m) => Holds(q, g, m)
  BY <1>1, <1>4, <1>5, StillHeld
<1>9. \A x \in NoteId \ purged : k.notes[x] # NoRow => q.notes[x] # NoRow
  BY <1>5, <1>6
<1>10. TabInv(db, purged, q, g)
  BY <1>3, <1>4, <1>5, <1>7, <1>8, <1>9, TabEnds
<1> QED BY <1>1, <1>2, <1>4, <1>10, OneTab

\* A reply received in order: whatever else was answered was answered later.
InSequence(f, s) == \A t \in DOMAIN f :
  f[t].kind \in {"sync", "list"} /\ f[t].reply # NoReply /\ f[t].reply.ok
  => f[s].reply.seq <= f[t].reply.seq

\* The oldest reply a tab awaits is taken in.
LEMMA TurnEnds ==
  ASSUME NEW d, GoodDB(d), NEW S, NEW k, NEW f, TabInv(d, S, k, f), Sound(f, d.seq),
         NEW s, NEW g, Removed(f, g, s), f[s].kind \in {"sync", "list"}, f[s].reply # NoReply,
         Heard(f[s]), Told(f[s]) = f[s].reply, InSequence(f, s),
         NEW q, q.cursor \in Nat, q.cursor <= f[s].reply.seq
  PROVE  InTurn(d.seq, q, g) /\ \A a \in Asked(q, g) : a \in Nat /\ a <= f[s].reply.seq
<1> DEFINE z == f[s].reply.seq
<1>1. /\ s \in DOMAIN f /\ DOMAIN g \subseteq DOMAIN f /\ \A t \in DOMAIN g : g[t] = f[t]
  BY DEF Removed
<1>2. z \in Nat /\ z <= d.seq /\ d.seq \in Nat
  BY <1>1, ToldSeq DEF Sound, GoodDB, Database
<1>3. \A a \in Asked(k, f) : a \in Nat /\ a <= z
  BY <1>1 DEF TabInv, InTurn
<1> HIDE DEF z
<1>4. \A a \in Asked(q, g) : a \in Nat /\ a <= z
  BY <1>1, <1>3 DEF Asked, z
<1>5. \A a \in Asked(q, g) : a <= d.seq
  BY <1>2, <1>4
<1>6. ASSUME NEW t \in DOMAIN g, Heard(g[t]) PROVE z <= Told(g[t]).seq /\ Told(g[t]).seq \in Nat
  <2>1. t \in DOMAIN f /\ g[t] = f[t] /\ f[t] \in SomeCall /\ Known(f[t], d.seq)
    BY <1>1 DEF Sound
  <2>2. Told(g[t]).seq \in Nat
    BY <1>6, <2>1, ToldSeq
  <2>3. CASE f[t].kind # "list"
    BY <1>6, <2>1, <2>2, <2>3 DEF Heard, Told, InSequence, z
  <2>4. CASE f[t].kind = "list" /\ f[t].reply # NoReply
    <3>1. ListFaith(d, S, f[t])
      BY <1>6, <2>1, <2>4 DEF TabInv, Knows
    <3>2. f[t].reply = f[t].got /\ f[t].reply \in ListReply
      BY <2>1, <2>4, <3>1, CallKinds DEF ListFaith, ListCall
    <3>3. f[t].reply.ok
      BY <3>2 DEF ListReply
    <3> QED BY <2>1, <2>2, <2>4, <3>2, <3>3 DEF Told, InSequence, z
  <2>5. CASE f[t].kind = "list" /\ f[t].reply = NoReply
    <3>1. ListFaith(d, S, f[t]) /\ f[t].got # NoReply
      BY <1>6, <2>1, <2>5 DEF TabInv, Knows, Heard
    <3>2. f[t].got.seq = d.seq
      BY <2>5, <3>1 DEF ListFaith
    <3> QED BY <1>2, <2>1, <2>2, <2>5, <3>2 DEF Told
  <2> QED BY <2>3, <2>4, <2>5
<1>7. ASSUME NEW t \in DOMAIN g, Heard(g[t]), NEW a \in Asked(q, g) PROVE a <= Told(g[t]).seq
  BY <1>2, <1>4, <1>6, <1>7
<1>8. InTurn(d.seq, q, g)
  BY <1>4, <1>5, <1>7 DEF InTurn
<1> QED BY <1>4, <1>8 DEF z

\* The list replaces what the tab shows.
LEMMA TabLoaded ==
  ASSUME NEW d, GoodDB(d), NEW S, NEW k, NEW f, TabInv(d, S, k, f), Sound(f, d.seq),
         NEW s, NEW g, Removed(f, g, s), f[s].kind = "list", f[s].reply # NoReply,
         InSequence(f, s), NEW q, q = Loaded(k, f[s].reply), k \in Tab
  PROVE  TabInv(d, S, q, g)
<1> DEFINE r == f[s].reply
<1>1. /\ s \in DOMAIN f /\ DOMAIN g \subseteq DOMAIN f /\ \A t \in DOMAIN g : g[t] = f[t]
  BY DEF Removed
<1>2. f[s].got # NoReply /\ f[s] \in ListCall /\ r \in ListReply
  BY <1>1, CallKinds DEF TabInv, Knows, Closed, Sound, ListCall
<1>3. ListFaith(d, S, f[s]) /\ Heard(f[s])
  BY <1>1, <1>2 DEF TabInv, Knows, Heard
<1>4. f[s].todo = {} /\ f[s].got = r /\ Told(f[s]) = r
  BY <1>3 DEF ListFaith, Told
<1>5. r.cursor \in Nat /\ r.seq \in Nat /\ r.cursor <= r.seq
  BY <1>2, <1>3, <1>4 DEF ListFaith, ListReply
<1>6. /\ q.cursor = r.cursor /\ q.notes = r.shown.notes /\ q.items = r.shown.items
      /\ q.links = r.shown.links /\ q.pending = k.pending
  BY DEF Loaded, Tab
<1>7. InTurn(d.seq, q, g) /\ \A a \in Asked(q, g) : a \in Nat /\ a <= r.seq
  BY <1>3, <1>4, <1>5, <1>6, TurnEnds
<1> HIDE DEF r
<1>8. ASSUME NEW t \in Tables, NEW x \in Keys(t), ~Out(d, S, t, x)
      PROVE  Same(d, q, t, x) \/ Ahead(d, q, g, t, x)
  <2>1. Sight(q, t, x) = Sight(r.shown, t, x)
    BY <1>6 DEF Tables, Sight
  <2>2. CASE RowAt(d, t, x) = NoRow \/ RowAt(d, t, x).seq <= r.seq
    <3>1. Sight(r.shown, t, x) = Face(t, RowAt(d, t, x))
      BY <1>3, <1>4, <1>8, <2>2 DEF ListFaith
    <3> QED BY <2>1, <3>1 DEF Same
  <2>3. CASE ~(RowAt(d, t, x) = NoRow \/ RowAt(d, t, x).seq <= r.seq)
    <3>1. RowAt(d, t, x).seq \in Nat
      BY <2>3, RowSeq
    <3>2. \A a \in Asked(q, g) : RowAt(d, t, x).seq > a
      BY <1>5, <1>7, <2>3, <3>1
    <3> QED BY <2>3, <3>2 DEF Ahead
  <2> QED BY <2>2, <2>3
<1>9. Nears(d, S, q, g)
  BY <1>8 DEF Nears, Near
<1>10. Finds(d, S, q, g)
  <2> SUFFICES ASSUME NEW n \in NoteId \ S, d.notes[n] # NoRow, q.notes[n] = NoRow
               PROVE  Ahead(d, q, g, "note", n)
    BY DEF Finds
  <2>1. d.notes[n].val \in NoteVal
    BY DEF GoodDB, Database, NoteRow
  <2>2. ~Same(d, q, "note", n)
    BY <2>1, StoreAssumption DEF Same, Sight, RowAt, Face
  <2> QED BY <1>8, <2>2, NoteKeys
<1>11. \A n \in NoteId : Shelters(k, f, n) => Shelters(q, g, n)
  BY <1>1, <1>2, <1>4, <1>6 DEF Shelters
<1>12. \A t \in DOMAIN g : Knows(d, S, q, g, g[t])
  BY <1>1, <1>11, KnowsKept DEF TabInv
<1> QED BY <1>7, <1>9, <1>10, <1>12 DEF TabInv

\* The list replaces what the tab shows.
LEMMA ConvergeList ==
  ASSUME ConvergeInv, ~Overtaking, NEW c \in Client, NEW s, ReceiveList(c, s)
  PROVE  Hangs(db') /\ \A e \in Client : TabInv(db', purged', client'[e], calls'[e])
<1> DEFINE k == client[c]
           f == calls[c]
           q == Loaded(k, f[s].reply)
<1>1. /\ s \in Busy(c) /\ f[s].kind = "list" /\ f[s].reply # NoReply /\ Finished(c, s)
      /\ InOrder(c, s) /\ db' = db /\ purged' = purged
  BY DEF ReceiveList, Answered
<1>2. client' = [client EXCEPT ![c] = q]
  BY DEF ReceiveList
<1>3. TypeInv /\ GoodDB(db) /\ TabInv(db, purged, k, f) /\ k \in Tab /\ Sound(f, db.seq)
  BY TabNow, CallIn DEF ConvergeInv, EarlyInv, TypeInv, Sound, Busy
<1>4. PICK g : Removed(f, g, s) /\ calls' = [calls EXCEPT ![c] = g]
  BY <1>1, <1>3, FinishShape
<1>5. InSequence(f, s)
  BY <1>1 DEF InOrder, Answered, InSequence, Busy
<1>6. TabInv(db, purged, q, g)
  BY <1>1, <1>3, <1>4, <1>5, TabLoaded
<1> QED BY <1>1, <1>2, <1>4, <1>6, OneTab

\* What a reply's changes make of what a tab shows of one row.
Taken(k, q, ch, t, x) ==
  /\ Entries(ch, t, x) = {} => Sight(q, t, x) = Sight(k, t, x)
  /\ \A v : Entries(ch, t, x) = {v} /\ (t = "note" \/ q.notes[Home(t, x)] # NoRow)
            => Sight(q, t, x) = v

\* What a reply's changes make of what a tab shows.
LEMMA ReconcileSight ==
  ASSUME NEW k \in Tab, NEW z \in Nat, NEW ch \in ChangeRows,
         \A r \in ch.items : r.note = NoteOf[r.id], NEW q, q = Reconcile(k, z, ch)
  PROVE  /\ q.pending = k.pending /\ q.cursor = IF z > k.cursor THEN z ELSE k.cursor
         /\ \A n \in NoteId : k.notes[n] # NoRow => q.notes[n] # NoRow
         /\ \A n \in NoteId : Entries(ch, "note", n) # {} => q.notes[n] # NoRow
         /\ \A t \in Tables : \A x \in Keys(t) : Taken(k, q, ch, t, x)
<1> DEFINE notes == [n \in NoteId |-> IF \E r \in ch.notes : r.id = n
                                      THEN (CHOOSE r \in ch.notes : r.id = n).val ELSE k.notes[n]]
           known(n) == notes[n] # NoRow
           cursor == IF z > k.cursor THEN z ELSE k.cursor
           items == [i \in ItemId |->
                       ItemAfter(k.items[i], {r \in ch.items : r.id = i /\ known(r.note)})]
           links == {p \in k.links : ~ \E r \in ch.links : r.pair = p /\ known(p[1])}
                    \cup {r.pair : r \in {o \in ch.links : o.attached /\ known(o.pair[1])}}
<1>1. q = [k EXCEPT !.cursor = cursor, !.notes = notes, !.items = items, !.links = links]
  BY DEF Reconcile
<1>2. /\ ch.notes \in SUBSET [id : NoteId, val : NoteVal]
      /\ ch.items \in SUBSET [id : ItemId, note : NoteId, val : ItemVal]
      /\ ch.links \in SUBSET [pair : NoteId \X LabelId, attached : BOOLEAN]
  BY DEF ChangeRows
<1>3. /\ \A n \in NoteId : notes[n] = IF \E r \in ch.notes : r.id = n
                                      THEN (CHOOSE r \in ch.notes : r.id = n).val ELSE k.notes[n]
      /\ \A i \in ItemId : items[i] =
           ItemAfter(k.items[i], {r \in ch.items : r.id = i /\ known(r.note)})
      /\ \A p : p \in links <=>
           \/ p \in k.links /\ ~ \E r \in ch.links : r.pair = p /\ known(p[1])
           \/ \E r \in ch.links : r.attached /\ known(r.pair[1]) /\ p = r.pair
  OBVIOUS
<1> HIDE DEF cursor, notes, items, links
<1>4. /\ q.cursor = cursor /\ q.notes = notes /\ q.items = items /\ q.links = links
      /\ q.pending = k.pending
  BY <1>1 DEF Tab
<1>5. ASSUME NEW n \in NoteId
      PROVE  /\ Entries(ch, "note", n) = {} => notes[n] = k.notes[n]
             /\ Entries(ch, "note", n) # {} => notes[n] # NoRow
             /\ \A v : Entries(ch, "note", n) = {v} => notes[n] = v
  <2>1. Entries(ch, "note", n) = {r.val : r \in {o \in ch.notes : o.id = n}}
    BY DEF Entries
  <2>2. CASE \E r \in ch.notes : r.id = n
    <3> DEFINE r0 == CHOOSE r \in ch.notes : r.id = n
    <3>1. r0 \in ch.notes /\ r0.id = n /\ notes[n] = r0.val
      BY <1>3, <2>2
    <3> HIDE DEF r0
    <3>2. r0.val \in NoteVal /\ r0.val \in Entries(ch, "note", n)
      BY <1>2, <2>1, <3>1
    <3> QED BY <3>1, <3>2, StoreAssumption
  <2>3. CASE ~ \E r \in ch.notes : r.id = n
    BY <1>3, <2>1, <2>3
  <2> QED BY <2>2, <2>3
<1>6. ASSUME NEW i \in ItemId
      PROVE  /\ Entries(ch, "item", i) = {} => items[i] = k.items[i]
             /\ \A v : Entries(ch, "item", i) = {v} /\ known(NoteOf[i]) => items[i] = v
  <2> DEFINE E == Entries(ch, "item", i)
             rows == {r \in ch.items : r.id = i /\ known(r.note)}
  <2>1. E = {IF r.val["deleted"] THEN NoRow ELSE r.val : r \in {o \in ch.items : o.id = i}}
    BY DEF Entries
  <2>2. items[i] = ItemAfter(k.items[i], rows)
    BY <1>3
  <2>3. CASE E = {}
    <3>1. rows = {}
      BY <2>1, <2>3
    <3> QED BY <2>2, <2>3, <3>1 DEF ItemAfter
  <2>4. ASSUME NEW v, E = {v}, known(NoteOf[i]) PROVE items[i] = v
    <3>1. PICK r \in ch.items : r.id = i
      BY <2>1, <2>4
    <3>2. r \in rows
      BY <2>4, <3>1
    <3> DEFINE r0 == CHOOSE o \in rows : TRUE
    <3>3. r0 \in rows
      BY <3>2
    <3>4. items[i] = IF r0.val["deleted"] THEN NoRow ELSE r0.val
      BY <2>2, <3>2 DEF ItemAfter
    <3> HIDE DEF r0
    <3>5. r0 \in ch.items /\ r0.id = i
      BY <3>3
    <3> HIDE DEF rows
    <3>6. (IF r0.val["deleted"] THEN NoRow ELSE r0.val) \in E
      BY <2>1, <3>5
    <3> QED BY <2>4, <3>4, <3>6
  <2> HIDE DEF rows
  <2> QED BY <2>3, <2>4
<1>7. ASSUME NEW p \in NoteId \X LabelId
      PROVE  /\ Entries(ch, "link", p) = {} => (p \in links <=> p \in k.links)
             /\ \A v : Entries(ch, "link", p) = {v} /\ known(p[1])
                       => v = IF p \in links THEN 1 ELSE 0
  <2> DEFINE E == Entries(ch, "link", p)
  <2>1. E = {IF r.attached THEN 1 ELSE 0 : r \in {o \in ch.links : o.pair = p}}
    BY DEF Entries
  <2>2. CASE E = {}
    <3>1. \A r \in ch.links : r.pair # p
      BY <2>1, <2>2
    <3> QED BY <1>3, <2>2, <3>1
  <2>3. ASSUME NEW v, E = {v}, known(p[1]) PROVE v = IF p \in links THEN 1 ELSE 0
    <3>1. \A r \in ch.links : r.pair = p => v = IF r.attached THEN 1 ELSE 0
      BY <2>1, <2>3
    <3>2. PICK r \in ch.links : r.pair = p
      BY <2>1, <2>3
    <3>3. p \in links <=> \E o \in ch.links : o.attached /\ p = o.pair
      BY <1>3, <2>3, <3>2
    <3> HIDE DEF E
    <3>4. CASE r.attached
      BY <3>1, <3>2, <3>3, <3>4
    <3>5. CASE ~r.attached
      <4>1. v = 0
        BY <3>1, <3>2, <3>5
      <4> QED BY <3>1, <3>3, <4>1
    <3> QED BY <3>4, <3>5
  <2> QED BY <2>2, <2>3
<1> HIDE DEF known
<1>8. ASSUME NEW t \in Tables, NEW x \in Keys(t)
      PROVE  Taken(k, q, ch, t, x)
  <2> SUFFICES
           /\ Entries(ch, t, x) = {} => Sight(q, t, x) = Sight(k, t, x)
           /\ \A v : Entries(ch, t, x) = {v} /\ (t = "note" \/ q.notes[Home(t, x)] # NoRow)
                     => Sight(q, t, x) = v
    BY DEF Taken
  <2>1. CASE t = "note"
    <3>1. x \in NoteId /\ Entries(ch, t, x) = Entries(ch, "note", x)
      BY <2>1 DEF Keys
    <3>2. Sight(q, t, x) = notes[x] /\ Sight(k, t, x) = k.notes[x]
      BY <1>4, <2>1, SightShape
    <3> HIDE DEF notes
    <3> QED BY <1>5, <3>1, <3>2
  <2>2. CASE t = "item"
    BY <1>4, <1>6, <2>2, SightShape DEF Keys, Home, known
  <2>3. CASE t = "link"
    BY <1>4, <1>7, <2>3, SightShape DEF Keys, Home, known
  <2> QED BY <2>1, <2>2, <2>3 DEF Tables
<1>9. \A n \in NoteId : k.notes[n] # NoRow => q.notes[n] # NoRow
  BY <1>4, <1>5
<1> QED BY <1>4, <1>5, <1>8, <1>9 DEF cursor

\* What the server can do without is out of account.
LEMMA MootIsOut ==
  ASSUME NEW d, NEW S, NEW m \in Bundle, MootIn(d, S, m), NEW t \in Tables, NEW x \in Keys(t),
         About(m, t, x)
  PROVE  Out(d, S, t, x)
<1>1. m.entity \in {"note", "item", "note_label"} /\ (m.entity = "item" => m.note = NoteOf[m.id])
  BY RowIsAbout
<1>2. CASE t = "note"
  BY <1>1, <1>2 DEF About, MootIn, Out, Home, NoteIdOf
<1>3. CASE t = "item"
  BY <1>1, <1>3 DEF About, MootIn, Out, Home, NoteIdOf
<1>4. CASE t = "link"
  BY <1>1, <1>4 DEF About, MootIn, Out, Home, NoteIdOf
<1> QED BY <1>2, <1>3, <1>4 DEF Tables

\* The changes are reconciled with what the tab shows.
LEMMA TabReconciled ==
  ASSUME NEW d, GoodDB(d), NEW S, NEW k \in Tab, NEW f, TabInv(d, S, k, f), Sound(f, d.seq),
         NEW s, NEW g, Removed(f, g, s), f[s].kind = "sync", f[s].reply # NoReply, f[s].reply.ok,
         InSequence(f, s), \A m \in ToSet(f[s].batch) : Absorbs(d, m) \/ MootIn(d, S, m),
         NEW q, q = Reconcile(k, f[s].reply.seq, f[s].reply.changes)
  PROVE  TabInv(d, S, q, g)
<1> DEFINE r == f[s].reply
           E(t, x) == Entries(r.changes, t, x)
<1>1. /\ s \in DOMAIN f /\ DOMAIN g = DOMAIN f \ {s} /\ \A t \in DOMAIN g : g[t] = f[t]
  BY DEF Removed
<1>2. r \in SyncReply /\ Heard(f[s]) /\ Told(f[s]) = r
  BY <1>1, CallKinds DEF Sound, SyncCall, Heard, Told
<1>3. r.seq \in Nat /\ r.changes \in ChangeRows
  BY <1>2 DEF SyncReply
<1>4. SyncFaith(d, S, f[s]) /\ Hosted(d, S, k, f, f[s])
  BY <1>1, <1>2 DEF TabInv, Knows
<1>5. \A i \in r.changes.items : i.note = NoteOf[i.id]
  BY <1>4 DEF SyncFaith
<1>6. f[s].since \in Asked(k, f) /\ k.cursor \in Asked(k, f)
  BY <1>1 DEF Asked
<1>7. k.cursor \in Nat /\ f[s].since \in Nat
  BY <1>6 DEF TabInv, InTurn
<1> HIDE DEF r, E
<1>8. q = Reconcile(k, r.seq, r.changes)
  BY DEF r
<1>9. /\ q.pending = k.pending /\ q.cursor = IF r.seq > k.cursor THEN r.seq ELSE k.cursor
      /\ \A n \in NoteId : k.notes[n] # NoRow => q.notes[n] # NoRow
      /\ \A n \in NoteId : E("note", n) # {} => q.notes[n] # NoRow
      /\ \A t \in Tables : \A x \in Keys(t) : Taken(k, q, r.changes, t, x)
  <2>1. PICK ch \in ChangeRows, z \in Nat : ch = r.changes /\ z = r.seq
    BY <1>3
  <2>2. q = Reconcile(k, z, ch) /\ \A i \in ch.items : i.note = NoteOf[i.id]
    BY <1>5, <1>8, <2>1
  <2>3. /\ q.pending = k.pending /\ q.cursor = IF z > k.cursor THEN z ELSE k.cursor
        /\ \A n \in NoteId : k.notes[n] # NoRow => q.notes[n] # NoRow
        /\ \A n \in NoteId : Entries(ch, "note", n) # {} => q.notes[n] # NoRow
        /\ \A t \in Tables : \A x \in Keys(t) : Taken(k, q, ch, t, x)
    BY <2>2, ReconcileSight
  <2> QED BY <2>1, <2>3 DEF E
<1>10. q.cursor \in Nat /\ q.cursor <= r.seq
  <2>1. k.cursor <= r.seq
    BY <1>1, <1>2, <1>6 DEF TabInv, InTurn
  <2> QED BY <1>3, <1>7, <1>9, <2>1
<1>11. InTurn(d.seq, q, g) /\ \A a \in Asked(q, g) : a \in Nat /\ a <= r.seq
  BY <1>2, <1>10, TurnEnds DEF r
<1>12. ASSUME NEW t \in Tables, NEW x \in Keys(t), RowAt(d, t, x) # NoRow,
              ~(RowAt(d, t, x).seq <= r.seq)
       PROVE  Ahead(d, q, g, t, x)
  <2>1. RowAt(d, t, x).seq \in Nat
    BY <1>12, RowSeq
  <2>2. \A a \in Asked(q, g) : RowAt(d, t, x).seq > a
    BY <1>3, <1>11, <1>12, <2>1
  <2> QED BY <1>12, <2>2 DEF Ahead
<1>13. ASSUME NEW t \in Tables, NEW x \in Keys(t), ~Out(d, S, t, x), Owes(d, k, f, t, x)
       PROVE  Owes(d, q, g, t, x)
  <2>1. PICK m \in Bundle : Holds(k, f, m) /\ About(m, t, x) /\ ~Absorbs(d, m)
    BY <1>13 DEF Owes
  <2>2. m \notin ToSet(f[s].batch)
    BY <1>13, <2>1, MootIsOut
  <2>3. Holds(q, g, m)
    BY <1>1, <1>9, <2>1, <2>2 DEF Holds
  <2> QED BY <2>1, <2>3 DEF Owes
<1>14. ASSUME NEW t \in Tables, NEW x \in Keys(t), ~Out(d, S, t, x), E(t, x) = {},
              ~Ahead(d, k, f, t, x)
       PROVE  Near(d, S, q, g, t, x)
  <2>1. Same(d, k, t, x) \/ Owes(d, k, f, t, x)
    BY <1>14 DEF TabInv, Nears, Near
  <2>2. Sight(q, t, x) = Sight(k, t, x)
    BY <1>9, <1>14 DEF Taken, E
  <2> QED BY <1>13, <1>14, <2>1, <2>2 DEF Near, Same
<1>15. ASSUME NEW t \in Tables, NEW x \in Keys(t), ~Out(d, S, t, x) PROVE Near(d, S, q, g, t, x)
  <2>1. CASE RowAt(d, t, x) = NoRow
    <3>1. E(t, x) = {}
      BY <1>4, <1>15, <2>1 DEF SyncFaith, E, r
    <3> QED BY <1>14, <1>15, <2>1, <3>1 DEF Ahead
  <2>2. CASE RowAt(d, t, x) # NoRow /\ ~(RowAt(d, t, x).seq <= r.seq)
    BY <1>12, <2>2 DEF Near
  <2>3. CASE RowAt(d, t, x) # NoRow /\ RowAt(d, t, x).seq <= r.seq
    <3>1. E(t, x) = IF RowAt(d, t, x).seq > f[s].since THEN {Face(t, RowAt(d, t, x))} ELSE {}
      BY <1>4, <1>15, <2>3 DEF SyncFaith, E, r
    <3>2. CASE RowAt(d, t, x).seq > f[s].since
      <4>1. E(t, x) = {Face(t, RowAt(d, t, x))}
        BY <3>1, <3>2
      <4>2. t = "note" \/ q.notes[Home(t, x)] # NoRow
        <5> SUFFICES ASSUME t # "note" PROVE q.notes[Home(t, x)] # NoRow
          OBVIOUS
        <5>1. t \in {"item", "link"} /\ Home(t, x) \in NoteId
          BY HomeType DEF Tables
        <5>2. E("note", Home(t, x)) # {} \/ k.notes[Home(t, x)] # NoRow
          BY <1>4, <1>15, <4>1, <5>1 DEF Hosted, Shelters, E, r
        <5> QED BY <1>9, <5>1, <5>2
      <4>3. Sight(q, t, x) = Face(t, RowAt(d, t, x))
        BY <1>9, <4>1, <4>2 DEF Taken, E
      <4> QED BY <4>3 DEF Near, Same
    <3>3. CASE ~(RowAt(d, t, x).seq > f[s].since)
      BY <1>6, <1>14, <1>15, <3>1, <3>3 DEF Ahead
    <3> QED BY <3>2, <3>3
  <2> QED BY <2>1, <2>2, <2>3
<1>16. Nears(d, S, q, g)
  BY <1>15 DEF Nears, Near
<1>17. Finds(d, S, q, g)
  <2> SUFFICES ASSUME NEW n \in NoteId \ S, d.notes[n] # NoRow, q.notes[n] = NoRow
               PROVE  Ahead(d, q, g, "note", n)
    BY DEF Finds
  <2>1. /\ "note" \in Tables /\ n \in Keys("note") /\ RowAt(d, "note", n) = d.notes[n]
        /\ ~Out(d, S, "note", n)
    BY NoteKeys
  <2>2. k.notes[n] = NoRow /\ E("note", n) = {}
    BY <1>9
  <2>3. d.notes[n].seq > f[s].since
    BY <1>6, <2>1, <2>2 DEF TabInv, Finds, Ahead
  <2>4. ~(d.notes[n].seq <= r.seq)
    BY <1>4, <2>1, <2>2, <2>3 DEF SyncFaith, E, r
  <2> QED BY <1>12, <2>1, <2>4
<1>18. \A n \in NoteId : Shelters(k, f, n) => Shelters(q, g, n)
  BY <1>1, <1>9 DEF Shelters
<1>19. \A t \in DOMAIN g : Knows(d, S, q, g, g[t])
  BY <1>1, <1>18, KnowsKept DEF TabInv
<1> QED BY <1>11, <1>16, <1>17, <1>19 DEF TabInv

\* The changes are reconciled.
LEMMA ConvergeChanges ==
  ASSUME ConvergeInv, ~Overtaking, NEW c \in Client, NEW s, ReceiveChanges(c, s)
  PROVE  Hangs(db') /\ \A e \in Client : TabInv(db', purged', client'[e], calls'[e])
<1> DEFINE k == client[c]
           f == calls[c]
           q == Reconcile(k, f[s].reply.seq, f[s].reply.changes)
<1>1. /\ s \in Busy(c) /\ f[s].kind = "sync" /\ f[s].reply # NoReply /\ f[s].reply.ok
      /\ Finished(c, s) /\ InOrder(c, s) /\ db' = db /\ purged' = purged
  BY DEF ReceiveChanges, Answered
<1>2. client' = [client EXCEPT ![c] = q]
  BY DEF ReceiveChanges
<1>3. TypeInv /\ GoodDB(db) /\ TabInv(db, purged, k, f) /\ k \in Tab /\ Sound(f, db.seq)
  BY TabNow, CallIn DEF ConvergeInv, EarlyInv, TypeInv, Sound, Busy
<1>4. PICK g : Removed(f, g, s) /\ calls' = [calls EXCEPT ![c] = g]
  BY <1>1, <1>3, FinishShape
<1>5. InSequence(f, s)
  BY <1>1 DEF InOrder, Answered, InSequence, Busy
<1>6. \A m \in ToSet(f[s].batch) : Absorbs(db, m) \/ MootIn(db, purged, m)
  <2>1. f[s] \in Under
    BY <1>1, <1>3, UnderWay
  <2> QED BY <1>1, <2>1 DEF ConvergeInv, SafeInv, RepliedInv, Replied, Done
<1>7. TabInv(db, purged, q, g)
  BY <1>1, <1>3, <1>4, <1>5, <1>6, TabReconciled
<1> QED BY <1>1, <1>2, <1>4, <1>7, OneTab

------------------------------------------------------------------------------
(* The start. *)

\* A tab that shows a database shows the face of its every row.
LEMMA ShowsFaces ==
  ASSUME NEW d, NEW k, k.notes = Authoritative(d).notes, k.items = Authoritative(d).items,
         k.links = Authoritative(d).links, NEW t \in Tables, NEW x \in Keys(t)
  PROVE  Sight(k, t, x) = Face(t, RowAt(d, t, x))
<1>1. CASE t = "note"
  BY <1>1 DEF Sight, Face, RowAt, Keys, Authoritative
<1>2. CASE t = "item"
  BY <1>2 DEF Sight, Face, RowAt, Keys, Authoritative
<1>3. CASE t = "link"
  BY <1>3 DEF Sight, Face, RowAt, Keys, Authoritative
<1> QED BY <1>1, <1>2, <1>3 DEF Tables

\* What earlier sessions left: its rows came with a seq, and hang from what is there.
LEMMA StartMoves ==
  ASSUME NEW p \in Plans
  PROVE  /\ Hangs(StartDB(p))
         /\ \A t \in Tables : \A x \in Keys(t) :
              RowAt(StartDB(p), t, x) = NoRow \/ Since(RowAt(StartDB(p), t, x), 0)
<1> DEFINE d0 == [EmptyDB EXCEPT !.labels = PastLabels]
           a == StartDB(p)
<1>1. GoodDB(d0) /\ p.past \in Seq(Bundle) /\ a \in ApplyBatch(d0, p.past)
  BY StartType
<1>2. /\ d0.seq = 0
      /\ \A n \in NoteId : d0.notes[n] = NoRow
      /\ \A i \in ItemId : d0.items[i] = NoRow
      /\ \A q \in NoteId \X LabelId : d0.links[q] = NoRow
  BY DEF EmptyDB
<1> HIDE DEF d0, a
<1>3. Hangs(d0)
  BY <1>2 DEF Hangs
<1>4. Touches(d0, a)
  BY <1>1, <1>3, BatchMoves
<1>5. \A t \in Tables : \A x \in Keys(t) : RowAt(d0, t, x) = NoRow
  BY <1>2 DEF Tables, Keys, RowAt
<1>6. Hangs(a) /\ \A t \in Tables : \A x \in Keys(t) : RowAt(a, t, x) = NoRow \/ Since(RowAt(a, t, x), 0)
  BY <1>2, <1>4, <1>5 DEF Touches
<1> QED BY <1>6 DEF a

\* A tab opens with the list still to come, or with what the server has.
LEMMA ConvergeInit ==
  ASSUME SInit
  PROVE  ConvergeInv
<1>1. SafeInv /\ EarlyInv /\ TypeInv
  BY SafeInit, EarlyInit DEF EarlyInv
<1>2. plan \in Plans /\ db = StartDB(plan) /\ purged = {}
  BY DEF SInit
<1>3. /\ Hangs(db)
      /\ \A t \in Tables : \A x \in Keys(t) :
           RowAt(db, t, x) = NoRow \/ Since(RowAt(db, t, x), 0)
  BY <1>2, StartMoves
<1>4. GoodDB(db) /\ db \in Database /\ db.seq \in Nat
  BY <1>1 DEF TypeInv, GoodDB, Database
<1>5. ASSUME NEW c \in Client PROVE TabInv(db, purged, client[c], calls[c])
  <2> DEFINE d == IF c \in plan.fresh THEN EmptyDB ELSE db
             k == client[c]
             f == calls[c]
  <2>1. \A s \in DOMAIN f : f[s] = List
    BY StartCalls DEF Busy
  <2>2. \A s \in DOMAIN f : f[s].kind = "list" /\ f[s].got = NoReply /\ f[s].reply = NoReply
    BY <2>1 DEF List
  <2>3. /\ k.notes = Authoritative(d).notes /\ k.items = Authoritative(d).items
        /\ k.links = Authoritative(d).links /\ k.cursor = d.seq
    BY DEF SInit
  <2>4. d.seq \in Nat /\ d.seq <= db.seq
    BY <1>4 DEF EmptyDB
  <2>5. d = db \/ (d.seq = 0 /\ d = EmptyDB)
    BY DEF EmptyDB
  <2> HIDE DEF d, k, f
  <2>6. Asked(k, f) = {d.seq}
    BY <2>2, <2>3 DEF Asked
  <2>7. InTurn(db.seq, k, f)
    BY <2>2, <2>4, <2>6 DEF InTurn, Heard
  <2>8. \A s \in DOMAIN f : Knows(db, purged, k, f, f[s])
    BY <2>2 DEF Knows, Heard, Closed
  <2>9. ASSUME NEW t \in Tables, NEW x \in Keys(t)
        PROVE  Same(db, k, t, x) \/ Ahead(db, k, f, t, x)
    <3>1. CASE d = db
      BY <2>3, <3>1, ShowsFaces DEF Same
    <3>2. CASE d = EmptyDB /\ d.seq = 0
      <4>1. RowAt(EmptyDB, t, x) = NoRow
        BY DEF RowAt, EmptyDB, Tables, Keys
      <4>2. Sight(k, t, x) = Face(t, NoRow)
        BY <2>3, <3>2, <4>1, ShowsFaces
      <4>3. CASE RowAt(db, t, x) = NoRow
        BY <4>2, <4>3 DEF Same
      <4>4. CASE RowAt(db, t, x) # NoRow
        BY <1>3, <2>6, <3>2, <4>4 DEF Ahead, Since
      <4> QED BY <4>3, <4>4
    <3> QED BY <2>5, <3>1, <3>2
  <2>10. Finds(db, purged, k, f)
    <3> SUFFICES ASSUME NEW n \in NoteId, db.notes[n] # NoRow, k.notes[n] = NoRow
                 PROVE  Ahead(db, k, f, "note", n)
      BY DEF Finds
    <3>1. /\ "note" \in Tables /\ n \in Keys("note") /\ RowAt(db, "note", n) = db.notes[n]
      BY NoteKeys
    <3>2. db.notes[n] \in NoteRow
      BY <1>4 DEF Database
    <3>3. db.notes[n].val # NoRow
      BY <3>2, StoreAssumption DEF NoteRow
    <3>4. ~Same(db, k, "note", n)
      BY <3>1, <3>3 DEF Same, Sight, Face
    <3> QED BY <2>9, <3>1, <3>4
  <2> QED BY <2>7, <2>8, <2>9, <2>10 DEF TabInv, Nears, Near, k, f
<1> QED BY <1>1, <1>3, <1>5 DEF ConvergeInv

\* Every step keeps it, with replies in order and pages read whole.
LEMMA ConvergeStep ==
  ASSUME ~Overtaking, ~Torn, Lag, ConvergeInv, [SNext]_svars
  PROVE  ConvergeInv'
<1> DEFINE Goal == Hangs(db') /\ \A e \in Client : TabInv(db', purged', client'[e], calls'[e])
<1>1. SafeInv /\ EarlyInv /\ TypeInv /\ Hangs(db)
  BY DEF ConvergeInv, EarlyInv
<1>2. SafeInv' /\ EarlyInv' /\ TypeInv'
  BY <1>1, SafeStep, EarlyStep DEF EarlyInv
<1>3. Passes => Goal
  <2> HAVE Passes
  <2>1. db' = db
    BY DEF Passes
  <2> QED BY <1>1, <2>1, ConvergePasses
<1>4. ASSUME NEW c \in Client, \E s, k, g, p : Asks(c, s, k, g, p) PROVE Goal
  <2>1. PICK s, k, g, p : Asks(c, s, k, g, p)
    BY <1>4
  <2>2. db' = db
    BY <2>1 DEF Asks
  <2> QED BY <1>1, <2>1, <2>2, ConvergeAsks
<1>5. ASSUME NEW c \in Client, User(c) PROVE Goal
  <2>1. client \in [Client -> Tab] /\ now \in Nat
    BY <1>1 DEF TypeInv
  <2>2. PICK k, new : UserStep(c, k, new)
    BY <1>5, <2>1, UserShape
  <2>3. db' = db
    BY <2>2 DEF UserStep
  <2> QED BY <1>1, <1>2, <2>2, <2>3, ConvergeUser
<1>6. ASSUME NEW c \in Client, NEW s, Handle(c, s) PROVE Goal
  <2>1. PICK g, o : Answers(c, s, g, o)
    BY <1>1, <1>6, HandleShape
  <2> QED BY <2>1, ConvergeAnswers
<1>7. ASSUME NEW g \in ghosts, HandleGhost(g) PROVE Goal
  <2>1. PICK o : AnswersGhost(g, o)
    BY <1>1, <1>7, HandleGhostShape
  <2> QED BY <2>1, ConvergeGhost
<1>8. ASSUME NEW c \in Client, NEW s,
             ListNotes(c, s) \/ \E n \in NoteId : ListItems(c, s, n) \/ ListLabels(c, s, n)
      PROVE  Goal
  BY <1>8, ConvergeReads
<1>9. ASSUME NEW c \in Client, NEW s,
             \/ ReceiveChanges(c, s) \/ ReceiveRefusal(c, s) \/ ReceivePurged(c, s)
             \/ ReceiveList(c, s) \/ ReceiveAudio(c, s) \/ ReceiveDropped(c, s) \/ Fail(c, s)
      PROVE  Goal
  <2>1. CASE ReceiveChanges(c, s)
    BY <2>1, ConvergeChanges
  <2>2. CASE ReceiveRefusal(c, s) \/ Fail(c, s)
    BY <2>2, ConvergeError
  <2>3. CASE ReceivePurged(c, s)
    BY <2>3, ConvergePurged
  <2>4. CASE ReceiveList(c, s)
    BY <2>4, ConvergeList
  <2>5. CASE ReceiveAudio(c, s)
    BY <2>5, ConvergeAudio
  <2>6. CASE ReceiveDropped(c, s)
    BY <2>6, ConvergeDropped
  <2> QED BY <1>9, <2>1, <2>2, <2>3, <2>4, <2>5, <2>6
<1>10. UNCHANGED svars \/ Settle \/ STick => Goal
  <2>1. UNCHANGED svars \/ Settle \/ STick => Passes
    BY <1>1, PassShape
  <2> QED BY <1>3, <2>1
<1>11. ASSUME NEW c \in Client, Reconnect(c) \/ Disconnect(c) PROVE Goal
  BY <1>1, <1>3, <1>11, PassShape
<1>12. ASSUME NEW c \in Client, NEW t, SyncNow(c, t) PROVE Goal
  BY <1>1, <1>4, <1>12, SyncNowShape
<1>13. ASSUME NEW c \in Client,
              \/ \E l \in LabelId : DropLabel(c, l)
              \/ \E n \in NoteId : PurgeForever(c, n) \/ \E v \in Typed : UploadAudio(c, n, v)
       PROVE  Goal
  BY <1>1, <1>4, <1>13, AskingShapes
<1> HIDE DEF Goal
<1>14. Progress => Goal
  <2> HAVE Progress
  <2>1. ASSUME NEW c \in Client, NEW s,
               \/ Handle(c, s) \/ ListNotes(c, s)
               \/ \E n \in NoteId : ListItems(c, s, n) \/ ListLabels(c, s, n)
               \/ ReceiveChanges(c, s) \/ ReceiveRefusal(c, s) \/ ReceivePurged(c, s)
               \/ ReceiveList(c, s) \/ ReceiveAudio(c, s) \/ ReceiveDropped(c, s)
        PROVE  Goal
    BY <1>6, <1>8, <1>9, <2>1
  <2>2. CASE STick \/ \E g \in ghosts : HandleGhost(g)
    BY <1>7, <1>10, <2>2
  <2> QED BY <1>11, <1>12, <2>1, <2>2 DEF Progress
<1>15. ASSUME NEW c \in Client,
              \/ User(c) \/ Disconnect(c)
              \/ \E l \in LabelId : DropLabel(c, l)
              \/ \E n \in NoteId : PurgeForever(c, n) \/ \E v \in Typed : UploadAudio(c, n, v)
              \/ \E s \in Slots : Fail(c, s)
       PROVE  Goal
  BY <1>5, <1>9, <1>11, <1>13, <1>15
<1>16. SNext \/ UNCHANGED svars
  OBVIOUS
<1>17. Goal
  BY <1>10, <1>14, <1>15, <1>16 DEF SNext
<1> QED BY <1>2, <1>17 DEF Goal, ConvergeInv

\* With nothing unsent and nothing under way nothing is owed, and at the latest seq
\* nothing is ahead.
LEMMA ConvergeGives ==
  ASSUME ConvergeInv
  PROVE  Converged
<1> SUFFICES ASSUME NEW c \in Client, client[c].pending = <<>>, Busy(c) = {},
                    client[c].cursor = db.seq
             PROVE  Kept(Shown(client[c])) = Kept(Authoritative(db))
  BY DEF Converged
<1> DEFINE k == client[c]
           f == calls[c]
           A == Authoritative(db)
<1>1. GoodDB(db) /\ db \in Database /\ TabInv(db, purged, k, f) /\ k \in Tab
  BY DEF ConvergeInv, EarlyInv, TypeInv, GoodDB
<1>2. ASSUME NEW t \in Tables, NEW x \in Keys(t), ~Out(db, purged, t, x)
      PROVE  Sight(k, t, x) = Sight(A, t, x)
  <2>1. k.cursor \in Asked(k, f)
    BY DEF Asked
  <2>2. ~Ahead(db, k, f, t, x)
    <3> SUFFICES ASSUME RowAt(db, t, x) # NoRow, RowAt(db, t, x).seq > db.seq PROVE FALSE
      BY <2>1 DEF Ahead
    <3> QED BY <1>1, RowSeq
  <2>3. ~Owes(db, k, f, t, x)
    BY DEF Owes, Holds, Busy, ToSet
  <2>4. Same(db, k, t, x)
    BY <1>1, <1>2, <2>2, <2>3 DEF TabInv, Nears, Near
  <2> QED BY <2>4, ShowsFaces DEF Same
<1>3. \A n \in NoteId \ purged : k.notes[n] = A.notes[n]
  BY <1>2, NoteKeys, SightShape
<1>4. ASSUME NEW i \in ItemId, NoteOf[i] \notin purged PROVE k.items[i] = A.items[i]
  <2>1. "item" \in Tables /\ i \in Keys("item") /\ ~Out(db, purged, "item", i)
    BY <1>4 DEF Tables, Keys, Out, Home
  <2> QED BY <1>2, <2>1, SightShape
<1>5. ASSUME NEW p \in NoteId \X LabelId, p[1] \notin purged, db.labels[p[2]] # NoRow
      PROVE  p \in k.links <=> p \in A.links
  <2>1. "link" \in Tables /\ p \in Keys("link") /\ ~Out(db, purged, "link", p)
    BY <1>5 DEF Tables, Keys, Out, Home
  <2>2. Sight(k, "link", p) = Sight(A, "link", p)
    BY <1>2, <2>1
  <2> QED BY <2>2, SightShape
<1>6. k.links \subseteq NoteId \X LabelId /\ A.links \subseteq NoteId \X LabelId
  BY <1>1 DEF Tab, Authoritative
<1> HIDE DEF k, A
<1>7. {p \in k.links : p[1] \notin purged /\ db.labels[p[2]] # NoRow}
      = {p \in A.links : p[1] \notin purged /\ db.labels[p[2]] # NoRow}
  BY <1>5, <1>6
<1>8. [n \in NoteId \ purged |-> k.notes[n]] = [n \in NoteId \ purged |-> A.notes[n]]
  BY <1>3
<1>9. [i \in {j \in ItemId : NoteOf[j] \notin purged} |-> k.items[i]]
      = [i \in {j \in ItemId : NoteOf[j] \notin purged} |-> A.items[i]]
  BY <1>4
<1>10. Kept(Shown(k)) = Kept(A)
  BY <1>7, <1>8, <1>9 DEF Kept, Shown
<1> QED BY <1>10 DEF k, A

\* Every tab ends up with the server's state: while replies are taken in the order the
\* server answered, a page is read in one piece and no device's clock is ahead of
\* another's by as much as a mutation takes to arrive, a tab that has sent all it queued,
\* awaits nothing and has the latest seq shows what the server has of every note nobody
\* purged and every label nobody deleted (load, reconcile and syncNow of notes.ts against
\* Apply and loadChanges of syncsvc.go).
THEOREM Converges == ASSUME ~Overtaking, ~Torn, Lag PROVE SSpec => []Converged
<1>1. SInit => ConvergeInv
  BY ConvergeInit
<1>2. ConvergeInv /\ [SNext]_svars => ConvergeInv'
  BY ConvergeStep
<1>3. ConvergeInv => Converged
  BY ConvergeGives
<1> QED BY <1>1, <1>2, <1>3, PTL DEF SSpec
==============================================================================
