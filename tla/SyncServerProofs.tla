--------------------------- MODULE SyncServerProofs ---------------------------
(***************************************************************************)
(* What SyncServer keeps for every set of notes, items, labels, stamps and *)
(* mutations.                                                              *)
(***************************************************************************)
EXTENDS SyncServer, StoreProofs

------------------------------------------------------------------------------
\* Every mutation a client may send is well formed.
LEMMA BundleShape ==
  ASSUME NEW m \in Mutation
  PROVE  /\ IsNoteBundle(m) \/ IsItemBundle(m) \/ IsLinkBundle(m)
         /\ m.entity = "item" => m.note = NoteOf[m.id]
<1> DEFINE S == {k.hlc : k \in Mutation}
<1>1. m \in WireBundles(S, 0 .. MaxTime)
  BY SyncServerAssumption
<1>2. S \in SUBSET (Nat \ {0}) /\ 0 .. MaxTime \in SUBSET Nat
  BY SyncServerAssumption
<1> HIDE DEF S
<1>3. CASE m \in NoteBundles(S, 0 .. MaxTime)
  BY <1>2, <1>3, NoteBundleShape DEF IsNoteBundle
<1>4. CASE m \in ItemBundles(S, NoteOf)
  BY <1>2, <1>4, ItemBundleShape, SyncServerAssumption
<1>5. CASE m \in LinkBundles(S)
  BY <1>2, <1>5, LinkBundleShape DEF IsLinkBundle
<1>6. CASE m \in AudioKindBundles(S)
  BY <1>2, <1>6 DEF AudioKindBundles, MutateNote, NoteWrite, One, IsNoteBundle, NoteSetOK, NoteField
<1> QED BY <1>1, <1>3, <1>4, <1>5, <1>6 DEF WireBundles

------------------------------------------------------------------------------
\* Every handler leaves a well-formed database.
LEMMA TypeStep == TypeOK /\ [Next]_vars => TypeOK'
<1> SUFFICES ASSUME TypeOK, [Next]_vars PROVE TypeOK'
  OBVIOUS
<1>1. db \in Database /\ log \subseteq Mutation /\ now \in Nat
      /\ (tx # NoTx => tx.db \in Database /\ tx.log \subseteq Mutation)
  BY DEF TypeOK
<1>2. CASE BeginTx
  BY <1>1, <1>2 DEF BeginTx, TypeOK
<1>3. ASSUME NEW m \in Mutation, ApplyMutation(m)
      PROVE  TypeOK'
  <2>1. Apply(tx.db, m) \in Database
    BY <1>1, <1>3, ApplyType, BundleShape DEF ApplyMutation
  <2> QED BY <1>1, <1>3, <2>1 DEF ApplyMutation, TypeOK
<1>4. ASSUME NEW m \in Mutation, RejectBatch(m)
      PROVE  TypeOK'
  BY <1>1, <1>4 DEF RejectBatch, TypeOK
<1>5. CASE Commit
  BY <1>1, <1>5 DEF Commit, TypeOK
<1>6. CASE CrashInTx
  BY <1>1, <1>6 DEF CrashInTx, TypeOK
<1>7. ASSUME NEW S, tx = NoTx, db' = Purge(db, S), log' = Without(log, S),
             UNCHANGED <<tx, now>>
      PROVE  TypeOK'
  BY <1>1, <1>7, PurgeType DEF TypeOK, Without
<1>8. ASSUME NEW n \in NoteId, PurgeOne(n)
      PROVE  TypeOK'
  BY <1>7, <1>8 DEF PurgeOne
<1>9. CASE Sweep
  BY <1>7, <1>9 DEF Sweep
<1>10. ASSUME NEW u \in Upload, CreateAudio(u)
       PROVE  TypeOK'
  <2>1. InsertAudio(db, u.note, u.title, u.position) \in Database
    BY <1>1, SyncServerAssumption, InsertAudioEffect DEF AudioEffect
  <2> QED BY <1>1, <1>10, <2>1 DEF CreateAudio, TypeOK
<1>11. ASSUME NEW l \in LabelId, NEW name \in LabelName,
              CreateLabel(l, name) \/ RenameLabel(l, name)
       PROVE  TypeOK'
  BY <1>1, <1>11, LabelTypes DEF CreateLabel, RenameLabel, TypeOK
<1>12. ASSUME NEW l \in LabelId, DeleteLabel(l)
       PROVE  TypeOK'
  BY <1>1, <1>12, LabelTypes DEF DeleteLabel, TypeOK
<1>13. CASE Tick
  BY <1>1, <1>13 DEF Tick, TypeOK
<1>14. CASE UNCHANGED vars
  BY <1>1, <1>14 DEF vars, TypeOK
<1> QED BY <1>2, <1>3, <1>4, <1>5, <1>6, <1>8, <1>9, <1>10, <1>11, <1>12, <1>13, <1>14
        DEF Next

\* The variables keep their types.
THEOREM TypeCorrect == Spec => []TypeOK
<1>1. Init => TypeOK
  BY DEF Init, TypeOK, EmptyDB, Database
<1> QED BY <1>1, TypeStep, PTL DEF Spec

------------------------------------------------------------------------------
(* The order of two stamps decides between what they wrote. *)

\* Whoever switched pinned on also wrote archived at that stamp, so a pinned
\* note's archived stamp is no older; and the other way round.
ToggleOrdered(r) ==
  /\ r.val["pinned"] => /\ r.clk["archived"] >= r.clk["pinned"]
                        /\ r.clk["archived"] = r.clk["pinned"] => ~r.val["archived"]
  /\ r.val["archived"] => /\ r.clk["pinned"] >= r.clk["archived"]
                          /\ r.clk["pinned"] = r.clk["archived"] => ~r.val["pinned"]

LEMMA MergeToggles ==
  ASSUME NEW r \in NoteRow, NEW m, IsNoteBundle(m), NEW s \in Nat, ToggleOrdered(r)
  PROVE  ToggleOrdered(Merge(r, m, s))
<1> DEFINE q == Merge(r, m, s)
           acc == Accepted(r, m)
<1>1. /\ "pinned" \in DOMAIN r.val /\ "archived" \in DOMAIN r.val
      /\ "pinned" \in DOMAIN r.clk /\ "archived" \in DOMAIN r.clk
      /\ r.clk["pinned"] \in Nat /\ r.clk["archived"] \in Nat /\ m.hlc \in Nat
  BY DEF NoteRow, NoteVal, NoteField, IsNoteBundle
<1>2. /\ q.val["pinned"] = IF "pinned" \in acc THEN m.set["pinned"] ELSE r.val["pinned"]
      /\ q.val["archived"] = IF "archived" \in acc THEN m.set["archived"] ELSE r.val["archived"]
      /\ q.clk["pinned"] = IF "pinned" \in acc THEN m.hlc ELSE r.clk["pinned"]
      /\ q.clk["archived"] = IF "archived" \in acc THEN m.hlc ELSE r.clk["archived"]
  <2>1. Merged(r, m, s)
    BY MergeNote
  <2> QED BY <1>1, <2>1 DEF Merged
<1>3. /\ "pinned" \in acc <=> "pinned" \in DOMAIN m.set /\ m.hlc > r.clk["pinned"]
      /\ "archived" \in acc <=> "archived" \in DOMAIN m.set /\ m.hlc > r.clk["archived"]
  BY DEF Accepted
<1>4. /\ "pinned" \in DOMAIN m.set /\ m.set["pinned"] =>
            "archived" \in DOMAIN m.set /\ ~m.set["archived"]
      /\ "archived" \in DOMAIN m.set /\ m.set["archived"] =>
            "pinned" \in DOMAIN m.set /\ ~m.set["pinned"]
  BY DEF IsNoteBundle, NoteSetOK
<1> HIDE DEF q, acc
<1>5. ToggleOrdered(q)
  BY <1>1, <1>2, <1>3, <1>4 DEF ToggleOrdered
<1> QED BY <1>5 DEF q

\* An edit also wrote trashedAt: null, so no edit is newer than the stamp that
\* decides whether the note is in the trash; the same for items.
EditOrdered(r) == r.clk["color"] <= r.clk["trashedAt"]
CheckOrdered(r) == r.clk["checked"] <= r.clk["deleted"]

LEMMA MergeEdits ==
  ASSUME NEW r \in NoteRow, NEW m, IsNoteBundle(m), NEW s \in Nat, EditOrdered(r)
  PROVE  EditOrdered(Merge(r, m, s))
<1>1. /\ "color" \in DOMAIN r.clk /\ "trashedAt" \in DOMAIN r.clk
      /\ r.clk["color"] \in Nat /\ r.clk["trashedAt"] \in Nat /\ m.hlc \in Nat
  BY DEF NoteRow, NoteField, IsNoteBundle
<1>2. Merged(r, m, s)
  BY MergeNote
<1>3. "color" \in DOMAIN m.set => "trashedAt" \in DOMAIN m.set
  BY DEF IsNoteBundle, NoteSetOK
<1> QED BY <1>1, <1>2, <1>3 DEF Merged, Accepted, EditOrdered

LEMMA MergeChecks ==
  ASSUME NEW r \in ItemRow, NEW m, IsItemBundle(m), NEW s \in Nat, CheckOrdered(r)
  PROVE  CheckOrdered(Merge(r, m, s))
<1>1. /\ "checked" \in DOMAIN r.clk /\ "deleted" \in DOMAIN r.clk
      /\ r.clk["checked"] \in Nat /\ r.clk["deleted"] \in Nat /\ m.hlc \in Nat
  BY DEF ItemRow, ItemField, IsItemBundle
<1>2. Merged(r, m, s)
  BY MergeItem
<1>3. "checked" \in DOMAIN m.set => "deleted" \in DOMAIN m.set
  BY DEF IsItemBundle, ItemSetOK
<1> QED BY <1>1, <1>2, <1>3 DEF Merged, Accepted, CheckOrdered

Ordered(d) ==
  /\ \A n \in NoteId : d.notes[n] # NoRow =>
       ToggleOrdered(d.notes[n]) /\ EditOrdered(d.notes[n])
  /\ \A i \in ItemId : d.items[i] # NoRow => CheckOrdered(d.items[i])

LEMMA ApplyOrdered ==
  ASSUME NEW d \in Database, NEW m \in Mutation, Ordered(d)
  PROVE  Ordered(Apply(d, m))
<1>1. CASE IsNoteBundle(m)
  <2> DEFINE a == Apply(d, m)
             r == NoteAt(d, m)
             q == Merge(r, m, d.seq)
  <2>1. NoteEffect(d, m, a, r, q)
    BY <1>1, ApplyNoteEffect
  <2>2. ToggleOrdered(r) /\ EditOrdered(r)
    <3>1. ToggleOrdered(FreshNote) /\ EditOrdered(FreshNote)
      BY DEF ToggleOrdered, EditOrdered, FreshNote, NoteField, NoteDefault
    <3> QED BY <1>1, <3>1 DEF Ordered, NoteAt, OrFresh, IsNoteBundle
  <2>3. ToggleOrdered(q) /\ EditOrdered(q)
    <3> HIDE DEF r
    <3> QED BY <1>1, <2>1, <2>2, MergeToggles, MergeEdits DEF NoteEffect, Database
  <2> HIDE DEF a, r, q
  <2>4. Ordered(a)
    BY <1>1, <2>1, <2>3 DEF NoteEffect, Ordered, IsNoteBundle, Database
  <2> QED BY <2>4 DEF a
<1>2. CASE IsItemBundle(m)
  <2> DEFINE a == Apply(d, m)
             r == ItemAt(d, m)
             q == Merge(r, m, d.seq)
  <2>1. ItemEffect(d, m, a, r, q)
    BY <1>2, ApplyItemEffect
  <2>2. CheckOrdered(r)
    <3>1. CheckOrdered(FreshItem(m.note))
      BY DEF CheckOrdered, FreshItem, ItemField
    <3> QED BY <1>2, <3>1 DEF Ordered, ItemAt, OrFresh, IsItemBundle
  <2>3. CheckOrdered(q)
    <3> HIDE DEF r
    <3> QED BY <1>2, <2>1, <2>2, MergeChecks DEF ItemEffect, Database
  <2> HIDE DEF a, r, q
  <2>4. Ordered(a)
    BY <1>2, <2>1, <2>3 DEF ItemEffect, Ordered, IsItemBundle, Database
  <2> QED BY <2>4 DEF a
<1>3. CASE IsLinkBundle(m)
  BY <1>3, ApplyLinkEffect DEF LinkEffect, Ordered
<1> QED BY <1>1, <1>2, <1>3, BundleShape

LEMMA OthersOrdered ==
  ASSUME NEW d \in Database, Ordered(d)
  PROVE  /\ \A S : Ordered(Purge(d, S))
         /\ \A n \in NoteId, t, p \in Text : Ordered(InsertAudio(d, n, t, p))
         /\ \A l \in LabelId : Ordered(RemoveLabel(d, l))
         /\ \A l \in LabelId, name \in LabelName : Ordered([d EXCEPT !.labels[l] = name])
<1>1. ASSUME NEW S PROVE Ordered(Purge(d, S))
  BY DEF Ordered, Purge, Database
<1>2. ASSUME NEW n \in NoteId, NEW t \in Text, NEW p \in Text
      PROVE  Ordered(InsertAudio(d, n, t, p))
  <2> DEFINE a == InsertAudio(d, n, t, p)
  <2>0. AudioEffect(d, n, t, p, a)
    BY InsertAudioEffect
  <2>1. PICK r : AudioRow(r, t, p, d.seq + 1) /\ a.notes = [d.notes EXCEPT ![n] = r]
    BY <2>0 DEF AudioEffect
  <2>2. a.items = d.items
    BY <2>0 DEF AudioEffect
  <2>3. ToggleOrdered(r) /\ EditOrdered(r)
    BY <2>1 DEF AudioRow, ToggleOrdered, EditOrdered, NoteField
  <2> HIDE DEF a
  <2>4. Ordered(a)
    BY <2>1, <2>2, <2>3 DEF Ordered, Database
  <2> QED BY <2>4 DEF a
<1>3. ASSUME NEW l \in LabelId PROVE Ordered(RemoveLabel(d, l))
  BY DEF Ordered, RemoveLabel, Database
<1>4. ASSUME NEW l \in LabelId, NEW name \in LabelName
      PROVE  Ordered([d EXCEPT !.labels[l] = name])
  BY DEF Ordered, Database
<1> QED BY <1>1, <1>2, <1>3, <1>4

------------------------------------------------------------------------------
(* References between tables. *)

\* An item row hangs where its creator put it.
AtHome(d) == \A i \in ItemId : d.items[i] # NoRow => d.items[i].note = NoteOf[i]

Tied(d) == Referential(d) /\ AtHome(d) /\ Recorded(d)

LEMMA ApplyTied ==
  ASSUME NEW d \in Database, NEW m \in Mutation, Tied(d), ~Rejects(d, m)
  PROVE  Tied(Apply(d, m))
<1> USE DEF Tied, Referential, AtHome, Recorded
<1>1. CASE IsNoteBundle(m)
  <2> DEFINE a == Apply(d, m)
             r == NoteAt(d, m)
             q == Merge(r, m, d.seq)
  <2>1. NoteEffect(d, m, a, r, q)
    BY <1>1, ApplyNoteEffect
  <2>2. q # NoRow
    BY <2>1, StoreAssumption DEF NoteEffect
  <2>3. q.val["kind"] = "audio" => q.audio
    <3> HIDE DEF r
    <3>1. Merged(r, m, d.seq) /\ q.audio = r.audio
      BY <1>1, <2>1, MergeNote DEF NoteEffect, Database
    <3>2. "kind" \in DOMAIN r.val
      BY <2>1 DEF NoteEffect, NoteRow, NoteVal
    <3>3. "kind" \in DOMAIN m.set => m.set["kind"] # "audio"
      BY <1>1 DEF Rejects, IsNoteBundle
    <3>4. r.val["kind"] = "audio" => r.audio
      BY <1>1 DEF r, NoteAt, OrFresh, FreshNote, NoteField, NoteDefault, IsNoteBundle
    <3> QED BY <3>1, <3>2, <3>3, <3>4 DEF Merged, Accepted
  <2> HIDE DEF a, r, q
  <2>4. Tied(a)
    BY <1>1, <2>1, <2>2, <2>3 DEF NoteEffect, IsNoteBundle, Database
  <2> QED BY <2>4 DEF a
<1>2. CASE IsItemBundle(m)
  <2> DEFINE a == Apply(d, m)
             r == ItemAt(d, m)
             q == Merge(r, m, d.seq)
  <2>0. m.note = NoteOf[m.id]
    BY <1>2, BundleShape DEF IsItemBundle
  <2>1. ItemEffect(d, m, a, r, q)
    BY <1>2, ApplyItemEffect
  <2>2. q.note = r.note
    <3> HIDE DEF r
    <3> QED BY <1>2, <2>1, MergeItem DEF ItemEffect, Database
  <2>3. r.note = m.note
    BY <1>2, <2>0 DEF ItemAt, OrFresh, FreshItem, IsItemBundle
  <2>4. d.notes[m.note] # NoRow
    BY <1>2, <2>0 DEF Rejects, IsItemBundle
  <2> HIDE DEF a, r, q
  <2>5. Tied(a)
    BY <1>2, <2>0, <2>1, <2>2, <2>3, <2>4 DEF ItemEffect, IsItemBundle, Database
  <2> QED BY <2>5 DEF a
<1>3. CASE IsLinkBundle(m)
  <2> DEFINE a == Apply(d, m)
             r == LinkAt(d, m)
             q == Merge(r, m, d.seq)
  <2>1. LinkEffect(d, m, a, r, q)
    BY <1>3, ApplyLinkEffect
  <2>2. d.notes[m.note] # NoRow /\ d.labels[m.label] # NoRow
    BY <1>3 DEF Rejects, IsLinkBundle
  <2>3. \A p \in NoteId \X LabelId : a.links[p] # NoRow =>
          d.links[p] # NoRow \/ p = <<m.note, m.label>>
    <3> HIDE DEF a, r, q
    <3> QED BY <2>1 DEF LinkEffect, Database
  <2> HIDE DEF a, r, q
  <2>4. Tied(a)
    BY <1>3, <2>1, <2>2, <2>3 DEF LinkEffect, IsLinkBundle
  <2> QED BY <2>4 DEF a
<1> QED BY <1>1, <1>2, <1>3, BundleShape

LEMMA OthersTied ==
  ASSUME NEW d \in Database, Tied(d)
  PROVE  /\ \A S : Tied(Purge(d, S))
         /\ \A n \in NoteId, t, p \in Text : Tied(InsertAudio(d, n, t, p))
         /\ \A l \in LabelId : Tied(RemoveLabel(d, l))
         /\ \A l \in LabelId, name \in LabelName : Tied([d EXCEPT !.labels[l] = name])
<1> USE DEF Tied, Referential, AtHome, Recorded
<1>1. ASSUME NEW S PROVE Tied(Purge(d, S))
  <2> DEFINE a == Purge(d, S)
  <2>1. /\ a.labels = d.labels
        /\ \A n \in NoteId : a.notes[n] = IF n \in S THEN NoRow ELSE d.notes[n]
        /\ \A i \in ItemId : a.items[i] = IF \E n \in S : i \in ItemsOf(d, n)
                                         THEN NoRow ELSE d.items[i]
        /\ \A p \in NoteId \X LabelId : a.links[p] = IF p[1] \in S THEN NoRow ELSE d.links[p]
    BY DEF Purge, Database
  <2> HIDE DEF a
  <2>2. Recorded(a) /\ AtHome(a)
    BY <2>1
  <2>3. ASSUME NEW i \in ItemId, a.items[i] # NoRow
        PROVE  a.notes[a.items[i].note] # NoRow
    BY <2>1, <2>3 DEF ItemsOf, Database, ItemRow
  <2>4. ASSUME NEW n \in NoteId, NEW l \in LabelId, a.links[<<n, l>>] # NoRow
        PROVE  a.notes[n] # NoRow /\ a.labels[l] # NoRow
    BY <2>1, <2>4
  <2>5. Tied(a)
    BY <2>2, <2>3, <2>4
  <2> QED BY <2>5 DEF a
<1>2. ASSUME NEW n \in NoteId, NEW t \in Text, NEW p \in Text
      PROVE  Tied(InsertAudio(d, n, t, p))
  <2> DEFINE a == InsertAudio(d, n, t, p)
  <2>0. AudioEffect(d, n, t, p, a)
    BY InsertAudioEffect
  <2>1. PICK r : AudioRow(r, t, p, d.seq + 1) /\ a.notes = [d.notes EXCEPT ![n] = r]
    BY <2>0 DEF AudioEffect
  <2>2. a.items = d.items /\ a.links = d.links /\ a.labels = d.labels
    BY <2>0 DEF AudioEffect
  <2>3. r # NoRow /\ r.audio = TRUE
    BY <2>1, StoreAssumption DEF AudioRow
  <2> HIDE DEF a
  <2>4. Tied(a)
    BY <2>1, <2>2, <2>3 DEF Database
  <2> QED BY <2>4 DEF a
<1>3. ASSUME NEW l \in LabelId PROVE Tied(RemoveLabel(d, l))
  <2> DEFINE a == RemoveLabel(d, l)
  <2>1. /\ a.notes = d.notes /\ a.items = d.items
        /\ a.labels = [d.labels EXCEPT ![l] = NoRow]
        /\ \A p \in NoteId \X LabelId : a.links[p] = IF p[2] = l THEN NoRow ELSE d.links[p]
    BY DEF RemoveLabel, Database
  <2> HIDE DEF a
  <2>2. ASSUME NEW n \in NoteId, NEW k \in LabelId, a.links[<<n, k>>] # NoRow
        PROVE  a.notes[n] # NoRow /\ a.labels[k] # NoRow
    BY <2>1, <2>2 DEF Database
  <2>3. Tied(a)
    BY <2>1, <2>2
  <2> QED BY <2>3 DEF a
<1>4. ASSUME NEW l \in LabelId, NEW name \in LabelName
      PROVE  Tied([d EXCEPT !.labels[l] = name])
  <2> DEFINE a == [d EXCEPT !.labels[l] = name]
  <2>1. /\ a.notes = d.notes /\ a.items = d.items /\ a.links = d.links
        /\ a.labels = [d.labels EXCEPT ![l] = name]
    BY DEF Database
  <2>2. name # NoRow
    BY StoreAssumption
  <2> HIDE DEF a
  <2>3. Tied(a)
    BY <2>1, <2>2 DEF Database
  <2> QED BY <2>3 DEF a
<1> QED BY <1>1, <1>2, <1>3, <1>4

------------------------------------------------------------------------------
(* The search index. *)

\* An index entry depends on its note's row and its items' rows only.
LEMMA SameEntry ==
  ASSUME NEW d, NEW e, NEW n \in NoteId, d.notes[n] = e.notes[n],
         ItemsOf(d, n) = ItemsOf(e, n),
         \A i \in ItemsOf(d, n) : /\ d.items[i].val["text"] = e.items[i].val["text"]
                                 /\ d.items[i].val["deleted"] = e.items[i].val["deleted"]
  PROVE  IndexEntry(d, n) = IndexEntry(e, n)
<1>1. LiveTexts(d, n) = LiveTexts(e, n)
  BY DEF LiveTexts
<1> QED BY <1>1 DEF IndexEntry

LEMMA ApplyIndexed ==
  ASSUME NEW d \in Database, NEW m \in Mutation, AtHome(d), Indexed(d)
  PROVE  Indexed(Apply(d, m))
<1>1. CASE IsNoteBundle(m)
  <2> DEFINE a == Apply(d, m)
             r == NoteAt(d, m)
             q == Merge(r, m, d.seq)
  <2>1. NoteEffect(d, m, a, r, q)
    BY <1>1, ApplyNoteEffect
  <2>2. Merged(r, m, d.seq)
    <3> HIDE DEF r
    <3> QED BY <1>1, <2>1, MergeNote DEF NoteEffect, Database
  <2>3. d.notes[m.id] # NoRow => r = d.notes[m.id]
    BY DEF NoteAt, OrFresh
  <2>4. /\ {"kind", "title", "body"} \subseteq DOMAIN r.val
        /\ Accepted(r, m) \cap NoteContent = {} =>
             \A f \in {"kind", "title", "body"} : q.val[f] = r.val[f]
    <3>1. {"kind", "title", "body"} \subseteq DOMAIN r.val
      BY <2>1 DEF NoteEffect, NoteRow, NoteVal
    <3> HIDE DEF r
    <3> QED BY <2>2, <3>1 DEF Merged, NoteContent
  <2> HIDE DEF a, r, q
  <2>5. ItemsOf(a, m.id) = ItemsOf(d, m.id) /\ LiveTexts(a, m.id) = LiveTexts(d, m.id)
    BY <2>1 DEF NoteEffect, ItemsOf, LiveTexts
  <2>6. a.fts[m.id] = IndexEntry(a, m.id)
    <3>1. CASE d.notes[m.id] = NoRow \/ Accepted(r, m) \cap NoteContent # {}
      BY <1>1, <2>1, <3>1 DEF NoteEffect, IsNoteBundle, Database
    <3>2. CASE ~(d.notes[m.id] = NoRow \/ Accepted(r, m) \cap NoteContent # {})
      <4>1. a.fts[m.id] = IndexEntry(d, m.id)
        BY <1>1, <2>1, <3>2 DEF NoteEffect, IsNoteBundle, Indexed
      <4>2. a.notes[m.id] = q /\ d.notes[m.id] = r /\ q # NoRow
        BY <1>1, <2>1, <2>3, <3>2, StoreAssumption DEF NoteEffect, IsNoteBundle, Database
      <4> QED BY <2>4, <2>5, <3>2, <4>1, <4>2 DEF IndexEntry
    <3> QED BY <3>1, <3>2
  <2>7. ASSUME NEW n \in NoteId, n # m.id
        PROVE  a.fts[n] = IndexEntry(a, n)
    <3>1. a.notes[n] = d.notes[n] /\ a.items = d.items /\ a.fts[n] = d.fts[n]
      BY <1>1, <2>1, <2>7 DEF NoteEffect, Database
    <3>2. IndexEntry(d, n) = IndexEntry(a, n)
      BY <3>1, SameEntry DEF ItemsOf
    <3> QED BY <3>1, <3>2 DEF Indexed
  <2>8. Indexed(a)
    BY <2>6, <2>7 DEF Indexed
  <2> QED BY <2>8 DEF a
<1>2. CASE IsItemBundle(m)
  <2> DEFINE a == Apply(d, m)
             r == ItemAt(d, m)
             q == Merge(r, m, d.seq)
  <2>0. m.note = NoteOf[m.id]
    BY <1>2, BundleShape DEF IsItemBundle
  <2>1. ItemEffect(d, m, a, r, q)
    BY <1>2, ApplyItemEffect
  <2>2. Merged(r, m, d.seq) /\ q.note = r.note
    <3> HIDE DEF r
    <3> QED BY <1>2, <2>1, MergeItem DEF ItemEffect, Database
  <2>3. /\ d.items[m.id] # NoRow => r = d.items[m.id]
        /\ r.note = m.note
    BY <1>2, <2>0 DEF ItemAt, OrFresh, FreshItem, IsItemBundle, AtHome
  <2>4. Accepted(r, m) \cap ItemContent = {} =>
             q.val["text"] = r.val["text"] /\ q.val["deleted"] = r.val["deleted"]
    <3>1. {"text", "deleted"} \subseteq DOMAIN r.val
      BY <2>1 DEF ItemEffect, ItemRow, ItemVal
    <3> HIDE DEF r
    <3> QED BY <2>2, <3>1 DEF Merged, ItemContent
  <2> HIDE DEF a, r, q
  <2>5. q # NoRow
    BY <2>1, StoreAssumption DEF ItemEffect
  <2>6. ASSUME NEW n \in NoteId, n # m.note
        PROVE  a.fts[n] = IndexEntry(a, n)
    <3>1. a.notes[n] = d.notes[n] /\ a.fts[n] = d.fts[n]
      BY <1>2, <2>1, <2>6 DEF ItemEffect, Database
    <3>2. \A i \in ItemId : i # m.id => a.items[i] = d.items[i]
      BY <2>1 DEF ItemEffect, Database
    <3>3. m.id \notin ItemsOf(a, n) /\ m.id \notin ItemsOf(d, n)
      BY <1>2, <2>1, <2>2, <2>3, <2>6 DEF ItemEffect, ItemsOf, Database, IsItemBundle
    <3>4. ItemsOf(a, n) = ItemsOf(d, n)
      BY <3>2, <3>3 DEF ItemsOf
    <3>5. \A i \in ItemsOf(d, n) : d.items[i] = a.items[i]
      BY <3>2, <3>3 DEF ItemsOf
    <3>6. IndexEntry(d, n) = IndexEntry(a, n)
      BY <3>1, <3>4, <3>5, SameEntry
    <3> QED BY <3>1, <3>6 DEF Indexed
  <2>7. a.fts[m.note] = IndexEntry(a, m.note)
    <3>1. CASE d.items[m.id] = NoRow \/ Accepted(r, m) \cap ItemContent # {}
      BY <1>2, <2>1, <3>1 DEF ItemEffect, IsItemBundle, Database
    <3>2. CASE ~(d.items[m.id] = NoRow \/ Accepted(r, m) \cap ItemContent # {})
      <4>1. /\ a.notes[m.note] = d.notes[m.note]
            /\ a.fts[m.note] = IndexEntry(d, m.note)
        BY <1>2, <2>1, <3>2 DEF ItemEffect, IsItemBundle, Indexed
      <4>2. \A i \in ItemId : a.items[i] = IF i = m.id THEN q ELSE d.items[i]
        BY <2>1 DEF ItemEffect, Database
      <4>3. d.items[m.id] = r /\ d.items[m.id] # NoRow
        BY <2>3, <3>2
      <4>4. ItemsOf(a, m.note) = ItemsOf(d, m.note)
        BY <2>2, <2>5, <4>2, <4>3 DEF ItemsOf
      <4>5. \A i \in ItemsOf(d, m.note) :
              /\ d.items[i].val["text"] = a.items[i].val["text"]
              /\ d.items[i].val["deleted"] = a.items[i].val["deleted"]
        BY <2>4, <3>2, <4>2, <4>3 DEF ItemsOf
      <4>6. IndexEntry(d, m.note) = IndexEntry(a, m.note)
        BY <1>2, <4>1, <4>4, <4>5, SameEntry DEF IsItemBundle
      <4> QED BY <4>1, <4>6
    <3> QED BY <3>1, <3>2
  <2>8. Indexed(a)
    BY <2>6, <2>7 DEF Indexed
  <2> QED BY <2>8 DEF a
<1>3. CASE IsLinkBundle(m)
  <2> DEFINE a == Apply(d, m)
             r == LinkAt(d, m)
             q == Merge(r, m, d.seq)
  <2>1. LinkEffect(d, m, a, r, q)
    BY <1>3, ApplyLinkEffect
  <2> HIDE DEF a, r, q
  <2>2. Indexed(a)
    BY <2>1 DEF LinkEffect, Indexed, IndexEntry, LiveTexts, ItemsOf
  <2> QED BY <2>2 DEF a
<1> QED BY <1>1, <1>2, <1>3, BundleShape

LEMMA OthersIndexed ==
  ASSUME NEW d \in Database, AtHome(d), Indexed(d)
  PROVE  /\ \A S : Indexed(Purge(d, S))
         /\ \A n \in NoteId, t, p \in Text : Indexed(InsertAudio(d, n, t, p))
         /\ \A l \in LabelId : Indexed(RemoveLabel(d, l))
         /\ \A l \in LabelId, name \in LabelName : Indexed([d EXCEPT !.labels[l] = name])
<1>1. ASSUME NEW S PROVE Indexed(Purge(d, S))
  <2> DEFINE a == Purge(d, S)
  <2>1. /\ \A n \in NoteId : /\ a.notes[n] = IF n \in S THEN NoRow ELSE d.notes[n]
                             /\ a.fts[n] = IF n \in S THEN NoRow ELSE d.fts[n]
        /\ \A i \in ItemId : a.items[i] = IF \E n \in S : i \in ItemsOf(d, n)
                                         THEN NoRow ELSE d.items[i]
    BY DEF Purge, Database
  <2> HIDE DEF a
  <2>2. ASSUME NEW n \in NoteId, n \in S
        PROVE  a.fts[n] = IndexEntry(a, n)
    BY <2>1, <2>2 DEF IndexEntry
  <2>3. ASSUME NEW n \in NoteId, n \notin S
        PROVE  a.fts[n] = IndexEntry(a, n)
    <3>1. \A i \in ItemsOf(d, n) : a.items[i] = d.items[i]
      BY <2>1, <2>3 DEF ItemsOf
    <3>2. ItemsOf(a, n) = ItemsOf(d, n)
      BY <2>1, <3>1 DEF ItemsOf
    <3>3. IndexEntry(d, n) = IndexEntry(a, n)
      BY <2>1, <2>3, <3>1, <3>2, SameEntry
    <3> QED BY <2>1, <2>3, <3>3 DEF Indexed
  <2>4. Indexed(a)
    BY <2>2, <2>3 DEF Indexed
  <2> QED BY <2>4 DEF a
<1>2. ASSUME NEW n \in NoteId, NEW t \in Text, NEW p \in Text
      PROVE  Indexed(InsertAudio(d, n, t, p))
  <2> DEFINE a == InsertAudio(d, n, t, p)
  <2>0. AudioEffect(d, n, t, p, a)
    BY InsertAudioEffect
  <2> HIDE DEF a
  <2>1. ASSUME NEW k \in NoteId, k # n
        PROVE  a.fts[k] = IndexEntry(a, k)
    <3>1. a.notes[k] = d.notes[k] /\ a.items = d.items /\ a.fts[k] = d.fts[k]
      BY <2>0, <2>1 DEF AudioEffect, Database
    <3>2. IndexEntry(d, k) = IndexEntry(a, k)
      BY <3>1, SameEntry DEF ItemsOf
    <3> QED BY <3>1, <3>2 DEF Indexed
  <2>2. a.fts[n] = IndexEntry(a, n)
    BY <2>0 DEF AudioEffect, Database
  <2>3. Indexed(a)
    BY <2>1, <2>2 DEF Indexed
  <2> QED BY <2>3 DEF a
<1>3. ASSUME NEW e, e.notes = d.notes, e.items = d.items, e.fts = d.fts
      PROVE  Indexed(e)
  BY <1>3 DEF Indexed, IndexEntry, LiveTexts, ItemsOf
<1>4. ASSUME NEW l \in LabelId PROVE Indexed(RemoveLabel(d, l))
  <2> DEFINE e == RemoveLabel(d, l)
  <2>1. e.notes = d.notes /\ e.items = d.items /\ e.fts = d.fts
    BY DEF RemoveLabel, Database
  <2> QED BY <1>3, <2>1
<1>5. ASSUME NEW l \in LabelId, NEW name \in LabelName
      PROVE  Indexed([d EXCEPT !.labels[l] = name])
  <2> DEFINE e == [d EXCEPT !.labels[l] = name]
  <2>1. e.notes = d.notes /\ e.items = d.items /\ e.fts = d.fts
    BY DEF Database
  <2> QED BY <1>3, <2>1
<1> QED BY <1>1, <1>2, <1>4, <1>5

------------------------------------------------------------------------------
(* Last writer wins. *)

SettledAt(v, c, writes, default, f) ==
  /\ \A k \in writes : k.hlc <= c
  /\ IF c = 0 THEN v = default
     ELSE \E k \in writes : k.hlc = c /\ k.set[f] = v

\* Merging m into a row that is settled on W settles it on W and m.
LEMMA MergeSettles ==
  ASSUME NEW r, NEW m, NEW s, NEW W, NEW default, Merged(r, m, s),
         DOMAIN r.clk = DOMAIN r.val, DOMAIN Merge(r, m, s).val = DOMAIN r.val,
         \A f \in DOMAIN r.clk : r.clk[f] \in Nat,
         m.hlc \in Nat \ {0}, \A k \in W : k.hlc \in Nat \ {0},
         Settled(r, W, default)
  PROVE  Settled(Merge(r, m, s), W \cup {m}, default)
<1> DEFINE q == Merge(r, m, s)
<1>1. \A f \in DOMAIN r.val :
        IF f \in DOMAIN m.set /\ m.hlc > r.clk[f]
        THEN q.val[f] = m.set[f] /\ q.clk[f] = m.hlc
        ELSE q.val[f] = r.val[f] /\ q.clk[f] = r.clk[f]
  BY DEF Merged, Accepted
<1> HIDE DEF q
<1>2. ASSUME NEW f \in DOMAIN r.val
      PROVE  SettledAt(q.val[f], q.clk[f], {k \in W \cup {m} : f \in DOMAIN k.set},
                       default[f], f)
  <2> DEFINE old == {k \in W : f \in DOMAIN k.set}
             new == {k \in W \cup {m} : f \in DOMAIN k.set}
  <2>1. /\ \A k \in old : k.hlc <= r.clk[f]
        /\ IF r.clk[f] = 0 THEN r.val[f] = default[f]
           ELSE \E k \in old : k.hlc = r.clk[f] /\ k.set[f] = r.val[f]
    BY DEF Settled
  <2>2. new = old \cup (IF f \in DOMAIN m.set THEN {m} ELSE {})
    OBVIOUS
  <2>3. r.clk[f] \in Nat /\ \A k \in old : k.hlc \in Nat
    OBVIOUS
  <2>4. CASE f \in DOMAIN m.set /\ m.hlc > r.clk[f]
    <3>1. q.val[f] = m.set[f] /\ q.clk[f] = m.hlc /\ m \in new
      BY <1>1, <2>2, <2>4
    <3>2. \A k \in new : k.hlc <= q.clk[f]
      BY <2>1, <2>2, <2>3, <2>4, <3>1
    <3> QED BY <2>4, <3>1, <3>2 DEF SettledAt
  <2>5. CASE ~(f \in DOMAIN m.set /\ m.hlc > r.clk[f])
    <3>1. q.val[f] = r.val[f] /\ q.clk[f] = r.clk[f]
      BY <1>1, <2>5
    <3>2. \A k \in new : k.hlc <= q.clk[f]
      BY <2>1, <2>2, <2>3, <2>5, <3>1
    <3>3. old \subseteq new
      BY <2>2
    <3> QED BY <2>1, <3>1, <3>2, <3>3 DEF SettledAt
  <2> QED BY <2>4, <2>5
<1>3. DOMAIN q.val = DOMAIN r.val
  BY DEF q
<1>4. Settled(q, W \cup {m}, default)
  BY <1>2, <1>3 DEF Settled, SettledAt
<1> QED BY <1>4 DEF q

\* The bundles of L that reached each row, and what Latest says of the row.
NoteWrites(L, n) == {m \in L : m.entity = "note" /\ m.id = n}
ItemWrites(L, i) == {m \in L : m.entity = "item" /\ m.id = i}
LinkWrites(L, n, l) == {m \in L : m.entity = "note_label" /\ m.note = n /\ m.label = l}

NoteLatest(r, W) == IF r = NoRow THEN W = {} ELSE r.audio \/ Settled(r, W, FreshNote.val)
ItemLatest(r, W, n) == IF r = NoRow THEN W = {} ELSE Settled(r, W, FreshItem(n).val)
LinkLatest(r, W) == IF r = NoRow THEN W = {} ELSE Settled(r, W, FreshLink.val)

LEMMA LatestParts ==
  ASSUME NEW d, NEW L
  PROVE  Latest(d, L) <=>
           /\ \A n \in NoteId : NoteLatest(d.notes[n], NoteWrites(L, n))
           /\ \A i \in ItemId : ItemLatest(d.items[i], ItemWrites(L, i), NoteOf[i])
           /\ \A n \in NoteId, l \in LabelId :
                LinkLatest(d.links[<<n, l>>], LinkWrites(L, n, l))
  BY DEF Latest, NoteLatest, ItemLatest, LinkLatest, NoteWrites, ItemWrites, LinkWrites

\* A row no bundle has reached is settled.
LEMMA FreshSettled ==
  /\ Settled(FreshNote, {}, FreshNote.val)
  /\ \A n \in NoteId : Settled(FreshItem(n), {}, FreshItem(n).val)
  /\ Settled(FreshLink, {}, FreshLink.val)
  BY DEF Settled, FreshNote, FreshItem, FreshLink

LEMMA MutationStamp ==
  ASSUME NEW m \in Mutation
  PROVE  m.hlc \in Nat \ {0}
  BY BundleShape DEF IsNoteBundle, IsItemBundle, IsLinkBundle

LEMMA ApplyLatest ==
  ASSUME NEW d \in Database, NEW m \in Mutation, NEW L \in SUBSET Mutation, Latest(d, L)
  PROVE  Latest(Apply(d, m), L \cup {m})
<1> DEFINE a == Apply(d, m)
           K == L \cup {m}
<1>1. CASE IsNoteBundle(m)
  <2> DEFINE r == NoteAt(d, m)
             q == Merge(r, m, d.seq)
             W == NoteWrites(L, m.id)
  <2>1. NoteEffect(d, m, a, r, q)
    BY <1>1, ApplyNoteEffect
  <2>2. Merged(r, m, d.seq) /\ q.audio = r.audio
    <3> HIDE DEF r
    <3> QED BY <1>1, <2>1, MergeNote DEF NoteEffect, Database
  <2>3. r.audio \/ Settled(r, W, FreshNote.val)
    BY <1>1, FreshSettled, LatestParts DEF NoteAt, OrFresh, NoteLatest, IsNoteBundle
  <2>4. \A k \in W : k.hlc \in Nat \ {0}
    BY MutationStamp DEF NoteWrites
  <2>5. /\ DOMAIN r.clk = DOMAIN r.val /\ DOMAIN q.val = DOMAIN r.val
        /\ \A f \in DOMAIN r.clk : r.clk[f] \in Nat
    BY <2>1 DEF NoteEffect, NoteRow, NoteVal, NoteField
  <2> HIDE DEF r, W
  <2>6. q.audio \/ Settled(q, W \cup {m}, FreshNote.val)
    BY <2>2, <2>3, <2>4, <2>5, MutationStamp, MergeSettles
  <2> HIDE DEF a, q
  <2>7. \A n \in NoteId : NoteWrites(K, n) = IF n = m.id THEN W \cup {m} ELSE NoteWrites(L, n)
    BY <1>1 DEF NoteWrites, IsNoteBundle, W
  <2>8. ASSUME NEW n \in NoteId
        PROVE  NoteLatest(a.notes[n], NoteWrites(K, n))
    <3>1. NoteLatest(d.notes[n], NoteWrites(L, n))
      BY LatestParts
    <3>2. a.notes[n] = IF n = m.id THEN q ELSE d.notes[n]
      BY <2>1 DEF NoteEffect, Database
    <3>3. q # NoRow
      BY <2>1, StoreAssumption DEF NoteEffect
    <3> QED BY <2>6, <2>7, <3>1, <3>2, <3>3 DEF NoteLatest
  <2>9. \A i \in ItemId : ItemLatest(a.items[i], ItemWrites(K, i), NoteOf[i])
    <3>1. \A i \in ItemId : ItemWrites(K, i) = ItemWrites(L, i)
      BY <1>1 DEF ItemWrites, IsNoteBundle
    <3> QED BY <2>1, <3>1, LatestParts DEF NoteEffect
  <2>10. \A n \in NoteId, l \in LabelId : LinkLatest(a.links[<<n, l>>], LinkWrites(K, n, l))
    <3>1. \A n \in NoteId, l \in LabelId : LinkWrites(K, n, l) = LinkWrites(L, n, l)
      BY <1>1 DEF LinkWrites, IsNoteBundle
    <3> QED BY <2>1, <3>1, LatestParts DEF NoteEffect
  <2>11. Latest(a, K)
    BY <2>8, <2>9, <2>10, LatestParts
  <2> QED BY <2>11 DEF a
<1>2. CASE IsItemBundle(m)
  <2> DEFINE r == ItemAt(d, m)
             q == Merge(r, m, d.seq)
             W == ItemWrites(L, m.id)
  <2>0. m.note = NoteOf[m.id]
    BY <1>2, BundleShape DEF IsItemBundle
  <2>1. ItemEffect(d, m, a, r, q)
    BY <1>2, ApplyItemEffect
  <2>2. Merged(r, m, d.seq)
    <3> HIDE DEF r
    <3> QED BY <1>2, <2>1, MergeItem DEF ItemEffect, Database
  <2>3. Settled(r, W, FreshItem(m.note).val)
    BY <1>2, <2>0, FreshSettled, LatestParts DEF ItemAt, OrFresh, ItemLatest, IsItemBundle
  <2>4. \A k \in W : k.hlc \in Nat \ {0}
    BY MutationStamp DEF ItemWrites
  <2>5. /\ DOMAIN r.clk = DOMAIN r.val /\ DOMAIN q.val = DOMAIN r.val
        /\ \A f \in DOMAIN r.clk : r.clk[f] \in Nat
    BY <2>1 DEF ItemEffect, ItemRow, ItemVal, ItemField
  <2> HIDE DEF r, W
  <2>6. Settled(q, W \cup {m}, FreshItem(m.note).val)
    BY <2>2, <2>3, <2>4, <2>5, MutationStamp, MergeSettles
  <2> HIDE DEF a, q
  <2>7. \A i \in ItemId : ItemWrites(K, i) = IF i = m.id THEN W \cup {m} ELSE ItemWrites(L, i)
    BY <1>2 DEF ItemWrites, IsItemBundle, W
  <2>8. ASSUME NEW i \in ItemId
        PROVE  ItemLatest(a.items[i], ItemWrites(K, i), NoteOf[i])
    <3>1. ItemLatest(d.items[i], ItemWrites(L, i), NoteOf[i])
      BY LatestParts
    <3>2. a.items[i] = IF i = m.id THEN q ELSE d.items[i]
      BY <2>1 DEF ItemEffect, Database
    <3>3. q # NoRow
      BY <2>1, StoreAssumption DEF ItemEffect
    <3>4. i = m.id => NoteOf[i] = m.note
      BY <1>2, <2>0 DEF IsItemBundle
    <3> QED BY <2>6, <2>7, <3>1, <3>2, <3>3, <3>4 DEF ItemLatest
  <2>9. \A n \in NoteId : NoteLatest(a.notes[n], NoteWrites(K, n))
    <3>1. \A n \in NoteId : NoteWrites(K, n) = NoteWrites(L, n)
      BY <1>2 DEF NoteWrites, IsItemBundle
    <3> QED BY <2>1, <3>1, LatestParts DEF ItemEffect
  <2>10. \A n \in NoteId, l \in LabelId : LinkLatest(a.links[<<n, l>>], LinkWrites(K, n, l))
    <3>1. \A n \in NoteId, l \in LabelId : LinkWrites(K, n, l) = LinkWrites(L, n, l)
      BY <1>2 DEF LinkWrites, IsItemBundle
    <3> QED BY <2>1, <3>1, LatestParts DEF ItemEffect
  <2>11. Latest(a, K)
    BY <2>8, <2>9, <2>10, LatestParts
  <2> QED BY <2>11 DEF a
<1>3. CASE IsLinkBundle(m)
  <2> DEFINE r == LinkAt(d, m)
             q == Merge(r, m, d.seq)
             W == LinkWrites(L, m.note, m.label)
  <2>1. LinkEffect(d, m, a, r, q)
    BY <1>3, ApplyLinkEffect
  <2>2. Merged(r, m, d.seq)
    <3> HIDE DEF r
    <3> QED BY <1>3, <2>1, MergeLink DEF LinkEffect, Database
  <2>3. Settled(r, W, FreshLink.val)
    BY <1>3, FreshSettled, LatestParts DEF LinkAt, OrFresh, LinkLatest, IsLinkBundle
  <2>4. \A k \in W : k.hlc \in Nat \ {0}
    BY MutationStamp DEF LinkWrites
  <2>5. /\ DOMAIN r.clk = DOMAIN r.val /\ DOMAIN q.val = DOMAIN r.val
        /\ \A f \in DOMAIN r.clk : r.clk[f] \in Nat
    BY <2>1 DEF LinkEffect, LinkRow, LinkVal, LinkField
  <2> HIDE DEF r, W
  <2>6. Settled(q, W \cup {m}, FreshLink.val)
    BY <2>2, <2>3, <2>4, <2>5, MutationStamp, MergeSettles
  <2> HIDE DEF a, q
  <2>7. \A n \in NoteId, l \in LabelId :
          LinkWrites(K, n, l) = IF n = m.note /\ l = m.label THEN W \cup {m}
                                ELSE LinkWrites(L, n, l)
    BY <1>3 DEF LinkWrites, IsLinkBundle, W
  <2>8. ASSUME NEW n \in NoteId, NEW l \in LabelId
        PROVE  LinkLatest(a.links[<<n, l>>], LinkWrites(K, n, l))
    <3>1. LinkLatest(d.links[<<n, l>>], LinkWrites(L, n, l))
      BY LatestParts
    <3>2. a.links[<<n, l>>] = IF n = m.note /\ l = m.label THEN q ELSE d.links[<<n, l>>]
      BY <1>3, <2>1 DEF LinkEffect, Database, IsLinkBundle
    <3>3. q # NoRow
      BY <2>1, StoreAssumption DEF LinkEffect
    <3> QED BY <2>6, <2>7, <3>1, <3>2, <3>3 DEF LinkLatest
  <2>9. \A n \in NoteId : NoteLatest(a.notes[n], NoteWrites(K, n))
    <3>1. \A n \in NoteId : NoteWrites(K, n) = NoteWrites(L, n)
      BY <1>3 DEF NoteWrites, IsLinkBundle
    <3> QED BY <2>1, <3>1, LatestParts DEF LinkEffect
  <2>10. \A i \in ItemId : ItemLatest(a.items[i], ItemWrites(K, i), NoteOf[i])
    <3>1. \A i \in ItemId : ItemWrites(K, i) = ItemWrites(L, i)
      BY <1>3 DEF ItemWrites, IsLinkBundle
    <3> QED BY <2>1, <3>1, LatestParts DEF LinkEffect
  <2>11. Latest(a, K)
    BY <2>8, <2>9, <2>10, LatestParts
  <2> QED BY <2>11 DEF a
<1> QED BY <1>1, <1>2, <1>3, BundleShape

LEMMA OthersLatest ==
  ASSUME NEW d \in Database, NEW L \in SUBSET Mutation, Latest(d, L), AtHome(d)
  PROVE  /\ \A S : Latest(Purge(d, S), Without(L, S))
         /\ \A n \in NoteId, t, p \in Text :
              d.notes[n] = NoRow => Latest(InsertAudio(d, n, t, p), L)
         /\ \A l \in LabelId :
              Latest(RemoveLabel(d, l), {m \in L : ~(m.entity = "note_label" /\ m.label = l)})
         /\ \A l \in LabelId, name \in LabelName : Latest([d EXCEPT !.labels[l] = name], L)
<1>0. /\ \A n \in NoteId : NoteLatest(d.notes[n], NoteWrites(L, n))
      /\ \A i \in ItemId : ItemLatest(d.items[i], ItemWrites(L, i), NoteOf[i])
      /\ \A n \in NoteId, l \in LabelId : LinkLatest(d.links[<<n, l>>], LinkWrites(L, n, l))
  BY LatestParts
<1>1. ASSUME NEW S PROVE Latest(Purge(d, S), Without(L, S))
  <2> DEFINE a == Purge(d, S)
             K == Without(L, S)
  <2>1. /\ \A n \in NoteId : a.notes[n] = IF n \in S THEN NoRow ELSE d.notes[n]
        /\ \A i \in ItemId : a.items[i] = IF \E n \in S : i \in ItemsOf(d, n)
                                         THEN NoRow ELSE d.items[i]
        /\ \A p \in NoteId \X LabelId : a.links[p] = IF p[1] \in S THEN NoRow ELSE d.links[p]
    BY DEF Purge, Database
  <2>2. \A m \in L : m.entity = "item" => m.note = NoteOf[m.id]
    BY BundleShape DEF IsNoteBundle, IsItemBundle, IsLinkBundle
  <2> HIDE DEF a
  <2>3. ASSUME NEW n \in NoteId
        PROVE  NoteLatest(a.notes[n], NoteWrites(K, n))
    <3>1. NoteWrites(K, n) = IF n \in S THEN {} ELSE NoteWrites(L, n)
      BY DEF NoteWrites, Without, NoteIdOf
    <3> QED BY <1>0, <2>1, <3>1 DEF NoteLatest
  <2>4. ASSUME NEW i \in ItemId
        PROVE  ItemLatest(a.items[i], ItemWrites(K, i), NoteOf[i])
    <3>1. ItemWrites(K, i) = IF NoteOf[i] \in S THEN {} ELSE ItemWrites(L, i)
      BY <2>2 DEF ItemWrites, Without, NoteIdOf
    <3>2. a.items[i] = IF NoteOf[i] \in S THEN NoRow ELSE d.items[i]
      BY <2>1 DEF ItemsOf, AtHome
    <3> QED BY <1>0, <3>1, <3>2 DEF ItemLatest
  <2>5. ASSUME NEW n \in NoteId, NEW l \in LabelId
        PROVE  LinkLatest(a.links[<<n, l>>], LinkWrites(K, n, l))
    <3>1. LinkWrites(K, n, l) = IF n \in S THEN {} ELSE LinkWrites(L, n, l)
      BY DEF LinkWrites, Without, NoteIdOf
    <3> QED BY <1>0, <2>1, <3>1 DEF LinkLatest
  <2>6. Latest(a, K)
    BY <2>3, <2>4, <2>5, LatestParts
  <2> QED BY <2>6 DEF a
<1>2. ASSUME NEW n \in NoteId, NEW t \in Text, NEW p \in Text, d.notes[n] = NoRow
      PROVE  Latest(InsertAudio(d, n, t, p), L)
  <2> DEFINE a == InsertAudio(d, n, t, p)
  <2>1. AudioEffect(d, n, t, p, a)
    BY InsertAudioEffect
  <2> HIDE DEF a
  <2>2. PICK r : AudioRow(r, t, p, d.seq + 1) /\ a.notes = [d.notes EXCEPT ![n] = r]
    BY <2>1 DEF AudioEffect
  <2>3. r.audio /\ r # NoRow
    BY <2>2, StoreAssumption DEF AudioRow
  <2>4. ASSUME NEW k \in NoteId
        PROVE  NoteLatest(a.notes[k], NoteWrites(L, k))
    BY <1>0, <2>2, <2>3 DEF NoteLatest, Database
  <2>5. a.items = d.items /\ a.links = d.links
    BY <2>1 DEF AudioEffect
  <2>6. Latest(a, L)
    BY <1>0, <2>4, <2>5, LatestParts
  <2> QED BY <2>6 DEF a
<1>3. ASSUME NEW l \in LabelId
      PROVE  Latest(RemoveLabel(d, l), {m \in L : ~(m.entity = "note_label" /\ m.label = l)})
  <2> DEFINE a == RemoveLabel(d, l)
             K == {m \in L : ~(m.entity = "note_label" /\ m.label = l)}
  <2>1. /\ a.notes = d.notes /\ a.items = d.items
        /\ \A p \in NoteId \X LabelId : a.links[p] = IF p[2] = l THEN NoRow ELSE d.links[p]
    BY DEF RemoveLabel, Database
  <2> HIDE DEF a
  <2>2. \A n \in NoteId : NoteWrites(K, n) = NoteWrites(L, n)
    BY DEF NoteWrites
  <2>3. \A i \in ItemId : ItemWrites(K, i) = ItemWrites(L, i)
    BY DEF ItemWrites
  <2>4. \A n \in NoteId, k \in LabelId :
          LinkWrites(K, n, k) = IF k = l THEN {} ELSE LinkWrites(L, n, k)
    BY DEF LinkWrites
  <2> HIDE DEF K
  <2>5. ASSUME NEW n \in NoteId, NEW k \in LabelId
        PROVE  LinkLatest(a.links[<<n, k>>], LinkWrites(K, n, k))
    BY <1>0, <2>1, <2>4 DEF LinkLatest
  <2>6. Latest(a, K)
    BY <1>0, <2>1, <2>2, <2>3, <2>5, LatestParts
  <2> QED BY <2>6 DEF a, K
<1>4. ASSUME NEW l \in LabelId, NEW name \in LabelName
      PROVE  Latest([d EXCEPT !.labels[l] = name], L)
  <2> DEFINE a == [d EXCEPT !.labels[l] = name]
  <2>1. a.notes = d.notes /\ a.items = d.items /\ a.links = d.links
    BY DEF Database
  <2> HIDE DEF a
  <2>2. Latest(a, L)
    BY <1>0, <2>1, LatestParts
  <2> QED BY <2>2 DEF a
<1> QED BY <1>1, <1>2, <1>3, <1>4

------------------------------------------------------------------------------
(* Sequence numbers. *)

\* e descends from d: what differs and is still there carries a newer seq.
Ahead(d, e) ==
  /\ e.seq >= d.seq
  /\ \A n \in NoteId : FreshSeq(d.notes[n], e.notes[n], d.seq)
  /\ \A i \in ItemId : FreshSeq(d.items[i], e.items[i], d.seq)
  /\ \A p \in NoteId \X LabelId : FreshSeq(d.links[p], e.links[p], d.seq)

\* A merge that leaves a new or changed row has drawn a seq for it.
LEMMA MergeFresh ==
  ASSUME NEW old, NEW r, NEW m, NEW c \in Nat, NEW s \in Nat, s <= c,
         Merged(r, m, c), NEW before, FreshSeq(before, old, s),
         IF old = NoRow THEN Accepted(r, m) # {} ELSE r = old
  PROVE  FreshSeq(before, Merge(r, m, c), s) /\ c + Cardinality(Accepted(r, m)) >= s
<1>1. CASE Accepted(r, m) = {}
  BY <1>1 DEF Merged, FreshSeq
<1>2. CASE Accepted(r, m) # {}
  BY <1>2 DEF Merged, FreshSeq
<1>3. Cardinality(Accepted(r, m)) \in Nat
  BY DEF Merged
<1> QED BY <1>1, <1>2, <1>3

LEMMA ApplyAhead ==
  ASSUME NEW d \in Database, NEW e \in Database, Ahead(d, e), NEW m \in Mutation
  PROVE  Ahead(d, Apply(e, m))
<1> DEFINE a == Apply(e, m)
<1>0. e.seq \in Nat /\ d.seq \in Nat /\ d.seq <= e.seq
  BY DEF Database, Ahead
<1>1. CASE IsNoteBundle(m)
  <2> DEFINE r == NoteAt(e, m)
             q == Merge(r, m, e.seq)
  <2>1. NoteEffect(e, m, a, r, q)
    BY <1>1, ApplyNoteEffect
  <2>2. Merged(r, m, e.seq)
    <3> HIDE DEF r
    <3> QED BY <1>1, <2>1, MergeNote DEF NoteEffect, Database
  <2>3. IF e.notes[m.id] = NoRow THEN Accepted(r, m) # {} ELSE r = e.notes[m.id]
    BY <1>1 DEF NoteAt, OrFresh, FreshNote, Accepted, IsNoteBundle, NoteSetOK
  <2>4. FreshSeq(d.notes[m.id], e.notes[m.id], d.seq)
    BY <1>1 DEF Ahead, IsNoteBundle
  <2> HIDE DEF r
  <2>5. FreshSeq(d.notes[m.id], q, d.seq) /\ a.seq >= d.seq
    <3> DEFINE old == e.notes[m.id]
               before == d.notes[m.id]
               c == e.seq
               s == d.seq
    <3>1. /\ Merged(r, m, c) /\ FreshSeq(before, old, s) /\ c \in Nat /\ s \in Nat /\ s <= c
          /\ IF old = NoRow THEN Accepted(r, m) # {} ELSE r = old
      BY <1>0, <2>2, <2>3, <2>4
    <3>2. a.seq = c + Cardinality(Accepted(r, m))
      BY <2>1 DEF NoteEffect
    <3> HIDE DEF old, before, c, s
    <3>3. FreshSeq(before, Merge(r, m, c), s) /\ c + Cardinality(Accepted(r, m)) >= s
      BY <3>1, MergeFresh
    <3> QED BY <3>2, <3>3 DEF before, c, s
  <2> HIDE DEF a, q
  <2>6. Ahead(d, a)
    BY <2>1, <2>5 DEF NoteEffect, Ahead, Database
  <2> QED BY <2>6 DEF a
<1>2. CASE IsItemBundle(m)
  <2> DEFINE r == ItemAt(e, m)
             q == Merge(r, m, e.seq)
  <2>1. ItemEffect(e, m, a, r, q)
    BY <1>2, ApplyItemEffect
  <2>2. Merged(r, m, e.seq)
    <3> HIDE DEF r
    <3> QED BY <1>2, <2>1, MergeItem DEF ItemEffect, Database
  <2>3. IF e.items[m.id] = NoRow THEN Accepted(r, m) # {} ELSE r = e.items[m.id]
    BY <1>2 DEF ItemAt, OrFresh, FreshItem, Accepted, IsItemBundle, ItemSetOK
  <2>4. FreshSeq(d.items[m.id], e.items[m.id], d.seq)
    BY <1>2 DEF Ahead, IsItemBundle
  <2> HIDE DEF r
  <2>5. FreshSeq(d.items[m.id], q, d.seq) /\ a.seq >= d.seq
    <3> DEFINE old == e.items[m.id]
               before == d.items[m.id]
               c == e.seq
               s == d.seq
    <3>1. /\ Merged(r, m, c) /\ FreshSeq(before, old, s) /\ c \in Nat /\ s \in Nat /\ s <= c
          /\ IF old = NoRow THEN Accepted(r, m) # {} ELSE r = old
      BY <1>0, <2>2, <2>3, <2>4
    <3>2. a.seq = c + Cardinality(Accepted(r, m))
      BY <2>1 DEF ItemEffect
    <3> HIDE DEF old, before, c, s
    <3>3. FreshSeq(before, Merge(r, m, c), s) /\ c + Cardinality(Accepted(r, m)) >= s
      BY <3>1, MergeFresh
    <3> QED BY <3>2, <3>3 DEF before, c, s
  <2> HIDE DEF a, q
  <2>6. Ahead(d, a)
    BY <2>1, <2>5 DEF ItemEffect, Ahead, Database
  <2> QED BY <2>6 DEF a
<1>3. CASE IsLinkBundle(m)
  <2> DEFINE r == LinkAt(e, m)
             q == Merge(r, m, e.seq)
             p == <<m.note, m.label>>
  <2>1. LinkEffect(e, m, a, r, q)
    BY <1>3, ApplyLinkEffect
  <2>2. Merged(r, m, e.seq)
    <3> HIDE DEF r
    <3> QED BY <1>3, <2>1, MergeLink DEF LinkEffect, Database
  <2>3. IF e.links[p] = NoRow THEN Accepted(r, m) # {} ELSE r = e.links[p]
    BY <1>3 DEF LinkAt, OrFresh, FreshLink, LinkField, Accepted, IsLinkBundle
  <2>4. FreshSeq(d.links[p], e.links[p], d.seq)
    BY <1>3 DEF Ahead, IsLinkBundle
  <2> HIDE DEF r
  <2>5. FreshSeq(d.links[p], q, d.seq) /\ a.seq >= d.seq
    <3> DEFINE old == e.links[p]
               before == d.links[p]
               c == e.seq
               s == d.seq
    <3>1. /\ Merged(r, m, c) /\ FreshSeq(before, old, s) /\ c \in Nat /\ s \in Nat /\ s <= c
          /\ IF old = NoRow THEN Accepted(r, m) # {} ELSE r = old
      BY <1>0, <2>2, <2>3, <2>4
    <3>2. a.seq = c + Cardinality(Accepted(r, m))
      BY <2>1 DEF LinkEffect
    <3> HIDE DEF old, before, c, s
    <3>3. FreshSeq(before, Merge(r, m, c), s) /\ c + Cardinality(Accepted(r, m)) >= s
      BY <3>1, MergeFresh
    <3> QED BY <3>2, <3>3 DEF before, c, s
  <2> HIDE DEF a, q
  <2>6. Ahead(d, a)
    BY <2>1, <2>5 DEF LinkEffect, Ahead, Database
  <2> QED BY <2>6 DEF a
<1> QED BY <1>1, <1>2, <1>3, BundleShape

LEMMA OthersAhead ==
  ASSUME NEW d \in Database
  PROVE  /\ Ahead(d, d)
         /\ \A S : Ahead(d, Purge(d, S))
         /\ \A n \in NoteId, t, p \in Text : Ahead(d, InsertAudio(d, n, t, p))
         /\ \A l \in LabelId : Ahead(d, RemoveLabel(d, l))
         /\ \A l \in LabelId, name \in LabelName : Ahead(d, [d EXCEPT !.labels[l] = name])
<1> USE DEF Ahead, FreshSeq
<1>0. d.seq \in Nat /\ d.seq >= d.seq
  BY DEF Database
<1>1. Ahead(d, d)
  BY <1>0
<1>2. ASSUME NEW S PROVE Ahead(d, Purge(d, S))
  BY <1>0 DEF Purge, Database
<1>3. ASSUME NEW n \in NoteId, NEW t \in Text, NEW p \in Text
      PROVE  Ahead(d, InsertAudio(d, n, t, p))
  <2> DEFINE a == InsertAudio(d, n, t, p)
  <2>1. AudioEffect(d, n, t, p, a)
    BY InsertAudioEffect
  <2> HIDE DEF a
  <2>2. Ahead(d, a)
    BY <1>0, <2>1 DEF AudioEffect, AudioRow, Database
  <2> QED BY <2>2 DEF a
<1>4. ASSUME NEW l \in LabelId PROVE Ahead(d, RemoveLabel(d, l))
  BY <1>0 DEF RemoveLabel, Database
<1>5. ASSUME NEW l \in LabelId, NEW name \in LabelName
      PROVE  Ahead(d, [d EXCEPT !.labels[l] = name])
  BY <1>0 DEF Database
<1> QED BY <1>1, <1>2, <1>3, <1>4, <1>5

------------------------------------------------------------------------------
(* The inductive invariant.  Exclusive and Revived are not inductive: whether *)
(* a late mutation may write depends on the clocks, so the clocks have to be   *)
(* known to be in the same order as the values (Ordered).  IndexInSync needs  *)
(* AtHome, since a write of an item reindexes the note its bundle names.  And *)
(* what Commit publishes has to descend from what it replaces (Ahead).        *)

Good(d, L) == Ordered(d) /\ Tied(d) /\ Indexed(d) /\ Latest(d, L)

IInv == /\ TypeOK
        /\ Good(db, log)
        /\ tx # NoTx => Good(tx.db, tx.log) /\ Ahead(db, tx.db)

LEMMA EmptyGood == Good(EmptyDB, {})
<1>1. Ordered(EmptyDB) /\ Tied(EmptyDB)
  BY DEF EmptyDB, Ordered, Tied, Referential, AtHome, Recorded
<1>2. Indexed(EmptyDB)
  BY DEF EmptyDB, Indexed, IndexEntry
<1>3. Latest(EmptyDB, {})
  BY DEF EmptyDB, Latest
<1> QED BY <1>1, <1>2, <1>3 DEF Good

LEMMA ApplyGood ==
  ASSUME NEW d \in Database, NEW m \in Mutation, NEW L \in SUBSET Mutation,
         Good(d, L), ~Rejects(d, m)
  PROVE  Good(Apply(d, m), L \cup {m})
<1>1. Ordered(d) /\ Tied(d) /\ AtHome(d) /\ Indexed(d) /\ Latest(d, L)
  BY DEF Good, Tied
<1> QED BY <1>1, ApplyOrdered, ApplyTied, ApplyIndexed, ApplyLatest DEF Good

LEMMA OthersGood ==
  ASSUME NEW d \in Database, NEW L \in SUBSET Mutation, Good(d, L)
  PROVE  /\ \A S : Good(Purge(d, S), Without(L, S))
         /\ \A n \in NoteId, t, p \in Text :
              d.notes[n] = NoRow => Good(InsertAudio(d, n, t, p), L)
         /\ \A l \in LabelId :
              Good(RemoveLabel(d, l), {m \in L : ~(m.entity = "note_label" /\ m.label = l)})
         /\ \A l \in LabelId, name \in LabelName : Good([d EXCEPT !.labels[l] = name], L)
<1>1. Ordered(d) /\ Tied(d) /\ AtHome(d) /\ Indexed(d) /\ Latest(d, L)
  BY DEF Good, Tied
<1> QED BY <1>1, OthersOrdered, OthersTied, OthersIndexed, OthersLatest DEF Good

LEMMA InitInv == Init => IInv
<1> SUFFICES ASSUME Init PROVE IInv
  OBVIOUS
<1>1. TypeOK
  BY DEF Init, TypeOK, EmptyDB, Database
<1> QED BY <1>1, EmptyGood DEF Init, IInv

\* A writer outside the batch moves the database from one good state to another
\* that descends from it.
LEMMA WriterStep ==
  ASSUME IInv, [Next]_vars, tx = NoTx
  PROVE  /\ Ahead(db, db') /\ Good(db, log)'
         /\ tx' # NoTx => tx' = [db |-> db, log |-> log] /\ UNCHANGED <<db, log>>
<1>1. db \in Database /\ log \in SUBSET Mutation /\ Good(db, log) /\ Ahead(db, db)
  BY OthersAhead DEF IInv, TypeOK
<1>2. CASE BeginTx
  BY <1>1, <1>2 DEF BeginTx
<1>3. CASE Commit \/ CrashInTx
  BY <1>3 DEF Commit, CrashInTx
<1>4. ASSUME NEW m \in Mutation, ApplyMutation(m) \/ RejectBatch(m)
      PROVE  FALSE
  BY <1>4 DEF ApplyMutation, RejectBatch
<1>5. ASSUME NEW S, db' = Purge(db, S), log' = Without(log, S), tx' = tx
      PROVE  Ahead(db, db') /\ Good(db, log)'
  <2>1. Ahead(db, Purge(db, S)) /\ Good(Purge(db, S), Without(log, S))
    BY <1>1, OthersAhead, OthersGood
  <2> QED BY <1>5, <2>1
<1>6. ASSUME NEW n \in NoteId, PurgeOne(n)
      PROVE  Ahead(db, db') /\ Good(db, log)' /\ tx' = NoTx
  BY <1>5, <1>6 DEF PurgeOne
<1>7. CASE Sweep
  BY <1>5, <1>7 DEF Sweep
<1>8. ASSUME NEW u \in Upload, CreateAudio(u)
      PROVE  Ahead(db, db') /\ Good(db, log)' /\ tx' = NoTx
  <2>1. u.note \in NoteId /\ u.title \in Text /\ u.position \in Text
    BY SyncServerAssumption
  <2>2. db.notes[u.note] = NoRow
    BY <1>8 DEF CreateAudio
  <2>3. /\ Ahead(db, InsertAudio(db, u.note, u.title, u.position))
        /\ Good(InsertAudio(db, u.note, u.title, u.position), log)
    BY <1>1, <2>1, <2>2, OthersAhead, OthersGood
  <2> QED BY <1>8, <2>3 DEF CreateAudio
<1>9. ASSUME NEW l \in LabelId, NEW name \in LabelName,
             CreateLabel(l, name) \/ RenameLabel(l, name)
      PROVE  Ahead(db, db') /\ Good(db, log)' /\ tx' = NoTx
  <2>1. /\ Ahead(db, [db EXCEPT !.labels[l] = name])
        /\ Good([db EXCEPT !.labels[l] = name], log)
    BY <1>1, OthersAhead, OthersGood
  <2> QED BY <1>9, <2>1 DEF CreateLabel, RenameLabel
<1>10. ASSUME NEW l \in LabelId, DeleteLabel(l)
       PROVE  Ahead(db, db') /\ Good(db, log)' /\ tx' = NoTx
  <2>1. /\ Ahead(db, RemoveLabel(db, l))
        /\ Good(RemoveLabel(db, l), {m \in log : ~(m.entity = "note_label" /\ m.label = l)})
    BY <1>1, OthersAhead, OthersGood
  <2> QED BY <1>10, <2>1 DEF DeleteLabel
<1>11. CASE Tick \/ UNCHANGED vars
  BY <1>1, <1>11 DEF Tick, vars
<1> QED BY <1>2, <1>3, <1>4, <1>6, <1>7, <1>8, <1>9, <1>10, <1>11 DEF Next

\* While a transaction is open only its own mutations and its end happen.
LEMMA TxStep ==
  ASSUME IInv, [Next]_vars, tx # NoTx
  PROVE  \/ /\ UNCHANGED <<db, log>>
            /\ \/ tx' = NoTx
               \/ tx' = tx
               \/ /\ Good(tx.db, tx.log)'
                  /\ Ahead(db, tx'.db)
         \/ db' = tx.db /\ log' = tx.log /\ tx' = NoTx
<1>1. /\ db \in Database /\ tx.db \in Database /\ tx.log \in SUBSET Mutation
      /\ Good(tx.db, tx.log) /\ Ahead(db, tx.db)
  BY DEF IInv, TypeOK
<1>2. CASE Commit
  BY <1>2 DEF Commit
<1>3. CASE CrashInTx \/ Tick \/ UNCHANGED vars
  BY <1>3 DEF CrashInTx, Tick, vars
<1>4. ASSUME NEW m \in Mutation, RejectBatch(m)
      PROVE  UNCHANGED <<db, log>> /\ tx' = NoTx
  BY <1>4 DEF RejectBatch
<1>5. ASSUME NEW m \in Mutation, ApplyMutation(m)
      PROVE  UNCHANGED <<db, log>> /\ Good(tx.db, tx.log)' /\ Ahead(db, tx'.db)
  <2>1. Good(Apply(tx.db, m), tx.log \cup {m}) /\ Ahead(db, Apply(tx.db, m))
    BY <1>1, <1>5, ApplyGood, ApplyAhead DEF ApplyMutation
  <2>2. tx' = [db |-> Apply(tx.db, m), log |-> tx.log \cup {m}]
    BY <1>5 DEF ApplyMutation
  <2> QED BY <1>5, <2>1, <2>2 DEF ApplyMutation
<1>6. ~BeginTx /\ ~Sweep
  BY DEF BeginTx, Sweep
<1>7. \A n \in NoteId : ~PurgeOne(n)
  BY DEF PurgeOne
<1>8. \A u \in Upload : ~CreateAudio(u)
  BY DEF CreateAudio
<1>9. \A l \in LabelId : ~DeleteLabel(l)
  BY DEF DeleteLabel
<1>10. \A l \in LabelId, name \in LabelName : ~CreateLabel(l, name) /\ ~RenameLabel(l, name)
  BY DEF CreateLabel, RenameLabel
<1> QED BY <1>2, <1>3, <1>4, <1>5, <1>6, <1>7, <1>8, <1>9, <1>10 DEF Next

LEMMA StepInv == IInv /\ [Next]_vars => IInv'
<1> SUFFICES ASSUME IInv, [Next]_vars, TypeOK' PROVE IInv'
  BY TypeStep DEF IInv
<1>1. /\ Good(db, log) /\ db \in Database
      /\ tx # NoTx => Good(tx.db, tx.log) /\ Ahead(db, tx.db)
  BY DEF IInv, TypeOK
<1>2. CASE tx = NoTx
  <2>1. Good(db, log)'
    BY <1>2, WriterStep
  <2>2. ASSUME tx' # NoTx PROVE Good(tx.db, tx.log)' /\ Ahead(db, tx.db)'
    <3>1. tx' = [db |-> db, log |-> log] /\ UNCHANGED <<db, log>>
      BY <1>2, <2>2, WriterStep
    <3>2. Ahead(db, db)
      BY <1>1, OthersAhead
    <3> QED BY <1>1, <3>1, <3>2
  <2> QED BY <2>1, <2>2 DEF IInv
<1>3. CASE tx # NoTx
  <2>1. CASE UNCHANGED <<db, log>> /\ (tx' = NoTx \/ tx' = tx)
    BY <1>1, <1>3, <2>1 DEF IInv
  <2>2. CASE UNCHANGED <<db, log>> /\ Good(tx.db, tx.log)' /\ Ahead(db, tx'.db)
    BY <1>1, <2>2 DEF IInv
  <2>3. CASE db' = tx.db /\ log' = tx.log /\ tx' = NoTx
    BY <1>1, <1>3, <2>3 DEF IInv
  <2> QED BY <1>3, <2>1, <2>2, <2>3, TxStep
<1> QED BY <1>2, <1>3

\* The strengthening is an invariant of the server.
THEOREM Inductive == Spec => []IInv
  BY InitInv, StepInv, PTL DEF Spec

\* No order of pins and archivings, retries included, leaves a note both.
THEOREM NeverPinnedAndArchived == Spec => []PinnedArchivedExclusive
<1>1. IInv => PinnedArchivedExclusive
  <2>1. ASSUME NEW d, Ordered(d), d \in Database PROVE Exclusive(d)
    <3> SUFFICES ASSUME NEW n \in NoteId, d.notes[n] # NoRow,
                        d.notes[n].val["pinned"], d.notes[n].val["archived"]
                 PROVE  FALSE
      BY DEF Exclusive
    <3>1. ToggleOrdered(d.notes[n])
      BY <2>1 DEF Ordered
    <3>2. d.notes[n].clk["pinned"] \in Nat /\ d.notes[n].clk["archived"] \in Nat
      BY <2>1 DEF Database, NoteRow, NoteField
    <3> QED BY <3>1, <3>2 DEF ToggleOrdered
  <2> QED BY <2>1 DEF IInv, Good, TypeOK, PinnedArchivedExclusive
<1> QED BY <1>1, Inductive, PTL

\* Whatever is in the trash or deleted, nobody has edited since.
THEOREM EditsRevive == Spec => []NewerEditRevives
<1>1. IInv => NewerEditRevives
  <2>1. ASSUME NEW d, Ordered(d), d \in Database PROVE Revived(d)
    BY <2>1 DEF Revived, Ordered, EditOrdered, CheckOrdered
  <2> QED BY <2>1 DEF IInv, Good, TypeOK, NewerEditRevives
<1> QED BY <1>1, Inductive, PTL

\* Every row's note and label exist.
THEOREM ReferencesHold == Spec => []NoOrphans
<1>1. IInv => NoOrphans
  BY DEF IInv, Good, Tied, NoOrphans
<1> QED BY <1>1, Inductive, PTL

\* Every audio note has its recording.
THEOREM RecordingsKept == Spec => []AudioHasRecording
<1>1. IInv => AudioHasRecording
  BY DEF IInv, Good, Tied, AudioHasRecording
<1> QED BY <1>1, Inductive, PTL

\* The incremental search index equals one rebuilt from the tables.
THEOREM IndexCorrect == Spec => []IndexInSync
<1>1. IInv => IndexInSync
  BY DEF IInv, Good, IndexInSync
<1> QED BY <1>1, Inductive, PTL

\* The store holds the highest-stamped write of every field, however the
\* batches arrived.
THEOREM Convergence == Spec => []LastWriteWins
<1>1. IInv => LastWriteWins
  BY DEF IInv, Good, LastWriteWins
<1> QED BY <1>1, Inductive, PTL

\* What a commit changes is above every cursor handed out before it.
THEOREM PullsSeeEveryChange == Spec => ChangesVisible
<1>1. IInv /\ [Next]_vars =>
        [/\ \A n \in NoteId : FreshSeq(db.notes[n], db.notes[n]', db.seq)
         /\ \A i \in ItemId : FreshSeq(db.items[i], db.items[i]', db.seq)
         /\ \A p \in NoteId \X LabelId : FreshSeq(db.links[p], db.links[p]', db.seq)]_vars
  <2> SUFFICES ASSUME IInv, [Next]_vars PROVE Ahead(db, db')
    BY DEF Ahead
  <2>1. Ahead(db, db)
    BY OthersAhead DEF IInv, TypeOK
  <2>2. CASE tx = NoTx
    BY <2>2, WriterStep
  <2>3. CASE tx # NoTx
    BY <2>1, <2>3, TxStep DEF IInv
  <2> QED BY <2>2, <2>3
<1> QED BY <1>1, Inductive, PTL DEF ChangesVisible, Spec
==============================================================================
