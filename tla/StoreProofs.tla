------------------------------ MODULE StoreProofs ------------------------------
(***************************************************************************)
(* Facts about the operators of Store and Mutations that the proofs about  *)
(* the server and about the whole system cite.                             *)
(***************************************************************************)
EXTENDS Mutations, FiniteSetTheorems, TLAPS

------------------------------------------------------------------------------
(* The shape of a bundle. *)

NoteSetOK(s) ==
  /\ DOMAIN s \subseteq NoteField
  /\ "kind" \in DOMAIN s => s["kind"] \in {"text", "checklist", "audio"}
  /\ \A f \in DOMAIN s \cap {"title", "body", "color", "position", "archivePosition"} :
       s[f] \in Text
  /\ \A f \in DOMAIN s \cap {"pinned", "archived"} : s[f] \in BOOLEAN
  /\ "trashedAt" \in DOMAIN s => s["trashedAt"] \in Nat \cup {Nil}
  /\ DOMAIN s # {}
  /\ "pinned" \in DOMAIN s /\ s["pinned"] => "archived" \in DOMAIN s /\ ~s["archived"]
  /\ "archived" \in DOMAIN s /\ s["archived"] => "pinned" \in DOMAIN s /\ ~s["pinned"]
  /\ "color" \in DOMAIN s => "trashedAt" \in DOMAIN s /\ s["trashedAt"] = Nil

ItemSetOK(s) ==
  /\ DOMAIN s \subseteq ItemField
  /\ \A f \in DOMAIN s \cap {"text", "position"} : s[f] \in Text
  /\ \A f \in DOMAIN s \cap {"checked", "deleted"} : s[f] \in BOOLEAN
  /\ DOMAIN s # {}
  /\ "checked" \in DOMAIN s => "deleted" \in DOMAIN s /\ ~s["deleted"]

IsNoteBundle(m) == /\ m.entity = "note" /\ m.id \in NoteId /\ NoteSetOK(m.set)
                   /\ m.hlc \in Nat \ {0}
IsItemBundle(m) == /\ m.entity = "item" /\ m.id \in ItemId /\ m.note \in NoteId
                   /\ ItemSetOK(m.set) /\ m.hlc \in Nat \ {0}
IsLinkBundle(m) == /\ m.entity = "note_label" /\ m.note \in NoteId /\ m.label \in LabelId
                   /\ DOMAIN m.set = LinkField /\ m.set["attached"] \in BOOLEAN
                   /\ m.hlc \in Nat \ {0}

\* The bundles clients build are well formed.
LEMMA NoteBundleShape ==
  ASSUME NEW S \in SUBSET (Nat \ {0}), NEW T \in SUBSET Nat, NEW m \in NoteBundles(S, T)
  PROVE  IsNoteBundle(m) /\ m.hlc \in S /\ ("kind" \in DOMAIN m.set => m.set["kind"] # "audio")
<1>1. PICK n \in NoteId, h \in S :
        \/ \E k \in {"text", "checklist"} : m = MutateNote(n, "kind", k, h)
        \/ \E f \in {"title", "body", "position", "archivePosition"}, v \in Text :
             m = MutateNote(n, f, v, h)
        \/ \E f \in {"title", "body", "color"}, v \in Text : m = SetNoteField(n, f, v, h)
        \/ m \in {Pin(n, h), Unpin(n, h), Unarchive(n, h), RestoreNote(n, h)}
        \/ \E p \in Text : m = Archive(n, p, h)
        \/ \E t \in T : m = TrashNote(n, t, h)
  BY DEF NoteBundles
<1> DEFINE Good(s) == /\ m = NoteWrite(n, s, h) /\ NoteSetOK(s)
                      /\ "kind" \in DOMAIN s => s["kind"] # "audio"
<1>2. ASSUME NEW k \in {"text", "checklist"}, m = MutateNote(n, "kind", k, h)
      PROVE  Good(One("kind", k))
  BY <1>2 DEF MutateNote, NoteSetOK, NoteField, One
<1>3. ASSUME NEW f \in {"title", "body", "position", "archivePosition"}, NEW v \in Text,
             m = MutateNote(n, f, v, h)
      PROVE  Good(One(f, v))
  BY <1>3 DEF MutateNote, NoteSetOK, NoteField, One
<1>4. ASSUME NEW f \in {"title", "body", "color"}, NEW v \in Text,
             m = SetNoteField(n, f, v, h)
      PROVE  Good([g \in {f, "trashedAt"} |-> IF g = f THEN v ELSE Nil])
  BY <1>4 DEF SetNoteField, NoteSetOK, NoteField
<1>5. ASSUME m = Pin(n, h)
      PROVE  Good([f \in {"pinned", "archived"} |-> f = "pinned"])
  BY <1>5 DEF Pin, NoteSetOK, NoteField
<1>6. ASSUME NEW f \in {"pinned", "archived"}, m = MutateNote(n, f, FALSE, h)
      PROVE  Good(One(f, FALSE))
  BY <1>6 DEF MutateNote, NoteSetOK, NoteField, One
<1>7. ASSUME NEW t \in Nat \cup {Nil}, m = MutateNote(n, "trashedAt", t, h)
      PROVE  Good(One("trashedAt", t))
  BY <1>7 DEF MutateNote, NoteSetOK, NoteField, One
<1>8. ASSUME NEW p \in Text, m = Archive(n, p, h)
      PROVE  Good([f \in {"archived", "pinned", "archivePosition"} |->
                     IF f = "archivePosition" THEN p ELSE f = "archived"])
  BY <1>8 DEF Archive, NoteSetOK, NoteField
<1>9. (\E s : Good(s)) =>
        IsNoteBundle(m) /\ m.hlc \in S /\ ("kind" \in DOMAIN m.set => m.set["kind"] # "audio")
  BY DEF NoteWrite, IsNoteBundle
<1> HIDE DEF Good
<1> QED BY <1>1, <1>2, <1>3, <1>4, <1>5, <1>6, <1>7, <1>8, <1>9
        DEF Unpin, Unarchive, RestoreNote, TrashNote

LEMMA ItemBundleShape ==
  ASSUME NEW S \in SUBSET (Nat \ {0}), NEW NoteOf \in [ItemId -> NoteId],
         NEW m \in ItemBundles(S, NoteOf)
  PROVE  IsItemBundle(m) /\ m.hlc \in S /\ m.note = NoteOf[m.id]
<1>1. PICK i \in ItemId, h \in S :
  \/ \E f \in {"text", "position"}, v \in Text : m = MutateItem(i, NoteOf[i], f, v, h)
  \/ \E v \in Text : m = SetItemField(i, NoteOf[i], "text", v, h)
  \/ \E b \in BOOLEAN : m = SetItemField(i, NoteOf[i], "checked", b, h)
  \/ m = RemoveItem(i, NoteOf[i], h)
  BY DEF ItemBundles
<1> DEFINE Good(s) == m = ItemWrite(i, NoteOf[i], s, h) /\ ItemSetOK(s)
<1>2. ASSUME NEW f \in {"text", "position"}, NEW v \in Text,
             m = MutateItem(i, NoteOf[i], f, v, h)
      PROVE  Good(One(f, v))
  BY <1>2 DEF MutateItem, ItemSetOK, ItemField, One
<1>3. ASSUME NEW v \in Text, m = SetItemField(i, NoteOf[i], "text", v, h)
      PROVE  Good([g \in {"text", "deleted"} |-> IF g = "text" THEN v ELSE FALSE])
  BY <1>3 DEF SetItemField, ItemSetOK, ItemField
<1>4. ASSUME NEW b \in BOOLEAN, m = SetItemField(i, NoteOf[i], "checked", b, h)
      PROVE  Good([g \in {"checked", "deleted"} |-> IF g = "checked" THEN b ELSE FALSE])
  BY <1>4 DEF SetItemField, ItemSetOK, ItemField
<1>5. ASSUME m = RemoveItem(i, NoteOf[i], h)
      PROVE  Good(One("deleted", TRUE))
  BY <1>5 DEF RemoveItem, MutateItem, ItemSetOK, ItemField, One
<1>6. (\E s : Good(s)) => IsItemBundle(m) /\ m.hlc \in S /\ m.note = NoteOf[m.id]
  BY DEF ItemWrite, IsItemBundle
<1> HIDE DEF Good
<1> QED BY <1>1, <1>2, <1>3, <1>4, <1>5, <1>6

LEMMA LinkBundleShape ==
  ASSUME NEW S \in SUBSET (Nat \ {0}), NEW m \in LinkBundles(S)
  PROVE  IsLinkBundle(m) /\ m.hlc \in S
BY DEF LinkBundles, LinkWrite, LinkField, IsLinkBundle

------------------------------------------------------------------------------
(* Rows. *)

\* A row has finitely many fields, so a merge draws finitely many seqs.
LEMMA FiniteAdd ==
  ASSUME NEW S, IsFiniteSet(S), NEW a, NEW b, NEW c
  PROVE  IsFiniteSet(S \cup {a, b, c})
<1>1. IsFiniteSet(((S \cup {a}) \cup {b}) \cup {c})
  BY FS_AddElement
<1>2. ((S \cup {a}) \cup {b}) \cup {c} = S \cup {a, b, c}
  OBVIOUS
<1> QED BY <1>1, <1>2

LEMMA FieldsFinite ==
  IsFiniteSet(NoteField) /\ IsFiniteSet(ItemField) /\ IsFiniteSet(LinkField)
<1>1. IsFiniteSet((({} \cup {"kind", "title", "body"}) \cup {"color", "pinned", "archived"})
                  \cup {"trashedAt", "position", "archivePosition"})
  BY FS_EmptySet, FiniteAdd
<1>2. IsFiniteSet({"text"} \cup {"checked", "deleted", "position"})
  BY FS_Singleton, FiniteAdd
<1>3. NoteField = (({} \cup {"kind", "title", "body"}) \cup {"color", "pinned", "archived"})
                  \cup {"trashedAt", "position", "archivePosition"}
  BY DEF NoteField
<1>4. ItemField = {"text"} \cup {"checked", "deleted", "position"}
  BY DEF ItemField
<1> QED BY <1>1, <1>2, <1>3, <1>4, FS_Singleton DEF LinkField

\* Merge keeps a row a row, writes exactly the accepted fields, and moves the
\* row's seq only when it writes.
Merged(r, m, s) ==
  LET q == Merge(r, m, s)
      acc == Accepted(r, m)
  IN /\ \A f \in DOMAIN r.val : q.val[f] = IF f \in acc THEN m.set[f] ELSE r.val[f]
     /\ \A f \in DOMAIN r.clk : q.clk[f] = IF f \in acc THEN m.hlc ELSE r.clk[f]
     /\ q.seq = IF acc = {} THEN r.seq ELSE s + Cardinality(acc)
     /\ Cardinality(acc) \in Nat
     /\ acc # {} => Cardinality(acc) > 0
     /\ acc = {} => q = r

LEMMA CountAccepted ==
  ASSUME NEW S, IsFiniteSet(S), NEW T \in SUBSET S
  PROVE  Cardinality(T) \in Nat /\ (T # {} => Cardinality(T) > 0)
<1>1. IsFiniteSet(T)
  BY FS_Subset
<1> QED BY <1>1, FS_CardinalityType, FS_EmptySet

LEMMA MergeNote ==
  ASSUME NEW r \in NoteRow, NEW m, IsNoteBundle(m), NEW s \in Nat
  PROVE  /\ Merge(r, m, s) \in NoteRow
         /\ Merge(r, m, s).audio = r.audio
         /\ Merged(r, m, s)
<1> DEFINE acc == Accepted(r, m)
           q == Merge(r, m, s)
           v == [f \in DOMAIN r.val |-> IF f \in acc THEN m.set[f] ELSE r.val[f]]
           c == [f \in DOMAIN r.clk |-> IF f \in acc THEN m.hlc ELSE r.clk[f]]
           z == IF acc = {} THEN r.seq ELSE s + Cardinality(acc)
<1>1. acc \subseteq NoteField
  BY DEF IsNoteBundle, NoteSetOK, Accepted
<1>2. Cardinality(acc) \in Nat /\ (acc # {} => Cardinality(acc) > 0)
  BY <1>1, FieldsFinite, CountAccepted
<1>3. DOMAIN r.val = NoteField /\ DOMAIN r.clk = NoteField
  BY DEF NoteRow, NoteVal, NoteField
<1>4. v \in NoteVal
  <2>1. \A f \in acc : f \in DOMAIN m.set
    BY DEF Accepted
  <2>2. r.val \in NoteVal
    BY DEF NoteRow
  <2>3. v["kind"] \in {"text", "checklist", "audio"}
    BY <1>3, <2>1, <2>2 DEF NoteVal, NoteField, IsNoteBundle, NoteSetOK
  <2>4. v["pinned"] \in BOOLEAN /\ v["archived"] \in BOOLEAN
    BY <1>3, <2>1, <2>2 DEF NoteVal, NoteField, IsNoteBundle, NoteSetOK
  <2>5. v["trashedAt"] \in Nat \cup {Nil}
    BY <1>3, <2>1, <2>2 DEF NoteVal, NoteField, IsNoteBundle, NoteSetOK
  <2>6. v["title"] \in Text /\ v["body"] \in Text /\ v["color"] \in Text
        /\ v["position"] \in Text /\ v["archivePosition"] \in Text
    BY <1>3, <2>1, <2>2 DEF NoteVal, NoteField, IsNoteBundle, NoteSetOK
  <2>7. v = [f \in NoteField |-> v[f]]
    BY <1>3
  <2> HIDE DEF v, acc
  <2> QED BY <2>3, <2>4, <2>5, <2>6, <2>7 DEF NoteVal, NoteField
<1>5. c \in [NoteField -> Nat]
  BY <1>3 DEF NoteRow, IsNoteBundle
<1>6. q = [val |-> v, clk |-> c, seq |-> z, audio |-> r.audio]
  <2>1. q = [r EXCEPT !.val = v, !.clk = c, !.seq = z]
    BY DEF Merge
  <2> HIDE DEF v, c, z, q
  <2> QED BY <2>1 DEF NoteRow
<1>7. q \in NoteRow
  BY <1>2, <1>4, <1>5, <1>6 DEF NoteRow
<1>8. acc = {} => q = r
  <2>1. acc = {} => v = r.val /\ c = r.clk /\ z = r.seq
    BY <1>3 DEF NoteRow, NoteVal
  <2>2. r = [val |-> r.val, clk |-> r.clk, seq |-> r.seq, audio |-> r.audio]
    BY DEF NoteRow
  <2> HIDE DEF v, c, z, q, acc
  <2> QED BY <2>1, <2>2, <1>6
<1> QED BY <1>2, <1>3, <1>6, <1>7, <1>8 DEF Merged

LEMMA MergeItem ==
  ASSUME NEW r \in ItemRow, NEW m, IsItemBundle(m), NEW s \in Nat
  PROVE  /\ Merge(r, m, s) \in ItemRow
         /\ Merge(r, m, s).note = r.note
         /\ Merged(r, m, s)
<1> DEFINE acc == Accepted(r, m)
           q == Merge(r, m, s)
           v == [f \in DOMAIN r.val |-> IF f \in acc THEN m.set[f] ELSE r.val[f]]
           c == [f \in DOMAIN r.clk |-> IF f \in acc THEN m.hlc ELSE r.clk[f]]
           z == IF acc = {} THEN r.seq ELSE s + Cardinality(acc)
<1>1. acc \subseteq ItemField
  BY DEF IsItemBundle, ItemSetOK, Accepted
<1>2. Cardinality(acc) \in Nat /\ (acc # {} => Cardinality(acc) > 0)
  BY <1>1, FieldsFinite, CountAccepted
<1>3. DOMAIN r.val = ItemField /\ DOMAIN r.clk = ItemField
  BY DEF ItemRow, ItemVal, ItemField
<1>4. v \in ItemVal
  <2>1. \A f \in acc : f \in DOMAIN m.set
    BY DEF Accepted
  <2>2. r.val \in ItemVal
    BY DEF ItemRow
  <2>3. v["checked"] \in BOOLEAN /\ v["deleted"] \in BOOLEAN
    BY <1>3, <2>1, <2>2 DEF ItemVal, ItemField, IsItemBundle, ItemSetOK
  <2>4. v["text"] \in Text /\ v["position"] \in Text
    BY <1>3, <2>1, <2>2 DEF ItemVal, ItemField, IsItemBundle, ItemSetOK
  <2>5. v = [f \in ItemField |-> v[f]]
    BY <1>3
  <2> HIDE DEF v, acc
  <2> QED BY <2>3, <2>4, <2>5 DEF ItemVal, ItemField
<1>5. c \in [ItemField -> Nat]
  BY <1>3 DEF ItemRow, IsItemBundle
<1>6. q = [val |-> v, clk |-> c, seq |-> z, note |-> r.note]
  <2>1. q = [r EXCEPT !.val = v, !.clk = c, !.seq = z]
    BY DEF Merge
  <2> HIDE DEF v, c, z, q
  <2> QED BY <2>1 DEF ItemRow
<1>7. q \in ItemRow
  BY <1>2, <1>4, <1>5, <1>6 DEF ItemRow
<1>8. acc = {} => q = r
  <2>1. acc = {} => v = r.val /\ c = r.clk /\ z = r.seq
    BY <1>3 DEF ItemRow, ItemVal
  <2>2. r = [val |-> r.val, clk |-> r.clk, seq |-> r.seq, note |-> r.note]
    BY DEF ItemRow
  <2> HIDE DEF v, c, z, q, acc
  <2> QED BY <2>1, <2>2, <1>6
<1> QED BY <1>2, <1>3, <1>6, <1>7, <1>8 DEF Merged

LEMMA MergeLink ==
  ASSUME NEW r \in LinkRow, NEW m, IsLinkBundle(m), NEW s \in Nat
  PROVE  Merge(r, m, s) \in LinkRow /\ Merged(r, m, s)
<1> DEFINE acc == Accepted(r, m)
           q == Merge(r, m, s)
           v == [f \in DOMAIN r.val |-> IF f \in acc THEN m.set[f] ELSE r.val[f]]
           c == [f \in DOMAIN r.clk |-> IF f \in acc THEN m.hlc ELSE r.clk[f]]
           z == IF acc = {} THEN r.seq ELSE s + Cardinality(acc)
<1>1. acc \subseteq LinkField
  BY DEF IsLinkBundle, Accepted
<1>2. Cardinality(acc) \in Nat /\ (acc # {} => Cardinality(acc) > 0)
  BY <1>1, FieldsFinite, CountAccepted
<1>3. DOMAIN r.val = LinkField /\ DOMAIN r.clk = LinkField
  BY DEF LinkRow, LinkVal, LinkField
<1>4. v \in LinkVal
  <2>1. v["attached"] \in BOOLEAN
    BY <1>3 DEF LinkRow, LinkVal, LinkField, IsLinkBundle
  <2>2. v = [f \in LinkField |-> v[f]]
    BY <1>3
  <2> HIDE DEF v, acc
  <2> QED BY <2>1, <2>2 DEF LinkVal, LinkField
<1>5. c \in [LinkField -> Nat]
  BY <1>3 DEF LinkRow, IsLinkBundle
<1>6. q = [val |-> v, clk |-> c, seq |-> z]
  <2>1. q = [r EXCEPT !.val = v, !.clk = c, !.seq = z]
    BY DEF Merge
  <2> HIDE DEF v, c, z, q
  <2> QED BY <2>1 DEF LinkRow
<1>7. q \in LinkRow
  BY <1>2, <1>4, <1>5, <1>6 DEF LinkRow
<1>8. acc = {} => q = r
  <2>1. acc = {} => v = r.val /\ c = r.clk /\ z = r.seq
    BY <1>3 DEF LinkRow, LinkVal
  <2>2. r = [val |-> r.val, clk |-> r.clk, seq |-> r.seq]
    BY DEF LinkRow
  <2> HIDE DEF v, c, z, q, acc
  <2> QED BY <2>1, <2>2, <1>6
<1> QED BY <1>2, <1>3, <1>6, <1>7, <1>8 DEF Merged

\* The rows an INSERT starts from.
LEMMA FreshType ==
  /\ FreshNote \in NoteRow /\ FreshLink \in LinkRow
  /\ \A n \in NoteId : FreshItem(n) \in ItemRow
<1> USE StoreAssumption
<1>1. FreshNote.val \in NoteVal
  BY DEF FreshNote, NoteVal, NoteField, NoteDefault
<1>2. \A n \in NoteId : FreshItem(n).val \in ItemVal
  BY DEF FreshItem, ItemVal, ItemField, ItemDefault
<1>3. FreshLink.val \in LinkVal
  BY DEF FreshLink, LinkVal, LinkField
<1> QED BY <1>1, <1>2, <1>3 DEF FreshNote, FreshItem, FreshLink, NoteRow, ItemRow, LinkRow

------------------------------------------------------------------------------
(* Databases. *)

LEMMA IndexEntryType ==
  ASSUME NEW d \in Database, NEW n \in NoteId
  PROVE  IndexEntry(d, n) \in FtsRow \cup {NoRow}
<1>1. CASE d.notes[n] = NoRow
  BY <1>1 DEF IndexEntry
<1>2. CASE d.notes[n] # NoRow
  <2>1. d.notes[n].val \in NoteVal
    BY <1>2 DEF Database, NoteRow
  <2>2. LiveTexts(d, n) \subseteq Text
    BY DEF LiveTexts, ItemsOf, Database, ItemRow, ItemVal
  <2>3. d.notes[n].val["title"] \in Text /\ d.notes[n].val["body"] \in Text
    BY <2>1 DEF NoteVal
  <2> QED BY <1>2, <2>2, <2>3 DEF IndexEntry, FtsRow
<1> QED BY <1>1, <1>2

\* Reindex changes one entry of the index and nothing else; what it would
\* compute for a note is not affected by the index itself.
LEMMA ReindexEffect ==
  ASSUME NEW d \in Database, NEW n \in NoteId
  PROVE  /\ Reindex(d, n) \in Database
         /\ Reindex(d, n) = [notes |-> d.notes, items |-> d.items, links |-> d.links,
                             labels |-> d.labels, seq |-> d.seq,
                             fts |-> [d.fts EXCEPT ![n] = IndexEntry(d, n)]]
<1>1. Reindex(d, n) = [notes |-> d.notes, items |-> d.items, links |-> d.links,
                       labels |-> d.labels, seq |-> d.seq,
                       fts |-> [d.fts EXCEPT ![n] = IndexEntry(d, n)]]
  BY DEF Reindex, Database
<1>2. [d.fts EXCEPT ![n] = IndexEntry(d, n)] \in [NoteId -> FtsRow \cup {NoRow}]
  BY IndexEntryType DEF Database
<1>3. Reindex(d, n) \in Database
  BY <1>1, <1>2 DEF Database
<1> QED BY <1>1, <1>3

\* What one bundle does to the database, whichever row it addresses.
NoteAt(d, m) == OrFresh(d.notes[m.id], FreshNote)
ItemAt(d, m) == OrFresh(d.items[m.id], FreshItem(m.note))
LinkAt(d, m) == OrFresh(d.links[<<m.note, m.label>>], FreshLink)

\* a is d after a note bundle that found row r and left row q.
NoteEffect(d, m, a, r, q) ==
  /\ a \in Database
  /\ r \in NoteRow /\ q \in NoteRow
  /\ a.notes = [d.notes EXCEPT ![m.id] = q]
  /\ a.seq = d.seq + Cardinality(Accepted(r, m))
  /\ a.items = d.items /\ a.links = d.links /\ a.labels = d.labels
  /\ IF d.notes[m.id] = NoRow \/ Accepted(r, m) \cap NoteContent # {}
     THEN a.fts = [d.fts EXCEPT ![m.id] = IndexEntry(a, m.id)]
     ELSE a.fts = d.fts

LEMMA ApplyNoteEffect ==
  ASSUME NEW d \in Database, NEW m, IsNoteBundle(m)
  PROVE  NoteEffect(d, m, Apply(d, m), NoteAt(d, m), Merge(NoteAt(d, m), m, d.seq))
<1> DEFINE a == Apply(d, m)
           r == NoteAt(d, m)
           q == Merge(r, m, d.seq)
           s == d.seq + Cardinality(Accepted(r, m))
           X == [d.notes EXCEPT ![m.id] = q]
           d1 == [d EXCEPT !.notes = X, !.seq = s]
           reindexed == d.notes[m.id] = NoRow \/ Accepted(r, m) \cap NoteContent # {}
<1>1. m.id \in NoteId /\ d.seq \in Nat /\ m.entity = "note"
  BY DEF IsNoteBundle, Database
<1>2. r \in NoteRow
  BY <1>1, FreshType DEF NoteAt, OrFresh, Database
<1>3. q \in NoteRow /\ s \in Nat
  <2> HIDE DEF r
  <2>1. q \in NoteRow /\ Merged(r, m, d.seq)
    BY <1>1, <1>2, MergeNote
  <2>2. Cardinality(Accepted(r, m)) \in Nat
    BY <2>1 DEF Merged
  <2> QED BY <1>1, <2>1, <2>2
<1>4. X \in [NoteId -> NoteRow \cup {NoRow}]
  BY <1>1, <1>3 DEF Database
<1>5. /\ d1 \in Database
      /\ d1.notes = X /\ d1.seq = s
      /\ d1.items = d.items /\ d1.links = d.links /\ d1.labels = d.labels /\ d1.fts = d.fts
  <2> HIDE DEF X, s, q, r
  <2> QED BY <1>3, <1>4 DEF Database
<1>6. a = IF reindexed THEN Reindex(d1, m.id) ELSE d1
  BY <1>1 DEF Apply, ApplyNote, NoteAt
<1> SUFFICES NoteEffect(d, m, a, r, q)
  OBVIOUS
<1> HIDE DEF d1, a
<1>7. CASE ~reindexed
  BY <1>2, <1>3, <1>5, <1>6, <1>7 DEF NoteEffect
<1>8. CASE reindexed
  <2>1. a = Reindex(d1, m.id)
    BY <1>6, <1>8
  <2>2. /\ a \in Database
        /\ a.notes = d1.notes /\ a.items = d1.items /\ a.links = d1.links
        /\ a.labels = d1.labels /\ a.seq = d1.seq
        /\ a.fts = [d1.fts EXCEPT ![m.id] = IndexEntry(d1, m.id)]
    <3>1. /\ a \in Database
          /\ a = [notes |-> d1.notes, items |-> d1.items, links |-> d1.links,
                  labels |-> d1.labels, seq |-> d1.seq,
                  fts |-> [d1.fts EXCEPT ![m.id] = IndexEntry(d1, m.id)]]
      BY <2>1, <1>1, <1>5, ReindexEffect
    <3> QED BY <3>1
  <2>3. IndexEntry(a, m.id) = IndexEntry(d1, m.id)
    BY <2>2 DEF IndexEntry, LiveTexts, ItemsOf
  <2> QED BY <1>2, <1>3, <1>5, <1>8, <2>2, <2>3 DEF NoteEffect
<1> QED BY <1>7, <1>8

ItemEffect(d, m, a, r, q) ==
  /\ a \in Database
  /\ r \in ItemRow /\ q \in ItemRow
  /\ a.items = [d.items EXCEPT ![m.id] = q]
  /\ a.seq = d.seq + Cardinality(Accepted(r, m))
  /\ a.notes = d.notes /\ a.links = d.links /\ a.labels = d.labels
  /\ IF d.items[m.id] = NoRow \/ Accepted(r, m) \cap ItemContent # {}
     THEN a.fts = [d.fts EXCEPT ![m.note] = IndexEntry(a, m.note)]
     ELSE a.fts = d.fts

LEMMA ApplyItemEffect ==
  ASSUME NEW d \in Database, NEW m, IsItemBundle(m)
  PROVE  ItemEffect(d, m, Apply(d, m), ItemAt(d, m), Merge(ItemAt(d, m), m, d.seq))
<1> DEFINE a == Apply(d, m)
           r == ItemAt(d, m)
           q == Merge(r, m, d.seq)
           s == d.seq + Cardinality(Accepted(r, m))
           X == [d.items EXCEPT ![m.id] = q]
           d1 == [d EXCEPT !.items = X, !.seq = s]
           reindexed == d.items[m.id] = NoRow \/ Accepted(r, m) \cap ItemContent # {}
<1>1. m.id \in ItemId /\ m.note \in NoteId /\ d.seq \in Nat /\ m.entity = "item"
  BY DEF IsItemBundle, Database
<1>2. r \in ItemRow
  BY <1>1, FreshType DEF ItemAt, OrFresh, Database
<1>3. q \in ItemRow /\ s \in Nat
  <2> HIDE DEF r
  <2>1. q \in ItemRow /\ Merged(r, m, d.seq)
    BY <1>1, <1>2, MergeItem
  <2>2. Cardinality(Accepted(r, m)) \in Nat
    BY <2>1 DEF Merged
  <2> QED BY <1>1, <2>1, <2>2
<1>4. X \in [ItemId -> ItemRow \cup {NoRow}]
  BY <1>1, <1>3 DEF Database
<1>5. /\ d1 \in Database
      /\ d1.items = X /\ d1.seq = s
      /\ d1.notes = d.notes /\ d1.links = d.links /\ d1.labels = d.labels /\ d1.fts = d.fts
  <2> HIDE DEF X, s, q, r
  <2> QED BY <1>3, <1>4 DEF Database
<1>6. a = IF reindexed THEN Reindex(d1, m.note) ELSE d1
  BY <1>1 DEF Apply, ApplyItem, ItemAt
<1> SUFFICES ItemEffect(d, m, a, r, q)
  OBVIOUS
<1> HIDE DEF d1, a
<1>7. CASE ~reindexed
  BY <1>2, <1>3, <1>5, <1>6, <1>7 DEF ItemEffect
<1>8. CASE reindexed
  <2>1. a = Reindex(d1, m.note)
    BY <1>6, <1>8
  <2>2. /\ a \in Database
        /\ a.notes = d1.notes /\ a.items = d1.items /\ a.links = d1.links
        /\ a.labels = d1.labels /\ a.seq = d1.seq
        /\ a.fts = [d1.fts EXCEPT ![m.note] = IndexEntry(d1, m.note)]
    <3>1. /\ a \in Database
          /\ a = [notes |-> d1.notes, items |-> d1.items, links |-> d1.links,
                  labels |-> d1.labels, seq |-> d1.seq,
                  fts |-> [d1.fts EXCEPT ![m.note] = IndexEntry(d1, m.note)]]
      BY <2>1, <1>1, <1>5, ReindexEffect
    <3> QED BY <3>1
  <2>3. IndexEntry(a, m.note) = IndexEntry(d1, m.note)
    BY <2>2 DEF IndexEntry, LiveTexts, ItemsOf
  <2> QED BY <1>2, <1>3, <1>5, <1>8, <2>2, <2>3 DEF ItemEffect
<1> QED BY <1>7, <1>8

LinkEffect(d, m, a, r, q) ==
  /\ a \in Database
  /\ r \in LinkRow /\ q \in LinkRow
  /\ a.links = [d.links EXCEPT ![<<m.note, m.label>>] = q]
  /\ a.seq = d.seq + Cardinality(Accepted(r, m))
  /\ a.notes = d.notes /\ a.items = d.items /\ a.labels = d.labels /\ a.fts = d.fts

LEMMA ApplyLinkEffect ==
  ASSUME NEW d \in Database, NEW m, IsLinkBundle(m)
  PROVE  LinkEffect(d, m, Apply(d, m), LinkAt(d, m), Merge(LinkAt(d, m), m, d.seq))
<1> DEFINE a == Apply(d, m)
           r == LinkAt(d, m)
           q == Merge(r, m, d.seq)
           s == d.seq + Cardinality(Accepted(r, m))
           X == [d.links EXCEPT ![<<m.note, m.label>>] = q]
<1>1. /\ <<m.note, m.label>> \in NoteId \X LabelId
      /\ d.seq \in Nat /\ m.entity = "note_label"
  BY DEF IsLinkBundle, Database
<1>2. r \in LinkRow
  BY <1>1, FreshType DEF LinkAt, OrFresh, Database
<1>3. q \in LinkRow /\ s \in Nat
  <2> HIDE DEF r
  <2>1. q \in LinkRow /\ Merged(r, m, d.seq)
    BY <1>1, <1>2, MergeLink
  <2> QED BY <2>1, <1>1 DEF Merged
<1>4. X \in [NoteId \X LabelId -> LinkRow \cup {NoRow}]
  BY <1>1, <1>3 DEF Database
<1>5. a = [d EXCEPT !.links = X, !.seq = s]
  BY <1>1 DEF Apply, ApplyLink, LinkAt
<1>6. /\ a \in Database
      /\ a.links = X /\ a.seq = s
      /\ a.notes = d.notes /\ a.items = d.items /\ a.labels = d.labels /\ a.fts = d.fts
  <2> HIDE DEF X, s, q, r, a
  <2> QED BY <1>3, <1>4, <1>5 DEF Database
<1> HIDE DEF a
<1>7. LinkEffect(d, m, a, r, q)
  BY <1>2, <1>3, <1>6 DEF LinkEffect
<1> QED BY <1>7 DEF a

LEMMA ApplyType ==
  ASSUME NEW d \in Database, NEW m,
         IsNoteBundle(m) \/ IsItemBundle(m) \/ IsLinkBundle(m)
  PROVE  Apply(d, m) \in Database
<1>1. CASE IsNoteBundle(m)
  BY <1>1, ApplyNoteEffect DEF NoteEffect
<1>2. CASE IsItemBundle(m)
  BY <1>2, ApplyItemEffect DEF ItemEffect
<1>3. CASE IsLinkBundle(m)
  BY <1>3, ApplyLinkEffect DEF LinkEffect
<1> QED BY <1>1, <1>2, <1>3

LEMMA PurgeType ==
  ASSUME NEW d \in Database, NEW S
  PROVE  Purge(d, S) \in Database
  BY DEF Purge, Database

\* An upload inserts one fully-formed row, indexes it, and touches no other.
AudioRow(r, title, position, s) ==
  /\ r \in NoteRow
  /\ r.val["kind"] = "audio" /\ r.val["title"] = title /\ r.val["position"] = position
  /\ r.val["pinned"] = FALSE /\ r.val["archived"] = FALSE /\ r.val["trashedAt"] = Nil
  /\ r.clk = [f \in NoteField |-> 0]
  /\ r.seq = s /\ r.audio = TRUE

AudioEffect(d, n, t, p, a) ==
  /\ a \in Database
  /\ \E r : AudioRow(r, t, p, d.seq + 1) /\ a.notes = [d.notes EXCEPT ![n] = r]
  /\ a.items = d.items /\ a.links = d.links /\ a.labels = d.labels
  /\ a.seq = d.seq + 1
  /\ a.fts = [d.fts EXCEPT ![n] = IndexEntry(a, n)]

LEMMA InsertAudioEffect ==
  ASSUME NEW d \in Database, NEW n \in NoteId, NEW t \in Text, NEW p \in Text
  PROVE  AudioEffect(d, n, t, p, InsertAudio(d, n, t, p))
<1> DEFINE v == [f \in NoteField |-> CASE f = "kind"     -> "audio"
                                       [] f = "title"    -> t
                                       [] f = "position" -> p
                                       [] OTHER          -> NoteDefault(f)]
           r == [val |-> v, clk |-> FreshNote.clk, seq |-> d.seq + 1, audio |-> TRUE]
           X == [d.notes EXCEPT ![n] = r]
           s == d.seq + 1
           d1 == [d EXCEPT !.notes = X, !.seq = s]
           a == InsertAudio(d, n, t, p)
<1>1. v \in NoteVal
  BY StoreAssumption DEF NoteVal, NoteField, NoteDefault
<1>2. /\ v["kind"] = "audio" /\ v["title"] = t /\ v["position"] = p
      /\ v["pinned"] = FALSE /\ v["archived"] = FALSE /\ v["trashedAt"] = Nil
  BY DEF NoteField, NoteDefault
<1>3. FreshNote.clk = [f \in NoteField |-> 0]
  BY DEF FreshNote
<1>4. AudioRow(r, t, p, s)
  <2> HIDE DEF v
  <2> QED BY <1>1, <1>2, <1>3 DEF AudioRow, NoteRow, Database
<1>5. a = Reindex(d1, n)
  BY DEF InsertAudio
<1> HIDE DEF r
<1>6. X \in [NoteId -> NoteRow \cup {NoRow}] /\ s \in Nat
  BY <1>4 DEF AudioRow, Database
<1>7. /\ d1 \in Database
      /\ d1.notes = X /\ d1.seq = s
      /\ d1.items = d.items /\ d1.links = d.links /\ d1.labels = d.labels /\ d1.fts = d.fts
  <2> HIDE DEF X, s
  <2> QED BY <1>6 DEF Database
<1> HIDE DEF d1, a
<1>8. /\ a \in Database
      /\ a.notes = d1.notes /\ a.items = d1.items /\ a.links = d1.links
      /\ a.labels = d1.labels /\ a.seq = d1.seq
      /\ a.fts = [d1.fts EXCEPT ![n] = IndexEntry(d1, n)]
  BY <1>5, <1>7, ReindexEffect
<1>9. IndexEntry(a, n) = IndexEntry(d1, n)
  BY <1>8 DEF IndexEntry, LiveTexts, ItemsOf
<1>10. AudioEffect(d, n, t, p, a)
  BY <1>4, <1>7, <1>8, <1>9 DEF AudioEffect
<1> QED BY <1>10 DEF a

LEMMA LabelTypes ==
  ASSUME NEW d \in Database, NEW l \in LabelId
  PROVE  /\ RemoveLabel(d, l) \in Database
         /\ \A name \in LabelName : [d EXCEPT !.labels[l] = name] \in Database
<1>1. RemoveLabel(d, l) \in Database
  BY DEF RemoveLabel, Database
<1>2. ASSUME NEW name \in LabelName
      PROVE  [d EXCEPT !.labels[l] = name] \in Database
  BY DEF Database
<1> QED BY <1>1, <1>2
==============================================================================
