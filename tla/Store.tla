-------------------------------- MODULE Store --------------------------------
(***************************************************************************)
(* The SQLite store as pure operators on a database value `d`:             *)
(*                                                                         *)
(*   d.notes, d.items, d.links   the tables notes, checklist_items and     *)
(*                               note_labels, NoRow where there is no row  *)
(*   d.labels                    label id -> name                          *)
(*   d.fts                       the full-text index, one entry per note   *)
(*   d.seq                       sync_counter                              *)
(*                                                                         *)
(* A row is [val, clk, seq]: its columns, its field_clocks (0 where a      *)
(* field has no entry) and its server_seq; a note also records whether it  *)
(* has an audio_blob, an item the note it belongs to.                      *)
(*                                                                         *)
(* Stamps are the ranks of HLC strings under hlc.Compare: a mutation       *)
(* carries a positive number, so "no entry" loses to every stamp.  Text,   *)
(* colours and fractional positions are opaque members of Text.            *)
(* created_at and updated_at are left out: nothing reads them back.        *)
(***************************************************************************)
EXTENDS Integers, FiniteSets

CONSTANTS NoteId, ItemId, LabelId, LabelName,
          Text,          \* every string value of a column
          Blank,         \* the empty string
          DefaultColor,  \* the column default of notes.color
          FirstKey,      \* fracindex.KeyBetween("", "")
          Nil,           \* SQL NULL in notes.trashed_at
          NoRow          \* no row with this primary key

NoteField == {"kind", "title", "body", "color", "pinned", "archived",
              "trashedAt", "position", "archivePosition"}
ItemField == {"text", "checked", "deleted", "position"}
LinkField == {"attached"}

NoteContent == {"title", "body", "kind"}   \* noteContentFields
\* Mutant of ItemContent: deleting a line does not reindex its note.
ItemContentTextOnly == {"text"}
ItemContent == {"text", "deleted"}         \* itemContentFields

NoteVal == [kind : {"text", "checklist", "audio"},
            title : Text, body : Text, color : Text,
            pinned : BOOLEAN, archived : BOOLEAN, trashedAt : Nat \cup {Nil},
            position : Text, archivePosition : Text]
ItemVal == [text : Text, checked : BOOLEAN, deleted : BOOLEAN, position : Text]
LinkVal == [attached : BOOLEAN]

NoteRow == [val : NoteVal, clk : [NoteField -> Nat], seq : Nat, audio : BOOLEAN]
ItemRow == [val : ItemVal, clk : [ItemField -> Nat], seq : Nat, note : NoteId]
LinkRow == [val : LinkVal, clk : [LinkField -> Nat], seq : Nat]
FtsRow  == [title : Text, content : SUBSET Text]

Database == [notes  : [NoteId -> NoteRow \cup {NoRow}],
             items  : [ItemId -> ItemRow \cup {NoRow}],
             links  : [NoteId \X LabelId -> LinkRow \cup {NoRow}],
             labels : [LabelId -> LabelName \cup {NoRow}],
             fts    : [NoteId -> FtsRow \cup {NoRow}],
             seq    : Nat]

ASSUME StoreAssumption ==
  /\ {Blank, DefaultColor, FirstKey} \subseteq Text
  /\ Nil \notin Nat
  /\ NoRow \notin NoteRow \cup ItemRow \cup LinkRow \cup FtsRow \cup LabelName
  /\ NoRow \notin NoteVal \cup ItemVal  \* in a tab

------------------------------------------------------------------------------
(* The merge every field mutation goes through. *)

\* The fields of mutation bundle m whose stamp beats the row's own.
Accepted(row, m) == {f \in DOMAIN m.set : m.hlc > row.clk[f]}

\* Mutants of Merge: the field's clock is not advanced; the row keeps the
\* counter's current value instead of drawing a new one.
MergeWithoutClock(row, m, s) ==
  LET acc == Accepted(row, m) IN
  [row EXCEPT !.val = [f \in DOMAIN row.val |->
                         IF f \in acc THEN m.set[f] ELSE row.val[f]],
              !.seq = IF acc = {} THEN row.seq ELSE s + Cardinality(acc)]
MergeAtCurrentSeq(row, m, s) ==
  LET acc == Accepted(row, m) IN
  [row EXCEPT !.val = [f \in DOMAIN row.val |->
                         IF f \in acc THEN m.set[f] ELSE row.val[f]],
              !.clk = [f \in DOMAIN row.clk |->
                         IF f \in acc THEN m.hlc ELSE row.clk[f]],
              !.seq = IF acc = {} THEN row.seq ELSE s]

\* Write the accepted fields; each one draws a fresh server_seq after s.
Merge(row, m, s) ==
  LET acc == Accepted(row, m) IN
  [row EXCEPT !.val = [f \in DOMAIN row.val |->
                         IF f \in acc THEN m.set[f] ELSE row.val[f]],
              !.clk = [f \in DOMAIN row.clk |->
                         IF f \in acc THEN m.hlc ELSE row.clk[f]],
              !.seq = IF acc = {} THEN row.seq ELSE s + Cardinality(acc)]

\* Mutant of NoteDefault: trashed_at starts as "" instead of NULL.
NoteDefaultNoNull(f) ==
  CASE f = "kind"                   -> "text"
    [] f = "color"                  -> DefaultColor
    [] f \in {"pinned", "archived"} -> FALSE
    [] f = "position"               -> FirstKey
    [] OTHER                        -> Blank

NoteDefault(f) ==
  CASE f = "kind"                   -> "text"
    [] f = "color"                  -> DefaultColor
    [] f \in {"pinned", "archived"} -> FALSE
    [] f = "trashedAt"              -> Nil
    [] f = "position"               -> FirstKey
    [] OTHER                        -> Blank

ItemDefault(f) ==
  CASE f \in {"checked", "deleted"} -> FALSE
    [] f = "position"               -> FirstKey
    [] OTHER                        -> Blank

\* The row an INSERT starts from, before the mutation's own field is set.
FreshNote ==
  [val |-> [f \in NoteField |-> NoteDefault(f)],
   clk |-> [f \in NoteField |-> 0], seq |-> 0, audio |-> FALSE]
FreshItem(n) ==
  [val |-> [f \in ItemField |-> ItemDefault(f)],
   clk |-> [f \in ItemField |-> 0], seq |-> 0, note |-> n]
FreshLink ==
  [val |-> [f \in LinkField |-> FALSE], clk |-> [f \in LinkField |-> 0], seq |-> 0]

OrFresh(row, fresh) == IF row = NoRow THEN fresh ELSE row

------------------------------------------------------------------------------
(* The search index.  The order of a checklist's lines is left out. *)

ItemsOf(d, n)  == {i \in ItemId : d.items[i] # NoRow /\ d.items[i].note = n}
LiveTexts(d, n) ==
  {d.items[i].val["text"] : i \in {j \in ItemsOf(d, n) : ~d.items[j].val["deleted"]}}

\* What ReindexNote computes from the note and its items' current state.
IndexEntry(d, n) ==
  IF d.notes[n] = NoRow THEN NoRow
  ELSE [title   |-> d.notes[n].val["title"],
        content |-> IF d.notes[n].val["kind"] = "checklist"
                    THEN LiveTexts(d, n) ELSE {d.notes[n].val["body"]}]

Reindex(d, n) == [d EXCEPT !.fts[n] = IndexEntry(d, n)]

------------------------------------------------------------------------------
(* One mutation bundle (all the mutations the client stamped alike). *)

ApplyNote(d, m) ==
  LET old == OrFresh(d.notes[m.id], FreshNote)
      acc == Accepted(old, m)
      d1  == [d EXCEPT !.notes[m.id] = Merge(old, m, d.seq),
                       !.seq = @ + Cardinality(acc)]
  IN IF d.notes[m.id] = NoRow \/ acc \cap NoteContent # {}
     THEN Reindex(d1, m.id) ELSE d1

ApplyItem(d, m) ==
  LET old == OrFresh(d.items[m.id], FreshItem(m.note))
      acc == Accepted(old, m)
      d1  == [d EXCEPT !.items[m.id] = Merge(old, m, d.seq),
                       !.seq = @ + Cardinality(acc)]
  IN IF d.items[m.id] = NoRow \/ acc \cap ItemContent # {}
     THEN Reindex(d1, m.note) ELSE d1

ApplyLink(d, m) ==
  LET old == OrFresh(d.links[<<m.note, m.label>>], FreshLink)
  IN [d EXCEPT !.links[<<m.note, m.label>>] = Merge(old, m, d.seq),
               !.seq = @ + Cardinality(Accepted(old, m))]

Apply(d, m) ==
  CASE m.entity = "note"       -> ApplyNote(d, m)
    [] m.entity = "item"       -> ApplyItem(d, m)
    [] m.entity = "note_label" -> ApplyLink(d, m)

\* Mutant of Rejects: the audio kind is a kind like any.
RejectsBrokenKeysOnly(d, m) ==
  \/ m.entity = "item" /\ d.items[m.id] = NoRow /\ d.notes[m.note] = NoRow
  \/ /\ m.entity = "note_label"
     /\ d.links[<<m.note, m.label>>] = NoRow
     /\ d.notes[m.note] = NoRow \/ d.labels[m.label] = NoRow

\* The mutation makes its handler return an error, which fails the batch: the
\* audio kind is refused, and an INSERT must meet its foreign keys.
Rejects(d, m) ==
  \/ /\ m.entity = "note"
     /\ "kind" \in DOMAIN m.set
     /\ m.set["kind"] = "audio"
  \/ /\ m.entity = "item"
     /\ d.items[m.id] = NoRow
     /\ d.notes[m.note] = NoRow
  \/ /\ m.entity = "note_label"
     /\ d.links[<<m.note, m.label>>] = NoRow
     /\ d.notes[m.note] = NoRow \/ d.labels[m.label] = NoRow

------------------------------------------------------------------------------
(* The writes outside the mutation batch. *)

\* Hard-delete the notes of S with everything that refers to them.  Neither
\* the sequence counter nor any tombstone records it.
Purge(d, S) ==
  [d EXCEPT !.notes = [n \in NoteId |-> IF n \in S THEN NoRow ELSE d.notes[n]],
            !.items = [i \in ItemId |->
                         IF \E n \in S : i \in ItemsOf(d, n) THEN NoRow ELSE d.items[i]],
            !.links = [p \in NoteId \X LabelId |->
                         IF p[1] \in S THEN NoRow ELSE d.links[p]],
            !.fts   = [n \in NoteId |-> IF n \in S THEN NoRow ELSE d.fts[n]]]

\* The notes the sweep at time `now` removes.
Expired(d, now, retention) ==
  {n \in NoteId : /\ d.notes[n] # NoRow
                  /\ d.notes[n].val["trashedAt"] # Nil
                  /\ d.notes[n].val["trashedAt"] < now - retention}

\* An uploaded recording: a whole row at once, with no field clocks.
InsertAudio(d, n, title, position) ==
  LET s == d.seq + 1
      val == [f \in NoteField |-> CASE f = "kind"     -> "audio"
                                    [] f = "title"    -> title
                                    [] f = "position" -> position
                                    [] OTHER          -> NoteDefault(f)]
  IN Reindex([d EXCEPT !.notes[n] = [val |-> val, clk |-> FreshNote.clk,
                                     seq |-> s, audio |-> TRUE],
                       !.seq = s], n)

NameTaken(d, l, name) == \E k \in LabelId \ {l} : d.labels[k] = name

\* Mutant of RemoveLabel: the attachments stay.
RemoveLabelOnly(d, l) == [d EXCEPT !.labels[l] = NoRow]

RemoveLabel(d, l) ==
  [d EXCEPT !.labels[l] = NoRow,
            !.links = [p \in NoteId \X LabelId |->
                         IF p[2] = l THEN NoRow ELSE d.links[p]]]

------------------------------------------------------------------------------
\* The state Open leaves a new database file in.
EmptyDB ==
  [notes  |-> [n \in NoteId |-> NoRow],
   items  |-> [i \in ItemId |-> NoRow],
   links  |-> [p \in NoteId \X LabelId |-> NoRow],
   labels |-> [l \in LabelId |-> NoRow],
   fts    |-> [n \in NoteId |-> NoRow],
   seq    |-> 0]
==============================================================================
