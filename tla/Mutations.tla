------------------------------ MODULE Mutations ------------------------------
(***************************************************************************)
(* The mutations the web client queues (stores/notes.ts), one operator per *)
(* user operation.  A bundle is the set of field writes that share one     *)
(* stamp: `set` maps each field to its new value.  The client queues a     *)
(* bundle synchronously, so a batch never holds part of one.               *)
(***************************************************************************)
EXTENDS Store, Sequences

NoteWrite(n, set, h)    == [entity |-> "note", id |-> n, set |-> set, hlc |-> h]
ItemWrite(i, n, set, h) == [entity |-> "item", id |-> i, note |-> n, set |-> set, hlc |-> h]
LinkWrite(n, l, b, h)   == [entity |-> "note_label", note |-> n, label |-> l,
                            set |-> [f \in LinkField |-> b], hlc |-> h]
One(f, v) == [g \in {f} |-> v]

\* mutateNote and mutateItem: a single field under a stamp of its own.
MutateNote(n, f, v, h)    == NoteWrite(n, One(f, v), h)
MutateItem(i, n, f, v, h) == ItemWrite(i, n, One(f, v), h)

\* Mutant of SetNoteField: the edit does not revive.
SetNoteFieldAlone(n, f, v, h) == MutateNote(n, f, v, h)

\* A content edit carries trashedAt: null, so that it revives the note if it
\* is newer than a concurrent trash.
SetNoteField(n, f, v, h) ==
  NoteWrite(n, [g \in {f, "trashedAt"} |-> IF g = f THEN v ELSE Nil], h)

\* Mutant of Pin: archived is left as it was.
PinAlone(n, h) == MutateNote(n, "pinned", TRUE, h)

\* Pinned and Archived exclude each other, so each one's switch-on clears the
\* other under the same stamp; switching off is a single field.
Pin(n, h)        == NoteWrite(n, [f \in {"pinned", "archived"} |-> f = "pinned"], h)
Unpin(n, h)      == MutateNote(n, "pinned", FALSE, h)
Archive(n, p, h) ==
  NoteWrite(n, [f \in {"archived", "pinned", "archivePosition"} |->
                  IF f = "archivePosition" THEN p ELSE f = "archived"], h)
Unarchive(n, h)  == MutateNote(n, "archived", FALSE, h)

TrashNote(n, t, h)   == MutateNote(n, "trashedAt", t, h)
RestoreNote(n, h)    == MutateNote(n, "trashedAt", Nil, h)
Reorder(n, f, p, h)  == MutateNote(n, f, p, h)

\* An item edit carries deleted: false, the same convention one level down.
SetItemField(i, n, f, v, h) ==
  ItemWrite(i, n, [g \in {f, "deleted"} |-> IF g = f THEN v ELSE FALSE], h)
RemoveItem(i, n, h)     == MutateItem(i, n, "deleted", TRUE, h)
ReorderItem(i, n, p, h) == MutateItem(i, n, "position", p, h)

AttachLabel(n, l, h) == LinkWrite(n, l, TRUE, h)
DetachLabel(n, l, h) == LinkWrite(n, l, FALSE, h)

\* addTextNote, addChecklist and insertItem queue each field under a stamp of
\* its own, H[0] the first.
AddNoteWrites(n, kind, title, body, p, H) ==
  <<MutateNote(n, "kind", kind, H[0]), MutateNote(n, "title", title, H[1])>>
  \o (IF kind = "text"
      THEN <<MutateNote(n, "body", body, H[2]), MutateNote(n, "position", p, H[3])>>
      ELSE <<MutateNote(n, "position", p, H[2])>>)
InsertItemWrites(i, n, p, H) ==
  <<MutateItem(i, n, "text", Blank, H[0]), MutateItem(i, n, "position", p, H[1])>>

\* The note whose rows a bundle writes.
NoteIdOf(m) == IF m.entity = "note" THEN m.id ELSE m.note

------------------------------------------------------------------------------
\* Every bundle a client can send, given the stamps and trashing times in play.
NoteBundles(Stamp, Time) ==
  UNION {UNION {
    {MutateNote(n, "kind", k, h) : k \in {"text", "checklist"}},
    {MutateNote(n, f, v, h) : f \in {"title", "body", "position", "archivePosition"},
                              v \in Text},
    {SetNoteField(n, f, v, h) : f \in {"title", "body", "color"}, v \in Text},
    {Pin(n, h), Unpin(n, h), Unarchive(n, h), RestoreNote(n, h)},
    {Archive(n, p, h) : p \in Text},
    {TrashNote(n, t, h) : t \in Time}} : n \in NoteId, h \in Stamp}

ItemBundles(Stamp, NoteOf) ==
  UNION {UNION {
    {MutateItem(i, NoteOf[i], f, v, h) : f \in {"text", "position"}, v \in Text},
    {SetItemField(i, NoteOf[i], "text", v, h) : v \in Text},
    {SetItemField(i, NoteOf[i], "checked", b, h) : b \in BOOLEAN},
    {RemoveItem(i, NoteOf[i], h)}} : i \in ItemId, h \in Stamp}

LinkBundles(Stamp) ==
  {LinkWrite(n, l, b, h) : n \in NoteId, l \in LabelId, b \in BOOLEAN, h \in Stamp}

\* A bundle no client of ours builds: the handler refuses the audio kind.
AudioKindBundles(Stamp) == {MutateNote(n, "kind", "audio", h) : n \in NoteId, h \in Stamp}
==============================================================================
