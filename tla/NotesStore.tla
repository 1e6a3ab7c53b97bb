------------------------------ MODULE NotesStore ------------------------------
(***************************************************************************)
(* The web client's note store (stores/notes.ts) as pure operators on the  *)
(* state `k` of one tab:                                                   *)
(*                                                                         *)
(*   k.notes, k.items, k.links   allNotes: the notes, the items shown in   *)
(*                               them, the <<note, label>> pairs attached  *)
(*   k.pending                   the mutation bundles not yet sent         *)
(*   k.cursor                    lastSyncedSeq                             *)
(*   k.clock                     `last` of hlc.ts                          *)
(*   k.due                       the armed timers that will call syncNow   *)
(*                                                                         *)
(* Every user operation changes the tab's notes at once and queues the     *)
(* mutations that will tell the server.  H[0], H[1], ... are the stamps    *)
(* hlc.next would return, in turn.                                         *)
(***************************************************************************)
EXTENDS Mutations, SequencesExt

With(val, set) == [f \in DOMAIN val |-> IF f \in DOMAIN set THEN set[f] ELSE val[f]]

PatchNote(k, n, set) ==
  [k EXCEPT !.notes = [o \in NoteId |-> IF o = n /\ k.notes[n] # NoRow
                                        THEN With(k.notes[n], set) ELSE k.notes[o]]]
PatchItem(k, i, set) ==
  [k EXCEPT !.items = [j \in ItemId |-> IF j = i /\ k.items[i] # NoRow
                                        THEN With(k.items[i], set) ELSE k.items[j]]]

Queue(k, muts) == [k EXCEPT !.pending = @ \o muts, !.due = @ \cup {"flush"}]

------------------------------------------------------------------------------
(* The user's operations. *)

AddNote(k, n, kind, title, body, p, H) ==
  LET set == [kind |-> kind, title |-> title, body |-> body, position |-> p]
  IN Queue([k EXCEPT !.notes[n] = With(FreshNote.val, set)],
           AddNoteWrites(n, kind, title, body, p, H))

EditNote(k, n, f, v, H) ==
  Queue(PatchNote(k, n, One(f, v)), <<SetNoteField(n, f, v, H[0])>>)

TogglePinned(k, n, H) ==
  LET m == IF k.notes[n].pinned THEN Unpin(n, H[0]) ELSE Pin(n, H[0])
  IN Queue(PatchNote(k, n, m.set), <<m>>)

ToggleArchived(k, n, p, H) ==
  LET m == IF k.notes[n].archived THEN Unarchive(n, H[0]) ELSE Archive(n, p, H[0])
  IN Queue(PatchNote(k, n, m.set), <<m>>)

SetTrashed(k, n, t, H) ==
  LET m == IF t = Nil THEN RestoreNote(n, H[0]) ELSE TrashNote(n, t, H[0])
  IN Queue(PatchNote(k, n, m.set), <<m>>)

ReorderNote(k, n, f, p, H) == Queue(PatchNote(k, n, One(f, p)), <<Reorder(n, f, p, H[0])>>)

AddItem(k, i, n, p, H) ==
  Queue([k EXCEPT !.items[i] = With(FreshItem(n).val, One("position", p))],
        InsertItemWrites(i, n, p, H))

EditItem(k, i, n, f, v, H) ==
  Queue(PatchItem(k, i, One(f, v)), <<SetItemField(i, n, f, v, H[0])>>)

DeleteItem(k, i, n, H) == Queue([k EXCEPT !.items[i] = NoRow], <<RemoveItem(i, n, H[0])>>)

MoveItem(k, i, n, p, H) ==
  Queue(PatchItem(k, i, One("position", p)), <<ReorderItem(i, n, p, H[0])>>)

SetLabel(k, n, l, attached, H) ==
  Queue([k EXCEPT !.links = IF attached THEN @ \cup {<<n, l>>} ELSE @ \ {<<n, l>>}],
        <<LinkWrite(n, l, attached, H[0])>>)

\* What a finished purge, own or not, leaves of note n and its items.
Forget(k, n, NoteOf) ==
  [k EXCEPT !.notes[n] = NoRow,
            !.items = [i \in ItemId |-> IF NoteOf[i] = n THEN NoRow ELSE k.items[i]],
            !.links = {p \in @ : p[1] # n}]

------------------------------------------------------------------------------
(* The sync protocol. *)

\* loadChanges: every row above the cursor, as authoritative state.
Changes(d, since) ==
  [notes |-> {[id |-> n, val |-> d.notes[n].val] :
                n \in {o \in NoteId : d.notes[o] # NoRow /\ d.notes[o].seq > since}},
   items |-> {[id |-> i, note |-> d.items[i].note, val |-> d.items[i].val] :
                i \in {j \in ItemId : d.items[j] # NoRow /\ d.items[j].seq > since}},
   links |-> {[pair |-> p, attached |-> d.links[p].val["attached"]] :
                p \in {q \in NoteId \X LabelId : d.links[q] # NoRow /\ d.links[q].seq > since}}]

\* syncNow up to its await: the batch leaves the queue.
TakePending(k) == [k EXCEPT !.pending = <<>>, !.due = @ \ {"flush"}]

\* Mutants of Requeue: the failed batch is dropped; it goes to the end.
RequeueNothing(k, batch) == k
RequeueLast(k, batch) == [k EXCEPT !.pending = @ \o batch]

\* syncNow's catch: the failed batch goes back, before what was queued since.
Requeue(k, batch) == [k EXCEPT !.pending = batch \o @]

\* Mutant of ItemAfter: a deleted item stays.
ItemAfterKeepsDeleted(old, rows) == IF rows = {} THEN old ELSE (CHOOSE r \in rows : TRUE).val

\* An item shown as `old`, given the reply's rows for it (one or none).
ItemAfter(old, rows) ==
  IF rows = {} THEN old
  ELSE LET r == CHOOSE q \in rows : TRUE IN IF r.val["deleted"] THEN NoRow ELSE r.val

\* reconcile: the rows in the reply replace the local ones; an item or a label
\* of a note this tab does not have is ignored.
Reconcile(k, seq, c) ==
  LET notes == [n \in NoteId |->
                  IF \E r \in c.notes : r.id = n
                  THEN (CHOOSE r \in c.notes : r.id = n).val ELSE k.notes[n]]
      known(n) == notes[n] # NoRow
  IN [k EXCEPT
        !.cursor = IF seq > @ THEN seq ELSE @,
        !.notes = notes,
        !.items = [i \in ItemId |->
                     ItemAfter(k.items[i], {r \in c.items : r.id = i /\ known(r.note)})],
        !.links = {p \in @ : ~ \E r \in c.links : r.pair = p /\ known(p[1])}
                  \cup {r.pair : r \in {q \in c.links : q.attached /\ known(q.pair[1])}}]

\* What the tab shows, and what it would show of the server's whole database.
Shown(k) == [notes |-> k.notes, items |-> k.items, links |-> k.links]
Authoritative(d) ==
  [notes |-> [n \in NoteId |-> IF d.notes[n] = NoRow THEN NoRow ELSE d.notes[n].val],
   items |-> [i \in ItemId |-> IF d.items[i] = NoRow \/ d.items[i].val["deleted"]
                               THEN NoRow ELSE d.items[i].val],
   links |-> {p \in NoteId \X LabelId : d.links[p] # NoRow /\ d.links[p].val["attached"]}]
==============================================================================
