------------------------------ MODULE SyncServer ------------------------------
(***************************************************************************)
(* The server's store under everything that writes to it: sync batches     *)
(* (one transaction each, mutation by mutation, any error rolling the      *)
(* whole batch back), purge and sweep, audio uploads and label CRUD.       *)
(*                                                                         *)
(* The pool holds one connection, so a transaction excludes every other    *)
(* writer until it ends.  A crash inside one leaves what was committed.    *)
(*                                                                         *)
(* `log` is a history variable: the bundles committed so far that concern  *)
(* rows still alive.  Only properties read it.                             *)
(***************************************************************************)
EXTENDS Mutations

CONSTANTS Mutation,    \* the bundles clients may send, in any order and any number of times
          Upload,        \* [note, title, position] of each recording that may be uploaded
          NoteOf,        \* the note each item is created on, fixed by its uuid's creator
          Retention,     \* days a note stays in the trash
          NoTx,          \* no sync transaction is open
          MaxSeq,        \* bound: no new transaction once sync_counter is there
          MaxTime        \* bound on the clock

VARIABLES db,    \* the committed database
          tx,    \* NoTx, or the open transaction's [db, log]
          log,   \* history: committed bundles of live rows
          now    \* the server's clock

vars == <<db, tx, log, now>>

WireBundles(Stamp, Time) ==
  NoteBundles(Stamp, Time) \cup ItemBundles(Stamp, NoteOf)
  \cup LinkBundles(Stamp) \cup AudioKindBundles(Stamp)

ASSUME SyncServerAssumption ==
  /\ NoteOf \in [ItemId -> NoteId]
  /\ LET Stamps == {m.hlc : m \in Mutation} IN
       /\ Stamps \subseteq Nat \ {0}
       /\ Mutation \subseteq WireBundles(Stamps, 0 .. MaxTime)
  /\ \A u \in Upload : u.note \in NoteId /\ u.title \in Text /\ u.position \in Text
  /\ {Retention, MaxSeq, MaxTime} \subseteq Nat

Init == /\ db = EmptyDB
        /\ tx = NoTx
        /\ log = {}
        /\ now = 0

\* The history of the bundles that survive the hard delete of the notes of S.
Without(L, S) == {m \in L : NoteIdOf(m) \notin S}

------------------------------------------------------------------------------
(* POST /api/sync *)

BeginTx == /\ tx = NoTx
           /\ db.seq < MaxSeq
           /\ tx' = [db |-> db, log |-> log]
           /\ UNCHANGED <<db, log, now>>

ApplyMutation(m) ==
  /\ tx # NoTx
  /\ tx.db.seq < MaxSeq
  /\ ~Rejects(tx.db, m)
  /\ tx' = [db |-> Apply(tx.db, m), log |-> tx.log \cup {m}]
  /\ UNCHANGED <<db, log, now>>

RejectBatch(m) == /\ tx # NoTx
                  /\ Rejects(tx.db, m)
                  /\ tx' = NoTx
                  /\ UNCHANGED <<db, log, now>>

Commit == /\ tx # NoTx
          /\ db' = tx.db
          /\ log' = tx.log
          /\ tx' = NoTx
          /\ UNCHANGED now

\* The process dies inside the transaction and restarts on the database file.
CrashInTx == /\ tx # NoTx
             /\ tx' = NoTx
             /\ UNCHANGED <<db, log, now>>

------------------------------------------------------------------------------
(* The writers outside the batch. *)

PurgeOne(n) == /\ tx = NoTx
               /\ db' = Purge(db, {n})
               /\ log' = Without(log, {n})
               /\ UNCHANGED <<tx, now>>

Sweep == /\ tx = NoTx
         /\ LET gone == Expired(db, now, Retention) IN
              /\ db' = Purge(db, gone)
              /\ log' = Without(log, gone)
         /\ UNCHANGED <<tx, now>>

CreateAudio(u) == /\ tx = NoTx
                  /\ db.seq < MaxSeq
                  /\ db.notes[u.note] = NoRow
                  /\ db' = InsertAudio(db, u.note, u.title, u.position)
                  /\ UNCHANGED <<tx, log, now>>

CreateLabel(l, name) == /\ tx = NoTx
                        /\ db.labels[l] = NoRow
                        /\ ~NameTaken(db, l, name)
                        /\ db' = [db EXCEPT !.labels[l] = name]
                        /\ UNCHANGED <<tx, log, now>>

RenameLabel(l, name) == /\ tx = NoTx
                        /\ db.labels[l] # NoRow
                        /\ ~NameTaken(db, l, name)
                        /\ db' = [db EXCEPT !.labels[l] = name]
                        /\ UNCHANGED <<tx, log, now>>

DeleteLabel(l) == /\ tx = NoTx
                  /\ db.labels[l] # NoRow
                  /\ db' = RemoveLabel(db, l)
                  /\ log' = {m \in log : ~(m.entity = "note_label" /\ m.label = l)}
                  /\ UNCHANGED <<tx, now>>

Tick == /\ now < MaxTime
        /\ now' = now + 1
        /\ UNCHANGED <<db, tx, log>>

Next == \/ BeginTx \/ Commit \/ CrashInTx \/ Sweep \/ Tick
        \/ \E m \in Mutation : ApplyMutation(m) \/ RejectBatch(m)
        \/ \E n \in NoteId : PurgeOne(n)
        \/ \E u \in Upload : CreateAudio(u)
        \/ \E l \in LabelId : DeleteLabel(l)
        \/ \E l \in LabelId, name \in LabelName : CreateLabel(l, name) \/ RenameLabel(l, name)

Spec == Init /\ [][Next]_vars

------------------------------------------------------------------------------
(* Properties.  Each state predicate is asked of the committed database and  *)
(* of the one the open transaction sees.                                     *)

TypeOK == /\ db \in Database
          /\ log \subseteq Mutation
          /\ tx # NoTx => tx \in [db : Database, log : SUBSET Mutation]
          /\ now \in Nat

\* CONTEXT.md: a note is never Pinned and Archived at once, in whatever order
\* the pins and archivings of several devices reach the server, repeated or
\* not (togglePinned and toggleArchived stamp both fields alike).
Exclusive(d) == \A n \in NoteId :
  d.notes[n] # NoRow => ~(d.notes[n].val["pinned"] /\ d.notes[n].val["archived"])
PinnedArchivedExclusive == Exclusive(db) /\ (tx # NoTx => Exclusive(tx.db))

\* Each field of row r holds a write of the highest stamp among the bundles W
\* that reached the row, or its default if none wrote it: the outcome does not
\* depend on the order of arrival or on retries.
Settled(r, W, default) == \A f \in DOMAIN r.val :
  LET writes == {m \in W : f \in DOMAIN m.set} IN
    /\ \A m \in writes : m.hlc <= r.clk[f]
    /\ IF r.clk[f] = 0 THEN r.val[f] = default[f]
       ELSE \E m \in writes : m.hlc = r.clk[f] /\ m.set[f] = r.val[f]

\* applyNoteMutation, applyItemMutation and applyNoteLabelMutation converge on
\* the last writer's value of every field (docs/adr/0001).
Latest(d, L) ==
  /\ \A n \in NoteId :
       LET W == {m \in L : m.entity = "note" /\ m.id = n} IN
       IF d.notes[n] = NoRow THEN W = {}
       ELSE d.notes[n].audio \/ Settled(d.notes[n], W, FreshNote.val)
  /\ \A i \in ItemId :
       LET W == {m \in L : m.entity = "item" /\ m.id = i} IN
       IF d.items[i] = NoRow THEN W = {}
       ELSE Settled(d.items[i], W, FreshItem(NoteOf[i]).val)
  /\ \A n \in NoteId, l \in LabelId :
       LET W == {m \in L : m.entity = "note_label" /\ m.note = n /\ m.label = l} IN
       IF d.links[<<n, l>>] = NoRow THEN W = {}
       ELSE Settled(d.links[<<n, l>>], W, FreshLink.val)
LastWriteWins == Latest(db, log) /\ (tx # NoTx => Latest(tx.db, tx.log))

\* A note stays in the trash, and an item deleted, only while no edit newer
\* than that has arrived: setNoteField and setItemField revive what they
\* touch.  (colour and checked are the fields only edits write.)
Revived(d) ==
  /\ \A n \in NoteId : d.notes[n] # NoRow /\ d.notes[n].val["trashedAt"] # Nil
       => d.notes[n].clk["color"] <= d.notes[n].clk["trashedAt"]
  /\ \A i \in ItemId : d.items[i] # NoRow /\ d.items[i].val["deleted"]
       => d.items[i].clk["checked"] <= d.items[i].clk["deleted"]
NewerEditRevives == Revived(db) /\ (tx # NoTx => Revived(tx.db))

\* Purge, sweep and label deletion leave no item, attachment or index entry
\* behind, and a late mutation cannot bring one back without its note.
Referential(d) ==
  /\ \A i \in ItemId : d.items[i] # NoRow => d.notes[d.items[i].note] # NoRow
  /\ \A n \in NoteId, l \in LabelId :
       d.links[<<n, l>>] # NoRow => d.notes[n] # NoRow /\ d.labels[l] # NoRow
NoOrphans == Referential(db) /\ (tx # NoTx => Referential(tx.db))

\* notes_fts is what a reindex from scratch would give, although only writes
\* of content fields reindex.
Indexed(d) == \A n \in NoteId : d.fts[n] = IndexEntry(d, n)
IndexInSync == Indexed(db) /\ (tx # NoTx => Indexed(tx.db))

\* An audio note always has its recording (docs/adr/0005).
Recorded(d) == \A n \in NoteId :
  d.notes[n] # NoRow /\ d.notes[n].val["kind"] = "audio" => d.notes[n].audio
AudioHasRecording == Recorded(db) /\ (tx # NoTx => Recorded(tx.db))

\* A pull by cursor loses nothing: whatever a commit changes in a row that
\* survives gets a server_seq above every cursor handed out so far, so the
\* `server_seq > sinceSeq` queries of loadChanges return it.
FreshSeq(old, new, s) == new # NoRow /\ new # old => new.seq > s
ChangesVisible == [][
  /\ \A n \in NoteId : FreshSeq(db.notes[n], db.notes[n]', db.seq)
  /\ \A i \in ItemId : FreshSeq(db.items[i], db.items[i]', db.seq)
  /\ \A p \in NoteId \X LabelId : FreshSeq(db.links[p], db.links[p]', db.seq)]_vars
==============================================================================
