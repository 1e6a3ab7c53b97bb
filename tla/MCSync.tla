-------------------------------- MODULE MCSync --------------------------------
(* One or two tabs on one or two notes that an earlier session created.       *)
EXTENDS SyncSystem

CONSTANTS n1, n2, i1, l1, x, y

AllOn1 == [i \in ItemId |-> n1]
Labels == [l \in LabelId |-> "work"]
InStep == [c \in Client |-> 0]

Stamped == [j \in 0 .. 3 |-> j + 1]
TextNote == AddNoteWrites(n1, "text", Blank, Blank, FirstKey, Stamped)
Checklist == AddNoteWrites(n1, "checklist", Blank, Blank, FirstKey, Stamped)
             \o InsertItemWrites(i1, n1, FirstKey, Stamped)
ChecklistAndNote == Checklist \o AddNoteWrites(n2, "text", Blank, Blank, FirstKey, Stamped)
PlanOf(past, ops, fresh, edits, inCall, lost, late) ==
  [past |-> past, ops |-> ops, fresh |-> fresh,
   edits |-> edits, calls |-> inCall, drops |-> lost, ghosts |-> late]

\* Two tabs edit a note, with two overlapping calls each and a lost connection; a
\* tab has just started while the other works.
Editing ==
  {PlanOf(TextNote, {0, 1} \X {"edit"}, {}, 1, 2, 1, 1),
   PlanOf(Checklist, {<<0, "edit">>, <<0, "check">>, <<0, "label">>, <<1, "edit">>}, {1},
          1, 2, 0, 0)}

\* One tab works on an item while the other checks and writes
\* it; both create notes and items; both trash and purge; one records, the other
\* edits what it gets; one has just started and loses its connection; one deletes
\* the label the other attaches and detaches.
Work ==
  {PlanOf(Checklist,
          ({0} \X {"check", "delete"}) \cup ({1} \X {"check", "write"}),
          {}, 2, 1, 0, 0),
   PlanOf(<<>>, ({0, 1} \X {"add", "item"}) \cup {<<0, "pin">>, <<1, "archive">>},
          {}, 2, 1, 1, 1),
   PlanOf(Checklist, {0, 1} \X {"trash", "check", "purge"}, {}, 1, 1, 1, 0),
   PlanOf(<<>>, {<<0, "record">>, <<1, "edit">>, <<1, "trash">>}, {}, 1, 2, 1, 0),
   PlanOf(Checklist, {<<0, "check">>, <<0, "move">>}, {1}, 1, 2, 1, 0),
   PlanOf(TextNote, {<<0, "unlabel">>, <<1, "label">>, <<1, "edit">>}, {}, 2, 1, 1, 0)}

\* A tab edits an item of the note the other purges, and another note.
OnePurgesOtherEdits ==
  {PlanOf(ChecklistAndNote, ({0} \X {"trash", "purge"}) \cup ({1} \X {"check", "edit"}),
          {}, 2, 1, 0, 0)}
==============================================================================
