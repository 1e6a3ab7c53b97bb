------------------------------- MODULE MCServer -------------------------------
(* Two workloads, one per behaviour.  "note": one note edited, pinned,        *)
(* archived, trashed, purged and swept by clients whose bundles carry         *)
(* different stamps and arrive in any order.  "rows": a checklist with one    *)
(* item, a recording and two labels; bundles may reach the server before the  *)
(* rows they refer to, after those are gone, or twice.                        *)
EXTENDS SyncServer

CONSTANTS n1, n2, i1, l1, l2, x, Stamp,
          NoteSeq   \* MaxSeq of the first workload

VARIABLE part

OwnerOf == [i \in ItemId |-> n1]
Uploads == {[note |-> n2, title |-> x, position |-> FirstKey]}

NoteMutations == UNION {{Pin(n1, h), Unpin(n1, h), Archive(n1, x, h), Unarchive(n1, h),
                         TrashNote(n1, 0, h), RestoreNote(n1, h),
                         SetNoteField(n1, "color", x, h)} : h \in Stamp}
RowMutations ==
  {MutateNote(n1, "kind", "checklist", 1), MutateItem(i1, n1, "text", Blank, 1),
   SetNoteField(n2, "title", Blank, 2), MutateNote(n2, "kind", "audio", 1)}
  \cup UNION {{SetItemField(i1, n1, "text", x, h), SetItemField(i1, n1, "checked", TRUE, h),
               RemoveItem(i1, n1, h), LinkWrite(n1, l1, h = 1, h)} : h \in Stamp}
Mutations == NoteMutations \cup RowMutations

Begun == tx' # NoTx
InPart ==
  /\ part' = part
  /\ part = "note" => /\ Begun => /\ tx'.log \subseteq NoteMutations
                                  /\ (IF tx = NoTx THEN db.seq ELSE tx.db.seq) < NoteSeq
                      /\ db'.labels = db.labels /\ db'.notes[n2] = NoRow
  /\ part = "rows" => /\ Begun => tx'.log \subseteq RowMutations
                      /\ now' = now

PartInit == Init /\ part \in {"note", "rows"}

PartSpec == /\ PartInit
            /\ [][Next /\ InPart]_<<vars, part>>
==============================================================================
