----------------------------- MODULE FocusedNote -----------------------------
(***************************************************************************)
(* The panel in which a note is edited (FocusedNote.svelte), over the      *)
(* tab's copy of the note, which syncNow changes under it.  The title      *)
(* stands for the body as well, whose field works alike; one checklist     *)
(* item stands for all.                                                    *)
(*                                                                         *)
(* A field that has focus when the panel closes may or may not get a last  *)
(* blur event: browsers differ, and the panel does not rely on it.         *)
(***************************************************************************)
EXTENDS Naturals

CONSTANTS Text, NoItem, NoText

ASSUME FocusedAssumption == {NoItem, NoText} \cap Text = {} /\ Text # {}

VARIABLES note,   \* its title, its item's text (or NoItem), and the list it is in
          panel,  \* the list it was opened from, or "closed"
          focus,  \* the field that has focus: "none", "title" or "item"
          title,  \* the panel's `title`
          input,  \* the value of the item's input element
          typed   \* history: what the user typed since the focused field had focus

nvars == <<note, panel, focus, title, input, typed>>

List == {"main", "archive", "trash"}

NInit == /\ note \in [title : Text, item : Text, list : {"main"}]
         /\ panel = "closed"
         /\ focus = "none"
         /\ title = note.title
         /\ input = note.item
         /\ typed = NoText

\* Mutant of Stays: the panel looks only whether its note is trashed.
StaysUntilTrashed(view, n) == n.list # "trash"

\* The reactive statements that close the panel when the note leaves its list.
Stays(view, n) == view = n.list

\* Mutant of Resynced: the title follows the store, focused or not.
ResyncedAlways(n) == n.title

\* `title` follows the store unless its field has focus.
Resynced(n) == IF focus = "title" THEN title ELSE n.title

Removed == panel' = "closed" /\ focus' = "none" /\ typed' = NoText

\* What a blur of the focused field leaves of note n: the title is saved if it
\* differs, the item's text always.
Blurred(n) ==
  CASE focus = "title" -> [n EXCEPT !.title = title]
    [] focus = "item"  -> [n EXCEPT !.item = IF @ = NoItem THEN NoItem ELSE input]
    [] OTHER           -> n

\* The note becomes n, by the user's hand or by a reply; the panel follows.
Becomes(n) ==
  IF panel = "closed" \/ Stays(panel, n)
  THEN /\ note' = n
       /\ title' = Resynced(n)
       /\ input' = IF n.item # note.item THEN n.item ELSE input
       /\ focus' = IF n.item = NoItem /\ focus = "item" THEN "none" ELSE focus
       /\ typed' = IF n.item # note.item /\ focus = "item" THEN NoText ELSE typed
       /\ UNCHANGED panel
  ELSE /\ note' \in {n, Blurred(n)}
       /\ title' = note'.title /\ input' = note'.item
       /\ Removed

------------------------------------------------------------------------------
(* The user. *)

\* A card is opened from its list, or from among the search results, where it
\* stays after its note has left the main list: then the panel closes at once.
\* A new note's title has focus.
Open(view) == /\ panel = "closed" /\ view \in {note.list, "main"} /\ Stays(view, note)
              /\ panel' = view
              /\ focus' \in IF view = "trash" THEN {"none"} ELSE {"none", "title"}
              /\ title' = note.title /\ input' = note.item
              /\ UNCHANGED <<note, typed>>

Editable == panel \in {"main", "archive"}

Focus(field) == /\ Editable /\ focus = "none"
                /\ field = "item" => note.item # NoItem
                /\ focus' = field
                /\ UNCHANGED <<note, panel, title, input, typed>>

TypeTitle(v) == /\ focus = "title" /\ v # title
                /\ title' = v
                /\ typed' = v
                /\ UNCHANGED <<note, panel, focus, input>>

TypeItem(v) == /\ focus = "item" /\ v # input
               /\ input' = v
               /\ typed' = v
               /\ UNCHANGED <<note, panel, focus, title>>

\* Focus goes elsewhere: Tab, a click, Enter in an item (which adds one below).
Blur == /\ focus # "none"
        /\ note' = Blurred(note)
        /\ focus' = "none" /\ typed' = NoText
        /\ title' = note'.title
        /\ UNCHANGED <<panel, input>>

\* Mutant of Flushed: close leaves the saving to blur.
FlushedNot == note

\* close(): saveTitle and saveBody.
Flushed == IF panel = "trash" THEN note ELSE [note EXCEPT !.title = title]

\* Escape, with a field focused or not (a click outside blurs first).
Close == /\ panel # "closed"
         /\ note' \in {Flushed} \cup (IF focus = "item" THEN {Blurred(Flushed)} ELSE {})
         /\ title' = note'.title /\ input' = note'.item
         /\ Removed

\* The panel's, or a card's, buttons: archive, trash, restore, remove the item.
Button == /\ focus = "none"
          /\ \E n \in {[note EXCEPT !.list = l] : l \in List} \cup {[note EXCEPT !.item = NoItem]} :
               n # note /\ Becomes(n)

\* A reply brings what another device wrote.
Reconciled == \E n \in [title : Text, item : Text \cup {NoItem}, list : List] :
  n # note /\ Becomes(n)

NNext == \/ \E view \in List : Open(view)
         \/ \E field \in {"title", "item"} : Focus(field)
         \/ \E v \in Text : TypeTitle(v) \/ TypeItem(v)
         \/ Blur \/ Close \/ Button \/ Reconciled

NSpec == NInit /\ [][NNext]_nvars

------------------------------------------------------------------------------
(* Properties. *)

\* FocusedNote.svelte:55, "Focused no longer makes sense in this context, so close":
\* whoever moves the note, it is never shown under the controls of another list.
ShowsItsList == panel # "closed" => panel = note.list

\* FocusedNote.svelte:36, "don't let an incoming sync update clobber mid-typing":
\* what was typed into the title stays there until the field is left.
Unclobbered == focus = "title" /\ typed # NoText => title = typed

\* FocusedNote.svelte:150, "Always flush any in-progress edit before closing": when
\* the user closes the panel on what was typed into a field, the store has it.
Closes == panel # "closed" /\ panel' = "closed" /\ note'.list = panel
TitleFlushed == [][Closes /\ focus = "title" /\ typed # NoText => note'.title = typed]_nvars
ItemFlushed == [][Closes /\ focus = "item" /\ typed # NoText => note'.item = typed]_nvars
==============================================================================
