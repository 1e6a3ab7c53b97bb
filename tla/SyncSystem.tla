------------------------------ MODULE SyncSystem ------------------------------
(***************************************************************************)
(* Several tabs of one user working on one server: the client store of     *)
(* NotesStore in each tab, the server's store of Store, and between them   *)
(* the REST calls (sync, list, purge, upload of a recording, deletion of a *)
(* label) and the "changed" signal.                                        *)
(*                                                                         *)
(* syncNow takes the queue, awaits the call, and reconciles the reply or   *)
(* puts the batch back; nothing keeps two calls of a tab from overlapping. *)
(* A call may fail while the tab is offline, before or after the server    *)
(* acts on it, and the server may still act on it later (`ghosts`).  The   *)
(* WebSocket of a tab that is online delivers every signal; coming back    *)
(* online makes the tab pull.  A tab starts with the notes loaded, or with *)
(* none and the load under way (App.svelte).                               *)
(*                                                                         *)
(* The server's clock `now` is the true time; tab c's reads now + Skew[c]. *)
(* Mutations take at least MinDelay of it to arrive, until time runs out.   *)
(***************************************************************************)
EXTENDS NotesStore

CONSTANTS Client,     \* the tabs: 0 .. n-1, in the order of their device ids
          NoteOf,     \* the note each item is created on
          Plans,      \* what may be going on, see Plan
          PastLabels, \* the labels that exist, with their names
          Skew,       \* how far each device's clock is ahead
          MinDelay, Overtaking, \* the network: least delay; whether replies overtake others
          Torn,       \* whether writes come between the queries of a list
          Slots,      \* bound on the calls a tab has under way
          Typed,      \* the texts in play
          MaxTime,    \* bound on the clock
          NoReply

VARIABLES plan,     \* the plan of this behaviour, fixed
          db,       \* the server's committed database
          client,   \* the state of each tab
          calls,    \* the calls each tab awaits, by slot
          ghosts,   \* the calls that failed in their tab and may still be handled
          online,   \* the tabs whose connection is up
          drops,    \* how many times a connection was lost
          now,      \* true time
          made,     \* history: the bundles queued so far
          purged    \* history: the notes purged so far

svars == <<plan, db, client, calls, ghosts, online, drops, now, made, purged>>

\* A plan is a record of: past, the bundles earlier sessions left on the server, in
\* order; ops, the user operations in play, <<tab, operation>>; fresh, the tabs that
\* have just started; and bounds: edits, the operations per tab; calls, those a tab
\* has under way; drops, the times a connection is lost; ghosts, the failed calls
\* the server still acts on.
PlanOK(p) ==
  /\ p.ops \subseteq Client \X STRING /\ p.fresh \subseteq Client
  /\ p.edits \in Nat /\ p.calls \in 1 .. Cardinality(Slots) /\ p.drops \in Nat /\ p.ghosts \in Nat

\* Stamps are numbered in the order of their strings.
H == INSTANCE Hlc WITH Device <- Client, Base <- 10, WallWidth <- 1, CtrWidth <- 1
Rank(c) == (c.wall * H!CtrLimit + c.ctr) * Cardinality(Client) + c.dev + 1

\* What a call may be answered with, by handler: done or refused; the changes since a
\* cursor; the note an upload became; the whole list.
ChangeRows == [notes : SUBSET [id : NoteId, val : NoteVal],
               items : SUBSET [id : ItemId, note : NoteId, val : ItemVal],
               links : SUBSET [pair : NoteId \X LabelId, attached : BOOLEAN]]
ShownRows == [notes : [NoteId -> NoteVal \cup {NoRow}], items : [ItemId -> ItemVal \cup {NoRow}],
              links : SUBSET (NoteId \X LabelId)]
Verdict     == [ok : BOOLEAN]
SyncReply   == [ok : {TRUE}, seq : Nat, changes : ChangeRows]
UploadReply == [ok : {TRUE}, seq : Nat, val : NoteVal]
ListReply   == [ok : {TRUE}, seq : Nat, cursor : Nat, shown : ShownRows]

ASSUME SyncSystemAssumption ==
  /\ NoReply \notin Verdict \cup SyncReply \cup UploadReply \cup ListReply
  /\ IsFiniteSet(Client) /\ Client = 0 .. Cardinality(Client) - 1 /\ IsFiniteSet(Slots)
  /\ NoteOf \in [ItemId -> NoteId]
  /\ Skew \in [Client -> Nat]
  /\ {MinDelay, MaxTime} \subseteq Nat
  /\ {Overtaking, Torn} \subseteq BOOLEAN /\ Typed \subseteq Text
  /\ PastLabels \in [LabelId -> LabelName \cup {NoRow}]
  /\ H!CtrLimit \in Nat \ {0}

------------------------------------------------------------------------------
(* syncsvc.Apply *)

\* The database after the batch; no database if one of its mutations fails.
ApplyBatch(d, batch) ==
  LET f[j \in 0 .. Len(batch)] ==
        IF j = 0 THEN {d}
        ELSE {Apply(e, batch[j]) : e \in {q \in f[j - 1] : ~Rejects(q, batch[j])}}
  IN f[Len(batch)]

StartDBs(p) == ApplyBatch([EmptyDB EXCEPT !.labels = PastLabels], p.past)
StartDB(p) == CHOOSE d \in StartDBs(p) : TRUE

\* The bundles clients queue, with the stamps and trashing times in play.
Bundles(Stamp, Time) ==
  NoteBundles(Stamp, Time) \cup ItemBundles(Stamp, NoteOf) \cup LinkBundles(Stamp)

\* What earlier sessions left was accepted, and stamped before this one; within a
\* plan's bounds no counter outgrows its digits (an operation takes four stamps).
ASSUME PlansAssumption == \A p \in Plans :
  /\ PlanOK(p)
  /\ 4 * p.edits <= H!CtrLimit
  /\ \E S \in {{p.past[j].hlc : j \in 1 .. Len(p.past)}} :
       /\ S \subseteq 1 .. Rank([wall |-> 1, ctr |-> 0, dev |-> 0]) - 1
       /\ p.past \in Seq(Bundles(S, 0 .. MaxTime))
  /\ StartDBs(p) # {}

\* GET /api/notes on its way: what it has read so far, and what it has yet to read.
List == [kind |-> "list", at |-> 0, got |-> NoReply, todo |-> {}, reply |-> NoReply]

SInit ==
  /\ plan \in Plans
  /\ db = StartDB(plan)
  /\ client = [c \in Client |->
       LET d == IF c \in plan.fresh THEN EmptyDB ELSE db
           shown == Authoritative(d)
       IN
       [notes |-> shown.notes, items |-> shown.items, links |-> shown.links,
        pending |-> <<>>, cursor |-> d.seq,
        labels |-> {l \in LabelId : PastLabels[l] # NoRow},
        due |-> IF c \in plan.fresh THEN {"pull"} ELSE {},
        clock |-> [wall |-> 0, ctr |-> 0, dev |-> c]]]
  /\ calls = [c \in Client |->
       [s \in IF c \in plan.fresh THEN {CHOOSE t \in Slots : TRUE} ELSE {} |-> List]]
  /\ ghosts = {}
  /\ online = Client
  /\ drops = 0
  /\ now = 1
  /\ made = {}
  /\ purged = {}

------------------------------------------------------------------------------
(* The user's operations, one bundle or several each. *)

\* Mutant of Wall: Date.now() is read once, when the module loads.
WallAtLoad(c) == 1 + Skew[c]

Wall(c) == now + Skew[c]
First(c) == H!Next(client[c].clock, c, Wall(c))
Stamps(c) == [j \in 0 .. 3 |-> Rank([First(c) EXCEPT !.ctr = @ + j])]

Edits(c) == Cardinality({e.op : e \in {f \in made : f.by = c}})

\* The tab's state becomes k, which has queued some bundles more.
Enact(c, k) ==
  LET new == SubSeq(k.pending, Len(client[c].pending) + 1, Len(k.pending)) IN
    /\ client' = [client EXCEPT ![c] =
                    [k EXCEPT !.clock = [First(c) EXCEPT !.ctr = @ + Len(new) - 1]]]
    /\ made' = made \cup {[by |-> c, op |-> Edits(c), m |-> new[j]] : j \in 1 .. Len(new)}
    /\ UNCHANGED <<plan, db, calls, ghosts, online, drops, now, purged>>

May(c, op) == <<c, op>> \in plan.ops /\ now < MaxTime /\ Edits(c) < plan.edits

Busy(c) == DOMAIN calls[c]

Has(c, n) == client[c].notes[n] # NoRow
Shows(c, i) == client[c].items[i] # NoRow

\* The ids are fresh uuids.
UnusedNote(n) ==
  /\ db.notes[n] = NoRow /\ n \notin purged
  /\ \A e \in made : NoteIdOf(e.m) # n
  /\ \A call \in ghosts \cup UNION {{calls[c][s] : s \in Busy(c)} : c \in Client} :
       call.kind = "audio" => call.note # n

NewNote(c, n, kind, v) ==
  /\ May(c, "add") /\ UnusedNote(n)
  /\ Enact(c, AddNote(client[c], n, kind, v, Blank, FirstKey, Stamps(c)))

NewItem(c, i) ==
  /\ May(c, "item") /\ db.items[i] = NoRow
  /\ Has(c, NoteOf[i]) /\ client[c].notes[NoteOf[i]].kind = "checklist"
  /\ \A e \in made : ~(e.m.entity = "item" /\ e.m.id = i)
  /\ Enact(c, AddItem(client[c], i, NoteOf[i], FirstKey, Stamps(c)))

WriteNote(c, n, v) == /\ May(c, "edit") /\ Has(c, n)
                      /\ Enact(c, EditNote(client[c], n, "title", v, Stamps(c)))

Pinning(c, n) == /\ May(c, "pin") /\ Has(c, n)
                 /\ Enact(c, TogglePinned(client[c], n, Stamps(c)))

Archiving(c, n) == /\ May(c, "archive") /\ Has(c, n)
                   /\ Enact(c, ToggleArchived(client[c], n, FirstKey, Stamps(c)))

Trashing(c, n) == /\ May(c, "trash") /\ Has(c, n) /\ client[c].notes[n].trashedAt = Nil
                  /\ Enact(c, SetTrashed(client[c], n, Wall(c), Stamps(c)))

Restoring(c, n) == /\ May(c, "trash") /\ Has(c, n) /\ client[c].notes[n].trashedAt # Nil
                   /\ Enact(c, SetTrashed(client[c], n, Nil, Stamps(c)))

Moving(c, n, p) == /\ May(c, "move") /\ Has(c, n)
                   /\ Enact(c, ReorderNote(client[c], n, "position", p, Stamps(c)))

Checking(c, i) ==
  /\ May(c, "check") /\ Shows(c, i)
  /\ Enact(c, EditItem(client[c], i, NoteOf[i], "checked", ~client[c].items[i].checked,
                       Stamps(c)))

WriteItem(c, i, v) == /\ May(c, "write") /\ Shows(c, i)
                      /\ Enact(c, EditItem(client[c], i, NoteOf[i], "text", v, Stamps(c)))

Deleting(c, i) == /\ May(c, "delete") /\ Shows(c, i)
                  /\ Enact(c, DeleteItem(client[c], i, NoteOf[i], Stamps(c)))

MovingItem(c, i, p) == /\ May(c, "move") /\ Shows(c, i)
                       /\ Enact(c, MoveItem(client[c], i, NoteOf[i], p, Stamps(c)))

Labelling(c, n, l) ==
  /\ May(c, "label") /\ Has(c, n) /\ l \in client[c].labels
  /\ Enact(c, SetLabel(client[c], n, l, <<n, l>> \notin client[c].links, Stamps(c)))

User(c) ==
  \/ \E n \in NoteId :
       \/ \E kind \in {"text", "checklist"}, v \in Typed : NewNote(c, n, kind, v)
       \/ Pinning(c, n) \/ Archiving(c, n) \/ Trashing(c, n) \/ Restoring(c, n)
       \/ \E v \in Typed : WriteNote(c, n, v) \/ Moving(c, n, v)
       \/ \E l \in LabelId : Labelling(c, n, l)
  \/ \E i \in ItemId :
       \/ NewItem(c, i) \/ Checking(c, i) \/ Deleting(c, i)
       \/ \E v \in Typed : WriteItem(c, i, v) \/ MovingItem(c, i, v)

------------------------------------------------------------------------------
(* Calls. *)

MayCall(c) == Cardinality(Busy(c)) < plan.calls

\* c's next call takes a free slot.
Call(c, call) ==
  LET s == CHOOSE t \in Slots : t \notin Busy(c) IN
  calls' = [calls EXCEPT ![c] = [t \in Busy(c) \cup {s} |->
                                   IF t = s THEN call ELSE calls[c][t]]]

\* A timer of syncNow fires.
SyncNow(c, t) ==
  /\ t \in client[c].due /\ MayCall(c)
  /\ Call(c, [kind |-> "sync", since |-> client[c].cursor, batch |-> client[c].pending,
              at |-> IF client[c].pending = <<>> THEN 0 ELSE now, reply |-> NoReply])
  /\ client' = [client EXCEPT ![c] = [TakePending(client[c]) EXCEPT !.due = @ \ {t}]]
  /\ UNCHANGED <<plan, db, ghosts, online, drops, now, made, purged>>

\* "Delete forever" in the trash view.
PurgeForever(c, n) ==
  /\ <<c, "purge">> \in plan.ops /\ MayCall(c)
  /\ Has(c, n) /\ client[c].notes[n].trashedAt # Nil
  /\ Call(c, [kind |-> "purge", note |-> n, at |-> 0, reply |-> NoReply])
  /\ UNCHANGED <<plan, db, client, ghosts, online, drops, now, made, purged>>

\* addAudioNote: the finished recording is uploaded as a note of its own.
UploadAudio(c, n, v) ==
  /\ <<c, "record">> \in plan.ops /\ MayCall(c) /\ now < MaxTime
  /\ UnusedNote(n)
  /\ Call(c, [kind |-> "audio", note |-> n, title |-> v, at |-> 0, reply |-> NoReply])
  /\ UNCHANGED <<plan, db, client, ghosts, online, drops, now, made, purged>>

\* deleteLabel, in the labels view; no tab is told of it.
DropLabel(c, l) ==
  /\ <<c, "unlabel">> \in plan.ops /\ MayCall(c) /\ l \in client[c].labels
  /\ Call(c, [kind |-> "label", label |-> l, at |-> 0, reply |-> NoReply])
  /\ UNCHANGED <<plan, db, client, ghosts, online, drops, now, made, purged>>

Arrived(call) == now >= call.at + MinDelay \/ now = MaxTime

\* hub.Notify reaches every socket and arms a debounced pull.
Notified == [c \in Client |-> IF c \in online THEN [client[c] EXCEPT !.due = @ \cup {"pull"}]
                              ELSE client[c]]

\* Mutant of Answer: the changes are read before the batch is applied.
AnswerStale(d, since) == [ok |-> TRUE, seq |-> d.seq, changes |-> Changes(db, since)]

Answer(d, since) == [ok |-> TRUE, seq |-> d.seq, changes |-> Changes(d, since)]

\* The server's side of a call, by handler: what becomes of the database, the answer,
\* and whether the tabs are told.
Purging(n) == {[db |-> Purge(db, {n}), reply |-> [ok |-> TRUE], notify |-> TRUE]}

DeletingLabel(l) == {[db |-> RemoveLabel(db, l), reply |-> [ok |-> db.labels[l] # NoRow],
                      notify |-> FALSE]}

CreatingAudioNote(n, title) ==
  LET d == InsertAudio(db, n, title, FirstKey) IN
  {[db |-> d, reply |-> [ok |-> TRUE, seq |-> d.seq, val |-> d.notes[n].val], notify |-> TRUE]}

Syncing(since, batch) ==
  LET after == ApplyBatch(db, batch) IN
  IF after = {} THEN {[db |-> db, reply |-> [ok |-> FALSE], notify |-> FALSE]}
  ELSE {[db |-> d, reply |-> Answer(d, since), notify |-> batch # <<>>] : d \in after}

Outcomes(call) ==
  CASE call.kind = "purge" -> Purging(call.note)
    [] call.kind = "label" -> DeletingLabel(call.label)
    [] call.kind = "audio" -> CreatingAudioNote(call.note, call.title)
    [] call.kind = "sync"  -> Syncing(call.since, call.batch)

\* A list of which some queries have been answered.
HalfRead == \E c \in Client : \E s \in Busy(c) :
  /\ calls[c][s].kind = "list" /\ calls[c][s].got # NoReply
  /\ calls[c][s].reply = NoReply

Serve(call, o) ==
  /\ Arrived(call)
  /\ Torn \/ ~HalfRead
  /\ db' = o.db
  /\ client' = IF o.notify THEN Notified ELSE client
  /\ purged' = IF call.kind = "purge" THEN purged \cup {call.note} ELSE purged
  /\ UNCHANGED <<plan, online, drops, now, made>>

Handle(c, s) ==
  /\ s \in Busy(c) /\ calls[c][s].reply = NoReply /\ calls[c][s].kind # "list"
  /\ \E o \in Outcomes(calls[c][s]) :
       /\ Serve(calls[c][s], o)
       /\ calls' = [calls EXCEPT ![c][s].reply = o.reply]
  /\ UNCHANGED ghosts

HandleGhost(g) == /\ \E o \in Outcomes(g) : Serve(g, o)
                  /\ ghosts' = ghosts \ {g}
                  /\ UNCHANGED calls

Listing(c, s) == s \in Busy(c) /\ calls[c][s].kind = "list" /\ calls[c][s].reply = NoReply

\* The list's next state once it has read `got` and has still to read `todo`.
Read(c, s, got, todo) ==
  /\ calls' = [calls EXCEPT ![c][s] =
                 [@ EXCEPT !.got = got, !.todo = todo,
                           !.reply = IF todo = {} THEN got ELSE NoReply]]
  /\ UNCHANGED <<plan, db, client, ghosts, online, drops, now, made, purged>>

\* load() takes the highest seq it is shown for its cursor.
Highest(s, seqs) == IF seqs = {} THEN s ELSE Max(seqs \cup {s})

\* notesvc.List: the notes, then for each of them its items, then its labels.
ListNotes(c, s) ==
  LET there == {n \in NoteId : db.notes[n] # NoRow} IN
  /\ Listing(c, s) /\ calls[c][s].got = NoReply
  /\ Read(c, s,
          [ok |-> TRUE, seq |-> db.seq, cursor |-> Highest(0, {db.notes[n].seq : n \in there}),
           shown |-> [Authoritative(EmptyDB) EXCEPT !.notes = Authoritative(db).notes]],
          {"items", "labels"} \X there)

ListItems(c, s, n) ==
  LET k == calls[c][s] live == {i \in ItemsOf(db, n) : ~db.items[i].val["deleted"]} IN
  /\ Listing(c, s) /\ <<"items", n>> \in k.todo
  /\ Read(c, s,
          [k.got EXCEPT !.cursor = Highest(@, {db.items[i].seq : i \in live}),
                        !.shown.items = [i \in ItemId |-> IF i \in live THEN db.items[i].val
                                                           ELSE @[i]]],
          k.todo \ {<<"items", n>>})

ListLabels(c, s, n) ==
  LET k == calls[c][s] IN
  /\ Listing(c, s) /\ <<"labels", n>> \in k.todo /\ <<"items", n>> \notin k.todo
  /\ Read(c, s,
          [k.got EXCEPT !.shown.links =
             @ \cup {p \in Authoritative(db).links : p[1] = n}],
          k.todo \ {<<"labels", n>>})

Finished(c, s) == calls' = [calls EXCEPT ![c] = [t \in Busy(c) \ {s} |-> calls[c][t]]]

Answered(c, s, kind) == /\ s \in Busy(c) /\ calls[c][s].kind = kind
                        /\ calls[c][s].reply # NoReply /\ calls[c][s].reply.ok

\* With replies in order, none comes before one the server read earlier.
InOrder(c, s) == \A t \in Busy(c) :
  Answered(c, t, "sync") \/ Answered(c, t, "list")
  => calls[c][s].reply.seq <= calls[c][t].reply.seq

ReceiveChanges(c, s) ==
  /\ Answered(c, s, "sync")
  /\ Overtaking \/ InOrder(c, s)
  /\ client' = [client EXCEPT ![c] =
                  Reconcile(@, calls[c][s].reply.seq, calls[c][s].reply.changes)]
  /\ Finished(c, s)
  /\ UNCHANGED <<plan, db, ghosts, online, drops, now, made, purged>>

\* load(): what was fetched takes the place of all notes and of the cursor.
Loaded(k, r) == [k EXCEPT !.cursor = r.cursor, !.notes = r.shown.notes,
                          !.items = r.shown.items, !.links = r.shown.links]

ReceiveList(c, s) ==
  /\ Answered(c, s, "list")
  /\ Overtaking \/ InOrder(c, s)
  /\ client' = [client EXCEPT ![c] = Loaded(@, calls[c][s].reply)]
  /\ Finished(c, s)
  /\ UNCHANGED <<plan, db, ghosts, online, drops, now, made, purged>>

\* The note is prepended.  If a pull has brought it in already it is there twice
\* until the next reconcile, which keeps the pull's copy: shown here throughout.
ReceiveAudio(c, s) ==
  LET n == calls[c][s].note IN
  /\ Answered(c, s, "audio")
  /\ client' = [client EXCEPT ![c].notes[n] = IF @ = NoRow THEN calls[c][s].reply.val ELSE @]
  /\ Finished(c, s)
  /\ UNCHANGED <<plan, db, ghosts, online, drops, now, made, purged>>

\* The label leaves the tab's list and, stripLabelFromAllNotes, its notes.
ReceiveDropped(c, s) ==
  LET l == calls[c][s].label IN
  /\ Answered(c, s, "label")
  /\ client' = [client EXCEPT ![c].labels = @ \ {l},
                              ![c].links = {p \in @ : p[2] # l}]
  /\ Finished(c, s)
  /\ UNCHANGED <<plan, db, ghosts, online, drops, now, made, purged>>

\* What an error makes of the tab: a sync's batch goes back to the queue, the
\* other operations just end.
AfterError(c, call) == IF call.kind = "sync" THEN Requeue(client[c], call.batch) ELSE client[c]

ReceiveRefusal(c, s) ==
  /\ s \in Busy(c) /\ calls[c][s].reply # NoReply /\ ~calls[c][s].reply.ok
  /\ client' = [client EXCEPT ![c] = AfterError(c, calls[c][s])]
  /\ Finished(c, s)
  /\ UNCHANGED <<plan, db, ghosts, online, drops, now, made, purged>>

ReceivePurged(c, s) ==
  /\ Answered(c, s, "purge")
  /\ client' = [client EXCEPT ![c] = Forget(@, calls[c][s].note, NoteOf)]
  /\ Finished(c, s)
  /\ UNCHANGED <<plan, db, ghosts, online, drops, now, made, purged>>

\* The fetch fails.  A call the server has not seen yet may still reach it, a list
\* to no effect.
Fail(c, s) ==
  /\ c \notin online /\ s \in Busy(c)
  /\ client' = [client EXCEPT ![c] = AfterError(c, calls[c][s])]
  /\ \/ ghosts' = ghosts
     \/ /\ calls[c][s].reply = NoReply /\ calls[c][s].kind # "list"
        /\ Cardinality(ghosts) < plan.ghosts
        /\ ghosts' = ghosts \cup {calls[c][s]}
  /\ Finished(c, s)
  /\ UNCHANGED <<plan, db, online, drops, now, made, purged>>

Disconnect(c) == /\ c \in online /\ drops < plan.drops
                 /\ online' = online \ {c}
                 /\ drops' = drops + 1
                 /\ UNCHANGED <<plan, db, client, calls, ghosts, now, made, purged>>

\* Mutant of Reconnect: the tab waits for the next signal.
ReconnectQuietly(c) == /\ c \notin online
                       /\ online' = online \cup {c}
                       /\ UNCHANGED <<plan, db, client, calls, ghosts, drops, now, made, purged>>

\* The socket's onopen calls syncNow.
Reconnect(c) == /\ c \notin online
                /\ online' = online \cup {c}
                /\ client' = [client EXCEPT ![c].due = @ \cup {"pull"}]
                /\ UNCHANGED <<plan, db, calls, ghosts, drops, now, made, purged>>

STick == /\ now < MaxTime
         /\ now' = now + 1
         /\ UNCHANGED <<plan, db, client, calls, ghosts, online, drops, made, purged>>

\* Nothing left to do within the bounds.
Settle == /\ now = MaxTime /\ ghosts = {} /\ online = Client
          /\ \A c \in Client : Busy(c) = {} /\ client[c].due = {}
          /\ UNCHANGED svars

\* What happens by itself: timers fire, the server answers what reaches it,
\* answers arrive, sockets come back (the backoff is capped), time goes on.
Progress ==
  \/ \E c \in Client :
       \/ Reconnect(c)
       \/ \E t \in {"flush", "pull"} : SyncNow(c, t)
       \/ \E s \in Slots :
            \/ Handle(c, s) \/ ListNotes(c, s)
            \/ \E n \in NoteId : ListItems(c, s, n) \/ ListLabels(c, s, n)
            \/ ReceiveChanges(c, s) \/ ReceiveRefusal(c, s) \/ ReceivePurged(c, s)
            \/ ReceiveList(c, s) \/ ReceiveAudio(c, s) \/ ReceiveDropped(c, s)
  \/ \E g \in ghosts : HandleGhost(g)
  \/ STick

SNext ==
  \/ Progress
  \/ \E c \in Client : \/ User(c) \/ Disconnect(c)
                       \/ \E l \in LabelId : DropLabel(c, l)
                       \/ \E n \in NoteId : \/ PurgeForever(c, n)
                                             \/ \E v \in Typed : UploadAudio(c, n, v)
                       \/ \E s \in Slots : Fail(c, s)
  \/ Settle

SSpec == SInit /\ [][SNext]_svars

\* Nothing makes a user act or a connection drop; every progress step uses up
\* a timer, a call or a tick, so keeping on with them takes each of them.
FairSSpec == SSpec /\ WF_svars(Progress)

------------------------------------------------------------------------------
(* Properties. *)

SyncTypeOK ==
  /\ db \in Database
  /\ \A c \in Client :
       /\ client[c].notes \in [NoteId -> NoteVal \cup {NoRow}]
       /\ client[c].items \in [ItemId -> ItemVal \cup {NoRow}]
       /\ client[c].links \subseteq NoteId \X LabelId /\ client[c].labels \subseteq LabelId
       /\ client[c].cursor \in 0 .. db.seq
       /\ client[c].due \subseteq {"flush", "pull"}
       /\ client[c].clock \in H!Clock /\ client[c].clock.ctr < H!CtrLimit
  /\ online \subseteq Client /\ purged \subseteq NoteId

\* What is shown of the notes nobody purged and the labels nobody deleted (of either
\* no other tab is told).
Kept(shown) ==
  [notes |-> [n \in NoteId \ purged |-> shown.notes[n]],
   items |-> [i \in {j \in ItemId : NoteOf[j] \notin purged} |-> shown.items[i]],
   links |-> {p \in shown.links : p[1] \notin purged /\ db.labels[p[2]] # NoRow}]

\* What a tab with nothing unsent and nothing under way shows, when it has the
\* server's latest seq, is the server's state.
Converged == \A c \in Client :
  /\ client[c].pending = <<>> /\ Busy(c) = {} /\ client[c].cursor = db.seq
  => Kept(Shown(client[c])) = Kept(Authoritative(db))

\* Row r has taken in bundle m: each field m writes holds m or something newer.
RowOf(d, m) == CASE m.entity = "note"       -> d.notes[m.id]
                 [] m.entity = "item"       -> d.items[m.id]
                 [] m.entity = "note_label" -> d.links[<<m.note, m.label>>]
Absorbed(m) == RowOf(db, m) # NoRow /\ \A f \in DOMAIN m.set : RowOf(db, m).clk[f] >= m.hlc

\* What m is about is gone for good.
Moot(m) == NoteIdOf(m) \in purged \/ (m.entity = "note_label" /\ db.labels[m.label] = NoRow)

\* syncNow's catch, "so they aren't silently lost": until the server has it, a
\* mutation is in its tab's queue or in a call the tab awaits.
NoEditLost == \A e \in made :
  \/ Absorbed(e.m) \/ Moot(e.m)
  \/ e.m \in ToSet(client[e.by].pending)
  \/ \E s \in Busy(e.by) : calls[e.by][s].kind = "sync" /\ e.m \in ToSet(calls[e.by][s].batch)

\* hlc.go:1-3, docs/adr/0001: an edit of a row whose current state the tab has
\* seen is newer than everything it replaces, whatever the devices' clocks.
EditsOfSeenWin == [][\A e \in made' \ made :
  LET r == RowOf(db, e.m) IN
  r # NoRow /\ r.seq <= client[e.by].cursor => Accepted(r, e.m) = DOMAIN e.m.set]_svars

\* Each tab ends up showing the server's state with nothing left to send.
EventuallyConverged == <>[](\A c \in Client :
  client[c].pending = <<>> /\ Shown(client[c]) = Authoritative(db))

\* notes.ts:121: "the next successful syncNow will retry them" - so an edit reaches
\* the server unless what it edits is purged.
Delivered == \A c \in Client :
  []<>(\A e \in made : e.by = c => Absorbed(e.m) \/ Moot(e.m))

\* The same promise, of one state: with nothing under way, the server accepts a
\* tab's queue as it stands - there is a successful syncNow to come - if what it
\* edits is still there.  (A queue the server refuses is put back unchanged, and
\* refused again.)
Retriable == \A c \in Client :
  Busy(c) = {} /\ (\A m \in ToSet(client[c].pending) : ~Moot(m))
  => ApplyBatch(db, client[c].pending) # {}
==============================================================================
