------------------------------- MODULE Startup -------------------------------
(***************************************************************************)
(* The processes that open the database file (cmd/retainer, internal/db):  *)
(* the server, and `retainer set-password` beside it.  Opening applies the *)
(* pending migrations, each in a transaction of its own with foreign keys  *)
(* switched off, checked and switched on again around it; a process may be *)
(* killed between any two of these steps.                                  *)
(*                                                                         *)
(* One restriction the code does not ensure, dropped when Beside is TRUE:  *)
(* no process reads which migrations are applied while another is applying *)
(* some, unless the file is new.                                           *)
(***************************************************************************)
EXTENDS Integers, Sequences, FiniteSets

CONSTANTS Versions,   \* 1 .. the number of migrations, 2 in the code
          Rebuilds,   \* the migrations that rebuild a table from its old columns
          Beside,
          MaxCrashes, \* bound on the processes killed
          MaxStops    \* bound on the times the server is told to stop

ASSUME StartupAssumption ==
  /\ IsFiniteSet(Versions) /\ Versions = 1 .. Cardinality(Versions) /\ Versions # {}
  /\ Rebuilds \subseteq Versions \ {1} /\ Beside \in BOOLEAN
  /\ {MaxCrashes, MaxStops} \subseteq Nat

VARIABLES file,    \* the database file
          proc,    \* what each process has come to
          crashes, stops

pvars == <<file, proc, crashes, stops>>

Process == {"server", "tool"}

\* applied: the migrations whose statements were committed, in order; recorded:
\* schema_migrations; sound: foreign_key_check finds nothing; blobs: recordings
\* are in the columns a rebuild does not copy; password: the one that is set, 0 if none.
Files == [applied : Seq(Versions), recorded : SUBSET Versions, sound : BOOLEAN,
          blobs : BOOLEAN, password : Nat]

\* step: "down", exited with an error, or where it is; known: `applied` as read or
\* done; enforced: foreign_keys on its connection.
Procs == [step : {"down", "failed", "read", "loop", "apply", "check", "open", "drain"},
          known : SUBSET Versions, enforced : BOOLEAN]

Down == [step |-> "down", known |-> {}, enforced |-> FALSE]
Failed == [Down EXCEPT !.step = "failed"]

\* A new file, or one an older release left, whose references a hand at the sqlite
\* shell, which does not enforce them, may have broken.
PInit == /\ file \in {[applied |-> <<>>, recorded |-> {}, sound |-> TRUE,
                       blobs |-> FALSE, password |-> 0]}
                     \cup {[applied |-> <<1>>, recorded |-> {1}, sound |-> s,
                            blobs |-> FALSE, password |-> 1] : s \in BOOLEAN}
         /\ proc = [p \in Process |-> Down]
         /\ crashes = 0
         /\ stops = 0

Goes(p, k) == proc' = [proc EXCEPT ![p] = k]
At(p, step) == proc[p].step = step

------------------------------------------------------------------------------
(* Open, migrate *)

Pending(p) == Versions \ proc[p].known
NextVersion(p) == CHOOSE v \in Pending(p) : \A w \in Pending(p) : v <= w
Migrating(p) == proc[p].step \in {"loop", "apply", "check"} /\ Pending(p) # {}

\* The data source name enforces foreign keys on the new connection.
Start(p) == /\ proc[p].step \in {"down", "failed"}
            /\ Goes(p, [step |-> "read", known |-> {}, enforced |-> TRUE])
            /\ UNCHANGED <<file, crashes, stops>>

ReadApplied(p) == /\ At(p, "read")
                  /\ Beside \/ file.applied = <<>> \/ \A q \in Process : ~Migrating(q)
                  /\ Goes(p, [proc[p] EXCEPT !.step = "loop", !.known = file.recorded])
                  /\ UNCHANGED <<file, crashes, stops>>

DisableKeys(p) == /\ At(p, "loop") /\ Pending(p) # {}
                  /\ Goes(p, [proc[p] EXCEPT !.step = "apply", !.enforced = FALSE])
                  /\ UNCHANGED <<file, crashes, stops>>

\* Mutants of Recorded: the migration is not recorded; the one after it is.
RecordedNot(f, v) == f.recorded
RecordedAhead(f, v) == f.recorded \cup {v + 1}

\* schema_migrations, in the transaction that applied v.
Recorded(f, v) == f.recorded \cup {v}

\* The first migration's tables are there already, so its statements fail.
Refused(v) == v = 1 /\ file.applied # <<>>

Migrated(f, v) == [f EXCEPT !.applied = Append(@, v), !.recorded = Recorded(f, v),
                            !.blobs = @ /\ v \notin Rebuilds]

ApplyMigration(p) ==
  /\ At(p, "apply") /\ ~Refused(NextVersion(p))
  /\ file' = Migrated(file, NextVersion(p))
  /\ Goes(p, [proc[p] EXCEPT !.step = "check"])
  /\ UNCHANGED <<crashes, stops>>

FailMigration(p) == /\ At(p, "apply") /\ Refused(NextVersion(p))
                    /\ Goes(p, Failed)
                    /\ UNCHANGED <<file, crashes, stops>>

\* Mutant of Checked: enforcement is not switched on again.
CheckedUnenforced(k, v) == [k EXCEPT !.step = "loop", !.known = @ \cup {v}]

Checked(k, v) == [k EXCEPT !.step = "loop", !.known = @ \cup {v}, !.enforced = TRUE]

\* foreign_key_check, and on with the next migration or out with an error.
ForeignKeyCheck(p) ==
  /\ At(p, "check")
  /\ Goes(p, IF file.sound THEN Checked(proc[p], NextVersion(p)) ELSE Failed)
  /\ UNCHANGED <<file, crashes, stops>>

Opened(p) == /\ At(p, "loop") /\ Pending(p) = {}
             /\ Goes(p, [proc[p] EXCEPT !.step = "open"])
             /\ UNCHANGED <<file, crashes, stops>>

------------------------------------------------------------------------------
(* The open processes. *)

\* runSetPassword, once both inputs agree.
SetPassword == /\ At("tool", "open") /\ file.password < 2
               /\ file' = [file EXCEPT !.password = @ + 1]
               /\ Goes("tool", Down)
               /\ UNCHANGED <<crashes, stops>>

\* The inputs differ or are empty.
GiveUp == /\ At("tool", "open")
          /\ Goes("tool", Failed)
          /\ UNCHANGED <<file, crashes, stops>>

\* What the server may write: a recording, and, if nothing stops it, a reference
\* to what is not there.
ServerWrites == /\ At("server", "open")
                /\ file' \in {[file EXCEPT !.blobs = TRUE]}
                             \cup (IF proc["server"].enforced THEN {}
                                   ELSE {[file EXCEPT !.sound = FALSE]})
                /\ UNCHANGED <<proc, crashes, stops>>

\* SIGTERM: no new requests.
Terminate == /\ At("server", "open") /\ stops < MaxStops
             /\ stops' = stops + 1
             /\ Goes("server", [proc["server"] EXCEPT !.step = "drain"])
             /\ UNCHANGED <<file, crashes>>

\* Requests done or shutdownTimeout over; sweeper and hub stopped.
Exit == /\ At("server", "drain")
        /\ Goes("server", Down)
        /\ UNCHANGED <<file, crashes, stops>>

Crash(p) == /\ proc[p].step \notin {"down", "failed"} /\ crashes < MaxCrashes
            /\ crashes' = crashes + 1
            /\ Goes(p, Failed)
            /\ UNCHANGED <<file, stops>>

\* What goes on by itself: a process on its way, and the service manager starting
\* the server again after a failure.
Opening(p) == \/ ReadApplied(p) \/ DisableKeys(p) \/ ApplyMigration(p)
              \/ FailMigration(p) \/ ForeignKeyCheck(p) \/ Opened(p)
Restart == At("server", "failed") /\ Start("server")

PNext == \/ \E p \in Process : Start(p) \/ Opening(p) \/ Crash(p)
         \/ SetPassword \/ GiveUp \/ ServerWrites \/ Terminate \/ Exit

\* Each process gets on with opening; the service manager restarts the server.
PSpec == /\ PInit /\ [][PNext]_pvars
         /\ WF_pvars(Restart \/ Opening("server")) /\ WF_pvars(Opening("tool"))

------------------------------------------------------------------------------
(* Properties. *)

StartupTypeOK ==
  /\ file \in Files /\ proc \in [Process -> Procs]
  /\ crashes \in 0 .. MaxCrashes /\ stops \in 0 .. MaxStops

\* db.go:17, "applies any pending migrations": whoever was killed or failed on the
\* way, each migration is applied once, in order, and recorded exactly then.
AppliedInOrder ==
  /\ \A j \in 1 .. Len(file.applied) : file.applied[j] = j
  /\ file.recorded = 1 .. Len(file.applied)

\* db.go:117-126, 163: whatever went on while foreign keys were off, the server
\* serves with all migrations applied and enforcement on.
ServesEnforced == At("server", "open") =>
  proc["server"].enforced /\ Len(file.applied) = Cardinality(Versions)

\* 002_audio_notes.sql copies no recording: once there is one, no start loses it.
RecordingsSurvive == [][file.blobs => file'.blobs]_pvars

\* retainer.service, Restart=on-failure: after a failure or a crash the server is
\* up again, unless broken data keeps it down.
ComesUp == At("server", "failed") ~> (At("server", "open") \/ At("server", "down"))
==============================================================================
