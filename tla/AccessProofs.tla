----------------------------- MODULE AccessProofs -----------------------------
(***************************************************************************)
(* The server process and who may use it.                                  *)
(*                                                                         *)
(* Opening the file, for any number of migrations, rebuilds, kills and     *)
(* stops: the types hold in any case, the rest as long as no process reads *)
(* what is applied while another is at it (Beside is FALSE).               *)
(*                                                                         *)
(* Sessions, for any number of browsers, addresses, tokens and requests    *)
(* under way, whatever becomes of the processes: logged out is logged out, *)
(* and a session in use does not run out. And lockouts: a failure at the   *)
(* threshold locks its address out.                                        *)
(***************************************************************************)
EXTENDS Access, FiniteSetTheorems, TLAPS

N == Cardinality(Versions)

\* The migrations up to some one.
Beginning(S) == \E k \in 0 .. N : S = 1 .. k

\* How a process k stands to the file f.
Fits(f, k) ==
  /\ Beginning(k.known) /\ k.known \subseteq f.recorded
  /\ k.step \in {"apply", "check"} => k.known # Versions
  /\ k.step = "check" => k.known # f.recorded
  /\ k.step \in {"open", "drain"} => k.known = Versions
  /\ k.step \in {"read", "loop", "open", "drain"} => k.enforced

Shape == /\ StartupTypeOK
         /\ Beginning(file.recorded)
         /\ \A p \in Process : Fits(file, proc[p])

\* p read that nothing was applied, and something may be by now.
Lagging(p) == proc[p].step \in {"loop", "apply"} /\ proc[p].known = {}

\* p is about to apply what comes next, or has just done so.
Leading(p) ==
  IF At(p, "check") THEN \E i \in 1 .. N : proc[p].known = 1 .. (i - 1) /\ file.recorded = 1 .. i
  ELSE proc[p].known = file.recorded

\* At most one process leads once the file is not new.
InTurn == /\ \A p \in Process : Migrating(p) => Lagging(p) \/ Leading(p)
          /\ file.applied # <<>> =>
               \A p, q \in Process : p # q /\ Migrating(p) /\ Migrating(q) => Lagging(p) \/ Lagging(q)

\* What is inductive when no process reads beside another.
IInv == /\ Shape /\ AppliedInOrder /\ InTurn
        /\ file.blobs => Len(file.applied) = N

------------------------------------------------------------------------------
(* Versions. *)

LEMMA Numbered == N \in Nat \ {0} /\ Versions = 1 .. N
<1>1. N \in Nat
  BY StartupAssumption, FS_CardinalityType DEF N
<1>2. Versions = 1 .. N /\ Versions # {}
  BY StartupAssumption DEF N
<1> QED
  BY <1>1, <1>2

\* What a process that knows of k migrations applies next.
LEMMA Following ==
  ASSUME NEW p \in Process, NEW k \in 0 .. N, proc[p].known = 1 .. k
  PROVE  /\ Pending(p) # {} <=> k < N
         /\ Pending(p) # {} <=> proc[p].known # Versions
         /\ k < N => NextVersion(p) = k + 1 /\ NextVersion(p) \in Versions
<1>1. N \in Nat /\ Versions = 1 .. N
  BY Numbered
<1>2. Pending(p) = (k + 1) .. N
  BY <1>1 DEF Pending
<1>3. ASSUME k < N PROVE NextVersion(p) = k + 1
  <2>1. k + 1 \in Pending(p)
    BY <1>1, <1>2, <1>3
  <2>2. \A w \in Pending(p) : w \in Int /\ k + 1 <= w
    BY <1>1, <1>2
  <2>3. ASSUME NEW v \in Pending(p), \A w \in Pending(p) : v <= w PROVE v = k + 1
    <3>1. v <= k + 1 /\ k + 1 <= v /\ v \in Int
      BY <2>1, <2>2, <2>3
    <3> QED
      BY <3>1
  <2> QED
    BY <2>1, <2>2, <2>3 DEF NextVersion
<1>4. Pending(p) # {} <=> k < N
  <2>1. k < N => k + 1 \in Pending(p)
    BY <1>1, <1>2
  <2>2. \A w \in Pending(p) : k < N
    BY <1>1, <1>2
  <2> QED
    BY <2>1, <2>2
<1>5. Pending(p) # {} <=> proc[p].known # Versions
  BY <1>1, <1>2, <1>4
<1> QED
  BY <1>1, <1>3, <1>4, <1>5

\* A process that has fits any file that records no less.
LEMMA FitsLater ==
  ASSUME NEW f, NEW g, NEW k, Fits(f, k), f.recorded \subseteq g.recorded
  PROVE  Fits(g, k)
  BY DEF Fits

------------------------------------------------------------------------------
(* The types. *)

\* A process goes on, and the file records no less than before.
LEMMA ShapeStep ==
  ASSUME Shape, NEW p \in Process, NEW k \in Procs, Goes(p, k),
         file' \in Files, Beginning(file'.recorded), file.recorded \subseteq file'.recorded,
         Fits(file', k), crashes' \in 0 .. MaxCrashes, stops' \in 0 .. MaxStops
  PROVE  Shape'
<1>1. proc \in [Process -> Procs] /\ proc' = [proc EXCEPT ![p] = k]
  BY DEF Shape, StartupTypeOK, Goes
<1>2. proc' \in [Process -> Procs]
  BY <1>1
<1>3. ASSUME NEW q \in Process PROVE Fits(file', proc'[q])
  <2>1. CASE q = p
    BY <1>1, <2>1
  <2>2. CASE q # p
    <3>1. proc'[q] = proc[q] /\ Fits(file, proc[q])
      BY <1>1, <2>2 DEF Shape
    <3> QED
      BY <3>1, FitsLater
  <2> QED
    BY <2>1, <2>2
<1> QED
  BY <1>2, <1>3 DEF Shape, StartupTypeOK

LEMMA Nothing == Beginning({})
<1>1. {} = 1 .. 0 /\ 0 \in 0 .. N
  BY Numbered
<1> QED
  BY <1>1 DEF Beginning

\* What Shape says of a process.
LEMMA Known ==
  ASSUME Shape, NEW p \in Process
  PROVE  /\ proc[p] \in Procs /\ Fits(file, proc[p])
         /\ file \in Files /\ crashes \in 0 .. MaxCrashes /\ stops \in 0 .. MaxStops
         /\ Pending(p) # {} <=> proc[p].known # Versions
         /\ Pending(p) # {} => NextVersion(p) \in Versions
<1>1. /\ proc[p] \in Procs /\ Fits(file, proc[p])
      /\ file \in Files /\ crashes \in 0 .. MaxCrashes /\ stops \in 0 .. MaxStops
  BY DEF Shape, StartupTypeOK
<1>2. PICK k \in 0 .. N : proc[p].known = 1 .. k
  BY <1>1 DEF Fits, Beginning
<1> QED
  BY <1>1, <1>2, Following

\* A process goes on, and the file is as it was.
LEMMA Alone ==
  ASSUME Shape, NEW p \in Process, NEW k \in Procs, Goes(p, k), Fits(file, k),
         file' = file, crashes' \in 0 .. MaxCrashes, stops' \in 0 .. MaxStops
  PROVE  Shape'
<1>1. file' \in Files /\ Beginning(file'.recorded) /\ file.recorded \subseteq file'.recorded
  BY DEF Shape, StartupTypeOK
<1>2. Fits(file', k)
  OBVIOUS
<1> QED
  BY <1>1, <1>2, ShapeStep

LEMMA Ended ==
  /\ Down \in Procs /\ Failed \in Procs
  /\ \A f : Fits(f, Down) /\ Fits(f, Failed)
<1>1. Down \in Procs /\ Failed \in Procs
  BY DEF Down, Failed, Procs
<1>2. /\ Down.known = {} /\ Down.step = "down"
      /\ Failed.known = {} /\ Failed.step = "failed"
  BY DEF Down, Failed
<1>3. ASSUME NEW f, NEW k \in {Down, Failed} PROVE Fits(f, k)
  <2>1. k.known = {} /\ k.step \in {"down", "failed"}
    BY <1>2
  <2> QED
    BY <2>1, Nothing DEF Fits
<1> QED
  BY <1>1, <1>3

\* A file with one more migration, and a process that knows of one more.
LEMMA OneMore ==
  ASSUME NEW f \in Files, NEW k \in Procs, NEW v \in Versions
  PROVE  /\ Migrated(f, v) \in Files
         /\ Migrated(f, v).applied = Append(f.applied, v)
         /\ Migrated(f, v).recorded = f.recorded \cup {v}
         /\ Migrated(f, v).blobs => f.blobs /\ v \notin Rebuilds
         /\ f.blobs /\ v \notin Rebuilds => Migrated(f, v).blobs
         /\ Checked(k, v) \in Procs
         /\ Checked(k, v).step = "loop" /\ Checked(k, v).enforced
         /\ Checked(k, v).known = k.known \cup {v}
<1> DEFINE a == Append(f.applied, v)
           r == f.recorded \cup {v}
           b == f.blobs /\ v \notin Rebuilds
           n == k.known \cup {v}
<1>1. a \in Seq(Versions)
  BY DEF Files
<1>2. r \in SUBSET Versions /\ n \in SUBSET Versions
  BY DEF Files, Procs
<1>3. b \in BOOLEAN
  OBVIOUS
<1>4. Migrated(f, v) = [f EXCEPT !.applied = a, !.recorded = r, !.blobs = b]
  BY DEF Migrated, Recorded
<1>5. Checked(k, v) = [k EXCEPT !.step = "loop", !.known = n, !.enforced = TRUE]
  BY DEF Checked
<1>6. b <=> f.blobs /\ v \notin Rebuilds
  OBVIOUS
<1> HIDE DEF a, r, b, n
<1>7. Migrated(f, v) \in Files
  BY <1>1, <1>2, <1>3, <1>4 DEF Files
<1>8. /\ Migrated(f, v).applied = a /\ Migrated(f, v).recorded = r
      /\ Migrated(f, v).blobs = b
  BY <1>4 DEF Files
<1>9. Checked(k, v) \in Procs
  BY <1>2, <1>5 DEF Procs
<1>10. Checked(k, v).step = "loop" /\ Checked(k, v).enforced /\ Checked(k, v).known = n
  BY <1>5 DEF Procs
<1> QED
  BY <1>6, <1>7, <1>8, <1>9, <1>10 DEF a, r, n

LEMMA OpeningTyped ==
  ASSUME Shape, NEW p \in Process, Opening(p)
  PROVE  Shape'
<1> DEFINE k == proc[p]
<1>1. /\ k \in Procs /\ Fits(file, k)
      /\ file \in Files /\ crashes \in 0 .. MaxCrashes /\ stops \in 0 .. MaxStops
      /\ Pending(p) # {} <=> k.known # Versions
      /\ Pending(p) # {} => NextVersion(p) \in Versions
  BY Known
<1>2. CASE ReadApplied(p)
  <2> DEFINE j == [k EXCEPT !.step = "loop", !.known = file.recorded]
  <2>1. Goes(p, j) /\ k.step = "read" /\ UNCHANGED <<file, crashes, stops>>
    BY <1>2 DEF ReadApplied, At
  <2>2. j \in Procs
    BY <1>1 DEF Procs, Files
  <2>3. Fits(file, j)
    BY <1>1, <2>1 DEF Fits, Shape, Procs
  <2> QED
    BY <1>1, <2>1, <2>2, <2>3, Alone
<1>3. CASE DisableKeys(p)
  <2> DEFINE j == [k EXCEPT !.step = "apply", !.enforced = FALSE]
  <2>1. Goes(p, j) /\ Pending(p) # {} /\ UNCHANGED <<file, crashes, stops>>
    BY <1>3 DEF DisableKeys
  <2>2. j \in Procs
    BY <1>1 DEF Procs
  <2>3. Fits(file, j)
    BY <1>1, <2>1 DEF Fits, Procs
  <2> QED
    BY <1>1, <2>1, <2>2, <2>3, Alone
<1>4. CASE ApplyMigration(p)
  <2> DEFINE v == NextVersion(p)
             j == [k EXCEPT !.step = "check"]
  <2>1. /\ Goes(p, j) /\ k.step = "apply" /\ UNCHANGED <<crashes, stops>>
        /\ file' = Migrated(file, v)
    BY <1>4 DEF ApplyMigration, At
  <2>2. j \in Procs
    BY <1>1 DEF Procs
  <2>3. PICK m \in 0 .. N : file.recorded = 1 .. m
    BY DEF Shape, Beginning
  <2>4. PICK i \in 0 .. N : k.known = 1 .. i
    BY <1>1 DEF Fits, Beginning
  <2>5. N \in Nat /\ Versions = 1 .. N
    BY Numbered
  <2>6. i < N /\ v = i + 1 /\ v \in Versions
    BY <1>1, <2>1, <2>4, Following DEF Fits
  <2>7. i <= m
    <3>1. 1 .. i \subseteq 1 .. m
      BY <1>1, <2>3, <2>4 DEF Fits
    <3>2. i > 0 => i \in 1 .. i
      BY <2>5
    <3>3. i > 0 => i \in 1 .. m
      BY <3>1, <3>2
    <3> QED
      BY <2>5, <3>3
  <2> HIDE DEF v
  <2>8. /\ file'.applied = Append(file.applied, v) /\ file'.recorded = file.recorded \cup {v}
        /\ file' \in Files
    BY <1>1, <2>1, <2>6, OneMore
  <2>9. Beginning(file'.recorded)
    <3>1. CASE i < m
      <4>1. file'.recorded = 1 .. m
        BY <2>3, <2>5, <2>6, <2>8, <3>1
      <4> QED
        BY <4>1 DEF Beginning
    <3>2. CASE i = m
      <4>1. file'.recorded = 1 .. (m + 1) /\ m + 1 \in 0 .. N
        BY <2>3, <2>5, <2>6, <2>8, <3>2
      <4> QED
        BY <4>1 DEF Beginning
    <3> QED
      BY <2>5, <2>7, <3>1, <3>2
  <2>10. v \notin k.known /\ v \in file'.recorded
    BY <2>4, <2>5, <2>6, <2>8
  <2>11. Fits(file', j)
    BY <1>1, <2>1, <2>8, <2>10 DEF Fits, Procs
  <2> QED
    BY <1>1, <2>1, <2>2, <2>8, <2>9, <2>11, ShapeStep
<1>5. CASE FailMigration(p)
  BY <1>1, <1>5, Ended, Alone DEF FailMigration
<1>6. CASE ForeignKeyCheck(p)
  <2> DEFINE v == NextVersion(p)
             j == Checked(k, v)
  <2>1. /\ Goes(p, IF file.sound THEN j ELSE Failed) /\ k.step = "check"
        /\ UNCHANGED <<file, crashes, stops>>
    BY <1>6 DEF ForeignKeyCheck, At
  <2>2. PICK m \in 0 .. N : file.recorded = 1 .. m
    BY DEF Shape, Beginning
  <2>3. PICK i \in 0 .. N : k.known = 1 .. i
    BY <1>1 DEF Fits, Beginning
  <2>4. N \in Nat /\ Versions = 1 .. N
    BY Numbered
  <2>5. i < N /\ v = i + 1 /\ v \in Versions
    BY <1>1, <2>1, <2>3, Following DEF Fits
  <2>6. i < m
    <3>1. 1 .. i \subseteq 1 .. m /\ i # m
      BY <1>1, <2>1, <2>2, <2>3 DEF Fits
    <3>2. i > 0 => i \in 1 .. i
      BY <2>4
    <3>3. i > 0 => i \in 1 .. m
      BY <3>1, <3>2
    <3> QED
      BY <2>4, <3>1, <3>3
  <2> HIDE DEF v
  <2>7. j \in Procs /\ j.step = "loop" /\ j.known = k.known \cup {v} /\ j.enforced
    BY <1>1, <2>5, OneMore
  <2>8. j.known = 1 .. (i + 1) /\ i + 1 \in 0 .. N
    <3>1. j.known = (1 .. i) \cup {i + 1} /\ i \in Nat
      BY <2>3, <2>4, <2>5, <2>7
    <3>2. (1 .. i) \cup {i + 1} = 1 .. (i + 1)
      BY <3>1
    <3>3. i + 1 \in 0 .. N
      BY <2>4, <2>5
    <3> QED
      BY <3>1, <3>2, <3>3
  <2>9. j.known \subseteq file.recorded
    BY <2>2, <2>4, <2>6, <2>8
  <2>10. Fits(file, j)
    BY <2>7, <2>8, <2>9 DEF Fits, Beginning
  <2> QED
    BY <1>1, <2>1, <2>7, <2>10, Ended, Alone
<1>7. CASE Opened(p)
  <2> DEFINE j == [k EXCEPT !.step = "open"]
  <2>1. Goes(p, j) /\ k.step = "loop" /\ Pending(p) = {} /\ UNCHANGED <<file, crashes, stops>>
    BY <1>7 DEF Opened, At
  <2>2. j \in Procs
    BY <1>1 DEF Procs
  <2>3. Fits(file, j)
    BY <1>1, <2>1 DEF Fits, Procs
  <2> QED
    BY <1>1, <2>1, <2>2, <2>3, Alone
<1> QED
  BY <1>2, <1>3, <1>4, <1>5, <1>6, <1>7 DEF Opening

\* The open processes, and those that come and go.
Otherwise(p) == Start(p) \/ Crash(p)
Working == SetPassword \/ GiveUp \/ ServerWrites \/ Terminate \/ Exit

LEMMA OtherwiseTyped ==
  ASSUME Shape, NEW p \in Process, Otherwise(p)
  PROVE  Shape'
<1>1. crashes \in 0 .. MaxCrashes /\ stops \in 0 .. MaxStops /\ {MaxCrashes, MaxStops} \subseteq Nat
  BY StartupAssumption DEF Shape, StartupTypeOK
<1>2. CASE Start(p)
  <2> DEFINE j == [step |-> "read", known |-> {}, enforced |-> TRUE]
  <2>1. j \in Procs /\ Fits(file, j)
    BY Nothing DEF Procs, Fits
  <2> QED
    BY <1>1, <1>2, <2>1, Alone DEF Start
<1>3. CASE Crash(p)
  <2>1. crashes' \in 0 .. MaxCrashes /\ stops' \in 0 .. MaxStops /\ file' = file /\ Goes(p, Failed)
    BY <1>1, <1>3 DEF Crash
  <2> QED
    BY <2>1, Ended, Alone
<1> QED
  BY <1>2, <1>3 DEF Otherwise

LEMMA WorkingTyped ==
  ASSUME Shape, Working
  PROVE  Shape'
<1>1. crashes \in 0 .. MaxCrashes /\ stops \in 0 .. MaxStops /\ {MaxCrashes, MaxStops} \subseteq Nat
  BY StartupAssumption DEF Shape, StartupTypeOK
<1>2. "server" \in Process /\ "tool" \in Process
  BY DEF Process
<1>3. file \in Files /\ Beginning(file.recorded)
  BY DEF Shape, StartupTypeOK
<1>4. CASE SetPassword
  <2>1. /\ file' = [file EXCEPT !.password = @ + 1] /\ Goes("tool", Down)
        /\ UNCHANGED <<crashes, stops>>
    BY <1>4 DEF SetPassword
  <2>2. file' \in Files /\ file'.recorded = file.recorded
    BY <1>3, <2>1 DEF Files
  <2> QED
    BY <1>1, <1>2, <1>3, <2>1, <2>2, Ended, ShapeStep
<1>5. CASE GiveUp
  BY <1>1, <1>2, <1>5, Ended, Alone DEF GiveUp
<1>6. CASE ServerWrites
  <2>1. /\ file' \in {[file EXCEPT !.blobs = TRUE], [file EXCEPT !.sound = FALSE]}
        /\ UNCHANGED <<proc, crashes, stops>>
    BY <1>6 DEF ServerWrites
  <2>2. file' \in Files /\ file'.recorded = file.recorded
    BY <1>3, <2>1 DEF Files
  <2>3. \A p \in Process : Fits(file', proc[p])
    BY <2>2, FitsLater DEF Shape
  <2> QED
    BY <2>1, <2>2, <2>3 DEF Shape, StartupTypeOK
<1>7. CASE Terminate
  <2> DEFINE k == proc["server"]
             j == [k EXCEPT !.step = "drain"]
  <2>1. /\ Goes("server", j) /\ k.step = "open" /\ file' = file
        /\ crashes' \in 0 .. MaxCrashes /\ stops' \in 0 .. MaxStops
    BY <1>1, <1>7 DEF Terminate, At
  <2>2. k \in Procs /\ Fits(file, k)
    BY <1>2, Known
  <2>3. j \in Procs /\ Fits(file, j)
    BY <2>1, <2>2 DEF Procs, Fits
  <2> QED
    BY <1>2, <2>1, <2>3, Alone
<1>8. CASE Exit
  BY <1>1, <1>2, <1>8, Ended, Alone DEF Exit
<1> QED
  BY <1>4, <1>5, <1>6, <1>7, <1>8 DEF Working

LEMMA Starting == PInit => Shape
<1> SUFFICES ASSUME PInit PROVE Shape
  OBVIOUS
<1>1. N \in Nat \ {0} /\ Versions = 1 .. N /\ {MaxCrashes, MaxStops} \subseteq Nat
  BY Numbered, StartupAssumption
<1>2. 1 \in Versions /\ {} = 1 .. 0 /\ {1} = 1 .. 1 /\ 0 \in 0 .. N /\ 1 \in 0 .. N
  BY <1>1
<1>3. <<>> \in Seq(Versions) /\ <<1>> \in Seq(Versions)
  BY <1>2
<1>4. file \in Files /\ file.recorded \in {{}, {1}}
  <2> DEFINE new == [applied |-> <<>>, recorded |-> {}, sound |-> TRUE,
                     blobs |-> FALSE, password |-> 0]
             old(s) == [applied |-> <<1>>, recorded |-> {1}, sound |-> s,
                        blobs |-> FALSE, password |-> 1]
  <2>1. file = new \/ \E s \in BOOLEAN : file = old(s)
    BY DEF PInit
  <2>2. new \in Files /\ new.recorded = {}
    BY <1>3 DEF Files
  <2>3. ASSUME NEW s \in BOOLEAN PROVE old(s) \in Files /\ old(s).recorded = {1}
    <3>1. {1} \in SUBSET Versions
      BY <1>2
    <3> QED
      BY <1>3, <3>1 DEF Files
  <2> HIDE DEF new, old
  <2> QED
    BY <2>1, <2>2, <2>3
<1>5. Beginning(file.recorded)
  BY <1>2, <1>4 DEF Beginning
<1>6. proc \in [Process -> Procs] /\ \A p \in Process : Fits(file, proc[p])
  BY Ended DEF PInit
<1> QED
  BY <1>1, <1>4, <1>5, <1>6 DEF PInit, Shape, StartupTypeOK

LEMMA Steps ==
  PNext <=> (\E p \in Process : Opening(p) \/ Otherwise(p)) \/ Working
  BY DEF PNext, Otherwise, Working

LEMMA ShapeKept ==
  ASSUME Shape, [PNext]_pvars
  PROVE  Shape'
<1>1. CASE UNCHANGED pvars
  BY <1>1 DEF pvars, Shape, StartupTypeOK, Fits
<1> QED
  BY <1>1, Steps, OpeningTyped, OtherwiseTyped, WorkingTyped

\* Whatever the processes do to each other, the file and what each knows keep
\* their types, and each knows the first so many migrations.
THEOREM Shaped == PSpec => []Shape
<1>1. PInit => Shape
  BY Starting
<1>2. Shape /\ [PNext]_pvars => Shape'
  BY ShapeKept
<1> QED
  BY <1>1, <1>2, PTL DEF PSpec

\* The state keeps its type, in whatever order processes start, apply and die.
THEOREM StartupTyped == PSpec => []StartupTypeOK
<1>1. Shape => StartupTypeOK
  BY DEF Shape
<1> QED
  BY <1>1, Shaped, PTL

------------------------------------------------------------------------------
(* One after the other. *)

\* A step of p is none of q.
LEMMA Bystander ==
  ASSUME Shape, NEW p \in Process, NEW k, Goes(p, k), NEW q \in Process, q # p
  PROVE  /\ Migrating(q)' <=> Migrating(q)
         /\ Lagging(q)' <=> Lagging(q)
         /\ file'.recorded = file.recorded => (Leading(q)' <=> Leading(q))
<1>1. proc'[q] = proc[q]
  BY DEF Shape, StartupTypeOK, Goes
<1>2. (Migrating(q)' <=> Migrating(q)) /\ (Lagging(q)' <=> Lagging(q))
  BY <1>1 DEF Migrating, Pending, Lagging
<1>3. ASSUME file'.recorded = file.recorded PROVE Leading(q)' <=> Leading(q)
  BY <1>1, <1>3 DEF Leading, At
<1> QED
  BY <1>2, <1>3

\* p stops migrating, or goes on with what it knew; the list of migrations stays.
LEMMA Quietly ==
  ASSUME IInv, Shape', NEW p \in Process, NEW k, Goes(p, k),
         file'.applied = file.applied, file'.recorded = file.recorded,
         file'.blobs => file.blobs,
         \/ ~Migrating(p)'
         \/ /\ Migrating(p) /\ k.known = proc[p].known
            /\ k.step \in {"loop", "apply"} /\ proc[p].step \in {"loop", "apply"}
  PROVE  IInv'
<1>1. Shape /\ AppliedInOrder /\ InTurn
  BY DEF IInv
<1>2. proc'[p] = k
  BY <1>1 DEF Shape, StartupTypeOK, Goes
<1>3. ASSUME Migrating(p)'
      PROVE  Migrating(p) /\ (Lagging(p)' <=> Lagging(p)) /\ (Leading(p)' <=> Leading(p))
  BY <1>2, <1>3 DEF Lagging, Leading, At
<1>4. \A q \in Process : Migrating(q)' =>
        Migrating(q) /\ (Lagging(q)' <=> Lagging(q)) /\ (Leading(q)' <=> Leading(q))
  BY <1>1, <1>3, Bystander
<1>5. InTurn'
  BY <1>1, <1>4 DEF InTurn
<1>6. AppliedInOrder' /\ (file'.blobs => Len(file'.applied) = N)
  BY DEF IInv, AppliedInOrder
<1> QED
  BY <1>5, <1>6 DEF IInv

LEMMA Leaves ==
  ASSUME IInv, Shape', NEW p \in Process, NEW k, Goes(p, k), k.step \notin {"loop", "apply", "check"},
         file'.applied = file.applied, file'.recorded = file.recorded, file'.blobs => file.blobs
  PROVE  IInv'
<1>1. proc'[p] = k
  BY DEF IInv, Shape, StartupTypeOK, Goes
<1>2. ~Migrating(p)'
  BY <1>1 DEF Migrating
<1> QED
  BY <1>2, Quietly

LEMMA ReadingInTurn ==
  ASSUME ~Beside, IInv, Shape', NEW p \in Process, ReadApplied(p)
  PROVE  IInv'
<1> DEFINE k == [proc[p] EXCEPT !.step = "loop", !.known = file.recorded]
<1>1. /\ Goes(p, k) /\ file' = file
      /\ file.applied = <<>> \/ \A q \in Process : ~Migrating(q)
  BY DEF ReadApplied
<1>2. Shape /\ AppliedInOrder /\ InTurn /\ proc[p] \in Procs
  BY Known DEF IInv
<1>3. proc'[p] = k /\ k.step = "loop" /\ k.known = file.recorded
  BY <1>1, <1>2 DEF Shape, StartupTypeOK, Goes, Procs
<1>4. Leading(p)'
  BY <1>1, <1>3 DEF Leading, At
<1>5. \A q \in Process : Migrating(q)' => Lagging(q)' \/ Leading(q)'
  <2>1. ASSUME NEW q \in Process, q # p, Migrating(q)' PROVE Lagging(q)' \/ Leading(q)'
    BY <1>1, <1>2, <2>1, Bystander DEF InTurn
  <2> QED
    BY <1>4, <2>1
<1>6. ASSUME file'.applied # <<>>, NEW q \in Process, NEW r \in Process, q # r,
             Migrating(q)', Migrating(r)'
      PROVE  FALSE
  <2>1. PICK s \in Process : s # p /\ Migrating(s)'
    BY <1>6
  <2> QED
    BY <1>1, <1>2, <1>6, <2>1, Bystander
<1>7. InTurn'
  BY <1>5, <1>6 DEF InTurn
<1> QED
  BY <1>1, <1>7 DEF IInv, AppliedInOrder

LEMMA ApplyingInTurn ==
  ASSUME IInv, Shape', NEW p \in Process, ApplyMigration(p)
  PROVE  IInv'
<1> DEFINE k == proc[p]
           j == [k EXCEPT !.step = "check"]
           v == NextVersion(p)
           n == Len(file.applied)
<1>1. /\ Goes(p, j) /\ k.step = "apply" /\ ~Refused(v) /\ file' = Migrated(file, v)
  BY DEF ApplyMigration, At
<1>2. Shape /\ AppliedInOrder /\ InTurn
  BY DEF IInv
<1>3. /\ k \in Procs /\ Fits(file, k) /\ file \in Files
      /\ Pending(p) # {} <=> k.known # Versions
  BY <1>2, Known
<1>4. Pending(p) # {} /\ Migrating(p)
  BY <1>1, <1>3 DEF Fits, Migrating
<1>5. PICK i \in 0 .. N : k.known = 1 .. i
  BY <1>3 DEF Fits, Beginning
<1>6. i < N /\ v = i + 1 /\ v \in Versions
  BY <1>4, <1>5, Following
<1>7. n \in Nat /\ file.recorded = 1 .. n /\ file.applied \in Seq(Versions) /\ N \in Nat
  BY <1>2, <1>3, Numbered DEF AppliedInOrder, Files
<1>8. k.known = file.recorded
  <2>1. CASE Lagging(p)
    <3>1. i = 0
      <4>1. k.known = {} /\ i \in Nat
        BY <1>7, <2>1 DEF Lagging
      <4>2. i > 0 => 1 \in k.known
        BY <1>5, <4>1
      <4> QED
        BY <4>1, <4>2
    <3>2. file.applied = <<>>
      BY <1>1, <1>6, <3>1 DEF Refused
    <3> QED
      BY <1>5, <1>7, <3>1, <3>2
  <2>2. CASE Leading(p)
    BY <1>1, <2>2 DEF Leading, At
  <2> QED
    BY <1>2, <1>4, <2>1, <2>2 DEF InTurn
<1>9. i = n
  <2>1. (n > 0 => n \in 1 .. i) /\ (i > 0 => i \in 1 .. n)
    BY <1>5, <1>7, <1>8
  <2> QED
    BY <1>7, <2>1
<1> HIDE DEF v
<1>10. /\ file'.applied = Append(file.applied, v) /\ file'.recorded = file.recorded \cup {v}
       /\ file'.blobs => file.blobs
  BY <1>1, <1>3, <1>6, OneMore
<1>11. /\ Len(file'.applied) = n + 1 /\ file'.recorded = 1 .. (n + 1)
       /\ file'.applied # <<>>
       /\ \A a \in 1 .. n : file'.applied[a] = file.applied[a]
       /\ file'.applied[n + 1] = n + 1
  <2> DEFINE s == file.applied
  <2>1. v = n + 1 /\ n = Len(s) /\ s \in Seq(Versions)
    BY <1>6, <1>7, <1>9
  <2>2. (1 .. n) \cup {n + 1} = 1 .. (n + 1)
    BY <1>7
  <2> HIDE DEF s, n
  <2>3. /\ Len(Append(s, v)) = n + 1 /\ Append(s, v)[n + 1] = v
        /\ \A a \in 1 .. n : Append(s, v)[a] = s[a]
    BY <1>6, <1>7, <2>1
  <2>4. Append(s, v) # <<>>
    BY <1>7, <2>3
  <2> USE DEF s
  <2> QED
    BY <1>7, <1>10, <2>1, <2>2, <2>3, <2>4
<1>12. AppliedInOrder'
  <2>1. \A a \in 1 .. (n + 1) : a \in 1 .. n \/ a = n + 1
    BY <1>7
  <2>2. \A a \in 1 .. (n + 1) : file'.applied[a] = a
    BY <1>2, <1>11, <2>1 DEF AppliedInOrder
  <2> QED
    BY <1>11, <2>2 DEF AppliedInOrder
<1>13. proc'[p] = j /\ j.step = "check" /\ j.known = k.known
  BY <1>1, <1>2, <1>3 DEF Shape, StartupTypeOK, Goes, Procs
<1>14. Leading(p)'
  <2>1. proc'[p].known = 1 .. ((n + 1) - 1) /\ n + 1 \in 1 .. N
    BY <1>5, <1>6, <1>7, <1>9, <1>13
  <2> QED
    BY <1>11, <1>13, <2>1 DEF Leading, At
<1>15. ASSUME NEW q \in Process, q # p, Migrating(q)' PROVE Lagging(q)'
  <2>1. Migrating(q) /\ (Lagging(q)' <=> Lagging(q))
    BY <1>1, <1>2, <1>15, Bystander
  <2>2. CASE file.applied = <<>>
    <3>1. file.recorded = {}
      BY <1>7, <2>2
    <3>2. Fits(file, proc[q])
      BY <1>2 DEF Shape
    <3> QED
      BY <2>1, <3>1, <3>2 DEF Migrating, Lagging, Fits
  <2>3. CASE file.applied # <<>>
    <3>1. ~Lagging(p)
      <4>1. n # 0
        BY <1>7, <2>3
      <4>2. 1 \in k.known
        BY <1>5, <1>7, <1>9, <4>1
      <4> QED
        BY <4>2 DEF Lagging
    <3> QED
      BY <1>2, <1>4, <1>15, <2>1, <2>3, <3>1 DEF InTurn
  <2> QED
    BY <2>2, <2>3
<1>16. InTurn'
  BY <1>14, <1>15 DEF InTurn
<1>17. ~file'.blobs
  <2>1. i # N
    BY <1>6, <1>7
  <2> QED
    BY <1>9, <1>10, <2>1 DEF IInv
<1> QED
  BY <1>12, <1>16, <1>17 DEF IInv

LEMMA CheckingInTurn ==
  ASSUME IInv, Shape', NEW p \in Process, ForeignKeyCheck(p)
  PROVE  IInv'
<1> DEFINE k == proc[p]
           v == NextVersion(p)
           j == Checked(k, v)
<1>1. /\ Goes(p, IF file.sound THEN j ELSE Failed) /\ k.step = "check" /\ file' = file
  BY DEF ForeignKeyCheck, At
<1>2. CASE ~file.sound
  <2>1. Failed.step = "failed"
    BY DEF Failed, Down
  <2> QED
    BY <1>1, <1>2, <2>1, Leaves
<1>3. CASE file.sound
  <2>1. Shape /\ AppliedInOrder /\ InTurn
    BY DEF IInv
  <2>2. /\ k \in Procs /\ Fits(file, k) /\ file \in Files
        /\ Pending(p) # {} <=> k.known # Versions
    BY <2>1, Known
  <2>3. Migrating(p) /\ ~Lagging(p)
    BY <1>1, <2>2 DEF Fits, Migrating, Lagging
  <2>4. Leading(p)
    BY <2>1, <2>3 DEF InTurn
  <2>5. PICK i \in 1 .. N : k.known = 1 .. (i - 1) /\ file.recorded = 1 .. i
    BY <1>1, <2>4 DEF Leading, At
  <2>6. N \in Nat /\ i - 1 \in 0 .. N
    BY Numbered
  <2>7. v = (i - 1) + 1 /\ v \in Versions
    BY <2>5, <2>6, Following
  <2> HIDE DEF v
  <2>8. j.step = "loop" /\ j.known = k.known \cup {v}
    BY <2>2, <2>7, OneMore
  <2>9. j.known = file.recorded
    <3>1. (1 .. (i - 1)) \cup {i} = 1 .. i /\ v = i
      BY <2>6, <2>7
    <3> QED
      BY <2>5, <2>8, <3>1
  <2>10. proc'[p] = j /\ Goes(p, j)
    BY <1>1, <1>3, <2>1 DEF Shape, StartupTypeOK, Goes
  <2> HIDE DEF j
  <2>11. Leading(p)'
    BY <1>1, <2>8, <2>9, <2>10 DEF Leading, At
  <2>12. \A q \in Process : q # p =>
          /\ Migrating(q)' <=> Migrating(q)
          /\ Lagging(q)' <=> Lagging(q)
          /\ Leading(q)' <=> Leading(q)
    BY <1>1, <2>1, <2>10, Bystander
  <2>13. InTurn'
    BY <1>1, <2>1, <2>3, <2>11, <2>12 DEF InTurn
  <2> QED
    BY <1>1, <2>13 DEF IInv, AppliedInOrder
<1> QED
  BY <1>2, <1>3

LEMMA OpeningInTurn ==
  ASSUME ~Beside, IInv, Shape', NEW p \in Process, Opening(p)
  PROVE  IInv'
<1>1. CASE ReadApplied(p)
  BY <1>1, ReadingInTurn
<1>2. CASE DisableKeys(p)
  <2> DEFINE k == [proc[p] EXCEPT !.step = "apply", !.enforced = FALSE]
  <2>1. Goes(p, k) /\ proc[p].step = "loop" /\ Pending(p) # {} /\ file' = file
    BY <1>2 DEF DisableKeys, At
  <2>2. k.known = proc[p].known /\ k.step = "apply"
    BY Known DEF IInv, Procs
  <2>3. Migrating(p)
    BY <2>1 DEF Migrating
  <2> QED
    BY <2>1, <2>2, <2>3, Quietly
<1>3. CASE ApplyMigration(p)
  BY <1>3, ApplyingInTurn
<1>4. CASE FailMigration(p)
  <2>1. Goes(p, Failed) /\ file' = file /\ Failed.step = "failed"
    BY <1>4 DEF FailMigration, Failed, Down
  <2> QED
    BY <2>1, Leaves
<1>5. CASE ForeignKeyCheck(p)
  BY <1>5, CheckingInTurn
<1>6. CASE Opened(p)
  <2> DEFINE k == [proc[p] EXCEPT !.step = "open"]
  <2>1. Goes(p, k) /\ file' = file
    BY <1>6 DEF Opened
  <2>2. k.step = "open"
    BY Known DEF IInv, Procs
  <2> QED
    BY <2>1, <2>2, Leaves
<1> QED
  BY <1>1, <1>2, <1>3, <1>4, <1>5, <1>6 DEF Opening

LEMMA OtherwiseInTurn ==
  ASSUME IInv, Shape', NEW p \in Process, Otherwise(p)
  PROVE  IInv'
<1>1. PICK k \in {[step |-> "read", known |-> {}, enforced |-> TRUE], Failed} :
        Goes(p, k) /\ file' = file
  BY DEF Otherwise, Start, Crash
<1>2. k.step \in {"read", "failed"}
  BY <1>1 DEF Failed, Down
<1> QED
  BY <1>1, <1>2, Leaves

LEMMA WorkingInTurn ==
  ASSUME IInv, Shape', Working
  PROVE  IInv'
<1>1. file \in Files /\ "server" \in Process /\ "tool" \in Process
  BY DEF IInv, Shape, StartupTypeOK, Process
<1>2. Down.step = "down" /\ Failed.step = "failed"
  BY DEF Failed, Down
<1>3. CASE SetPassword
  <2>1. Goes("tool", Down) /\ file' = [file EXCEPT !.password = @ + 1]
    BY <1>3 DEF SetPassword
  <2>2. /\ file'.applied = file.applied /\ file'.recorded = file.recorded
        /\ file'.blobs = file.blobs
    BY <1>1, <2>1 DEF Files
  <2> QED
    BY <1>1, <1>2, <2>1, <2>2, Leaves
<1>4. CASE GiveUp
  BY <1>1, <1>2, <1>4, Leaves DEF GiveUp
<1>5. CASE ServerWrites
  <2>1. /\ proc["server"].step = "open" /\ proc' = proc
        /\ file' \in {[file EXCEPT !.blobs = TRUE], [file EXCEPT !.sound = FALSE]}
    BY <1>5 DEF ServerWrites, At
  <2>2. file'.applied = file.applied /\ file'.recorded = file.recorded
    BY <1>1, <2>1 DEF Files
  <2>3. Len(file.applied) = N
    <3>1. Versions \subseteq file.recorded /\ file.recorded = 1 .. Len(file.applied)
      BY <1>1, <2>1 DEF IInv, Shape, Fits, AppliedInOrder
    <3>2. file.recorded \subseteq Versions /\ Len(file.applied) \in Nat
      BY <1>1 DEF Files
    <3>3. N \in 1 .. Len(file.applied) /\ (Len(file.applied) > 0 => Len(file.applied) \in 1 .. N)
      BY <3>1, <3>2, Numbered
    <3> QED
      BY <3>2, <3>3, Numbered
  <2>4. AppliedInOrder' /\ (file'.blobs => Len(file'.applied) = N)
    BY <2>2, <2>3 DEF IInv, AppliedInOrder
  <2>5. InTurn'
    BY <2>1, <2>2 DEF IInv, InTurn, Migrating, Pending, Lagging, Leading, At
  <2> QED
    BY <2>4, <2>5 DEF IInv
<1>6. CASE Terminate
  <2> DEFINE k == [proc["server"] EXCEPT !.step = "drain"]
  <2>1. Goes("server", k) /\ file' = file
    BY <1>6 DEF Terminate
  <2>2. k.step = "drain"
    BY <1>1, Known DEF IInv, Procs
  <2> QED
    BY <1>1, <2>1, <2>2, Leaves
<1>7. CASE Exit
  BY <1>1, <1>2, <1>7, Leaves DEF Exit
<1> QED
  BY <1>3, <1>4, <1>5, <1>6, <1>7 DEF Working

LEMMA StartingInTurn == PInit => IInv
<1> SUFFICES ASSUME PInit PROVE IInv
  OBVIOUS
<1>1. \A p \in Process : ~Migrating(p)
  BY DEF PInit, Down, Migrating
<1>2. InTurn
  BY <1>1 DEF InTurn
<1>3. CASE file.applied = <<>> /\ file.recorded = {} /\ ~file.blobs
  BY <1>2, <1>3, Starting DEF IInv, AppliedInOrder
<1>4. CASE file.applied = <<1>> /\ file.recorded = {1} /\ ~file.blobs
  BY <1>2, <1>4, Starting DEF IInv, AppliedInOrder
<1> QED
  BY <1>3, <1>4 DEF PInit

\* Whatever is started, stopped or killed when, the processes take turns.
THEOREM Inductive == ASSUME ~Beside PROVE PSpec => []IInv
<1>1. PInit => IInv
  BY StartingInTurn
<1>2. IInv /\ [PNext]_pvars => IInv'
  <2> SUFFICES ASSUME IInv, [PNext]_pvars PROVE IInv'
    OBVIOUS
  <2>1. CASE UNCHANGED pvars
    BY <2>1 DEF pvars, IInv, Shape, StartupTypeOK, Fits, AppliedInOrder, InTurn,
                Migrating, Pending, Lagging, Leading, At
  <2>2. ASSUME NEW p \in Process, Opening(p) PROVE IInv'
    <3>1. Shape'
      BY <2>2, OpeningTyped DEF IInv
    <3> QED
      BY <2>2, <3>1, OpeningInTurn
  <2>3. ASSUME NEW p \in Process, Otherwise(p) PROVE IInv'
    <3>1. Shape'
      BY <2>3, OtherwiseTyped DEF IInv
    <3> QED
      BY <2>3, <3>1, OtherwiseInTurn
  <2>4. CASE Working
    <3>1. Shape'
      BY <2>4, WorkingTyped DEF IInv
    <3> QED
      BY <2>4, <3>1, WorkingInTurn
  <2> QED
    BY <2>1, <2>2, <2>3, <2>4, Steps
<1> QED
  BY <1>1, <1>2, PTL DEF PSpec

\* Each migration is applied once, in order, and recorded exactly then.
THEOREM MigrationsOnce == ASSUME ~Beside PROVE PSpec => []AppliedInOrder
<1>1. IInv => AppliedInOrder
  BY DEF IInv
<1> QED
  BY <1>1, Inductive, PTL

\* The server serves with every migration applied and foreign keys enforced.
THEOREM ServesAfterAll == ASSUME ~Beside PROVE PSpec => []ServesEnforced
<1>1. ASSUME IInv PROVE ServesEnforced
  <2> SUFFICES ASSUME At("server", "open")
               PROVE  proc["server"].enforced /\ Len(file.applied) = N
    BY DEF ServesEnforced, N
  <2>1. "server" \in Process
    BY DEF Process
  <2>2. Fits(file, proc["server"]) /\ file \in Files
    BY <1>1, <2>1 DEF IInv, Shape, StartupTypeOK
  <2>3. Versions \subseteq file.recorded /\ file.recorded = 1 .. Len(file.applied)
    BY <1>1, <2>2 DEF IInv, Fits, AppliedInOrder, At
  <2>4. file.recorded \subseteq Versions /\ Len(file.applied) \in Nat
    BY <2>2 DEF Files
  <2>5. N \in 1 .. Len(file.applied) /\ (Len(file.applied) > 0 => Len(file.applied) \in 1 .. N)
    BY <2>3, <2>4, Numbered
  <2>6. Len(file.applied) = N
    BY <2>4, <2>5, Numbered
  <2> QED
    BY <2>2, <2>6 DEF Fits, At
<1> QED
  BY <1>1, Inductive, PTL

\* No start, of whichever process, applies a migration that loses recordings.
THEOREM RecordingsKept == ASSUME ~Beside PROVE PSpec => RecordingsSurvive
<1>1. IInv /\ IInv' /\ [PNext]_pvars => [file.blobs => file'.blobs]_pvars
  <2> SUFFICES ASSUME IInv, IInv', PNext, file.blobs PROVE file'.blobs
    BY DEF pvars
  <2>1. file \in Files /\ file' \in Files
    BY DEF IInv, Shape, StartupTypeOK
  <2>2. ASSUME NEW p \in Process, ApplyMigration(p) PROVE FALSE
    <3> DEFINE v == NextVersion(p)
    <3>1. v \in Versions
      <4>1. proc[p].known # Versions
        BY <2>2 DEF IInv, Shape, Fits, ApplyMigration, At
      <4> QED
        BY <4>1, Known DEF IInv
    <3>2. file' = Migrated(file, v)
      BY <2>2 DEF ApplyMigration
    <3>3. proc[p] \in Procs
      BY Known DEF IInv
    <3> HIDE DEF v
    <3>4. file'.applied = Append(file.applied, v) /\ file.applied \in Seq(Versions)
      BY <2>1, <3>1, <3>2, <3>3, OneMore DEF Files
    <3>5. Len(file.applied) = N
      BY DEF IInv
    <3>6. Len(file'.applied) = N + 1
      BY <3>1, <3>4, <3>5
    <3>7. file'.recorded = 1 .. (N + 1) /\ file'.recorded \subseteq Versions
      BY <2>1, <3>6 DEF IInv, AppliedInOrder, Files
    <3> QED
      BY <3>7, Numbered
  <2>3. ASSUME NEW p \in Process, Opening(p), ~ApplyMigration(p) PROVE file' = file
    BY <2>3 DEF Opening, ReadApplied, DisableKeys, FailMigration, ForeignKeyCheck, Opened
  <2>4. ASSUME NEW p \in Process, Otherwise(p) PROVE file' = file
    BY <2>4 DEF Otherwise, Start, Crash
  <2>5. CASE Working
    <3>1. file' \in {file, [file EXCEPT !.blobs = TRUE], [file EXCEPT !.sound = FALSE],
                     [file EXCEPT !.password = @ + 1]}
      BY <2>5 DEF Working, SetPassword, GiveUp, ServerWrites, Terminate, Exit
    <3> QED
      BY <2>1, <3>1 DEF Files
  <2> QED
    BY <2>2, <2>3, <2>4, <2>5, Steps
<1> QED
  BY <1>1, Inductive, PTL DEF PSpec, RecordingsSurvive

------------------------------------------------------------------------------
(* Sessions. *)

LoginRequest == [kind : {"login"}, step : {"sent", "verify"}, pw : 1 .. 2, at : Nat, hash : Nat]
ApiRequest == [kind : {"api"}, step : {"sent", "found"}, token : Token, at : Nat]
LogoutRequest == [kind : {"logout"}, step : {"sent"}, token : Token]
Request == LoginRequest \cup ApiRequest \cup LogoutRequest \cup {NoRequest}

AccessTypeOK ==
  /\ sessions \in [Token -> Nat \cup {NoSession}]
  /\ cookie \in [Browser -> [token : Token, until : Nat] \cup {NoCookie}]
  /\ request \in [Browser -> [Slots -> Request]]
  /\ now \in Nat
  /\ revoked \subseteq Token
  /\ used \in [Browser -> Nat]

\* The time a handler works with was read at most MaxHandling ago.
Fresh(r) == r # NoRequest /\ r.step # "sent" => r.at <= now /\ now <= r.at + MaxHandling

Timely == \A b \in Browser : used[b] <= now /\ \A s \in Slots : Fresh(request[b][s])

\* SessionSlides and LoggedOutForGood are not inductive without Timely: an UPDATE
\* may carry an older time than the last one.
AInv == Shape /\ AccessTypeOK /\ Timely /\ LoggedOutForGood /\ SessionSlides

------------------------------------------------------------------------------
(* Requests. *)

LEMMA Bounds == /\ {TTL, MaxHandling, MaxTime} \subseteq Nat
                /\ NoSession \notin Nat
  BY AccessAssumption

\* A request becomes r.
LEMMA Becoming ==
  ASSUME AInv, NEW b \in Browser, NEW s \in Slots, NEW r \in Request,
         request' = [request EXCEPT ![b][s] = r], now' = now, Fresh(r)
  PROVE  /\ request' \in [Browser -> [Slots -> Request]]
         /\ \A c \in Browser, t \in Slots : Fresh(request[c][t])'
<1>1. request \in [Browser -> [Slots -> Request]]
  BY DEF AInv, AccessTypeOK
<1>2. request' \in [Browser -> [Slots -> Request]]
  BY <1>1
<1>3. ASSUME NEW c \in Browser, NEW t \in Slots PROVE Fresh(request[c][t])'
  <2>1. request'[c][t] = IF c = b /\ t = s THEN r ELSE request[c][t]
    BY <1>1
  <2>2. Fresh(request[c][t])
    BY DEF AInv, Timely
  <2> QED
    BY <2>1, <2>2 DEF Fresh
<1> QED
  BY <1>2, <1>3

\* Nothing but a request changes, besides the limiter.
LEMMA OnlyRequest ==
  ASSUME AInv, Shape', NEW b \in Browser, NEW s \in Slots, NEW r \in Request, Fresh(r),
         request' = [request EXCEPT ![b][s] = r],
         UNCHANGED <<sessions, cookie, now, revoked, used>>
  PROVE  AInv'
<1>1. /\ request' \in [Browser -> [Slots -> Request]]
      /\ \A c \in Browser, t \in Slots : Fresh(request[c][t])'
  BY Becoming
<1>2. AccessTypeOK' /\ Timely'
  BY <1>1 DEF AInv, AccessTypeOK, Timely
<1>3. LoggedOutForGood' /\ SessionSlides'
  BY DEF AInv, LoggedOutForGood, SessionSlides
<1> QED
  BY <1>2, <1>3 DEF AInv

LEMMA Sending ==
  ASSUME AInv, Shape', NEW b \in Browser, NEW r \in Request, r.step = "sent", Send(b, r)
  PROVE  AInv'
<1>1. PICK s \in Slots : request' = [request EXCEPT ![b][s] = r]
  BY DEF Send
<1> QED
  BY <1>1, OnlyRequest DEF Send, Fresh

\* What a request that is at a step is.
LEMMA AtStep ==
  ASSUME AInv, NEW b \in Browser, NEW s \in Slots
  PROVE  /\ request[b][s] \in Request /\ Fresh(request[b][s])
         /\ \A step : Is(b, s, "login", step) => request[b][s] \in LoginRequest
         /\ \A step : Is(b, s, "api", step) => request[b][s] \in ApiRequest
         /\ \A step : Is(b, s, "logout", step) => request[b][s] \in LogoutRequest
<1>1. request[b][s] \in Request /\ Fresh(request[b][s])
  BY DEF AInv, AccessTypeOK, Timely
<1> QED
  BY <1>1 DEF Is, Request, LoginRequest, ApiRequest, LogoutRequest

LEMMA None == NoRequest \in Request /\ Fresh(NoRequest)
  BY DEF Request, Fresh

------------------------------------------------------------------------------
(* Logging in. *)

LEMMA AllowKeeps ==
  ASSUME AInv, Shape', NEW b \in Browser, NEW s \in Slots, AllowLogin(b, s)
  PROVE  AInv'
<1> DEFINE q == request[b][s]
           r == [q EXCEPT !.step = "verify", !.at = now, !.hash = file.password]
<1>1. q \in LoginRequest
  BY AtStep DEF AllowLogin
<1>2. now \in Nat /\ file.password \in Nat
  BY DEF AInv, AccessTypeOK, Shape, StartupTypeOK, Files
<1>3. r \in LoginRequest /\ r.at = now
  BY <1>1, <1>2 DEF LoginRequest
<1>4. request' = [request EXCEPT ![b][s] = r]
  BY DEF AllowLogin
<1> HIDE DEF q, r
<1>5. r \in Request /\ Fresh(r)
  BY <1>2, <1>3, Bounds DEF Request, Fresh
<1> QED
  BY <1>4, <1>5, OnlyRequest DEF AllowLogin

LEMMA RightPasswordKeeps ==
  ASSUME AInv, Shape', NEW b \in Browser, NEW s \in Slots, RightPassword(b, s)
  PROVE  AInv'
<1> DEFINE r == request[b][s]
<1>1. r \in LoginRequest /\ Fresh(r) /\ r # NoRequest /\ r.step = "verify"
  BY AtStep DEF RightPassword, Is
<1>2. PICK t \in Token :
        /\ sessions[t] = NoSession /\ t \notin revoked
        /\ sessions' = [sessions EXCEPT ![t] = r.at + TTL]
        /\ cookie' = [cookie EXCEPT ![b] = [token |-> t, until |-> r.at + TTL]]
  BY DEF RightPassword
<1>3. /\ used' = [used EXCEPT ![b] = r.at] /\ UNCHANGED <<now, revoked>>
      /\ request' = [request EXCEPT ![b][s] = NoRequest]
  BY DEF RightPassword, Answered
<1>4. r.at \in Nat /\ r.at <= now /\ r.at + TTL \in Nat /\ {TTL, MaxHandling} \subseteq Nat
  BY <1>1, Bounds DEF LoginRequest, Fresh
<1> HIDE DEF r
<1>5. AccessTypeOK
  BY DEF AInv
<1>6. /\ request' \in [Browser -> [Slots -> Request]]
      /\ \A c \in Browser, u \in Slots : Fresh(request[c][u])'
  BY <1>3, None, Becoming
<1>7. AccessTypeOK'
  <2>1. sessions' \in [Token -> Nat \cup {NoSession}]
    BY <1>2, <1>4, <1>5 DEF AccessTypeOK
  <2>2. cookie' \in [Browser -> [token : Token, until : Nat] \cup {NoCookie}]
    BY <1>2, <1>4, <1>5 DEF AccessTypeOK
  <2>3. used' \in [Browser -> Nat] /\ now' \in Nat /\ revoked' \subseteq Token
    BY <1>3, <1>4, <1>5 DEF AccessTypeOK
  <2> QED
    BY <1>6, <2>1, <2>2, <2>3 DEF AccessTypeOK
<1>8. Timely'
  <2>1. \A c \in Browser : used'[c] <= now'
    BY <1>3, <1>4, <1>5 DEF AInv, AccessTypeOK, Timely
  <2> QED
    BY <1>6, <2>1 DEF Timely
<1>9. LoggedOutForGood'
  BY <1>2, <1>3, <1>5 DEF AInv, AccessTypeOK, LoggedOutForGood
<1>10. ASSUME NEW c \in Browser, cookie'[c] # NoCookie, cookie'[c].token \notin revoked'
       PROVE  /\ sessions'[cookie'[c].token] # NoSession
              /\ sessions'[cookie'[c].token] >= used'[c] + TTL - MaxHandling
  <2>1. CASE c = b
    <3>1. cookie'[c].token = t /\ sessions'[t] = r.at + TTL /\ used'[c] = r.at
      BY <1>2, <1>3, <1>5, <2>1 DEF AccessTypeOK
    <3> QED
      BY <1>4, <3>1, Bounds
  <2>2. CASE c # b
    <3>1. cookie'[c] = cookie[c] /\ used'[c] = used[c]
      BY <1>2, <1>3, <1>5, <2>2 DEF AccessTypeOK
    <3>2. /\ sessions[cookie[c].token] # NoSession
          /\ sessions[cookie[c].token] >= used[c] + TTL - MaxHandling
      BY <1>3, <1>10, <3>1 DEF AInv, SessionSlides
    <3>3. sessions'[cookie[c].token] = sessions[cookie[c].token]
      BY <1>2, <1>5, <3>2 DEF AccessTypeOK
    <3> QED
      BY <3>1, <3>2, <3>3
  <2> QED
    BY <2>1, <2>2
<1>11. SessionSlides'
  BY <1>10 DEF SessionSlides
<1> QED
  BY <1>7, <1>8, <1>9, <1>11 DEF AInv

------------------------------------------------------------------------------
(* A session. *)

LEMMA FindKeeps ==
  ASSUME AInv, Shape', NEW b \in Browser, NEW s \in Slots, FindSession(b, s)
  PROVE  AInv'
<1> DEFINE q == request[b][s]
           r == [q EXCEPT !.step = "found", !.at = now]
<1>1. q \in ApiRequest /\ now \in Nat
  BY AtStep DEF FindSession, AInv, AccessTypeOK
<1>2. r \in ApiRequest /\ r.at = now
  BY <1>1 DEF ApiRequest
<1>3. \/ request' = [request EXCEPT ![b][s] = r]
      \/ request' = [request EXCEPT ![b][s] = NoRequest]
  BY DEF FindSession, Answered
<1> HIDE DEF q, r
<1>4. r \in Request /\ Fresh(r)
  BY <1>1, <1>2, Bounds DEF Request, Fresh
<1> QED
  BY <1>3, <1>4, None, OnlyRequest DEF FindSession

LEMMA SlideKeeps ==
  ASSUME AInv, Shape', NEW b \in Browser, NEW s \in Slots, SlideSession(b, s)
  PROVE  AInv'
<1> DEFINE r == request[b][s]
           e == Slid(r.token, r.at + TTL)
           u == IF cookie[b] # NoCookie /\ cookie[b].token = r.token /\ used[b] < r.at
                THEN r.at ELSE used[b]
<1>1. r \in ApiRequest /\ Fresh(r) /\ r # NoRequest /\ r.step = "found"
  BY AtStep DEF SlideSession, Is
<1>2. /\ sessions' = [sessions EXCEPT ![r.token] = e] /\ used' = [used EXCEPT ![b] = u]
      /\ UNCHANGED <<cookie, now, revoked>>
      /\ request' = [request EXCEPT ![b][s] = NoRequest]
  BY DEF SlideSession, Answered
<1>3. AccessTypeOK
  BY DEF AInv
<1>4. /\ r.at \in Nat /\ r.token \in Token /\ r.at <= now /\ now <= r.at + MaxHandling
      /\ now \in Nat /\ {TTL, MaxHandling} \subseteq Nat /\ NoSession \notin Nat
  BY <1>1, <1>3, Bounds DEF ApiRequest, Fresh, AccessTypeOK
<1>5. e = IF sessions[r.token] = NoSession THEN NoSession ELSE r.at + TTL
  BY DEF Slid
<1>6. used[b] \in Nat /\ used[b] <= now
  BY <1>3 DEF AInv, AccessTypeOK, Timely
<1>7. u \in Nat /\ u <= now /\ (u = used[b] \/ u = r.at)
  BY <1>4, <1>6
<1> HIDE DEF r, e, u
<1>8. e \in Nat \cup {NoSession}
  BY <1>4, <1>5
<1>9. /\ request' \in [Browser -> [Slots -> Request]]
      /\ \A c \in Browser, v \in Slots : Fresh(request[c][v])'
  BY <1>2, None, Becoming
<1>10. AccessTypeOK'
  BY <1>2, <1>3, <1>7, <1>8, <1>9 DEF AccessTypeOK
<1>11. Timely'
  <2>1. \A c \in Browser : used'[c] <= now'
    BY <1>2, <1>3, <1>7 DEF AInv, AccessTypeOK, Timely
  <2> QED
    BY <1>9, <2>1 DEF Timely
<1>12. LoggedOutForGood'
  BY <1>2, <1>3, <1>4, <1>5 DEF AInv, AccessTypeOK, LoggedOutForGood
<1>13. ASSUME NEW c \in Browser, cookie'[c] # NoCookie, cookie'[c].token \notin revoked'
       PROVE  /\ sessions'[cookie'[c].token] # NoSession
              /\ sessions'[cookie'[c].token] >= used'[c] + TTL - MaxHandling
  <2> DEFINE t == cookie[c].token
  <2>1. cookie'[c] = cookie[c] /\ cookie[c] # NoCookie /\ t \notin revoked /\ t \in Token
    BY <1>2, <1>3, <1>13 DEF AccessTypeOK
  <2>2. sessions[t] # NoSession /\ sessions[t] >= used[c] + TTL - MaxHandling
    BY <2>1 DEF AInv, SessionSlides
  <2>3. used[c] \in Nat /\ used[c] <= now /\ used'[c] \in {used[c], r.at}
    BY <1>2, <1>3, <1>7 DEF AInv, AccessTypeOK, Timely
  <2>4. CASE t = r.token
    <3>1. sessions'[t] = r.at + TTL
      BY <1>2, <1>3, <1>4, <1>5, <2>2, <2>4 DEF AccessTypeOK
    <3> HIDE DEF t
    <3>2. r.at + TTL >= used'[c] + TTL - MaxHandling
      BY <1>4, <2>3
    <3>3. r.at + TTL # NoSession
      BY <1>4
    <3> QED
      BY <2>1, <3>1, <3>2, <3>3 DEF t
  <2>5. CASE t # r.token
    <3>1. sessions'[t] = sessions[t]
      BY <1>2, <1>3, <2>5 DEF AccessTypeOK
    <3>2. used'[c] = used[c]
      <4>1. c = b => u = used[b]
        BY <2>1, <2>5 DEF u
      <4> QED
        BY <1>2, <1>3, <4>1 DEF AccessTypeOK
    <3> QED
      BY <2>1, <2>2, <3>1, <3>2
  <2> QED
    BY <2>4, <2>5
<1>14. SessionSlides'
  BY <1>13 DEF SessionSlides
<1> QED
  BY <1>10, <1>11, <1>12, <1>14 DEF AInv

LEMMA LogoutKeeps ==
  ASSUME AInv, Shape', NEW b \in Browser, NEW s \in Slots, Logout(b, s)
  PROVE  AInv'
<1> DEFINE t == request[b][s].token
<1>1. t \in Token
  BY AtStep DEF Logout, LogoutRequest
<1>2. /\ sessions' = [sessions EXCEPT ![t] = NoSession] /\ revoked' = revoked \cup {t}
      /\ cookie' = [cookie EXCEPT ![b] = NoCookie] /\ UNCHANGED <<now, used>>
      /\ request' = [request EXCEPT ![b][s] = NoRequest]
  BY DEF Logout, Answered
<1> HIDE DEF t
<1>3. AccessTypeOK
  BY DEF AInv
<1>4. /\ request' \in [Browser -> [Slots -> Request]]
      /\ \A c \in Browser, u \in Slots : Fresh(request[c][u])'
  BY <1>2, None, Becoming
<1>5. AccessTypeOK' /\ Timely'
  BY <1>1, <1>2, <1>3, <1>4 DEF AInv, AccessTypeOK, Timely
<1>6. LoggedOutForGood'
  BY <1>1, <1>2, <1>3 DEF AInv, AccessTypeOK, LoggedOutForGood
<1>7. ASSUME NEW c \in Browser, cookie'[c] # NoCookie, cookie'[c].token \notin revoked'
      PROVE  /\ sessions'[cookie'[c].token] # NoSession
             /\ sessions'[cookie'[c].token] >= used'[c] + TTL - MaxHandling
  <2>1. cookie'[c] = cookie[c] /\ cookie[c].token \notin revoked /\ cookie[c].token # t
    BY <1>2, <1>3, <1>7 DEF AccessTypeOK
  <2>2. sessions'[cookie[c].token] = sessions[cookie[c].token]
    BY <1>2, <1>3, <2>1 DEF AccessTypeOK
  <2> QED
    BY <1>2, <1>7, <2>1, <2>2 DEF AInv, SessionSlides
<1>8. SessionSlides'
  BY <1>7 DEF SessionSlides
<1> QED
  BY <1>5, <1>6, <1>8 DEF AInv

------------------------------------------------------------------------------
(* Time, processes, and all steps together. *)

LEMMA TickKeeps ==
  ASSUME AInv, Shape', ATick
  PROVE  AInv'
<1>1. AccessTypeOK'
  BY DEF AInv, AccessTypeOK, ATick
<1>2. Timely'
  <2>1. ASSUME NEW b \in Browser, NEW s \in Slots PROVE Fresh(request[b][s])'
    <3> DEFINE r == request[b][s]
    <3>1. Fresh(r) /\ r \in Request /\ now \in Nat /\ MaxHandling \in Nat
      BY AtStep, Bounds DEF AInv, AccessTypeOK
    <3>2. r # NoRequest /\ r.step # "sent" => now < r.at + MaxHandling /\ r.at \in Nat
      <4>1. r # NoRequest /\ r.step # "sent" => now < r.at + MaxHandling
        BY DEF ATick
      <4>2. r # NoRequest /\ r.step # "sent" => r.at \in Nat
        BY <3>1 DEF Request, LoginRequest, ApiRequest, LogoutRequest
      <4> QED
        BY <4>1, <4>2
    <3>3. request'[b][s] = r /\ now' = now + 1
      BY DEF ATick
    <3> HIDE DEF r
    <3> QED
      BY <3>1, <3>2, <3>3 DEF Fresh
  <2>2. \A b \in Browser : used'[b] <= now'
    BY DEF AInv, AccessTypeOK, Timely, ATick
  <2> QED
    BY <2>1, <2>2 DEF Timely
<1>3. LoggedOutForGood' /\ SessionSlides'
  BY DEF AInv, LoggedOutForGood, SessionSlides, ATick
<1> QED
  BY <1>1, <1>2, <1>3 DEF AInv

LEMMA GoneKeeps ==
  ASSUME AInv, Shape', ProcessGone
  PROVE  AInv'
<1>1. \A b \in Browser, s \in Slots : request'[b][s] = NoRequest
  BY DEF ProcessGone
<1>2. AccessTypeOK' /\ Timely'
  BY <1>1, None DEF AInv, AccessTypeOK, Timely, ProcessGone, Fresh
<1>3. LoggedOutForGood' /\ SessionSlides'
  BY DEF AInv, LoggedOutForGood, SessionSlides, ProcessGone
<1> QED
  BY <1>2, <1>3 DEF AInv

LEMMA AuthKeeps ==
  ASSUME AInv, Shape', NEW b \in Browser,
         \/ \E pw \in 1 .. 2 : SendLogin(b, pw)
         \/ SendRequest(b) \/ SendLogout(b)
         \/ \E s \in Slots : \/ RefuseLogin(b, s) \/ AllowLogin(b, s)
                             \/ WrongPassword(b, s) \/ RightPassword(b, s)
                             \/ FindSession(b, s) \/ SlideSession(b, s) \/ Logout(b, s)
  PROVE  AInv'
<1>1. ASSUME NEW pw \in 1 .. 2, SendLogin(b, pw) PROVE AInv'
  <2> DEFINE r == [kind |-> "login", step |-> "sent", pw |-> pw, at |-> 0, hash |-> 0]
  <2>1. r \in Request /\ r.step = "sent"
    BY DEF Request, LoginRequest
  <2> QED
    BY <1>1, <2>1, Sending DEF SendLogin
<1>2. Kept(b) => cookie[b].token \in Token
  BY DEF AInv, AccessTypeOK, Kept
<1>3. CASE SendRequest(b)
  <2> DEFINE r == [kind |-> "api", step |-> "sent", token |-> cookie[b].token, at |-> 0]
  <2>1. r \in Request /\ r.step = "sent" /\ Send(b, r)
    BY <1>2, <1>3 DEF SendRequest, Request, ApiRequest
  <2> QED
    BY <2>1, Sending
<1>4. CASE SendLogout(b)
  <2> DEFINE r == [kind |-> "logout", step |-> "sent", token |-> cookie[b].token]
  <2>1. r \in Request /\ r.step = "sent" /\ Send(b, r)
    BY <1>2, <1>4 DEF SendLogout, Request, LogoutRequest
  <2> QED
    BY <2>1, Sending
<1>5. ASSUME NEW s \in Slots, RefuseLogin(b, s) \/ WrongPassword(b, s) PROVE AInv'
  <2>1. request' = [request EXCEPT ![b][s] = NoRequest]
    BY <1>5 DEF RefuseLogin, WrongPassword, Answered
  <2> QED
    BY <1>5, <2>1, None, OnlyRequest DEF RefuseLogin, WrongPassword
<1>6. ASSUME NEW s \in Slots,
             \/ AllowLogin(b, s) \/ RightPassword(b, s) \/ FindSession(b, s)
             \/ SlideSession(b, s) \/ Logout(b, s)
      PROVE  AInv'
  BY <1>6, AllowKeeps, RightPasswordKeeps, FindKeeps, SlideKeeps, LogoutKeeps
<1> QED
  BY <1>1, <1>3, <1>4, <1>5, <1>6

\* What the process does is what Startup says, whatever its requests do.
LEMMA ProcessSteps == [Next]_vars => [PNext]_pvars
  BY DEF Next, vars, PNext, AuthStep, ShutDown, Process

LEMMA AccessStarts == Init => AInv
<1> SUFFICES ASSUME Init PROVE AInv
  OBVIOUS
<1>1. Shape
  BY Starting DEF Init
<1>2. AccessTypeOK
  BY None DEF Init, AInit, AccessTypeOK
<1>3. Timely
  BY DEF Init, AInit, Timely, Fresh
<1>4. LoggedOutForGood /\ SessionSlides
  BY DEF Init, AInit, LoggedOutForGood, SessionSlides
<1> QED
  BY <1>1, <1>2, <1>3, <1>4 DEF AInv

\* Whatever requests and processes do to each other, sessions stay in order.
THEOREM SessionsInductive == Spec => []AInv
<1>1. Init => AInv
  BY AccessStarts
<1>2. AInv /\ [Next]_vars => AInv'
  <2> SUFFICES ASSUME AInv, [Next]_vars PROVE AInv'
    OBVIOUS
  <2>1. Shape'
    BY ProcessSteps, ShapeKept DEF AInv
  <2>2. CASE UNCHANGED avars
    BY <2>1, <2>2 DEF avars, AInv, AccessTypeOK, Timely, Fresh, LoggedOutForGood, SessionSlides
  <2>3. CASE ProcessGone
    BY <2>1, <2>3, GoneKeeps
  <2>4. CASE AuthStep
    BY <2>1, <2>4, AuthKeeps DEF AuthStep
  <2>5. CASE ATick
    BY <2>1, <2>5, TickKeeps
  <2>6. UNCHANGED avars \/ ProcessGone \/ AuthStep \/ ATick
    BY DEF Next, vars, ShutDown
  <2> QED
    BY <2>2, <2>3, <2>4, <2>5, <2>6
<1> QED
  BY <1>1, <1>2, PTL DEF Spec

\* A token that was logged out has no session again.
THEOREM LogoutIsFinal == Spec => []LoggedOutForGood
<1>1. AInv => LoggedOutForGood
  BY DEF AInv
<1> QED
  BY <1>1, SessionsInductive, PTL

\* A session in use is good for TTL, less what overlapping requests' clocks differ by.
THEOREM UseProlongs == Spec => []SessionSlides
<1>1. AInv => SessionSlides
  BY DEF AInv
<1> QED
  BY <1>1, SessionsInductive, PTL
------------------------------------------------------------------------------
(* Locking out. *)

Count == [failures : Nat, lockedUntil : Nat]
Counts == limiter \in [Addr -> Count]

\* 2 ^ k is the number of subsets of 1 .. k.
LEMMA PowerOfTwo ==
  ASSUME NEW k \in Nat
  PROVE  2 ^ k \in Nat /\ 2 ^ k >= 1
<1> DEFINE S == SUBSET (1 .. k)
<1>1. IsFiniteSet(1 .. k) /\ Cardinality(1 .. k) = k
  BY FS_Interval
<1>2. IsFiniteSet(S) /\ Cardinality(S) = 2 ^ k
  BY <1>1, FS_SUBSET
<1>3. S # {}
  OBVIOUS
<1> HIDE DEF S
<1>4. Cardinality(S) \in Nat /\ Cardinality(S) # 0
  BY <1>2, <1>3, FS_CardinalityType, FS_EmptySet
<1> QED
  BY <1>2, <1>4

\* Doubling and the cap never make a lockout shorter than the first one.
LEMMA LongEnough ==
  ASSUME NEW f \in Nat, f >= Tolerated
  PROVE  Lockout(f) \in Nat /\ Lockout(f) >= InitialLockout
<1> DEFINE n == 2 ^ (f - Tolerated)
<1>1. /\ InitialLockout \in Nat /\ MaxLockout \in Nat /\ Tolerated \in Nat
      /\ InitialLockout <= MaxLockout
  BY AccessAssumption
<1>2. n \in Nat /\ n >= 1
  BY <1>1, PowerOfTwo
<1>3. Lockout(f) = IF InitialLockout * n >= MaxLockout THEN MaxLockout ELSE InitialLockout * n
  BY DEF Lockout
<1> HIDE DEF n
<1>4. InitialLockout * n \in Nat /\ InitialLockout * n >= InitialLockout
  BY <1>1, <1>2
<1> QED
  BY <1>1, <1>3, <1>4

LEMMA Failing ==
  ASSUME NEW k \in Count, NEW at \in Nat
  PROVE  /\ AfterFailure(k, at) \in Count
         /\ AfterFailure(k, at).failures = k.failures + 1
         /\ k.failures + 1 >= Tolerated
            => AfterFailure(k, at).lockedUntil >= at + InitialLockout
<1> DEFINE f == k.failures + 1
<1>1. k.failures \in Nat /\ k.lockedUntil \in Nat /\ f \in Nat
  BY DEF Count
<1>2. Tolerated \in Nat /\ InitialLockout \in Nat
  BY AccessAssumption
<1>3. f >= Tolerated => Lockout(f) \in Nat /\ Lockout(f) >= InitialLockout
  BY <1>1, LongEnough
<1>4. AfterFailure(k, at)
      = [failures |-> f,
         lockedUntil |-> IF f < Tolerated THEN k.lockedUntil ELSE at + Lockout(f)]
  BY DEF AfterFailure
<1> HIDE DEF f
<1>5. f < Tolerated \/ (f >= Tolerated /\ at + Lockout(f) \in Nat)
  BY <1>1, <1>2, <1>3
<1>6. AfterFailure(k, at) \in Count
  BY <1>1, <1>4, <1>5 DEF Count
<1>7. f >= Tolerated => AfterFailure(k, at).lockedUntil >= at + InitialLockout
  BY <1>1, <1>2, <1>3, <1>4
<1> QED
  BY <1>4, <1>6, <1>7 DEF f

\* The steps that change the limiter.
LEMMA LimiterSteps ==
  ASSUME [Next]_vars
  PROVE  \/ UNCHANGED limiter \/ ProcessGone
         \/ \E b \in Browser, s \in Slots : RightPassword(b, s) \/ WrongPassword(b, s)
<1>1. AuthStep => \/ UNCHANGED limiter
                  \/ \E b \in Browser, s \in Slots :
                       RightPassword(b, s) \/ WrongPassword(b, s)
  BY DEF AuthStep, SendLogin, SendRequest, SendLogout, Send, RefuseLogin, AllowLogin,
         FindSession, SlideSession, Logout
<1>2. ATick \/ UNCHANGED avars => UNCHANGED limiter
  BY DEF ATick, avars
<1> QED
  BY <1>1, <1>2 DEF Next, vars, ShutDown

\* What becomes of an address's count: kept, forgotten, or a failure more.
LEMMA CountBecomes ==
  ASSUME AInv, Counts, [Next]_vars, NEW a \in Addr
  PROVE  \/ limiter'[a] = limiter[a]
         \/ limiter'[a] = NoFailures
         \/ \E at \in Nat : /\ limiter'[a] = AfterFailure(limiter[a], at)
                            /\ now <= at + MaxHandling
<1>1. CASE UNCHANGED limiter
  BY <1>1
<1>2. CASE ProcessGone
  BY <1>2 DEF ProcessGone
<1>3. ASSUME NEW b \in Browser, NEW s \in Slots, RightPassword(b, s)
      PROVE  limiter'[a] \in {limiter[a], NoFailures}
  BY <1>3 DEF RightPassword, Counts
<1>4. ASSUME NEW b \in Browser, NEW s \in Slots, WrongPassword(b, s)
      PROVE  \/ limiter'[a] = limiter[a]
             \/ \E at \in Nat : /\ limiter'[a] = AfterFailure(limiter[a], at)
                                /\ now <= at + MaxHandling
  <2> DEFINE at == request[b][s].at
  <2>1. at \in Nat /\ now <= at + MaxHandling
    BY <1>4, AtStep DEF WrongPassword, Is, Fresh, LoginRequest
  <2>2. limiter' = [limiter EXCEPT ![AddrOf[b]] = AfterFailure(@, at)]
    BY <1>4 DEF WrongPassword
  <2> HIDE DEF at
  <2> QED
    BY <2>1, <2>2 DEF Counts
<1> QED
  BY <1>1, <1>2, <1>3, <1>4, LimiterSteps

LEMMA CountsKept == AInv /\ Counts /\ [Next]_vars => Counts'
<1> SUFFICES ASSUME AInv, Counts, [Next]_vars PROVE Counts'
  OBVIOUS
<1>1. \A a \in Addr : limiter'[a] \in Count
  <2> SUFFICES ASSUME NEW a \in Addr PROVE limiter'[a] \in Count
    OBVIOUS
  <2>1. limiter[a] \in Count /\ NoFailures \in Count
    BY DEF Counts, Count, NoFailures
  <2>2. \A at \in Nat : AfterFailure(limiter[a], at) \in Count
    BY <2>1, Failing
  <2> QED
    BY <2>1, <2>2, CountBecomes
<1>2. limiter' = [a \in Addr |-> limiter'[a]]
  <2>1. limiter = [a \in Addr |-> limiter[a]]
    BY DEF Counts
  <2>2. \A b \in Browser, s \in Slots : RightPassword(b, s) \/ WrongPassword(b, s)
          => \E a, k : limiter' = [limiter EXCEPT ![a] = k]
    BY DEF RightPassword, WrongPassword
  <2> QED
    BY <2>1, <2>2, LimiterSteps DEF ProcessGone
<1> QED
  BY <1>1, <1>2 DEF Counts

\* A failure at the threshold or past it locks its address out for a while from now,
\* whatever other attempts, successes, restarts and ticks came in during its check.
THEOREM FailuresLockOut == Spec => FailuresLock
<1>1. Init => Counts
  BY DEF Init, AInit, NoFailures, Counts, Count
<1>2. Spec => []Counts
  BY <1>1, CountsKept, SessionsInductive, PTL DEF Spec
<1>3. AInv /\ Counts /\ [Next]_vars
      => [\A a \in Addr :
            limiter'[a].failures > limiter[a].failures /\ limiter'[a].failures >= Tolerated
            => now < limiter'[a].lockedUntil]_vars
  <2> SUFFICES ASSUME AInv, Counts, [Next]_vars, NEW a \in Addr,
                      limiter'[a].failures > limiter[a].failures,
                      limiter'[a].failures >= Tolerated
               PROVE  now < limiter'[a].lockedUntil
    OBVIOUS
  <2>1. limiter[a] \in Count /\ limiter'[a] \in Count
    BY CountsKept DEF Counts
  <2>2. /\ limiter'[a] # limiter[a] /\ limiter'[a] # NoFailures
    BY <2>1 DEF Count, NoFailures
  <2>3. PICK at \in Nat : /\ limiter'[a] = AfterFailure(limiter[a], at)
                          /\ now <= at + MaxHandling
    BY <2>2, CountBecomes
  <2>4. limiter'[a].lockedUntil >= at + InitialLockout
    BY <2>1, <2>3, Failing
  <2>5. /\ {MaxHandling, InitialLockout, now} \subseteq Nat /\ MaxHandling < InitialLockout
    BY AccessAssumption DEF AInv, AccessTypeOK
  <2> QED
    BY <2>1, <2>3, <2>4, <2>5 DEF Count
<1> QED
  BY <1>2, <1>3, SessionsInductive, PTL DEF Spec, FailuresLock
===============================================================================
