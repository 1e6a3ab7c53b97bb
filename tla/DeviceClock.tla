----------------------------- MODULE DeviceClock -----------------------------
(***************************************************************************)
(* The stamps the tabs of a user's devices issue.  Each tab keeps the last *)
(* one in memory; its wall clock may be set to anything at any time; a     *)
(* reload keeps the device id (sessionStorage) and forgets the last stamp. *)
(*                                                                         *)
(* One restriction the code does not ensure: from a reload to the tab's    *)
(* next stamp, the clock stays ahead of the stamps issued before.  Without *)
(* it they need not increase.                                              *)
(***************************************************************************)
EXTENDS Hlc, FiniteSets

CONSTANTS MaxWall,   \* bound on the wall clocks
          MaxIssued  \* bound on the stamps issued by one device

ASSUME DeviceClockAssumption ==
  /\ MaxWall \in Nat /\ MaxIssued \in Nat
  /\ MaxWall < Pow[WallWidth]
  /\ MaxIssued < CtrLimit  \* so that the stamp after the last one fits too

VARIABLES wall,    \* Date.now() on each device
          last,    \* the module variable `last` of hlc.ts
          issued   \* history: the stamps each device has put on mutations, in order

cvars == <<wall, last, issued>>

Zero(d) == [wall |-> 0, ctr |-> 0, dev |-> d]

CInit == /\ wall \in [Device -> 1 .. MaxWall]
         /\ last = [d \in Device |-> Zero(d)]
         /\ issued = [d \in Device |-> <<>>]

\* No stamp since the tab was loaded.
Loaded(d) == last[d] = Zero(d)

Issue(d) ==
  LET c == Next(last[d], d, wall[d]) IN
    /\ Len(issued[d]) < MaxIssued
    /\ last' = [last EXCEPT ![d] = c]
    /\ issued' = [issued EXCEPT ![d] = Append(@, Format(c))]
    /\ UNCHANGED wall

SetWall(d, w) == /\ Loaded(d) => w >= wall[d]
                 /\ wall' = [wall EXCEPT ![d] = w]
                 /\ UNCHANGED <<last, issued>>

\* A reload takes longer than the wall clock's unit.
Reload(d, w) == /\ w # wall[d]
                /\ w > IF Loaded(d) THEN wall[d] ELSE last[d].wall
                /\ wall' = [wall EXCEPT ![d] = w]
                /\ last' = [last EXCEPT ![d] = Zero(d)]
                /\ UNCHANGED issued

CNext == \E d \in Device :
           Issue(d) \/ \E w \in 1 .. MaxWall : SetWall(d, w) \/ Reload(d, w)

CSpec == CInit /\ [][CNext]_cvars

------------------------------------------------------------------------------
\* hlc.ts:21, "a fresh, strictly-increasing HLC stamp for deviceId": every
\* stamp a device issues sorts, as a string, after all it issued before.
StrictlyIncreasing ==
  \A d \in Device : \A i, j \in 1 .. Len(issued[d]) :
    i < j => Less(issued[d][i], issued[d][j])

\* hlc.go String: "plain lexicographic string comparison equals correct HLC
\* comparison", between the last stamps of any two devices and what either
\* would issue next.
OrderPreserved ==
  LET Cs == {last[d] : d \in Device} \cup {Next(last[d], d, wall[d]) : d \in Device} IN
  \A a, b \in Cs : Before(a, b) <=> Less(Format(a), Format(b))

\* No two devices, nor one device twice, put the same stamp on a mutation
\* (a discarded tie would be a lost edit).
Unique ==
  \A d, e \in Device : \A i \in 1 .. Len(issued[d]), j \in 1 .. Len(issued[e]) :
    issued[d][i] = issued[e][j] => d = e /\ i = j
==============================================================================
