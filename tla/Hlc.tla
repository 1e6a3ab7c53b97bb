--------------------------------- MODULE Hlc ---------------------------------
(***************************************************************************)
(* Hybrid logical clock stamps: internal/hlc on the server, hlc.ts in the  *)
(* client.  A stamp is [wall, ctr, dev]; on the wire it is the string of   *)
(* its zero-padded decimal fields.  Digits are members of 1 .. Base and    *)
(* the separator, which sorts below every digit, is 0.                     *)
(***************************************************************************)
EXTENDS Integers, Sequences

CONSTANTS Device,     \* device ids, named by their place in string order
          Base,       \* 10 in the code
          WallWidth,  \* 20 in the code
          CtrWidth    \* 10 in the code

ASSUME HlcAssumption ==
  /\ Device \subseteq Nat
  /\ Base \in Nat \ {0, 1} /\ WallWidth \in Nat \ {0} /\ CtrWidth \in Nat \ {0}

Clock == [wall : Nat, ctr : Nat, dev : Device]

\* How many numbers n digits can hold.
Pow[n \in Nat] == IF n = 0 THEN 1 ELSE Base * Pow[n - 1]

\* The first ctr that CtrWidth digits cannot hold.
CtrLimit == Pow[CtrWidth]

\* The lexical order of strings of numbers.
Less(s, t) ==
  \E j \in 1 .. Len(t) :
    /\ \A i \in 1 .. j - 1 : i <= Len(s) /\ s[i] = t[i]
    /\ j > Len(s) \/ s[j] < t[j]

\* Mutant of Pad: no zeros to the left.
PadBare(n, width) ==
  LET len == CHOOSE w \in 1 .. 1 + n : n < Pow[w] /\ (w > 1 => n >= Pow[w - 1])
  IN [p \in 1 .. len |-> 1 + ((n \div Pow[len - p]) % Base)]

\* pad: n in decimal, zeros to the left; a longer number keeps all its digits.
Pad(n, width) ==
  LET len == CHOOSE w \in width .. width + n :
               /\ n < Pow[w]
               /\ w > width => n >= Pow[w - 1]
  IN [p \in 1 .. len |-> 1 + ((n \div Pow[len - p]) % Base)]

\* Mutant of Format: the device is left out.
FormatWithoutDevice(c) == Pad(c.wall, WallWidth) \o <<0>> \o Pad(c.ctr, CtrWidth) \o <<0>>

Format(c) == Pad(c.wall, WallWidth) \o <<0>> \o Pad(c.ctr, CtrWidth) \o <<0>> \o <<c.dev>>

\* Mutant of Next: the counter restarts whatever the wall clock says.
NextFromWall(last, dev, wall) == [wall |-> wall, ctr |-> 0, dev |-> dev]

\* The stamp after `last` when the device's wall clock reads `wall`.
Next(last, dev, wall) ==
  IF wall <= last.wall THEN [wall |-> last.wall, ctr |-> last.ctr + 1, dev |-> dev]
  ELSE [wall |-> wall, ctr |-> 0, dev |-> dev]

\* The order of clocks that the encoding is to preserve.
Before(a, b) ==
  \/ a.wall < b.wall
  \/ a.wall = b.wall /\ a.ctr < b.ctr
  \/ a.wall = b.wall /\ a.ctr = b.ctr /\ a.dev < b.dev
==============================================================================
