------------------------------ MODULE Positions ------------------------------
(***************************************************************************)
(* The positions of a list's elements (a checklist's items, or the notes): *)
(* keys compared as strings, and KeyBetween (fracindex.go, fracindex.ts),  *)
(* which makes a key between those of two neighbours.  Its loop runs step  *)
(* by step, so that devices placing elements at the same time have each    *)
(* read the list before the other's key arrived.                           *)
(*                                                                         *)
(* A key is the sequence of its digits, 0 .. Base - 1; the empty key       *)
(* stands for "no neighbour".  The list is in ascending order; notes are   *)
(* shown the other way round, new ones at the top, which is its end.       *)
(***************************************************************************)
EXTENDS Integers, Sequences

CONSTANTS Elem, Device,
          Base,      \* 62 in the code
          Sort,      \* "items" or "notes": what the elements are
          MayHide,   \* whether elements leave the list and come back to it
          MaxLen,    \* bound on the keys of neighbours
          NoKey,     \* the position of an element not created yet
          NoWalk     \* a device that places nothing

Digit == 0 .. Base - 1
Key == Seq(Digit)

\* elem: what is placed; a, b: the neighbours' keys; out: `result`; free: `bFree`.
Walk == [elem : Elem, a : Key, b : Key, out : Key, free : BOOLEAN, done : BOOLEAN]

ASSUME PositionsAssumption ==
  /\ Base \in Nat /\ Base >= 2
  /\ Sort \in {"items", "notes"} /\ MayHide \in BOOLEAN /\ MaxLen \in Nat
  /\ NoKey \notin Key /\ NoWalk \notin Walk

VARIABLES pos,    \* each element's position
          aside,  \* the elements not in the list at the moment: checked items, archived notes
          walk    \* the call of KeyBetween each device is in

vars == <<pos, aside, walk>>

Init == /\ pos = [e \in Elem |-> NoKey]
        /\ aside = {}
        /\ walk = [d \in Device |-> NoWalk]

\* The order of strings.
Less(s, t) ==
  \E j \in 1 .. Len(t) :
    /\ \A i \in 1 .. j - 1 : i <= Len(s) /\ s[i] = t[i]
    /\ j > Len(s) \/ s[j] < t[j]

------------------------------------------------------------------------------
(* Where an element goes. *)

Placed == {e \in Elem : pos[e] # NoKey}

AtMost(x, y) == ~Less(pos[y], pos[x])

\* The keys on both sides of a place in the list of the elements S: two that
\* follow each other, or an end.
Sides(S) ==
  {<<pos[p[1]], pos[p[2]]>> : p \in
     {q \in S \X S : /\ q[1] # q[2] /\ AtMost(q[1], q[2])
                     /\ \A z \in S : AtMost(z, q[1]) \/ AtMost(q[2], z)}}
  \cup {<<pos[x], <<>>>> : x \in {e \in S : \A z \in S : AtMost(z, e)}}
  \cup {<<<<>>, pos[y]>> : y \in {e \in S : \A z \in S : AtMost(e, z)}}
  \cup (IF S = {} THEN {<<<<>>, <<>>>>} ELSE {})

\* The last place of the list of S, and the place after x.
End(S) == {p \in Sides(S) : p[2] = <<>>}
After(x, S) == {p \in Sides(S) : p[1] = pos[x]}

\* KeyBetween runs to its end at once.  (Another device's turn commutes with its steps.)
Running == {d \in Device : walk[d] # NoWalk /\ ~walk[d].done}
Quiet == Running = {}

Begin(d, e, a, b) ==
  /\ Quiet /\ walk[d] = NoWalk /\ Len(a) <= MaxLen /\ Len(b) <= MaxLen
  /\ walk' = [walk EXCEPT ![d] = [elem |-> e, a |-> a, b |-> b, out |-> <<>>,
                                  free |-> FALSE, done |-> FALSE]]
  /\ UNCHANGED <<pos, aside>>

\* Ids are fresh: nobody else is creating e.
Fresh(e) == pos[e] = NoKey /\ \A d \in Device : walk[d] # NoWalk => walk[d].elem # e

\* addItem puts an item below all items, addTextNote and the others a note above
\* those in the main list.
Add(d, e) == /\ Fresh(e)
             /\ \E p \in End(IF Sort = "items" THEN Placed ELSE Placed \ aside) :
                  Begin(d, e, p[1], p[2])

AddItemAfter(d, e, x) == /\ Sort = "items" /\ Fresh(e) /\ x \in Placed
                         /\ \E p \in After(x, Placed) : Begin(d, e, p[1], p[2])

Others(e) == (Placed \ aside) \ {e}

\* reorder, reorderItem: dragging happens within the list.
Drag(d, e) == /\ e \in Placed \ aside
              /\ \E p \in Sides(Others(e)) : Begin(d, e, p[1], p[2])

\* Checking or archiving, and back.
Hide(e) == /\ Quiet /\ MayHide /\ e \in Placed \ aside
           /\ aside' = aside \cup {e}
           /\ UNCHANGED <<pos, walk>>
Show(e) == /\ Quiet /\ e \in aside
           /\ aside' = aside \ {e}
           /\ UNCHANGED <<pos, walk>>

------------------------------------------------------------------------------
(* KeyBetween(a, b). *)

\* The digits of a and b at the place the walk has reached: below all digits
\* past the end of a, above them past the end of b or where b is decided.
da(w) == IF Len(w.out) < Len(w.a) THEN w.a[Len(w.out) + 1] ELSE -1
db(w) == IF ~w.free /\ Len(w.out) < Len(w.b) THEN w.b[Len(w.out) + 1] ELSE Base

\* Mutant of Room: a gap of one will do.
RoomForNone(w) == db(w) - da(w) > 0

\* There is a digit between those of a and b.
Room(w) == db(w) - da(w) > 1

Take(w, digit, free) == [w EXCEPT !.out = Append(@, digit), !.free = free]

Same(d) == /\ d \in Running
           /\ da(walk[d]) = db(walk[d])
           /\ walk' = [walk EXCEPT ![d] = Take(@, da(@), @.free)]
           /\ UNCHANGED <<pos, aside>>

\* Mutant of Padded: the key may end in the least digit.
PaddedNot(k) == k

Padded(k) == IF k[Len(k)] = 0 THEN Append(k, Base \div 2) ELSE k

\* The digit in the middle, which ends the key.
Finished(w) ==
  [w EXCEPT !.out = Padded(Append(w.out, da(w) + (db(w) - da(w)) \div 2)), !.done = TRUE]

Split(d) == /\ d \in Running
            /\ Room(walk[d])
            /\ walk' = [walk EXCEPT ![d] = Finished(@)]
            /\ UNCHANGED <<pos, aside>>

\* No room: one place deeper, along a as long as there is one (which puts out below
\* b, whatever follows), else along b.
Deeper(d) == /\ d \in Running
             /\ da(walk[d]) # db(walk[d]) /\ ~Room(walk[d])
             /\ walk' = [walk EXCEPT ![d] =
                  IF da(@) >= 0 THEN Take(@, da(@), TRUE) ELSE Take(@, db(@), @.free)]
             /\ UNCHANGED <<pos, aside>>

\* The mutation that carries the key has arrived.
Place(d) == /\ Quiet /\ walk[d] # NoWalk
            /\ pos' = [pos EXCEPT ![walk[d].elem] = walk[d].out]
            /\ walk' = [walk EXCEPT ![d] = NoWalk]
            /\ UNCHANGED aside

Next ==
  \/ \E d \in Device :
       \/ \E e \in Elem : \/ Add(d, e) \/ Drag(d, e)
                          \/ \E x \in Elem : AddItemAfter(d, e, x)
       \/ Same(d) \/ Split(d) \/ Deeper(d) \/ Place(d)
  \/ \E e \in Elem : Hide(e) \/ Show(e)

Spec == Init /\ [][Next]_vars

------------------------------------------------------------------------------
(* Properties. *)

TypeOK == /\ pos \in [Elem -> Key \cup {NoKey}]
          /\ aside \subseteq Elem
          /\ walk \in [Device -> Walk \cup {NoWalk}]

\* fracindex.go:28-32: given neighbours in order, the key is between them, and an
\* absent neighbour does not bound it.
Between == \A d \in Device :
  walk[d] # NoWalk /\ walk[d].done =>
    LET w == walk[d] IN
      w.a = <<>> \/ w.b = <<>> \/ Less(w.a, w.b)
      => Less(w.a, w.out) /\ (w.b # <<>> => Less(w.out, w.b))

\* fracindex.go:34-40: no key ever made ends in the least digit, so that the
\* precondition of the next call holds.
Roomy(k) == k # <<>> /\ k[Len(k)] # 0
NeverEndsInMinimumDigit ==
  /\ \A e \in Elem : pos[e] # NoKey => Roomy(pos[e])
  /\ \A d \in Device : walk[d] # NoWalk /\ walk[d].done => Roomy(walk[d].out)
==============================================================================
