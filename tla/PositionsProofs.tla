--------------------------- MODULE PositionsProofs ---------------------------
(***************************************************************************)
(* KeyBetween makes keys between its neighbours that never end in the      *)
(* least digit, for any base, any number of elements and devices, and any  *)
(* length of keys.                                                         *)
(***************************************************************************)
EXTENDS Positions, TLAPS

\* The precondition of KeyBetween.
InOrder(w) == w.a = <<>> \/ w.b = <<>> \/ Less(w.a, w.b)

\* The loop invariant while b bounds the key: out is the beginning of b, agrees
\* with a as far as a goes, and goes on with the least digit.
Bound(w) ==
  /\ Len(w.out) <= Len(w.b)
  /\ \A j \in 1 .. Len(w.out) : /\ w.out[j] = w.b[j]
                                /\ j <= Len(w.a) => w.out[j] = w.a[j]
                                /\ j > Len(w.a) => w.out[j] = 0

\* out is below b whatever follows.
Under(out, b) == \E j \in 1 .. Len(out) :
  j <= Len(b) /\ out[j] < b[j] /\ \A i \in 1 .. j - 1 : out[i] = b[i]

\* The loop invariant once it does not: out is the beginning of a.
Unbound(w) == /\ Len(w.out) <= Len(w.a)
              /\ \A j \in 1 .. Len(w.out) : w.out[j] = w.a[j]
              /\ w.b # <<>> => Under(w.out, w.b)

Correct(w) == Less(w.a, w.out) /\ (w.b # <<>> => Less(w.out, w.b))

Good(w) == /\ (w.a = <<>> \/ Roomy(w.a)) /\ (w.b = <<>> \/ Roomy(w.b))
           /\ w.done => Roomy(w.out)
           /\ InOrder(w) => IF w.done THEN Correct(w)
                            ELSE IF w.free THEN Unbound(w) ELSE Bound(w)

IInv == /\ TypeOK
        /\ \A e \in Elem : pos[e] # NoKey => Roomy(pos[e])
        /\ \A d \in Device : walk[d] # NoWalk => Good(walk[d])

------------------------------------------------------------------------------
(* One step of the loop. *)

\* Where the walk stands: the digits it compares, and what its next digit is.
LEMMA Digits ==
  ASSUME NEW w \in Walk
  PROVE  /\ da(w) \in -1 .. Base - 1 /\ db(w) \in 0 .. Base
         /\ da(w) = db(w) => da(w) \in Digit
         /\ Room(w) => da(w) + (db(w) - da(w)) \div 2 \in Digit
         /\ ~Room(w) /\ da(w) # db(w) => IF da(w) >= 0 THEN da(w) \in Digit ELSE db(w) = 0
<1>1. Base \in Nat /\ Base >= 2
  BY PositionsAssumption
<1>2. w.a \in Seq(Digit) /\ w.b \in Seq(Digit) /\ w.out \in Seq(Digit)
  BY DEF Walk, Key
<1>3. da(w) \in -1 .. Base - 1
  BY <1>1, <1>2 DEF da, Digit
<1>4. db(w) \in 0 .. Base
  BY <1>1, <1>2 DEF db, Digit
<1> QED
  BY <1>1, <1>3, <1>4 DEF Room, Digit

\* Taking a digit leaves the rest of the walk alone.
LEMMA Taking ==
  ASSUME NEW w \in Walk, NEW g \in Digit, NEW free \in BOOLEAN
  PROVE  LET v == Take(w, g, free) IN
         /\ v \in Walk
         /\ v.a = w.a /\ v.b = w.b /\ v.done = w.done /\ v.free = free /\ v.elem = w.elem
         /\ v.out = Append(w.out, g)
<1>1. Append(w.out, g) \in Seq(Digit)
  BY DEF Walk, Key
<1>2. Append(w.out, g) \in Key
  BY <1>1 DEF Key
<1>3. w \in [elem : Elem, a : Key, b : Key, out : Key, free : BOOLEAN, done : BOOLEAN]
  BY DEF Walk
<1> HIDE DEF Key
<1> QED
  BY <1>2, <1>3 DEF Take, Walk

\* What padding does to a key.
LEMMA Padding ==
  ASSUME NEW out \in Key, NEW g \in Digit
  PROVE  LET k == Padded(Append(out, g)) IN
         /\ k \in Key /\ Roomy(k)
         /\ Len(k) > Len(out) /\ k[Len(out) + 1] = g
         /\ \A j \in 1 .. Len(out) : k[j] = out[j]
<1> DEFINE s == Append(out, g)
<1>1. /\ s \in Seq(Digit) /\ Len(s) = Len(out) + 1 /\ s[Len(out) + 1] = g
      /\ \A j \in 1 .. Len(out) : s[j] = out[j]
  BY DEF Key
<1>2. Base \in Nat /\ Base >= 2
  BY PositionsAssumption
<1>3. Base \div 2 \in Digit /\ Base \div 2 # 0
  BY <1>2 DEF Digit
<1>4. CASE g = 0
  <2>1. Padded(s) = Append(s, Base \div 2)
    BY <1>1, <1>4 DEF Padded
  <2>2. /\ Append(s, Base \div 2) \in Seq(Digit) /\ Len(Append(s, Base \div 2)) = Len(s) + 1
        /\ Append(s, Base \div 2)[Len(s) + 1] = Base \div 2
        /\ \A j \in 1 .. Len(s) : Append(s, Base \div 2)[j] = s[j]
    BY <1>1, <1>3
  <2> QED
    BY <1>1, <1>3, <2>1, <2>2 DEF Roomy, Key
<1>5. CASE g # 0
  <2>1. Padded(s) = s
    BY <1>1, <1>5 DEF Padded
  <2> QED
    BY <1>1, <1>5, <2>1 DEF Roomy, Key
<1> QED
  BY <1>4, <1>5

\* While b bounds the walk there is a digit of b left, if there is a b at all.
LEMMA MoreOfB ==
  ASSUME NEW w \in Walk, Bound(w), InOrder(w), w.b # <<>>, Roomy(w.b)
  PROVE  Len(w.out) < Len(w.b)
<1>1. w.a \in Seq(Digit) /\ w.b \in Seq(Digit) /\ w.out \in Seq(Digit)
  BY DEF Walk, Key
<1>2. SUFFICES ASSUME Len(w.out) = Len(w.b) PROVE FALSE
  BY <1>1 DEF Bound
<1>3. Len(w.b) \in Nat /\ Len(w.b) > 0 /\ Len(w.a) \in Nat
  BY <1>1
<1>4. CASE Len(w.b) > Len(w.a)
  BY <1>2, <1>3, <1>4 DEF Bound, Roomy
<1>5. CASE Len(w.b) <= Len(w.a)
  <2>1. w.a # <<>>
    BY <1>1, <1>3, <1>5
  <2>2. PICK j \in 1 .. Len(w.b) : j > Len(w.a) \/ w.a[j] < w.b[j]
    BY <2>1 DEF InOrder, Less
  <2>3. w.a[j] = w.b[j] /\ w.b[j] \in Int
    <3>1. j \in 1 .. Len(w.out) /\ j <= Len(w.a)
      BY <1>1, <1>2, <1>3, <1>5
    <3>2. w.out[j] = w.b[j] /\ w.out[j] = w.a[j]
      BY <3>1 DEF Bound
    <3>3. w.out[j] \in Digit
      BY <1>1, <3>1
    <3>4. Base \in Nat
      BY PositionsAssumption
    <3> QED
      BY <3>2, <3>3, <3>4 DEF Digit
  <2> QED
    BY <1>3, <1>5, <2>2, <2>3
<1> QED
  BY <1>3, <1>4, <1>5

\* Taking a's digit, or b's where a has ended, keeps the loop invariant.
LEMMA StepKeeps ==
  ASSUME NEW w \in Walk, Good(w), ~w.done, NEW g \in Digit, NEW free \in BOOLEAN,
         \/ da(w) = db(w) /\ g = da(w) /\ free = w.free
         \/ /\ ~Room(w) /\ da(w) # db(w)
            /\ IF da(w) >= 0 THEN g = da(w) /\ free = TRUE ELSE g = db(w) /\ free = w.free
  PROVE  Good(Take(w, g, free))
<1> DEFINE v == Take(w, g, free)
           n == Len(w.out)
<1>1. /\ v \in Walk
      /\ v.a = w.a /\ v.b = w.b /\ v.done = w.done /\ v.free = free
      /\ v.out = Append(w.out, g)
  BY Taking
<1>2. w.a \in Seq(Digit) /\ w.b \in Seq(Digit) /\ w.out \in Seq(Digit) /\ n \in Nat
  BY DEF Walk, Key
<1>3. /\ Len(v.out) = n + 1 /\ v.out[n + 1] = g
      /\ \A j \in 1 .. n : v.out[j] = w.out[j]
  BY <1>1, <1>2
<1>4. Base \in Nat /\ Base >= 2
  BY PositionsAssumption
<1>5. /\ da(w) \in -1 .. Base - 1 /\ db(w) \in 0 .. Base
      /\ ~Room(w) /\ da(w) # db(w) /\ ~(da(w) >= 0) => db(w) = 0
  BY Digits
<1>6. SUFFICES ASSUME InOrder(v) PROVE IF v.free THEN Unbound(v) ELSE Bound(v)
  BY <1>1 DEF Good
<1>0. n = Len(w.out)
  OBVIOUS
<1> HIDE DEF v, n
<1>7. InOrder(w)
  BY <1>1, <1>6 DEF InOrder
<1>8. CASE w.free
  <2>1. Unbound(w) /\ db(w) = Base
    BY <1>7, <1>8 DEF Good, db
  <2>2. da(w) # db(w)
    BY <1>0, <1>4, <1>5, <2>1
  <2>3. da(w) >= 0
    BY <1>0, <1>4, <1>5, <2>1, <2>2
  <2>4. n < Len(w.a) /\ g = w.a[n + 1] /\ v.free
    BY <1>0, <1>1, <1>2, <2>2, <2>3 DEF da
  <2>5. Len(v.out) <= Len(v.a) /\ \A j \in 1 .. Len(v.out) : v.out[j] = v.a[j]
    BY <1>0, <1>1, <1>2, <1>3, <2>1, <2>4 DEF Unbound
  <2>6. ASSUME v.b # <<>> PROVE Under(v.out, v.b)
    <3>1. PICK j \in 1 .. n :
            j <= Len(w.b) /\ w.out[j] < w.b[j] /\ \A i \in 1 .. j - 1 : w.out[i] = w.b[i]
      BY <1>0, <1>1, <2>1, <2>6 DEF Unbound, Under
    <3>2. j \in 1 .. Len(v.out) /\ j <= Len(v.b) /\ v.b = w.b
      BY <1>1, <1>2, <1>3, <3>1
    <3>3. v.out[j] < v.b[j]
      BY <1>3, <3>1, <3>2
    <3>4. ASSUME NEW i \in 1 .. j - 1 PROVE v.out[i] = v.b[i]
      <4>1. i \in 1 .. n
        BY <1>2
      <4> QED
        BY <1>3, <3>1, <3>2, <4>1
    <3> QED
      BY <3>2, <3>3, <3>4 DEF Under
  <2> QED
    BY <2>4, <2>5, <2>6 DEF Unbound
<1>9. CASE ~w.free
  <2>1. Bound(w)
    BY <1>7, <1>9 DEF Good
  <2>2. CASE da(w) >= 0
    <3>1. n < Len(w.a) /\ g = w.a[n + 1] /\ g = da(w)
      BY <1>0, <1>2, <1>5, <2>2 DEF da
    <3>2. CASE da(w) = db(w)
      <4>1. n < Len(w.b) /\ g = w.b[n + 1] /\ ~v.free
        BY <1>0, <1>1, <1>2, <1>4, <1>5, <1>9, <3>1, <3>2 DEF db
      <4> QED
        <5>1. Len(v.out) <= Len(v.b)
          BY <1>0, <1>1, <1>2, <1>3, <4>1
        <5>2. ASSUME NEW j \in 1 .. n + 1
              PROVE  /\ v.out[j] = v.b[j]
                     /\ j <= Len(v.a) => v.out[j] = v.a[j]
                     /\ j > Len(v.a) => v.out[j] = 0
          <6>1. CASE j \in 1 .. n
            BY <1>0, <1>1, <1>3, <2>1, <6>1 DEF Bound
          <6>2. CASE j = n + 1
            <7>1. v.out[j] = v.b[j] /\ v.out[j] = v.a[j]
              BY <1>1, <1>3, <3>1, <4>1, <6>2
            <7>2. j <= Len(v.a) /\ Len(v.a) \in Nat
              BY <1>0, <1>1, <1>2, <3>1, <6>2
            <7> QED
              BY <7>1, <7>2
          <6> QED
            BY <1>0, <1>2, <6>1, <6>2
        <5> QED
          BY <1>0, <1>3, <4>1, <5>1, <5>2 DEF Bound
    <3>3. CASE da(w) # db(w)
      <4>1. v.free
        BY <1>1, <2>2, <3>3
      <4>2. /\ Len(v.out) <= Len(v.a)
            /\ \A j \in 1 .. Len(v.out) : v.out[j] = v.a[j]
        <5>1. ASSUME NEW j \in 1 .. n PROVE v.out[j] = v.a[j]
          BY <1>0, <1>1, <1>2, <1>3, <2>1, <3>1 DEF Bound
        <5>2. n + 1 <= Len(w.a) /\ Len(v.out) <= Len(v.a)
          BY <1>0, <1>1, <1>2, <1>3, <3>1
        <5>3. v.out[n + 1] = v.a[n + 1]
          BY <1>1, <1>3, <3>1
        <5> QED
          BY <1>2, <1>3, <5>1, <5>2, <5>3
      <4>3. ASSUME v.b # <<>> PROVE Under(v.out, v.b)
        <5>1. n < Len(w.b) /\ db(w) = w.b[n + 1]
          BY <1>0, <1>1, <1>2, <1>7, <1>9, <2>1, <4>3, MoreOfB DEF Good, db
        <5>2. g < w.b[n + 1]
          <6>1. w.a # <<>> /\ Less(w.a, w.b)
            BY <1>0, <1>1, <1>2, <1>7, <3>1, <4>3 DEF InOrder
          <6>2. PICK j \in 1 .. Len(w.b) : /\ \A i \in 1 .. j - 1 : i <= Len(w.a) /\ w.a[i] = w.b[i]
                                           /\ j > Len(w.a) \/ w.a[j] < w.b[j]
            BY <6>1 DEF Less
          <6>3. \A i \in 1 .. n : w.a[i] = w.b[i] /\ w.a[i] \in Int
            <7>1. ASSUME NEW i \in 1 .. n PROVE w.a[i] = w.b[i] /\ w.a[i] \in Digit
              BY <1>0, <1>2, <2>1, <3>1 DEF Bound
            <7> QED
              BY <1>4, <7>1 DEF Digit
          <6>4. j > n
            <7>1. SUFFICES ASSUME j \in 1 .. n PROVE FALSE
              BY <1>0, <1>2
            <7> QED
              BY <1>0, <1>2, <3>1, <6>2, <6>3, <7>1
          <6>5. w.a[n + 1] # w.b[n + 1]
            BY <3>1, <3>3, <5>1
          <6>6. j = n + 1
            BY <1>0, <1>2, <5>1, <6>2, <6>4, <6>5
          <6>7. n + 1 <= Len(w.a) /\ Len(w.a) \in Nat
            BY <1>0, <1>2, <3>1
          <6>8. w.a[n + 1] < w.b[n + 1]
            BY <1>2, <6>2, <6>6, <6>7
          <6> QED
            BY <3>1, <6>8
        <5>3. n + 1 \in 1 .. Len(v.out) /\ n + 1 <= Len(v.b) /\ v.b = w.b
          BY <1>1, <1>2, <1>3, <5>1
        <5>4. v.out[n + 1] < v.b[n + 1]
          BY <1>3, <5>2, <5>3
        <5>5. ASSUME NEW i \in 1 .. (n + 1) - 1 PROVE v.out[i] = v.b[i]
          <6>1. i \in 1 .. n
            BY <1>2
          <6>2. w.out[i] = w.b[i]
            BY <1>0, <2>1, <6>1 DEF Bound
          <6> QED
            BY <1>3, <5>3, <6>1, <6>2
        <5> QED
          BY <5>3, <5>4, <5>5 DEF Under
      <4> QED
        BY <4>1, <4>2, <4>3 DEF Unbound
    <3> QED
      BY <3>2, <3>3
  <2>3. CASE ~(da(w) >= 0)
    <3>1. n >= Len(w.a) /\ da(w) # db(w)
      BY <1>0, <1>2, <1>4, <1>5, <2>3 DEF da, Digit
    <3>2. db(w) = 0 /\ g = 0 /\ ~v.free
      BY <1>1, <1>5, <1>9, <2>3, <3>1
    <3>3. n < Len(w.b) /\ w.b[n + 1] = 0
      BY <1>0, <1>2, <1>4, <1>9, <3>2 DEF db
    <3> QED
      BY <1>0, <1>1, <1>2, <1>3, <2>1, <3>1, <3>2, <3>3 DEF Bound
  <2> QED
    BY <2>2, <2>3
<1> QED
  BY <1>8, <1>9

\* A digit between those of a and b ends the loop with a key between them.
LEMMA SplitKeeps ==
  ASSUME NEW w \in Walk, Good(w), ~w.done, Room(w), NEW g \in Digit,
         g = da(w) + (db(w) - da(w)) \div 2
  PROVE  Finished(w) \in Walk /\ Good(Finished(w))
<1> DEFINE n == Len(w.out)
           v == Finished(w)
<1>0. n = Len(w.out)
  OBVIOUS
<1>1. /\ v \in Walk
      /\ v.a = w.a /\ v.b = w.b /\ v.done /\ v.out = Padded(Append(w.out, g))
  <2>1. v = [w EXCEPT !.out = Padded(Append(w.out, g)), !.done = TRUE]
    BY DEF Finished
  <2>2. Padded(Append(w.out, g)) \in Key
    BY Padding DEF Walk
  <2> HIDE DEF v
  <2> QED
    BY <2>1, <2>2 DEF Walk
<1> HIDE DEF n, v
<1>2. w.a \in Seq(Digit) /\ w.b \in Seq(Digit) /\ w.out \in Seq(Digit) /\ n \in Nat
  BY <1>0 DEF Walk, Key
<1>3. /\ v.out \in Seq(Digit) /\ Roomy(v.out)
      /\ Len(v.out) > n /\ v.out[n + 1] = g
      /\ \A j \in 1 .. n : v.out[j] = w.out[j]
  <2>1. w.out \in Key /\ Key = Seq(Digit)
    BY <1>2 DEF Key
  <2>2. PICK k : k = Padded(Append(w.out, g))
    OBVIOUS
  <2>3. /\ k \in Key /\ Roomy(k)
        /\ Len(k) > Len(w.out) /\ k[Len(w.out) + 1] = g
        /\ \A j \in 1 .. Len(w.out) : k[j] = w.out[j]
    BY <2>1, <2>2, Padding
  <2> QED
    BY <1>0, <1>1, <2>1, <2>2, <2>3
<1>4. da(w) \in Int /\ db(w) \in Int /\ da(w) < g /\ g < db(w)
  BY Digits, PositionsAssumption DEF Room
<1>5. SUFFICES ASSUME InOrder(v) PROVE Correct(v)
  BY <1>1, <1>3 DEF Good, v
<1>6. InOrder(w)
  BY <1>1, <1>5 DEF InOrder
<1>7. IF w.free THEN Unbound(w) ELSE Bound(w)
  BY <1>6 DEF Good
<1>8. \A i \in 1 .. n : i <= Len(w.a) => w.out[i] = w.a[i]
  BY <1>0, <1>7 DEF Bound, Unbound
<1>9. Less(v.a, v.out)
  <2>1. CASE n < Len(w.a)
    <3>1. w.a[n + 1] < g
      BY <1>0, <1>4, <2>1 DEF da
    <3>2. \A i \in 1 .. n : i <= Len(w.a) /\ w.a[i] = v.out[i]
      BY <1>2, <1>3, <1>8, <2>1
    <3>3. n + 1 \in 1 .. Len(v.out) /\ w.a[n + 1] < v.out[n + 1]
      BY <1>2, <1>3, <3>1
    <3>4. \A i \in 1 .. (n + 1) - 1 : i <= Len(w.a) /\ w.a[i] = v.out[i]
      BY <1>2, <3>2
    <3> QED
      BY <1>1, <3>3, <3>4 DEF Less
  <2>2. CASE n >= Len(w.a)
    <3>1. Len(w.a) + 1 \in 1 .. Len(v.out) /\ Len(w.a) + 1 > Len(w.a)
      BY <1>2, <1>3, <2>2
    <3>2. \A i \in 1 .. (Len(w.a) + 1) - 1 : i <= Len(w.a) /\ w.a[i] = v.out[i]
      BY <1>2, <1>3, <1>8, <2>2
    <3> QED
      BY <1>1, <3>1, <3>2 DEF Less
  <2> QED
    BY <1>2, <2>1, <2>2
<1>10. ASSUME v.b # <<>> PROVE Less(v.out, v.b)
  <2>1. CASE w.free
    <3>1. PICK j \in 1 .. n :
            j <= Len(w.b) /\ w.out[j] < w.b[j] /\ \A i \in 1 .. j - 1 : w.out[i] = w.b[i]
      BY <1>0, <1>1, <1>7, <1>10, <2>1 DEF Unbound, Under
    <3>2. j \in 1 .. Len(w.b) /\ v.out[j] < w.b[j]
      BY <1>2, <1>3, <3>1
    <3>3. \A i \in 1 .. j - 1 : i <= Len(v.out) /\ v.out[i] = w.b[i]
      BY <1>2, <1>3, <3>1
    <3> QED
      BY <1>1, <3>2, <3>3 DEF Less
  <2>2. CASE ~w.free
    <3>1. Bound(w) /\ n < Len(w.b)
      BY <1>0, <1>1, <1>6, <1>7, <1>10, <2>2, MoreOfB DEF Good
    <3>2. g < w.b[n + 1] /\ n + 1 \in 1 .. Len(w.b)
      BY <1>0, <1>2, <1>4, <2>2, <3>1 DEF db
    <3>3. \A i \in 1 .. (n + 1) - 1 : i <= Len(v.out) /\ v.out[i] = w.b[i]
      BY <1>0, <1>2, <1>3, <3>1 DEF Bound
    <3> QED
      BY <1>1, <1>3, <3>2, <3>3 DEF Less
  <2> QED
    BY <2>1, <2>2
<1> QED
  BY <1>1, <1>9, <1>10 DEF Correct

------------------------------------------------------------------------------
(* The system. *)

\* A call starts with the keys of placed elements, or none.
LEMMA Neighbours ==
  ASSUME IInv, NEW S \in SUBSET Placed, NEW p \in Sides(S)
  PROVE  /\ p[1] \in Key /\ p[2] \in Key
         /\ p[1] = <<>> \/ Roomy(p[1])
         /\ p[2] = <<>> \/ Roomy(p[2])
<1>1. \A x \in S : pos[x] \in Key /\ Roomy(pos[x])
  BY DEF IInv, TypeOK, Placed
<1>2. <<>> \in Key
  BY DEF Key
<1> QED
  BY <1>1, <1>2 DEF Sides

LEMMA BeginKeeps ==
  ASSUME IInv, NEW d \in Device, NEW e \in Elem, NEW S \in SUBSET Placed,
         NEW p \in Sides(S), Begin(d, e, p[1], p[2])
  PROVE  IInv'
<1> DEFINE w == [elem |-> e, a |-> p[1], b |-> p[2], out |-> <<>>, free |-> FALSE, done |-> FALSE]
<1>1. /\ p[1] \in Key /\ p[2] \in Key
      /\ p[1] = <<>> \/ Roomy(p[1])
      /\ p[2] = <<>> \/ Roomy(p[2])
  BY Neighbours
<1>2. w \in Walk
  <2>1. <<>> \in Key
    BY DEF Key
  <2> QED
    BY <1>1, <2>1 DEF Walk
<1>3. walk' = [walk EXCEPT ![d] = w] /\ pos' = pos /\ aside' = aside
  BY DEF Begin
<1>4. Good(w)
  <2>1. Len(w.out) = 0 /\ Len(w.b) \in Nat
    BY <1>1 DEF Key
  <2>2. Bound(w)
    BY <2>1 DEF Bound
  <2> QED
    BY <1>1, <2>2 DEF Good
<1> HIDE DEF w
<1>5. walk' \in [Device -> Walk \cup {NoWalk}]
  BY <1>2, <1>3 DEF IInv, TypeOK
<1>6. \A c \in Device : walk'[c] # NoWalk => Good(walk'[c])
  BY <1>3, <1>4 DEF IInv, TypeOK
<1> QED
  BY <1>3, <1>5, <1>6 DEF IInv, TypeOK

\* A device's walk becomes v.
LEMMA WalkOn ==
  ASSUME IInv, NEW d \in Device, NEW v \in Walk, Good(v),
         walk' = [walk EXCEPT ![d] = v], UNCHANGED <<pos, aside>>
  PROVE  IInv'
<1>1. walk' \in [Device -> Walk \cup {NoWalk}]
  BY DEF IInv, TypeOK
<1>2. \A c \in Device : walk'[c] # NoWalk => Good(walk'[c])
  BY DEF IInv, TypeOK
<1> QED
  BY <1>1, <1>2 DEF IInv, TypeOK

\* TypeOK and the loop's invariant hold of every reachable state.
THEOREM Inductive == Spec => []IInv
<1>1. Init => IInv
  BY PositionsAssumption DEF Init, IInv, TypeOK
<1>2. IInv /\ [Next]_vars => IInv'
  <2> SUFFICES ASSUME IInv, [Next]_vars PROVE IInv'
    OBVIOUS
  <2>1. ASSUME NEW d \in Device, NEW e \in Elem, Add(d, e) PROVE IInv'
    <3>1. Placed \in SUBSET Placed /\ Placed \ aside \in SUBSET Placed
      OBVIOUS
    <3>2. PICK S \in SUBSET Placed : \E p \in Sides(S) : Begin(d, e, p[1], p[2])
      BY <2>1, <3>1 DEF Add, End
    <3> QED
      BY <3>2, BeginKeeps
  <2>2. ASSUME NEW d \in Device, NEW e \in Elem, NEW x \in Elem, AddItemAfter(d, e, x)
        PROVE IInv'
    BY <2>2, BeginKeeps DEF AddItemAfter, After
  <2>3. ASSUME NEW d \in Device, NEW e \in Elem, Drag(d, e) PROVE IInv'
    BY <2>3, BeginKeeps DEF Drag, Others
  <2>4. ASSUME NEW d \in Device, d \in Running PROVE walk[d] \in Walk /\ Good(walk[d]) /\ ~walk[d].done
    BY <2>4 DEF Running, IInv, TypeOK
  <2>5. ASSUME NEW d \in Device, Same(d) PROVE IInv'
    <3> DEFINE w == walk[d]
    <3>1. w \in Walk /\ Good(w) /\ ~w.done /\ da(w) = db(w)
      BY <2>4, <2>5 DEF Same
    <3>2. da(w) \in Digit /\ w.free \in BOOLEAN
      BY <3>1, Digits DEF Walk
    <3>3. Take(w, da(w), w.free) \in Walk
      BY <3>1, <3>2, Taking
    <3>4. Good(Take(w, da(w), w.free))
      BY <3>1, <3>2, StepKeeps
    <3>5. walk' = [walk EXCEPT ![d] = Take(w, da(w), w.free)] /\ UNCHANGED <<pos, aside>>
      BY <2>5 DEF Same
    <3> QED
      BY <3>3, <3>4, <3>5, WalkOn
  <2>6. ASSUME NEW d \in Device, Split(d) PROVE IInv'
    <3> DEFINE w == walk[d]
    <3>1. w \in Walk /\ Good(w) /\ ~w.done /\ Room(w)
      BY <2>4, <2>6 DEF Split
    <3>2. Finished(w) \in Walk /\ Good(Finished(w))
      BY <3>1, Digits, SplitKeeps
    <3>3. walk' = [walk EXCEPT ![d] = Finished(w)] /\ UNCHANGED <<pos, aside>>
      BY <2>6 DEF Split
    <3> QED
      BY <3>2, <3>3, WalkOn
  <2>7. ASSUME NEW d \in Device, Deeper(d) PROVE IInv'
    <3> DEFINE w == walk[d]
    <3>1. w \in Walk /\ Good(w) /\ ~w.done /\ ~Room(w) /\ da(w) # db(w)
      BY <2>4, <2>7 DEF Deeper
    <3>2. /\ walk' = [walk EXCEPT ![d] = IF da(w) >= 0 THEN Take(w, da(w), TRUE)
                                         ELSE Take(w, db(w), w.free)]
          /\ UNCHANGED <<pos, aside>>
      BY <2>7 DEF Deeper
    <3> HIDE DEF w
    <3>4. w.free \in BOOLEAN /\ 0 \in Digit
      BY <3>1, PositionsAssumption DEF Walk, Digit
    <3>5. CASE da(w) >= 0
      <4>1. Take(w, da(w), TRUE) \in Walk /\ Good(Take(w, da(w), TRUE))
        BY <3>1, <3>5, Digits, Taking, StepKeeps
      <4>2. walk' = [walk EXCEPT ![d] = Take(w, da(w), TRUE)]
        BY <3>2, <3>5
      <4> QED
        BY <3>2, <4>1, <4>2, WalkOn
    <3>6. CASE ~(da(w) >= 0)
      <4>1. Take(w, db(w), w.free) \in Walk /\ Good(Take(w, db(w), w.free))
        BY <3>1, <3>4, <3>6, Digits, Taking, StepKeeps
      <4>2. walk' = [walk EXCEPT ![d] = Take(w, db(w), w.free)]
        BY <3>2, <3>6
      <4> QED
        BY <3>2, <4>1, <4>2, WalkOn
    <3> QED
      BY <3>5, <3>6
  <2>8. ASSUME NEW d \in Device, Place(d) PROVE IInv'
    <3>1. walk[d] \in Walk /\ walk[d].done /\ Roomy(walk[d].out)
      BY <2>8 DEF Place, Quiet, Running, IInv, TypeOK, Good
    <3>2. walk[d].elem \in Elem /\ walk[d].out \in Key
      BY <3>1 DEF Walk
    <3>3. pos' \in [Elem -> Key \cup {NoKey}]
      BY <2>8, <3>2 DEF Place, IInv, TypeOK
    <3>4. walk' \in [Device -> Walk \cup {NoWalk}]
      BY <2>8 DEF Place, IInv, TypeOK
    <3>5. \A e \in Elem : pos'[e] # NoKey => Roomy(pos'[e])
      BY <2>8, <3>1, <3>2 DEF Place, IInv, TypeOK
    <3>6. \A c \in Device : walk'[c] # NoWalk => Good(walk'[c])
      BY <2>8 DEF Place, IInv, TypeOK
    <3> QED
      BY <2>8, <3>3, <3>4, <3>5, <3>6 DEF Place, IInv, TypeOK
  <2>9. ASSUME NEW e \in Elem, Hide(e) \/ Show(e) PROVE IInv'
    BY <2>9 DEF Hide, Show, IInv, TypeOK
  <2>10. CASE UNCHANGED vars
    BY <2>10 DEF vars, IInv, TypeOK
  <2> QED
    BY <2>1, <2>2, <2>3, <2>5, <2>6, <2>7, <2>8, <2>9, <2>10 DEF Next
<1> QED
  BY <1>1, <1>2, PTL DEF Spec

\* KeyBetween, given neighbours in order, returns a key between them.
THEOREM KeysBetween == Spec => []Between
<1>1. IInv => Between
  BY DEF IInv, Good, InOrder, Correct, Between
<1> QED
  BY <1>1, Inductive, PTL

\* The precondition of KeyBetween on trailing digits holds of every key there is.
THEOREM KeysRoomy == Spec => []NeverEndsInMinimumDigit
<1>1. IInv => NeverEndsInMinimumDigit
  BY DEF IInv, Good, NeverEndsInMinimumDigit
<1> QED
  BY <1>1, Inductive, PTL
==============================================================================
