----------------------------- MODULE ClientProofs -----------------------------
(***************************************************************************)
(* What is proved of the parts of the page that work alone: the search box *)
(* (SearchStore), the panel a note is edited in (FocusedNote), and the     *)
(* clock that stamps its edits (DeviceClock, with the strings of Hlc).     *)
(***************************************************************************)
EXTENDS SearchStore, FocusedNote, DeviceClock, SequenceTheorems, WellFoundedInduction, TLAPS

------------------------------------------------------------------------------
(* The search box. *)

\* The last request under way, or the answer shown when there is none, is for
\* the query in the box, unless a timer will still search for it.
LastAsked ==
  IF asked = <<>> THEN matched \in {query, Nothing} ELSE asked[Len(asked)] = query

SearchInv ==
  /\ query \in Query /\ asked \in Seq(Query)
  /\ timer # Unarmed => timer = query
  /\ timer = Unarmed /\ query # NoQuery => LastAsked

\* Answers that come in order take the request at the head of the queue.
LEMMA AnswerAtHead ==
  ASSUME ~Overtaking, asked \in Seq(Query), NEW j \in 1 .. Len(asked), Answered(j)
  PROVE  /\ asked # <<>> /\ asked' = Tail(asked)
         /\ matched' \in {asked[1], Nothing}
         /\ UNCHANGED <<query, timer>>
<1>1. j = 1
  BY DEF Answered
<1>2. asked' = SubSeq(asked, 1, 0) \o SubSeq(asked, 2, Len(asked))
  BY <1>1 DEF Answered
<1>3. SubSeq(asked, 1, 0) = <<>> /\ Tail(asked) = SubSeq(asked, 2, Len(asked))
  OBVIOUS
<1>4. SubSeq(asked, 2, Len(asked)) \in Seq(Query)
  OBVIOUS
<1>5. <<>> \o SubSeq(asked, 2, Len(asked)) = SubSeq(asked, 2, Len(asked))
  BY <1>4
<1> QED
  BY <1>1, <1>2, <1>3, <1>5 DEF Answered

LEMMA SearchStep ==
  ASSUME ~Overtaking, SearchInv, [QNext]_qvars
  PROVE  SearchInv'
<1> USE SearchAssumption
<1>1. CASE \E q \in Query : Key(q)
  <2>1. PICK q \in Query : Key(q)
    BY <1>1
  <2>2. CASE q = NoQuery
    BY <2>1, <2>2 DEF Key, Armed, SearchInv
  <2>3. CASE q # NoQuery
    BY <2>1, <2>3 DEF Key, Armed, SearchInv
  <2> QED
    BY <2>2, <2>3
<1>2. CASE Ask
  <2>1. timer = query /\ asked' = Append(asked, query) /\ asked \in Seq(Query)
    BY <1>2 DEF Ask, SearchInv
  <2>2. /\ asked' \in Seq(Query) /\ asked' # <<>>
        /\ asked'[Len(asked')] = query
    BY <2>1 DEF SearchInv
  <2> QED
    BY <1>2, <2>2 DEF Ask, SearchInv, LastAsked
<1>3. CASE \E j \in 1 .. Len(asked) : Answered(j)
  <2>1. /\ asked # <<>> /\ asked' = Tail(asked)
        /\ matched' \in {asked[1], Nothing}
        /\ UNCHANGED <<query, timer>>
    BY <1>3, AnswerAtHead DEF SearchInv
  <2>2. asked \in Seq(Query) /\ asked' \in Seq(Query)
    BY <2>1 DEF SearchInv
  <2>3. CASE timer = Unarmed /\ query # NoQuery
    <3>1. asked[Len(asked)] = query
      BY <2>1, <2>3 DEF SearchInv, LastAsked
    <3>2. CASE asked' = <<>>
      <4>1. Len(Tail(asked)) = Len(asked) - 1 /\ Len(asked) \in Nat
        BY <2>1, <2>2
      <4>2. Len(asked) = 1
        BY <2>1, <3>2, <4>1
      <4> QED
        BY <2>1, <2>2, <3>1, <3>2, <4>2 DEF SearchInv, LastAsked
    <3>3. CASE asked' # <<>>
      <4>1. asked'[Len(asked')] = asked[Len(asked)]
        BY <2>1, <2>2, <3>3
      <4> QED
        BY <2>1, <2>2, <3>1, <3>3, <4>1 DEF SearchInv, LastAsked
    <3> QED
      BY <3>2, <3>3
  <2>4. CASE ~(timer = Unarmed /\ query # NoQuery)
    BY <2>1, <2>2, <2>4 DEF SearchInv
  <2> QED
    BY <2>3, <2>4
<1>4. CASE UNCHANGED qvars
  BY <1>4 DEF SearchInv, LastAsked, qvars
<1> QED
  BY <1>1, <1>2, <1>3, <1>4 DEF QNext

\* When answers come in the order of their requests, what is shown once nothing
\* is under way is the answer to the query in the box (search.ts).
THEOREM AnswersSettle == ASSUME ~Overtaking PROVE QSpec => []Settled
<1>1. QInit => SearchInv
  BY SearchAssumption DEF QInit, SearchInv
<1>2. SearchInv => Settled
  BY DEF SearchInv, LastAsked, Settled
<1>3. SearchInv /\ [QNext]_qvars => SearchInv'
  BY SearchStep
<1> QED
  BY <1>1, <1>2, <1>3, PTL DEF QSpec

------------------------------------------------------------------------------
(* The panel. *)

NoteShape == [title : Text, item : Text \cup {NoItem}, list : List]

\* A note that is shown is in the list it was opened from; a field that has focus
\* is one of an open panel that can be edited; the title field that is being typed
\* into holds what was typed.
PanelInv ==
  /\ note \in NoteShape /\ title \in Text /\ input \in Text \cup {NoItem}
  /\ panel \in List \cup {"closed"}
  /\ focus \in {"none", "title", "item"} /\ (focus # "none" => Editable)
  /\ focus = "none" => typed = NoText
  /\ focus = "item" => note.item # NoItem
  /\ ShowsItsList
  /\ Unclobbered

LEMMA BlurredShape ==
  ASSUME PanelInv, NEW n \in NoteShape
  PROVE  /\ Blurred(n) \in NoteShape /\ Blurred(n).list = n.list
         /\ focus # "title" => Blurred(n).title = n.title
BY DEF PanelInv, Blurred, NoteShape

LEMMA BecomesStep ==
  ASSUME PanelInv, NEW n \in NoteShape, Becomes(n)
  PROVE  PanelInv'
<1>1. CASE panel = "closed" \/ Stays(panel, n)
  <2>1. /\ note' = n /\ panel' = panel
        /\ title' = Resynced(n)
        /\ focus' \in {focus, "none"} /\ (focus = "title" => focus' = "title")
        /\ typed' \in {typed, NoText} /\ (focus = "title" => typed' = typed)
        /\ focus' = "none" => typed' = NoText
        /\ focus' = "item" => n.item # NoItem
        /\ input' \in {input, n.item}
    BY <1>1 DEF Becomes, PanelInv
  <2>2. note' \in NoteShape /\ title' \in Text /\ input' \in Text \cup {NoItem}
    BY <2>1 DEF PanelInv, NoteShape, Resynced
  <2>3. ShowsItsList' /\ (focus' # "none" => Editable')
    BY <1>1, <2>1 DEF PanelInv, ShowsItsList, Stays, Editable
  <2>4. Unclobbered'
    <3>1. CASE focus = "title"
      BY <2>1, <3>1 DEF PanelInv, Unclobbered, Resynced
    <3>2. CASE focus # "title"
      BY <2>1, <3>2 DEF Unclobbered
    <3> QED
      BY <3>1, <3>2
  <2> QED
    BY <2>1, <2>2, <2>3, <2>4 DEF PanelInv
<1>2. CASE ~(panel = "closed" \/ Stays(panel, n))
  <2>1. /\ note' \in {n, Blurred(n)}
        /\ title' = note'.title /\ input' = note'.item
        /\ panel' = "closed" /\ focus' = "none" /\ typed' = NoText
    BY <1>2 DEF Becomes, Removed
  <2>2. note' \in NoteShape
    BY <2>1, BlurredShape
  <2> QED
    BY <2>1, <2>2 DEF PanelInv, NoteShape, ShowsItsList, Unclobbered, Editable
<1> QED
  BY <1>1, <1>2

\* What Button and Reconciled make of the note is a note.
LEMMA NoteChanges ==
  ASSUME PanelInv, Button \/ Reconciled
  PROVE  \E n \in NoteShape : n # note /\ Becomes(n)
<1>1. CASE Button
  <2>1. PICK n \in {[note EXCEPT !.list = l] : l \in List} \cup {[note EXCEPT !.item = NoItem]} :
               n # note /\ Becomes(n)
    BY <1>1 DEF Button
  <2>2. n \in NoteShape
    BY <2>1 DEF PanelInv, NoteShape
  <2> QED
    BY <2>1, <2>2
<1>2. CASE Reconciled
  BY <1>2 DEF Reconciled, NoteShape
<1> QED
  BY <1>1, <1>2

LEMMA PanelStep ==
  ASSUME PanelInv, [NNext]_nvars
  PROVE  PanelInv'
<1>1. CASE \E view \in List : Open(view)
  <2>1. PICK view \in List : Open(view)
    BY <1>1
  <2>2. note' = note /\ title' = note.title /\ input' = note.item /\ panel' = view
    BY <2>1 DEF Open
  <2>3. ShowsItsList' /\ (focus' # "none" => Editable')
    BY <2>1, <2>2 DEF Open, Stays, ShowsItsList, Editable, List
  <2>4. Unclobbered'
    <3>1. focus = "none"
      BY <2>1 DEF PanelInv, Open, Editable
    <3> QED
      BY <2>1, <3>1 DEF Open, Unclobbered, PanelInv
  <2>5. focus = "none" /\ typed = NoText /\ typed' = typed /\ focus' \in {"none", "title"}
    BY <2>1 DEF PanelInv, Open, Editable
  <2> QED
    BY <2>2, <2>3, <2>4, <2>5 DEF PanelInv, NoteShape
<1>2. CASE \E field \in {"title", "item"} : Focus(field)
  BY <1>2 DEF Focus, PanelInv, Unclobbered, ShowsItsList, Editable
<1>3. CASE \E v \in Text : TypeTitle(v) \/ TypeItem(v)
  BY <1>3 DEF TypeTitle, TypeItem, PanelInv, Unclobbered, ShowsItsList, Editable
<1>4. CASE Blur
  <2>1. note' = Blurred(note) /\ note' \in NoteShape /\ note'.list = note.list
    BY <1>4, BlurredShape DEF Blur, PanelInv
  <2> QED
    BY <1>4, <2>1 DEF Blur, PanelInv, NoteShape, Unclobbered, ShowsItsList, Editable
<1>5. CASE Close
  <2>1. Flushed \in NoteShape
    BY DEF PanelInv, Flushed, NoteShape
  <2>2. note' \in NoteShape
    BY <1>5, <2>1, BlurredShape DEF Close
  <2> QED
    BY <1>5, <2>2 DEF Close, Removed, PanelInv, NoteShape, Unclobbered, ShowsItsList, Editable
<1>6. CASE Button \/ Reconciled
  BY <1>6, NoteChanges, BecomesStep
<1>7. CASE UNCHANGED nvars
  BY <1>7 DEF nvars, PanelInv, Unclobbered, ShowsItsList, Editable
<1> QED
  BY <1>1, <1>2, <1>3, <1>4, <1>5, <1>6, <1>7 DEF NNext

\* A step that closes the panel on its note, in its list, is Close, which flushes.
LEMMA FlushStep ==
  ASSUME PanelInv, [NNext]_nvars, Closes, focus = "title", typed # NoText
  PROVE  note'.title = typed
<1>1. ~(Button \/ Reconciled)
  <2> SUFFICES ASSUME Button \/ Reconciled PROVE FALSE
    OBVIOUS
  <2>1. PICK n \in NoteShape : Becomes(n)
    BY NoteChanges
  <2>2. CASE panel = "closed" \/ Stays(panel, n)
    BY <2>1, <2>2 DEF Becomes, Closes
  <2>3. CASE ~(panel = "closed" \/ Stays(panel, n))
    <3>1. note' \in {n, Blurred(n)}
      BY <2>1, <2>3 DEF Becomes
    <3>2. note'.list = n.list
      BY <3>1, BlurredShape
    <3> QED
      BY <2>3, <3>2 DEF Stays, Closes
  <2> QED
    BY <2>2, <2>3
<1>2. Close
  BY <1>1 DEF NNext, nvars, Closes, Open, Focus, TypeTitle, TypeItem, Blur
<1>3. Flushed \in NoteShape /\ Flushed.title = typed
  BY DEF Flushed, PanelInv, NoteShape, Unclobbered, Editable
<1> QED
  BY <1>2, <1>3 DEF Close

LEMMA PanelInit == NInit => PanelInv
BY FocusedAssumption DEF NInit, PanelInv, NoteShape, List, ShowsItsList, Unclobbered

\* FocusedNote.svelte: whoever moves the note, the panel never shows it under the
\* controls of another list.
THEOREM PanelShowsItsList == NSpec => []ShowsItsList
<1>1. PanelInv => ShowsItsList
  BY DEF PanelInv
<1>2. PanelInv /\ [NNext]_nvars => PanelInv'
  BY PanelStep
<1> QED
  BY <1>1, <1>2, PanelInit, PTL DEF NSpec

\* FocusedNote.svelte: no reply that comes while the title is typed into changes it.
THEOREM TypingIsKept == NSpec => []Unclobbered
<1>1. PanelInv => Unclobbered
  BY DEF PanelInv
<1>2. PanelInv /\ [NNext]_nvars => PanelInv'
  BY PanelStep
<1> QED
  BY <1>1, <1>2, PanelInit, PTL DEF NSpec

\* FocusedNote.svelte, close(): the store has what was typed into the title when the
\* user closes the panel.
THEOREM ClosingSavesTheTitle == NSpec => TitleFlushed
<1>1. PanelInv /\ [NNext]_nvars => PanelInv'
  BY PanelStep
<1>2. PanelInv /\ [NNext]_nvars =>
        [Closes /\ focus = "title" /\ typed # NoText => note'.title = typed]_nvars
  BY FlushStep
<1> QED
  BY <1>1, <1>2, PanelInit, PTL DEF NSpec, TitleFlushed
------------------------------------------------------------------------------
(* Powers and digits. *)

\* Induction over the numbers, by the least that is not in S.
LEMMA Induction ==
  ASSUME NEW S, 0 \in S, \A n \in Nat : n \in S => n + 1 \in S
  PROVE  Nat \subseteq S
<1> DEFINE T == {n \in Nat : n \notin S}
           R == {ss \in Nat \X Nat : ss[1] < ss[2]}
<1>1. IsWellFoundedOn(R, Nat)
  BY NatLessThanWellFounded DEF OpToRel
<1>2. SUFFICES ASSUME T # {} PROVE FALSE
  OBVIOUS
<1>3. PICK n \in T : \A m \in T : ~ (<<m, n>> \in R)
  <2> HIDE DEF R, T
  <2>1. T \in SUBSET Nat
    BY DEF T
  <2> QED BY <1>1, <1>2, <2>1, WFMin
<1>4. n \in Nat /\ n # 0
  OBVIOUS
<1>5. n - 1 \in Nat /\ n - 1 < n /\ (n - 1) + 1 = n
  BY <1>4
<1>6. n - 1 \notin S
  BY <1>4, <1>5
<1>7. n - 1 \in T /\ <<n - 1, n>> \in R
  BY <1>4, <1>5, <1>6
<1> QED BY <1>3, <1>7

\* f is Pow up to n.
Powers(f, n) == DOMAIN f = 0 .. n /\ f[0] = 1 /\ \A j \in 1 .. n : f[j] = Base * f[j - 1]

LEMMA PowersExist == \A n \in Nat : \E f : Powers(f, n)
<1> DEFINE S == {n \in Nat : \E f : Powers(f, n)}
<1>1. 0 \in S
  <2>1. Powers([j \in 0 .. 0 |-> 1], 0)
    BY DEF Powers
  <2> QED BY <2>1
<1>2. ASSUME NEW n \in Nat, n \in S PROVE n + 1 \in S
  <2>1. PICK f : Powers(f, n)
    BY <1>2
  <2> DEFINE g == [j \in 0 .. n + 1 |-> IF j = n + 1 THEN Base * f[n] ELSE f[j]]
  <2>2. g[0] = 1
    BY <2>1 DEF Powers
  <2>3. ASSUME NEW j \in 1 .. n + 1 PROVE g[j] = Base * g[j - 1]
    <3>1. CASE j = n + 1
      BY <3>1
    <3>2. CASE j # n + 1
      <4>1. j \in 1 .. n /\ j - 1 \in 0 .. n + 1 /\ j - 1 # n + 1 /\ j \in 0 .. n + 1
        BY <3>2
      <4>2. g[j] = f[j] /\ g[j - 1] = f[j - 1]
        BY <3>2, <4>1
      <4> HIDE DEF g
      <4> QED BY <2>1, <4>1, <4>2 DEF Powers
    <3> QED BY <3>1, <3>2
  <2>4. DOMAIN g = 0 .. n + 1
    OBVIOUS
  <2> HIDE DEF g
  <2>5. Powers(g, n + 1)
    BY <2>2, <2>3, <2>4 DEF Powers
  <2> QED BY <2>5
<1> HIDE DEF S
<1>3. Nat \subseteq S
  BY <1>1, <1>2, Induction
<1> QED BY <1>3 DEF S

LEMMA PowersAgree ==
  ASSUME NEW n \in Nat, NEW m \in Nat, NEW f, NEW g, Powers(f, n), Powers(g, m)
  PROVE  \A j \in Nat : j <= n /\ j <= m => f[j] = g[j]
<1> DEFINE S == {j \in Nat : j <= n /\ j <= m => f[j] = g[j]}
<1>1. 0 \in S
  BY DEF Powers
<1>2. ASSUME NEW j \in Nat, j \in S PROVE j + 1 \in S
  <2> SUFFICES ASSUME j + 1 <= n, j + 1 <= m PROVE f[j + 1] = g[j + 1]
    OBVIOUS
  <2>1. j + 1 \in 1 .. n /\ j + 1 \in 1 .. m /\ (j + 1) - 1 = j /\ j <= n /\ j <= m
    OBVIOUS
  <2>2. f[j + 1] = Base * f[j] /\ g[j + 1] = Base * g[j]
    BY <2>1 DEF Powers
  <2> QED BY <1>2, <2>1, <2>2
<1> HIDE DEF S
<1>3. Nat \subseteq S
  BY <1>1, <1>2, Induction
<1> QED BY <1>3 DEF S

\* What the definition of Pow says: the recursion is well-founded.
LEMMA PowRecursion == Pow[0] = 1 /\ \A n \in Nat : Pow[n + 1] = Base * Pow[n]
<1> DEFINE Is(f) == f = [n \in Nat |-> IF n = 0 THEN 1 ELSE Base * f[n - 1]]
           F(n) == CHOOSE f : Powers(f, n)
           h == [n \in Nat |-> F(n)[n]]
<1>1. \A n \in Nat : Powers(F(n), n)
  BY PowersExist
<1>2. h[0] = 1
  <2>1. Powers(F(0), 0)
    BY <1>1
  <2> QED BY <2>1 DEF Powers
<1>3. ASSUME NEW n \in Nat, n # 0 PROVE h[n] = Base * h[n - 1]
  <2>1. n - 1 \in Nat /\ n - 1 <= n /\ n \in 1 .. n
    BY <1>3
  <2>2. Powers(F(n), n) /\ Powers(F(n - 1), n - 1)
    BY <1>1, <2>1
  <2> HIDE DEF F
  <2>3. F(n)[n] = Base * F(n)[n - 1]
    BY <2>1, <2>2 DEF Powers
  <2>4. F(n)[n - 1] = F(n - 1)[n - 1]
    BY <2>1, <2>2, PowersAgree
  <2> QED BY <2>1, <2>3, <2>4
<1>4. Is(h)
  <2> HIDE DEF F
  <2> DEFINE k == [n \in Nat |-> IF n = 0 THEN 1 ELSE Base * h[n - 1]]
  <2>1. \A n \in Nat : h[n] = k[n]
    <3> HIDE DEF h
    <3> QED BY <1>2, <1>3
  <2>2. h = k
    BY <2>1
  <2> QED BY <2>2
<1>5. Is(Pow)
  <2>1. Pow = CHOOSE f : Is(f)
    BY DEF Pow
  <2> HIDE DEF Is, h
  <2> QED BY <1>4, <2>1
<1>6. Pow[0] = 1
  BY <1>5
<1>7. ASSUME NEW n \in Nat PROVE Pow[n + 1] = Base * Pow[n]
  <2>1. n + 1 \in Nat /\ n + 1 # 0 /\ (n + 1) - 1 = n
    OBVIOUS
  <2>2. Pow[n + 1] = IF n + 1 = 0 THEN 1 ELSE Base * Pow[(n + 1) - 1]
    BY <1>5, <2>1, Zenon
  <2> QED BY <2>1, <2>2
<1> QED BY <1>6, <1>7

LEMMA BaseType ==
  Base \in Nat /\ Base > 1 /\ WallWidth \in Nat /\ CtrWidth \in Nat /\ Device \subseteq Nat
  BY HlcAssumption

LEMMA Times ==
  ASSUME NEW d \in Nat, NEW a \in Nat, NEW b \in Nat
  PROVE  /\ d * a \in Nat
         /\ a <= b => d * a <= d * b
         /\ d > 0 /\ d * a < d * b => a < b
         /\ d * (a + 1) = d * a + d
<1>1. d * a \in Nat /\ d * b \in Nat /\ d * (a + 1) = d * a + d
  OBVIOUS
<1>2. a <= b => d * a <= d * b
  <2> SUFFICES ASSUME a <= b PROVE d * a <= d * b
    OBVIOUS
  <2>1. b - a \in Nat /\ d * b = d * a + d * (b - a)
    OBVIOUS
  <2>2. d * (b - a) \in Nat
    BY <2>1
  <2> QED BY <1>1, <2>1, <2>2
<1>3. b <= a => d * b <= d * a
  <2> SUFFICES ASSUME b <= a PROVE d * b <= d * a
    OBVIOUS
  <2>1. a - b \in Nat /\ d * a = d * b + d * (a - b)
    OBVIOUS
  <2>2. d * (a - b) \in Nat
    BY <2>1
  <2> QED BY <1>1, <2>1, <2>2
<1> QED BY <1>1, <1>2, <1>3

LEMMA PowType ==
  /\ \A n \in Nat : Pow[n] \in Nat /\ Pow[n] > 0
  /\ \A m \in Nat, n \in Nat : m <= n => Pow[m] <= Pow[n]
<1> DEFINE S == {n \in Nat : Pow[n] \in Nat /\ Pow[n] > 0}
<1>1. 0 \in S
  BY PowRecursion
<1>2. ASSUME NEW n \in Nat, n \in S PROVE n + 1 \in S /\ Pow[n] <= Pow[n + 1]
  <2> DEFINE p == Pow[n]
  <2>1. p \in Nat /\ p > 0 /\ Pow[n + 1] = Base * p
    BY <1>2, PowRecursion
  <2> HIDE DEF p
  <2>2. Base * p = p * Base /\ p * 1 = p /\ p * 1 <= p * Base
    BY <2>1, BaseType, Times
  <2>3. Base * p \in Nat /\ Base * p >= p
    BY <2>1, <2>2, BaseType
  <2>4. Pow[n + 1] \in Nat /\ Pow[n + 1] > 0 /\ p <= Pow[n + 1]
    BY <2>1, <2>3
  <2> QED BY <2>4 DEF p
<1> HIDE DEF S
<1>3. Nat \subseteq S
  BY <1>1, <1>2, Induction
<1>4. ASSUME NEW m \in Nat PROVE \A n \in Nat : m <= n => Pow[m] <= Pow[n]
  <2> DEFINE U == {n \in Nat : m <= n => Pow[m] <= Pow[n]}
  <2>1. Pow[m] \in Nat
    BY <1>3 DEF S
  <2>2. 0 \in U
    BY <2>1
  <2>3. ASSUME NEW n \in Nat, n \in U PROVE n + 1 \in U
    <3>1. Pow[n] \in Nat /\ Pow[n + 1] \in Nat /\ Pow[n] <= Pow[n + 1]
      BY <1>2, <1>3 DEF S
    <3>2. m <= n + 1 => m <= n \/ m = n + 1
      OBVIOUS
    <3> QED BY <2>1, <2>3, <3>1, <3>2
  <2> HIDE DEF U
  <2>4. Nat \subseteq U
    BY <2>2, <2>3, Induction
  <2> QED BY <2>4 DEF U
<1> QED BY <1>3, <1>4 DEF S

\* What division is: the only quotient that fits.
LEMMA Quotient ==
  ASSUME NEW x \in Nat, NEW d \in Nat, d > 0
  PROVE  /\ x \div d \in Nat
         /\ d * (x \div d) <= x /\ x < d * ((x \div d) + 1)
         /\ \A q \in Nat : d * q <= x /\ x < d * (q + 1) => q = x \div d
         /\ x % d \in 0 .. d - 1 /\ x = d * (x \div d) + (x % d)
<1> DEFINE t == x \div d
<1>1. t \in Int /\ x % d \in 0 .. d - 1 /\ x = d * t + (x % d)
  OBVIOUS
<1>2. t \in Nat
  OBVIOUS
<1> HIDE DEF t
<1>3. d * t <= x /\ x < d * (t + 1)
  <2>1. d * t \in Nat /\ d * (t + 1) = d * t + d
    BY <1>2, Times
  <2> QED BY <1>1, <2>1
<1>4. ASSUME NEW q \in Nat, d * q <= x, x < d * (q + 1) PROVE q = t
  <2>1. d * q < d * (t + 1) /\ d * t < d * (q + 1)
    <3>1. d * q \in Nat /\ d * t \in Nat /\ d * (q + 1) \in Nat /\ d * (t + 1) \in Nat
      BY <1>2, Times
    <3> QED BY <1>3, <1>4, <3>1
  <2>2. q < t + 1 /\ t < q + 1
    BY <1>2, <2>1, Times
  <2> QED BY <1>2, <2>2
<1> QED BY <1>1, <1>2, <1>3, <1>4 DEF t

\* The number without its last k digits.
Rest(x, k) == x \div Pow[k]

LEMMA RestType ==
  ASSUME NEW x \in Nat, NEW k \in Nat
  PROVE  /\ Rest(x, k) \in Nat
         /\ Rest(x, 0) = x
         /\ x < Pow[k] => Rest(x, k) = 0
         /\ \A y \in Nat : x <= y => Rest(x, k) <= Rest(y, k)
<1>1. Pow[k] \in Nat /\ Pow[k] > 0 /\ Pow[0] = 1
  BY PowType, PowRecursion
<1>2. Rest(x, k) \in Nat
  BY <1>1, Quotient DEF Rest
<1>3. Rest(x, 0) = x
  BY <1>1 DEF Rest
<1> DEFINE d == Pow[k]
<1>4. x < d => Rest(x, k) = 0
  <2>1. d * 0 = 0 /\ d * (0 + 1) = d
    BY <1>1
  <2> QED BY <1>1, <2>1, Quotient DEF Rest
<1>5. ASSUME NEW y \in Nat, x <= y PROVE Rest(x, k) <= Rest(y, k)
  <2> DEFINE a == x \div d  b == y \div d
  <2>1. d \in Nat /\ d > 0
    BY <1>1
  <2> HIDE DEF d
  <2>2. a \in Nat /\ b \in Nat /\ d * a <= x /\ y < d * (b + 1)
    BY <2>1, Quotient
  <2> HIDE DEF a, b
  <2>3. d * a \in Nat /\ d * (b + 1) \in Nat
    BY <2>1, <2>2, Times
  <2>4. d * a < d * (b + 1)
    BY <1>5, <2>2, <2>3
  <2>5. a < b + 1
    BY <2>1, <2>2, <2>4, Times
  <2>6. a <= b
    BY <2>2, <2>5
  <2> QED BY <2>6 DEF Rest, a, b, d
<1> QED BY <1>2, <1>3, <1>4, <1>5

\* The digit at k is what the rest from k has more than Base times the rest from k + 1.
LEMMA RestDigit ==
  ASSUME NEW x \in Nat, NEW k \in Nat
  PROVE  /\ Rest(x, k) % Base \in 0 .. Base - 1
         /\ Rest(x, k) = Base * Rest(x, k + 1) + (Rest(x, k) % Base)
<1> DEFINE d == Pow[k]  t == Rest(x, k)  u == t \div Base
<1>1. d \in Nat /\ d > 0 /\ Pow[k + 1] = Base * d /\ Pow[k + 1] \in Nat /\ Pow[k + 1] > 0
  BY PowType, PowRecursion
<1>2. t \in Nat /\ d * t <= x /\ x < d * (t + 1)
  BY <1>1, Quotient, RestType DEF Rest
<1> HIDE DEF d, t
<1>3. /\ u \in Nat /\ Base * u <= t /\ t < Base * (u + 1)
      /\ t % Base \in 0 .. Base - 1 /\ t = Base * u + (t % Base)
  BY <1>2, BaseType, Quotient
<1> HIDE DEF u
<1>4. Base * u \in Nat /\ Base * (u + 1) \in Nat /\ t + 1 <= Base * (u + 1)
  <2>1. Base * u \in Nat /\ Base * (u + 1) \in Nat
    BY <1>3, BaseType, Times
  <2> QED BY <1>2, <1>3, <2>1
<1>5. d * (Base * u) <= d * t /\ d * (t + 1) <= d * (Base * (u + 1))
  BY <1>1, <1>2, <1>3, <1>4, Times
<1>6. d * (Base * u) = (Base * d) * u /\ d * (Base * (u + 1)) = (Base * d) * (u + 1)
  BY <1>1, <1>3, BaseType
<1>7. (Base * d) * u <= x /\ x < (Base * d) * (u + 1)
  <2>1. /\ d * (Base * u) \in Nat /\ d * t \in Nat /\ d * (t + 1) \in Nat
        /\ d * (Base * (u + 1)) \in Nat
    BY <1>1, <1>2, <1>4, Times
  <2> QED BY <1>2, <1>5, <1>6, <2>1
<1>8. u = Rest(x, k + 1)
  BY <1>1, <1>3, <1>7, Quotient DEF Rest
<1> QED BY <1>3, <1>8 DEF t

------------------------------------------------------------------------------
(* Stamps as strings. *)

Digit(x, k) == Rest(x, k) % Base

\* A number that fits is padded to the width, the highest digit first.
LEMMA PadIs ==
  ASSUME NEW w \in Nat, NEW x \in Nat, x < Pow[w]
  PROVE  Pad(x, w) = [p \in 1 .. w |-> 1 + Digit(x, w - p)]
<1> DEFINE P(v) == x < Pow[v] /\ (v > w => x >= Pow[v - 1])
           len == CHOOSE v \in w .. w + x : P(v)
<1>1. w \in w .. w + x /\ P(w)
  OBVIOUS
<1>2. len \in w .. w + x /\ P(len)
  <2> HIDE DEF P
  <2> QED BY <1>1
<1>3. ~ (len > w)
  <2> HIDE DEF len
  <2> SUFFICES ASSUME len > w PROVE FALSE
    OBVIOUS
  <2>1. len - 1 \in Nat /\ w <= len - 1 /\ x >= Pow[len - 1]
    BY <1>2
  <2>2. Pow[w] <= Pow[len - 1] /\ Pow[w] \in Nat /\ Pow[len - 1] \in Nat
    BY <2>1, PowType
  <2> QED BY <2>1, <2>2
<1>4. len = w
  <2> HIDE DEF len
  <2> QED BY <1>2, <1>3
<1>5. Pad(x, w) = [p \in 1 .. len |-> 1 + Digit(x, len - p)]
  BY DEF Pad, Digit, Rest
<1> HIDE DEF len
<1> QED BY <1>4, <1>5

LEMMA PadType ==
  ASSUME NEW w \in Nat, NEW x \in Nat, x < Pow[w]
  PROVE  /\ Pad(x, w) \in Seq(Nat) /\ Len(Pad(x, w)) = w
         /\ \A p \in 1 .. w : Pad(x, w)[p] = 1 + Digit(x, w - p)
<1>1. \A p \in 1 .. w : 1 + Digit(x, w - p) \in Nat
  <2> SUFFICES ASSUME NEW p \in 1 .. w PROVE 1 + Digit(x, w - p) \in Nat
    OBVIOUS
  <2>1. w - p \in Nat
    OBVIOUS
  <2>2. Digit(x, w - p) \in 0 .. Base - 1
    BY <2>1, RestDigit DEF Digit
  <2> QED BY <2>2, BaseType
<1> DEFINE f == [p \in 1 .. w |-> 1 + Digit(x, w - p)]
<1>2. f \in [1 .. w -> Nat]
  BY <1>1
<1>3. f \in Seq(Nat) /\ Len(f) = w
  <2> HIDE DEF f
  <2>1. f \in Seq(Nat)
    BY <1>2
  <2> QED BY <1>2, <2>1
<1>4. \A p \in 1 .. w : f[p] = 1 + Digit(x, w - p)
  OBVIOUS
<1>5. Pad(x, w) = f
  BY PadIs
<1> HIDE DEF f
<1> QED BY <1>3, <1>4, <1>5

\* Numbers with the same first digits differ in the others only.
LEMMA SamePrefix ==
  ASSUME NEW w \in Nat, NEW x \in Nat, NEW y \in Nat, x < Pow[w], y < Pow[w],
         NEW j \in 0 .. w,
         \A p \in 1 .. j : Digit(x, w - p) = Digit(y, w - p)
  PROVE  Rest(x, w - j) = Rest(y, w - j)
<1> DEFINE S == {n \in Nat : n <= j => Rest(x, w - n) = Rest(y, w - n)}
<1>1. 0 \in S
  <2>1. Rest(x, w) = 0 /\ Rest(y, w) = 0 /\ w - 0 = w
    BY RestType
  <2> QED BY <2>1
<1>2. ASSUME NEW n \in Nat, n \in S PROVE n + 1 \in S
  <2> SUFFICES ASSUME n + 1 <= j PROVE Rest(x, w - (n + 1)) = Rest(y, w - (n + 1))
    OBVIOUS
  <2> DEFINE k == w - (n + 1)
  <2>1. k \in Nat /\ k + 1 = w - n /\ n + 1 \in 1 .. j /\ n <= j
    OBVIOUS
  <2>2. Rest(x, k + 1) = Rest(y, k + 1) /\ Digit(x, k) = Digit(y, k)
    BY <1>2, <2>1
  <2> HIDE DEF k
  <2>3. /\ Rest(x, k) = Base * Rest(x, k + 1) + (Rest(x, k) % Base)
        /\ Rest(y, k) = Base * Rest(y, k + 1) + (Rest(y, k) % Base)
    BY <2>1, RestDigit
  <2>4. Rest(x, k) = Rest(y, k)
    BY <2>2, <2>3 DEF Digit
  <2> QED BY <2>4 DEF k
<1> HIDE DEF S
<1>3. Nat \subseteq S
  BY <1>1, <1>2, Induction
<1> QED BY <1>3 DEF S

\* s comes before t by its j-th member.
Parts(s, t, j) == (\A i \in 1 .. j - 1 : s[i] = t[i]) /\ s[j] < t[j]

\* Of two numbers that fit, the smaller one's string comes first.
LEMMA PadOrder ==
  ASSUME NEW w \in Nat, NEW x \in Nat, NEW y \in Nat, x < y, y < Pow[w]
  PROVE  \E j \in 1 .. w : Parts(Pad(x, w), Pad(y, w), j)
<1>0. x < Pow[w]
  <2>1. Pow[w] \in Nat
    BY PowType
  <2> QED BY <2>1
<1> DEFINE N == {n \in Nat : n <= w => \A p \in 1 .. n : Digit(x, w - p) = Digit(y, w - p)}
<1>1. PICK n \in Nat : n \in N /\ n + 1 \notin N
  <2>1. SUFFICES ASSUME \A n \in Nat : n \in N => n + 1 \in N PROVE FALSE
    OBVIOUS
  <2>2. 0 \in N
    OBVIOUS
  <2>3. Nat \subseteq N
    <3> HIDE DEF N
    <3> QED BY <2>1, <2>2, Induction
  <2>4. \A p \in 1 .. w : Digit(x, w - p) = Digit(y, w - p)
    BY <2>3
  <2>5. w \in 0 .. w /\ w - w = 0
    OBVIOUS
  <2>6. Rest(x, w - w) = Rest(y, w - w)
    BY <1>0, <2>4, <2>5, SamePrefix
  <2>7. Rest(x, 0) = x /\ Rest(y, 0) = y
    BY RestType
  <2> QED BY <2>5, <2>6, <2>7
<1> DEFINE j == n + 1  k == w - j
<1>2. j <= w /\ \A p \in 1 .. n : Digit(x, w - p) = Digit(y, w - p)
  <2>1. n + 1 <= w
    BY <1>1
  <2> QED BY <1>1, <2>1
<1>3. Digit(x, k) # Digit(y, k)
  <2>1. SUFFICES ASSUME Digit(x, k) = Digit(y, k) PROVE n + 1 \in N
    BY <1>1
  <2>2. ASSUME NEW p \in 1 .. n + 1 PROVE Digit(x, w - p) = Digit(y, w - p)
    <3>1. p \in 1 .. n \/ p = n + 1
      OBVIOUS
    <3> QED BY <1>2, <2>1, <3>1
  <2> QED BY <2>2
<1> HIDE DEF N
<1>4. k \in Nat /\ k + 1 = w - n /\ n \in 0 .. w /\ j \in 1 .. w /\ j - 1 = n
  BY <1>2
<1>5. Rest(x, k + 1) = Rest(y, k + 1)
  BY <1>0, <1>2, <1>4, SamePrefix
<1> HIDE DEF j, k
<1>6. Digit(x, k) < Digit(y, k)
  <2> DEFINE r == Base * Rest(x, k + 1)
  <2>1. /\ Rest(x, k) = r + Digit(x, k) /\ Rest(y, k) = r + Digit(y, k)
        /\ Digit(x, k) \in 0 .. Base - 1 /\ Digit(y, k) \in 0 .. Base - 1
    BY <1>4, <1>5, RestDigit DEF Digit
  <2>2. Rest(x, k) <= Rest(y, k) /\ k + 1 \in Nat
    BY <1>4, RestType
  <2>3. r \in Nat
    BY <2>2, RestType, BaseType, Times
  <2> HIDE DEF r
  <2> QED BY <1>3, <2>1, <2>2, <2>3, BaseType
<1>7. Parts(Pad(x, w), Pad(y, w), j)
  <2>1. \A i \in 1 .. j - 1 : i \in 1 .. w /\ i \in 1 .. n
    BY <1>4
  <2>2. ASSUME NEW i \in 1 .. j - 1 PROVE Pad(x, w)[i] = Pad(y, w)[i]
    BY <1>0, <1>2, <2>1, PadType
  <2>3. Pad(x, w)[j] = 1 + Digit(x, k) /\ Pad(y, w)[j] = 1 + Digit(y, k)
    BY <1>0, <1>4, PadType DEF k
  <2>4. Digit(x, k) \in 0 .. Base - 1 /\ Digit(y, k) \in 0 .. Base - 1
    BY <1>4, RestDigit DEF Digit
  <2>5. Pad(x, w)[j] < Pad(y, w)[j]
    BY <1>6, <2>3, <2>4, BaseType
  <2> QED BY <2>2, <2>5 DEF Parts
<1> QED BY <1>4, <1>7

\* A clock whose fields have their digits.
Fits(c) == c \in Clock /\ c.wall < Pow[WallWidth] /\ c.ctr < CtrLimit

StampLength == WallWidth + CtrWidth + 3

LEMMA Joined ==
  ASSUME NEW s \in Seq(Nat), NEW t \in Seq(Nat)
  PROVE  /\ s \o t \in Seq(Nat) /\ Len(s \o t) = Len(s) + Len(t)
         /\ \A i \in 1 .. Len(s) : (s \o t)[i] = s[i]
         /\ \A i \in 1 .. Len(t) : (s \o t)[Len(s) + i] = t[i]
  OBVIOUS

LEMMA JoinedOne ==
  ASSUME NEW s \in Seq(Nat), NEW x \in Nat
  PROVE  /\ s \o <<x>> \in Seq(Nat) /\ Len(s \o <<x>>) = Len(s) + 1
         /\ \A i \in 1 .. Len(s) : (s \o <<x>>)[i] = s[i]
         /\ (s \o <<x>>)[Len(s) + 1] = x
<1>1. <<x>> \in Seq(Nat) /\ Len(<<x>>) = 1 /\ <<x>>[1] = x
  OBVIOUS
<1> QED BY <1>1, Joined

LEMMA FormatIs ==
  ASSUME NEW c, Fits(c)
  PROVE  /\ Format(c) \in Seq(Nat) /\ Len(Format(c)) = StampLength
         /\ \A i \in 1 .. WallWidth : Format(c)[i] = Pad(c.wall, WallWidth)[i]
         /\ Format(c)[WallWidth + 1] = 0
         /\ \A i \in 1 .. CtrWidth : Format(c)[WallWidth + 1 + i] = Pad(c.ctr, CtrWidth)[i]
         /\ Format(c)[WallWidth + CtrWidth + 2] = 0
         /\ Format(c)[StampLength] = c.dev
<1> DEFINE s == Pad(c.wall, WallWidth)  t == Pad(c.ctr, CtrWidth)
           a == s \o <<0>>  b == a \o t  d == b \o <<0>>  e == d \o <<c.dev>>
<1>1. /\ s \in Seq(Nat) /\ Len(s) = WallWidth
      /\ t \in Seq(Nat) /\ Len(t) = CtrWidth
      /\ c.dev \in Nat /\ WallWidth \in Nat /\ CtrWidth \in Nat
  BY BaseType, PadType DEF Fits, Clock, CtrLimit
<1>2. Format(c) = e
  BY DEF Format
<1> HIDE DEF s, t
<1>3. /\ a \in Seq(Nat) /\ Len(a) = WallWidth + 1
      /\ \A i \in 1 .. WallWidth : a[i] = s[i]
      /\ a[WallWidth + 1] = 0
  BY <1>1, JoinedOne
<1> HIDE DEF a
<1>4. /\ b \in Seq(Nat) /\ Len(b) = WallWidth + 1 + CtrWidth
      /\ \A i \in 1 .. WallWidth + 1 : b[i] = a[i]
      /\ \A i \in 1 .. CtrWidth : b[WallWidth + 1 + i] = t[i]
  <2>1. /\ b \in Seq(Nat) /\ Len(b) = Len(a) + Len(t)
        /\ \A i \in 1 .. Len(a) : b[i] = a[i]
        /\ \A i \in 1 .. Len(t) : b[Len(a) + i] = t[i]
    BY <1>1, <1>3, Joined
  <2> QED BY <1>1, <1>3, <2>1
<1> HIDE DEF b
<1>5. /\ d \in Seq(Nat) /\ Len(d) = WallWidth + CtrWidth + 2
      /\ \A i \in 1 .. WallWidth + CtrWidth + 1 : d[i] = b[i]
      /\ d[WallWidth + CtrWidth + 2] = 0
  <2>1. 0 \in Nat /\ Len(b) = WallWidth + CtrWidth + 1
        /\ Len(b) + 1 = WallWidth + CtrWidth + 2
    BY <1>1, <1>4
  <2>2. /\ d \in Seq(Nat) /\ Len(d) = Len(b) + 1
        /\ \A i \in 1 .. Len(b) : d[i] = b[i]
        /\ d[Len(b) + 1] = 0
    BY <1>4, JoinedOne
  <2> QED BY <2>1, <2>2
<1> HIDE DEF d
<1>6. /\ e \in Seq(Nat) /\ Len(e) = WallWidth + CtrWidth + 3
      /\ \A i \in 1 .. WallWidth + CtrWidth + 2 : e[i] = d[i]
      /\ e[WallWidth + CtrWidth + 3] = c.dev
  <2>1. Len(d) + 1 = WallWidth + CtrWidth + 3
    BY <1>1, <1>5
  <2>2. /\ e \in Seq(Nat) /\ Len(e) = Len(d) + 1
        /\ \A i \in 1 .. Len(d) : e[i] = d[i]
        /\ e[Len(d) + 1] = c.dev
    BY <1>1, <1>5, JoinedOne
  <2> QED BY <1>5, <2>1, <2>2
<1> HIDE DEF e
<1>7. \A i \in 1 .. WallWidth : e[i] = s[i]
  <2> SUFFICES ASSUME NEW i \in 1 .. WallWidth PROVE e[i] = s[i]
    OBVIOUS
  <2>1. i \in 1 .. WallWidth + 1 /\ i \in 1 .. WallWidth + CtrWidth + 1
        /\ i \in 1 .. WallWidth + CtrWidth + 2
    BY <1>1
  <2> QED BY <1>3, <1>4, <1>5, <1>6, <2>1
<1>8. e[WallWidth + 1] = 0
  <2>1. WallWidth + 1 \in 1 .. WallWidth + 1 /\ WallWidth + 1 \in 1 .. WallWidth + CtrWidth + 1
        /\ WallWidth + 1 \in 1 .. WallWidth + CtrWidth + 2
    BY <1>1
  <2> QED BY <1>3, <1>4, <1>5, <1>6, <2>1
<1>9. \A i \in 1 .. CtrWidth : e[WallWidth + 1 + i] = t[i]
  <2> SUFFICES ASSUME NEW i \in 1 .. CtrWidth PROVE e[WallWidth + 1 + i] = t[i]
    OBVIOUS
  <2>1. WallWidth + 1 + i \in 1 .. WallWidth + CtrWidth + 1
        /\ WallWidth + 1 + i \in 1 .. WallWidth + CtrWidth + 2
    BY <1>1
  <2> QED BY <1>4, <1>5, <1>6, <2>1
<1>10. e[WallWidth + CtrWidth + 2] = 0
  <2>1. WallWidth + CtrWidth + 2 \in 1 .. WallWidth + CtrWidth + 2
    BY <1>1
  <2> QED BY <1>5, <1>6, <2>1
<1> QED BY <1>2, <1>6, <1>7, <1>8, <1>9, <1>10 DEF StampLength, s, t

\* Strings of one length that part somewhere are in order.
LEMMA PartingOrder ==
  ASSUME NEW s \in Seq(Nat), NEW t \in Seq(Nat), Len(s) = Len(t),
         NEW j \in 1 .. Len(t), Parts(s, t, j)
  PROVE  Less(s, t)
BY DEF Less, Parts

LEMMA LessIsStrict ==
  ASSUME NEW s \in Seq(Nat), NEW t \in Seq(Nat), Len(s) = Len(t), Less(s, t)
  PROVE  ~Less(t, s) /\ s # t
<1>1. PICK j \in 1 .. Len(t) : (\A i \in 1 .. j - 1 : s[i] = t[i]) /\ s[j] < t[j]
  BY DEF Less
<1>2. s[j] \in Nat /\ t[j] \in Nat
  OBVIOUS
<1>3. s # t
  BY <1>1, <1>2
<1>4. ASSUME NEW k \in 1 .. Len(s), \A i \in 1 .. k - 1 : t[i] = s[i], t[k] < s[k] PROVE FALSE
  <2>1. s[k] \in Nat /\ t[k] \in Nat
    OBVIOUS
  <2>2. CASE j < k
    <3>1. j \in 1 .. k - 1
      BY <2>2
    <3> QED BY <1>1, <1>2, <1>4, <3>1
  <2>3. CASE k < j
    <3>1. k \in 1 .. j - 1
      BY <2>3
    <3> QED BY <1>1, <1>4, <2>1, <3>1
  <2>4. CASE k = j
    BY <1>1, <1>2, <1>4, <2>4
  <2> QED BY <2>2, <2>3, <2>4
<1>5. ~Less(t, s)
  BY <1>4 DEF Less
<1> QED BY <1>3, <1>5

LEMMA FormatKeepsBefore ==
  ASSUME NEW a, NEW b, Fits(a), Fits(b), Before(a, b)
  PROVE  Less(Format(a), Format(b))
<1> DEFINE s == Format(a)  t == Format(b)
<1>1. /\ a.wall \in Nat /\ a.ctr \in Nat /\ a.dev \in Nat
      /\ b.wall \in Nat /\ b.ctr \in Nat /\ b.dev \in Nat
      /\ WallWidth \in Nat /\ CtrWidth \in Nat
      /\ a.wall < Pow[WallWidth] /\ b.wall < Pow[WallWidth]
      /\ a.ctr < Pow[CtrWidth] /\ b.ctr < Pow[CtrWidth]
  BY BaseType DEF Fits, Clock, CtrLimit
<1>2. /\ s \in Seq(Nat) /\ t \in Seq(Nat) /\ Len(s) = StampLength /\ Len(t) = StampLength
      /\ \A i \in 1 .. WallWidth : /\ s[i] = Pad(a.wall, WallWidth)[i]
                                   /\ t[i] = Pad(b.wall, WallWidth)[i]
      /\ s[WallWidth + 1] = t[WallWidth + 1]
      /\ \A i \in 1 .. CtrWidth : /\ s[WallWidth + 1 + i] = Pad(a.ctr, CtrWidth)[i]
                                  /\ t[WallWidth + 1 + i] = Pad(b.ctr, CtrWidth)[i]
      /\ s[WallWidth + CtrWidth + 2] = t[WallWidth + CtrWidth + 2]
      /\ s[StampLength] = a.dev /\ t[StampLength] = b.dev
  BY FormatIs
<1>3. SUFFICES \E j \in 1 .. StampLength : Parts(s, t, j)
  <2> HIDE DEF s, t
  <2>1. Less(s, t)
    BY <1>2, <1>3, PartingOrder
  <2> QED BY <2>1 DEF s, t
<1> HIDE DEF s, t
<1>4. CASE a.wall < b.wall
  <2>1. PICK j \in 1 .. WallWidth : Parts(Pad(a.wall, WallWidth), Pad(b.wall, WallWidth), j)
    BY <1>1, <1>4, PadOrder
  <2>2. j \in 1 .. StampLength /\ \A i \in 1 .. j - 1 : i \in 1 .. WallWidth
    BY <1>1 DEF StampLength
  <2>3. Parts(s, t, j)
    BY <1>2, <2>1, <2>2 DEF Parts
  <2> QED BY <2>2, <2>3
<1>5. a.wall = b.wall => \A i \in 1 .. WallWidth + 1 : s[i] = t[i]
  <2> SUFFICES ASSUME a.wall = b.wall, NEW i \in 1 .. WallWidth + 1 PROVE s[i] = t[i]
    OBVIOUS
  <2>1. i \in 1 .. WallWidth \/ i = WallWidth + 1
    BY <1>1
  <2> QED BY <1>2, <2>1
<1>6. CASE a.wall = b.wall /\ a.ctr < b.ctr
  <2>1. PICK j \in 1 .. CtrWidth : Parts(Pad(a.ctr, CtrWidth), Pad(b.ctr, CtrWidth), j)
    BY <1>1, <1>6, PadOrder
  <2> DEFINE k == WallWidth + 1 + j
  <2>2. k \in 1 .. StampLength
    BY <1>1 DEF StampLength
  <2>3. ASSUME NEW i \in 1 .. k - 1 PROVE s[i] = t[i]
    <3>1. CASE i \in 1 .. WallWidth + 1
      BY <1>5, <1>6, <3>1
    <3>2. CASE i \notin 1 .. WallWidth + 1
      <4> DEFINE q == i - (WallWidth + 1)
      <4>1. q \in 1 .. j - 1 /\ q \in 1 .. CtrWidth /\ i = WallWidth + 1 + q
        BY <1>1, <3>2
      <4> HIDE DEF q
      <4> QED BY <1>2, <2>1, <4>1 DEF Parts
    <3> QED BY <3>1, <3>2
  <2>4. s[k] < t[k]
    BY <1>2, <2>1 DEF Parts
  <2> HIDE DEF k
  <2>5. Parts(s, t, k)
    BY <2>3, <2>4 DEF Parts
  <2> QED BY <2>2, <2>5
<1>7. CASE a.wall = b.wall /\ a.ctr = b.ctr /\ a.dev < b.dev
  <2>1. ASSUME NEW i \in 1 .. StampLength - 1 PROVE s[i] = t[i]
    <3>1. CASE i \in 1 .. WallWidth + 1
      BY <1>5, <1>7, <3>1
    <3>2. CASE i = WallWidth + CtrWidth + 2
      BY <1>2, <3>2
    <3>3. CASE i \notin 1 .. WallWidth + 1 /\ i # WallWidth + CtrWidth + 2
      <4> DEFINE q == i - (WallWidth + 1)
      <4>1. q \in 1 .. CtrWidth /\ i = WallWidth + 1 + q
        BY <1>1, <3>3 DEF StampLength
      <4> HIDE DEF q
      <4> QED BY <1>2, <1>7, <4>1
    <3> QED BY <3>1, <3>2, <3>3
  <2>2. StampLength \in 1 .. StampLength
    BY <1>1 DEF StampLength
  <2>3. Parts(s, t, StampLength)
    BY <1>2, <1>7, <2>1 DEF Parts
  <2> QED BY <2>2, <2>3
<1> QED BY <1>4, <1>6, <1>7 DEF Before

\* The order of the strings is the order of the clocks.
LEMMA FormatOrder ==
  ASSUME NEW a, NEW b, Fits(a), Fits(b)
  PROVE  /\ Before(a, b) <=> Less(Format(a), Format(b))
         /\ Format(a) = Format(b) => a = b
<1>1. /\ Format(a) \in Seq(Nat) /\ Format(b) \in Seq(Nat) /\ Len(Format(a)) = Len(Format(b))
  BY FormatIs
<1>2. a = b \/ Before(a, b) \/ Before(b, a)
  <2>1. a \in Clock /\ b \in Clock
    BY DEF Fits
  <2>2. /\ a.wall \in Nat /\ a.ctr \in Nat /\ a.dev \in Nat
        /\ b.wall \in Nat /\ b.ctr \in Nat /\ b.dev \in Nat
    BY <2>1, BaseType DEF Clock
  <2>3. a.wall = b.wall /\ a.ctr = b.ctr /\ a.dev = b.dev => a = b
    BY <2>1 DEF Clock
  <2> QED BY <2>2, <2>3 DEF Before
<1>3. Before(a, b) => Less(Format(a), Format(b)) /\ Format(a) # Format(b)
  BY <1>1, FormatKeepsBefore, LessIsStrict
<1>4. Before(b, a) => ~Less(Format(a), Format(b)) /\ Format(a) # Format(b)
  BY <1>1, FormatKeepsBefore, LessIsStrict
<1>5. a = b => ~Less(Format(a), Format(b))
  BY <1>1, LessIsStrict
<1> QED BY <1>2, <1>3, <1>4, <1>5

------------------------------------------------------------------------------
(* The stamps a device issues. *)

\* h is the clocks that the stamps q, issued by d, stand for; w and l are what d's wall
\* clock reads and the last clock it keeps.
Tells(h, d, w, l, q) ==
  /\ h \in Seq(Clock) /\ Len(h) = Len(q)
  /\ \A i \in 1 .. Len(h) : Fits(h[i]) /\ h[i].dev = d /\ q[i] = Format(h[i])
  /\ \A i, j \in 1 .. Len(h) : i < j => Before(h[i], h[j])
  /\ \/ l = Zero(d) /\ \A i \in 1 .. Len(h) : h[i].wall < w
     \/ l # Zero(d) /\ h # <<>> /\ h[Len(h)] = l /\ l.ctr < Len(h)

Kept(d, w, l, q) ==
  /\ w \in 1 .. MaxWall
  /\ l \in Clock /\ l.dev = d /\ l.wall <= MaxWall
  /\ q \in Seq(Seq(Nat)) /\ Len(q) <= MaxIssued
  /\ \E h : Tells(h, d, w, l, q)

\* What the properties say of strings is not inductive: this is, of the clocks they
\* stand for, each device's last one among them.
ClockInv == /\ wall \in [Device -> 1 .. MaxWall]
            /\ last \in [Device -> Clock] /\ issued \in [Device -> Seq(Seq(Nat))]
            /\ \A d \in Device : Kept(d, wall[d], last[d], issued[d])

LEMMA Bounds ==
  /\ MaxWall \in Nat /\ MaxIssued \in Nat
  /\ MaxWall < Pow[WallWidth] /\ MaxIssued < CtrLimit
  /\ Pow[WallWidth] \in Nat /\ CtrLimit \in Nat
  BY DeviceClockAssumption, BaseType, PowType DEF CtrLimit

LEMMA ZeroType ==
  \A d \in Device :
    Zero(d) \in Clock /\ Zero(d).dev = d /\ Zero(d).wall = 0 /\ Zero(d).ctr = 0
  BY DEF Zero, Clock

LEMMA BeforeTransitive ==
  ASSUME NEW a \in Clock, NEW b \in Clock, NEW c \in Clock, Before(a, b), Before(b, c)
  PROVE  Before(a, c)
<1>1. /\ a.wall \in Nat /\ a.ctr \in Nat /\ a.dev \in Nat
      /\ b.wall \in Nat /\ b.ctr \in Nat /\ b.dev \in Nat
      /\ c.wall \in Nat /\ c.ctr \in Nat /\ c.dev \in Nat
  BY BaseType DEF Clock
<1> QED BY <1>1 DEF Before

\* The next clock is after the last one, unless that is of before the page was loaded, and
\* after all that were issued.
LEMMA NextFits ==
  ASSUME NEW d \in Device, NEW w, NEW l, NEW q, Kept(d, w, l, q), NEW h, Tells(h, d, w, l, q)
  PROVE  LET c == Next(l, d, w) IN
         /\ Fits(c) /\ c.dev = d /\ c.wall <= MaxWall /\ c.wall >= 1 /\ c.ctr <= Len(h)
         /\ \A i \in 1 .. Len(h) : Before(h[i], c)
<1> DEFINE c == Next(l, d, w)
<1>1. /\ w \in 1 .. MaxWall /\ l \in Clock /\ l.wall \in Nat /\ l.ctr \in Nat
      /\ l.wall <= MaxWall /\ Len(h) \in Nat /\ Len(h) <= MaxIssued /\ h \in Seq(Clock)
  BY DEF Kept, Tells, Clock
<1>2. c = IF w <= l.wall THEN [wall |-> l.wall, ctr |-> l.ctr + 1, dev |-> d]
          ELSE [wall |-> w, ctr |-> 0, dev |-> d]
  BY DEF Next
<1> HIDE DEF c
<1>3. c \in Clock /\ c.dev = d /\ c.wall <= MaxWall /\ c.wall >= 1
  BY <1>1, <1>2, Bounds DEF Clock
<1>4. l = Zero(d) => c.ctr = 0 /\ c.wall = w
  BY <1>1, <1>2, ZeroType, Bounds
<1>5. l # Zero(d) => l.ctr < Len(h) /\ Len(h) \in 1 .. Len(h) /\ h[Len(h)] = l /\ l.dev = d
  <2> SUFFICES ASSUME l # Zero(d)
               PROVE  l.ctr < Len(h) /\ Len(h) \in 1 .. Len(h) /\ h[Len(h)] = l /\ l.dev = d
    OBVIOUS
  <2>1. l.ctr < Len(h) /\ h[Len(h)] = l /\ l.dev = d
    BY DEF Tells, Kept
  <2>2. Len(h) \in 1 .. Len(h)
    BY <1>1, <2>1
  <2> QED BY <2>1, <2>2
<1>6. c.ctr <= Len(h)
  <2>1. CASE l = Zero(d)
    BY <1>1, <1>4, <2>1
  <2>2. CASE l # Zero(d)
    BY <1>1, <1>2, <1>5, <2>2
  <2> QED BY <2>1, <2>2
<1>7. Fits(c)
  <2>1. c.wall \in Nat /\ c.ctr \in Nat
    BY <1>3 DEF Clock
  <2> QED BY <1>1, <1>3, <1>6, <2>1, Bounds DEF Fits
<1>8. ASSUME NEW i \in 1 .. Len(h) PROVE Before(h[i], c)
  <2>1. h[i] \in Clock
    BY <1>1
  <2>2. CASE l = Zero(d)
    <3>1. h[i].wall < w
      BY <2>2 DEF Tells
    <3>2. h[i].wall < c.wall
      BY <1>4, <2>2, <3>1
    <3> QED BY <3>2 DEF Before
  <2>3. CASE l # Zero(d)
    <3>1. Before(l, c)
      BY <1>1, <1>2 DEF Before
    <3>2. i = Len(h) => h[i] = l
      BY <1>5, <2>3
    <3>3. i # Len(h) => Before(h[i], l)
      <4> SUFFICES ASSUME i # Len(h) PROVE Before(h[i], l)
        OBVIOUS
      <4>1. i < Len(h)
        BY <1>1
      <4>2. Before(h[i], h[Len(h)])
        BY <1>5, <2>3, <4>1 DEF Tells
      <4> QED BY <1>5, <2>3, <4>2
    <3> QED BY <1>1, <1>3, <2>1, <3>1, <3>2, <3>3, BeforeTransitive
  <2> QED BY <2>2, <2>3
<1> QED BY <1>3, <1>6, <1>7, <1>8 DEF c

LEMMA IssueKeeps ==
  ASSUME NEW d \in Device, NEW w, NEW l, NEW q, Kept(d, w, l, q), Len(q) < MaxIssued
  PROVE  Kept(d, w, Next(l, d, w), Append(q, Format(Next(l, d, w))))
<1> DEFINE c == Next(l, d, w)
           p == Append(q, Format(c))
<1>1. PICK h : Tells(h, d, w, l, q)
  BY DEF Kept
<1>2. /\ Fits(c) /\ c.dev = d /\ c.wall <= MaxWall /\ c.wall >= 1 /\ c.ctr <= Len(h)
      /\ \A i \in 1 .. Len(h) : Before(h[i], c)
  BY <1>1, NextFits
<1> DEFINE g == Append(h, c)
<1>3. c \in Clock /\ Format(c) \in Seq(Nat)
  BY <1>2, FormatIs DEF Fits
<1>4. h \in Seq(Clock) /\ Len(h) = Len(q) /\ q \in Seq(Seq(Nat)) /\ Len(q) \in Nat
  BY <1>1 DEF Kept, Tells
<1> HIDE DEF c
<1>5. /\ g \in Seq(Clock) /\ Len(g) = Len(h) + 1 /\ g[Len(h) + 1] = c
      /\ \A i \in 1 .. Len(h) : g[i] = h[i]
  BY <1>3, <1>4
<1>6. /\ p \in Seq(Seq(Nat)) /\ Len(p) = Len(h) + 1 /\ p[Len(h) + 1] = Format(c)
      /\ \A i \in 1 .. Len(h) : p[i] = q[i]
  BY <1>3, <1>4
<1> HIDE DEF g, p
<1>7. ASSUME NEW i \in 1 .. Len(g)
      PROVE  Fits(g[i]) /\ g[i].dev = d /\ p[i] = Format(g[i])
  <2>1. CASE i = Len(h) + 1
    BY <1>2, <1>5, <1>6, <2>1
  <2>2. CASE i # Len(h) + 1
    <3>1. i \in 1 .. Len(h)
      BY <1>4, <1>5, <2>2
    <3> QED BY <1>1, <1>5, <1>6, <3>1 DEF Tells
  <2> QED BY <2>1, <2>2
<1>8. ASSUME NEW i \in 1 .. Len(g), NEW j \in 1 .. Len(g), i < j
      PROVE  Before(g[i], g[j])
  <2>1. i \in 1 .. Len(h)
    BY <1>4, <1>5, <1>8
  <2>2. CASE j = Len(h) + 1
    BY <1>2, <1>5, <2>1, <2>2
  <2>3. CASE j # Len(h) + 1
    <3>1. j \in 1 .. Len(h)
      BY <1>4, <1>5, <2>3
    <3>2. Before(h[i], h[j])
      BY <1>1, <1>8, <2>1, <3>1 DEF Tells
    <3> QED BY <1>5, <2>1, <3>1, <3>2
  <2> QED BY <2>2, <2>3
<1>9. c # Zero(d) /\ g # <<>> /\ g[Len(g)] = c /\ c.ctr < Len(g)
  <2>1. c.ctr \in Nat
    BY <1>3 DEF Clock
  <2>2. c # Zero(d)
    BY <1>2, ZeroType
  <2>3. g # <<>>
    BY <1>4, <1>5
  <2> QED BY <1>2, <1>4, <1>5, <2>1, <2>2, <2>3
<1>10. Tells(g, d, w, c, p)
  BY <1>5, <1>6, <1>7, <1>8, <1>9 DEF Tells
<1>11. Len(p) <= MaxIssued
  BY <1>4, <1>6, Bounds
<1> QED BY <1>2, <1>3, <1>6, <1>10, <1>11 DEF Kept, c, p

\* The clock is set, or the page reloaded, within the restriction.
LEMMA OtherKeeps ==
  ASSUME NEW d \in Device, NEW w, NEW l, NEW q, Kept(d, w, l, q), NEW v \in 1 .. MaxWall
  PROVE  /\ (l = Zero(d) => v >= w) => Kept(d, v, l, q)
         /\ v > (IF l = Zero(d) THEN w ELSE l.wall) => Kept(d, v, Zero(d), q)
<1>1. PICK h : Tells(h, d, w, l, q)
  BY DEF Kept
<1>2. /\ w \in Nat /\ v \in Nat /\ l.wall \in Nat /\ h \in Seq(Clock)
      /\ \A i \in 1 .. Len(h) : h[i] \in Clock /\ h[i].wall \in Nat
  <2>1. w \in Nat /\ v \in Nat /\ l \in Clock
    BY Bounds DEF Kept
  <2>2. h \in Seq(Clock) /\ \A i \in 1 .. Len(h) : h[i] \in Clock
    BY <1>1 DEF Tells
  <2>3. \A c \in Clock : c.wall \in Nat
    BY DEF Clock
  <2> QED BY <2>1, <2>2, <2>3
<1>3. ASSUME l = Zero(d) => v >= w PROVE Tells(h, d, v, l, q)
  BY <1>1, <1>2, <1>3 DEF Tells
<1>4. ASSUME v > (IF l = Zero(d) THEN w ELSE l.wall) PROVE Tells(h, d, v, Zero(d), q)
  <2>1. ASSUME NEW i \in 1 .. Len(h) PROVE h[i].wall < v
    <3>1. CASE l = Zero(d)
      BY <1>1, <1>2, <1>4, <3>1 DEF Tells
    <3>2. CASE l # Zero(d)
      <4>1. Len(h) \in 1 .. Len(h) /\ h[Len(h)] = l /\ i <= Len(h)
        BY <1>1, <1>2, <3>2 DEF Tells
      <4>2. i = Len(h) \/ Before(h[i], l)
        BY <1>1, <4>1 DEF Tells
      <4>3. h[i].wall <= l.wall
        BY <1>2, <4>1, <4>2 DEF Before
      <4> QED BY <1>2, <1>4, <3>2, <4>3
    <3> QED BY <3>1, <3>2
  <2> QED BY <1>1, <2>1 DEF Tells
<1>5. Zero(d) \in Clock /\ Zero(d).dev = d /\ Zero(d).wall <= MaxWall
  BY ZeroType, Bounds
<1> QED BY <1>3, <1>4, <1>5 DEF Kept

LEMMA ClockStep == ClockInv /\ [CNext]_cvars => ClockInv'
<1> SUFFICES ASSUME ClockInv, [CNext]_cvars PROVE ClockInv'
  OBVIOUS
<1>1. CASE UNCHANGED cvars
  BY <1>1 DEF cvars, ClockInv
<1>2. ASSUME NEW d \in Device, NEW v \in 1 .. MaxWall, NEW l, NEW q, Kept(d, v, l, q),
             wall' = [wall EXCEPT ![d] = v], last' = [last EXCEPT ![d] = l],
             issued' = [issued EXCEPT ![d] = q]
      PROVE  ClockInv'
  <2>1. /\ wall' \in [Device -> 1 .. MaxWall] /\ last' \in [Device -> Clock]
        /\ issued' \in [Device -> Seq(Seq(Nat))]
    BY <1>2 DEF ClockInv, Kept
  <2>2. ASSUME NEW e \in Device PROVE Kept(e, wall'[e], last'[e], issued'[e])
    <3>1. CASE e = d
      BY <1>2, <3>1 DEF ClockInv
    <3>2. CASE e # d
      <4>1. wall'[e] = wall[e] /\ last'[e] = last[e] /\ issued'[e] = issued[e]
        BY <1>2, <3>2 DEF ClockInv
      <4> QED BY <4>1 DEF ClockInv
    <3> QED BY <3>1, <3>2
  <2> QED BY <2>1, <2>2 DEF ClockInv
<1>3. ASSUME NEW d \in Device
      PROVE  /\ wall[d] \in 1 .. MaxWall /\ Kept(d, wall[d], last[d], issued[d])
             /\ wall = [wall EXCEPT ![d] = wall[d]] /\ last = [last EXCEPT ![d] = last[d]]
             /\ issued = [issued EXCEPT ![d] = issued[d]]
  BY DEF ClockInv
<1>4. ASSUME NEW d \in Device, Issue(d) PROVE ClockInv'
  <2> DEFINE c == Next(last[d], d, wall[d])
             q == Append(issued[d], Format(c))
  <2>1. Kept(d, wall[d], c, q)
    BY <1>3, <1>4, IssueKeeps DEF Issue
  <2>2. /\ wall' = [wall EXCEPT ![d] = wall[d]] /\ last' = [last EXCEPT ![d] = c]
        /\ issued' = [issued EXCEPT ![d] = q]
    BY <1>3, <1>4 DEF Issue
  <2> HIDE DEF c, q
  <2> QED BY <1>2, <1>3, <2>1, <2>2
<1>5. ASSUME NEW d \in Device, NEW v \in 1 .. MaxWall, SetWall(d, v) PROVE ClockInv'
  <2>1. Kept(d, v, last[d], issued[d])
    BY <1>3, <1>5, OtherKeeps DEF SetWall, Loaded
  <2>2. /\ wall' = [wall EXCEPT ![d] = v] /\ last' = [last EXCEPT ![d] = last[d]]
        /\ issued' = [issued EXCEPT ![d] = issued[d]]
    BY <1>3, <1>5 DEF SetWall
  <2> QED BY <1>2, <2>1, <2>2
<1>6. ASSUME NEW d \in Device, NEW v \in 1 .. MaxWall, Reload(d, v) PROVE ClockInv'
  <2>1. Kept(d, v, Zero(d), issued[d])
    BY <1>3, <1>6, OtherKeeps DEF Reload, Loaded
  <2>2. /\ wall' = [wall EXCEPT ![d] = v] /\ last' = [last EXCEPT ![d] = Zero(d)]
        /\ issued' = [issued EXCEPT ![d] = issued[d]]
    BY <1>3, <1>6 DEF Reload
  <2> QED BY <1>2, <2>1, <2>2
<1> QED BY <1>1, <1>4, <1>5, <1>6 DEF CNext

LEMMA ClockInit == CInit => ClockInv
<1> SUFFICES ASSUME CInit PROVE ClockInv
  OBVIOUS
<1>1. ASSUME NEW d \in Device PROVE Kept(d, wall[d], last[d], issued[d])
  <2>1. wall[d] \in 1 .. MaxWall /\ last[d] = Zero(d) /\ issued[d] = <<>>
    BY DEF CInit
  <2>2. Tells(<<>>, d, wall[d], Zero(d), <<>>)
    BY DEF Tells
  <2>3. <<>> \in Seq(Seq(Nat)) /\ Len(<<>>) <= MaxIssued
    BY Bounds
  <2> QED BY <2>1, <2>2, <2>3, ZeroType, Bounds DEF Kept
<1>2. last \in [Device -> Clock] /\ issued \in [Device -> Seq(Seq(Nat))]
  BY ZeroType DEF CInit
<1> QED BY <1>1, <1>2 DEF CInit, ClockInv

LEMMA ClockInductive == CSpec => []ClockInv
  BY ClockInit, ClockStep, PTL DEF CSpec

\* hlc.ts:21: every stamp of a device sorts after all it issued before, whatever its wall
\* clock is set to and however often the page is reloaded.
THEOREM StampsIncrease == CSpec => []StrictlyIncreasing
<1>1. ClockInv => StrictlyIncreasing
  <2> SUFFICES ASSUME ClockInv, NEW d \in Device, NEW i \in 1 .. Len(issued[d]),
                      NEW j \in 1 .. Len(issued[d]), i < j
               PROVE  Less(issued[d][i], issued[d][j])
    BY DEF StrictlyIncreasing
  <2>1. PICK h : Tells(h, d, wall[d], last[d], issued[d])
    BY DEF ClockInv, Kept
  <2> QED BY <2>1, FormatOrder DEF Tells
<1> QED BY <1>1, ClockInductive, PTL

\* No stamp is issued twice, by one device or by two.
THEOREM StampsUnique == CSpec => []Unique
<1>1. ClockInv => Unique
  <2> SUFFICES ASSUME ClockInv, NEW d \in Device, NEW e \in Device,
                      NEW i \in 1 .. Len(issued[d]), NEW j \in 1 .. Len(issued[e]),
                      issued[d][i] = issued[e][j]
               PROVE  d = e /\ i = j
    BY DEF Unique
  <2>1. PICK h : Tells(h, d, wall[d], last[d], issued[d])
    BY DEF ClockInv, Kept
  <2>2. PICK g : Tells(g, e, wall[e], last[e], issued[e])
    BY DEF ClockInv, Kept
  <2>3. /\ Fits(h[i]) /\ h[i].dev = d /\ issued[d][i] = Format(h[i])
        /\ Fits(g[j]) /\ g[j].dev = e /\ issued[e][j] = Format(g[j])
    BY <2>1, <2>2 DEF Tells
  <2>4. h[i] = g[j]
    BY <2>3, FormatOrder
  <2>5. d = e
    BY <2>3, <2>4
  <2>6. /\ ~Less(issued[d][i], issued[d][j]) /\ ~Less(issued[d][j], issued[d][i])
    <3>1. issued[d][i] = issued[d][j] /\ issued[d][i] \in Seq(Nat)
      BY <2>3, <2>5, FormatIs
    <3> QED BY <3>1, LessIsStrict
  <2>7. \A k, m \in 1 .. Len(issued[d]) : k < m => Less(issued[d][k], issued[d][m])
    BY <2>1, FormatOrder DEF Tells
  <2>8. ~(i < j) /\ ~(j < i)
    BY <2>5, <2>6, <2>7
  <2>9. issued[d] \in Seq(Seq(Nat))
    BY DEF ClockInv, Kept
  <2> QED BY <2>5, <2>8, <2>9
<1> QED BY <1>1, ClockInductive, PTL

\* hlc.go String: the strings of the clocks the devices keep, and of those they would
\* issue next, sort as the clocks do.
THEOREM StringsSortAsClocks == CSpec => []OrderPreserved
<1>1. ClockInv => OrderPreserved
  <2> SUFFICES ASSUME ClockInv PROVE OrderPreserved
    OBVIOUS
  <2>1. ASSUME NEW d \in Device PROVE Fits(last[d]) /\ Fits(Next(last[d], d, wall[d]))
    <3>1. Kept(d, wall[d], last[d], issued[d])
      BY DEF ClockInv
    <3>2. PICK h : Tells(h, d, wall[d], last[d], issued[d])
      BY <3>1 DEF Kept
    <3>3. Fits(Next(last[d], d, wall[d]))
      BY <3>1, <3>2, NextFits
    <3>4. CASE last[d] = Zero(d)
      <4>1. Fits(Zero(d))
        BY ZeroType, Bounds DEF Fits
      <4> QED BY <3>3, <3>4, <4>1
    <3>5. CASE last[d] # Zero(d)
      <4>1. h \in Seq(Clock) /\ h # <<>> /\ h[Len(h)] = last[d]
        BY <3>2, <3>5 DEF Tells
      <4>2. Len(h) \in 1 .. Len(h)
        BY <4>1
      <4>3. Fits(h[Len(h)])
        BY <3>2, <4>2 DEF Tells
      <4> QED BY <3>3, <4>1, <4>3
    <3> QED BY <3>4, <3>5
  <2> DEFINE Cs == {last[d] : d \in Device} \cup {Next(last[d], d, wall[d]) : d \in Device}
  <2>2. \A a \in Cs : Fits(a)
    BY <2>1
  <2>3. \A a, b \in Cs : Before(a, b) <=> Less(Format(a), Format(b))
    <3> HIDE DEF Cs
    <3> QED BY <2>2, FormatOrder
  <2> QED BY <2>3 DEF OrderPreserved
<1> QED BY <1>1, ClockInductive, PTL
==============================================================================
