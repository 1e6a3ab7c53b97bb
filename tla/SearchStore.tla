----------------------------- MODULE SearchStore -----------------------------
(***************************************************************************)
(* The search box (stores/search.ts): what is typed is searched for 250 ms *)
(* after the last key, and the ids the answer names are shown in place of  *)
(* the main list, until another answer or an empty query.                  *)
(*                                                                         *)
(* One restriction the code does not ensure: answers come in the order of  *)
(* their requests, dropped when Overtaking is TRUE.                        *)
(***************************************************************************)
EXTENDS Naturals, Sequences

CONSTANTS Query,     \* the queries in play, trimmed
          NoQuery,   \* the empty one
          Overtaking,
          MaxCalls,  \* bound on the requests under way
          Unarmed, AllNotes, Nothing

ASSUME SearchAssumption ==
  /\ NoQuery \in Query /\ Overtaking \in BOOLEAN /\ MaxCalls \in Nat
  /\ {Unarmed, AllNotes, Nothing} \cap Query = {}

VARIABLES query,   \* searchQuery
          timer,   \* the query debounceTimer will search for, or Unarmed
          asked,   \* the queries of the requests under way, in order
          matched  \* matchedIds: the query whose ids they are, Nothing for none
                   \* because a request failed, AllNotes for null

qvars == <<query, timer, asked, matched>>

QInit == /\ query = NoQuery
         /\ timer = Unarmed
         /\ asked = <<>>
         /\ matched = AllNotes

\* Mutant of Armed: a timer that runs is left to run.
ArmedOnce(q) == IF timer # Unarmed THEN timer ELSE IF q = NoQuery THEN Unarmed ELSE q

\* Any key stops the timer; it is armed again unless nothing is left of the query.
Armed(q) == IF q = NoQuery THEN Unarmed ELSE q

Key(q) == /\ q # query
          /\ query' = q
          /\ timer' = Armed(q)
          /\ matched' = IF q = NoQuery THEN AllNotes ELSE matched
          /\ UNCHANGED asked

Ask == /\ timer # Unarmed /\ Len(asked) < MaxCalls
       /\ asked' = Append(asked, timer)
       /\ timer' = Unarmed
       /\ UNCHANGED <<query, matched>>

\* An answer, or an error, is shown whatever the query has become.
Answered(j) ==
  /\ Overtaking \/ j = 1
  /\ matched' \in {asked[j], Nothing}
  /\ asked' = SubSeq(asked, 1, j - 1) \o SubSeq(asked, j + 1, Len(asked))
  /\ UNCHANGED <<query, timer>>

QNext == \/ \E q \in Query : Key(q)
         \/ Ask
         \/ \E j \in 1 .. Len(asked) : Answered(j)

QSpec == QInit /\ [][QNext]_qvars

\* search.ts: once nothing is under way, what is shown answers the query in the
\* box, however it was edited while earlier ones were answered.
Settled == timer = Unarmed /\ asked = <<>> /\ query # NoQuery => matched \in {query, Nothing}

\* search.ts:8, "null = no active search (show the normal main grid)": with an empty
\* box, which has no Clear button, the main list shows.
ClearedShowsAll == query = NoQuery => matched = AllNotes
==============================================================================
