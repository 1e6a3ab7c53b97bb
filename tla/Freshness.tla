------------------------------ MODULE Freshness ------------------------------
(***************************************************************************)
(* What the "go pull now" signal promises, whatever carries it: each tab   *)
(* has seen some version of the server's data; as long as it has not seen  *)
(* the latest it is owed a pull, and a tab that is not away gets it.       *)
(***************************************************************************)
EXTENDS Integers

CONSTANT Tab

VARIABLES version, \* the latest version
          seen,    \* the version each tab has seen
          owed,    \* whether a pull is still to come
          away     \* whether the tab is logged out

fvars == <<version, seen, owed, away>>

FInit == /\ version = 0
         /\ seen = [t \in Tab |-> 0]
         /\ owed = [t \in Tab |-> TRUE]
         /\ away = [t \in Tab |-> TRUE]

NewVersion == /\ version' = version + 1
              /\ owed' = [t \in Tab |-> TRUE]
              /\ UNCHANGED <<seen, away>>

\* A pull answers with the latest version; another may still be to come.
Pull(t) == /\ seen' = [seen EXCEPT ![t] = version]
           /\ owed' \in {owed, [owed EXCEPT ![t] = FALSE]}
           /\ UNCHANGED <<version, away>>

\* A tab's connection breaks, or the server's: some will have to pull again.
Upset == /\ \A t \in Tab : owed[t] => owed'[t]
         /\ owed' \in [Tab -> BOOLEAN]
         /\ UNCHANGED <<version, seen, away>>

Leave(t) == /\ away' = [away EXCEPT ![t] = TRUE]
            /\ owed' = [owed EXCEPT ![t] = TRUE]
            /\ UNCHANGED <<version, seen>>

Return(t) == /\ away' = [away EXCEPT ![t] = FALSE]
             /\ UNCHANGED <<version, seen, owed>>

FNext == NewVersion \/ Upset \/ \E t \in Tab : Pull(t) \/ Leave(t) \/ Return(t)

FSpec == FInit /\ [][FNext]_fvars

\* A pull that is owed to a tab that stays is made.
FFairSpec == FSpec /\ \A t \in Tab : WF_fvars(~away[t] /\ owed[t] /\ Pull(t))
==============================================================================
