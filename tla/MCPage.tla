-------------------------------- MODULE MCPage --------------------------------
(* The page: its search box and its panel, over two texts.                    *)
EXTENDS SearchStore, FocusedNote

PageInit == QInit /\ NInit

PageSpec == /\ PageInit
            /\ [][\/ QNext /\ UNCHANGED nvars
                  \/ NNext /\ UNCHANGED qvars]_<<qvars, nvars>>
==============================================================================
