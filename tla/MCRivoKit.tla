----------------------------- MODULE MCRivoKit -----------------------------
(***************************************************************************)
(* Small instances of the order facade for TLC.                            *)
(***************************************************************************)
EXTENDS RivoKitProperties, TLC

WorkersAreAlike == Permutations(Workers)

\* Orders share nothing but the requests that serve them, so an instance with
\* an order of each kind follows one of them, whichever it is: nobody paid for
\* the others, and they were closed when their time was over.
OneOrderInit ==
    \E o \in Orders :
        /\ state = [p \in Orders |-> IF p = o THEN "created" ELSE "failed"]
        /\ clock = [p \in Orders |-> IF p = o THEN 0 ELSE MaxExpiries]
        /\ NothingYet
OneOrderFairSpec == OneOrderInit /\ [][Next]_vars /\ Fairness
=============================================================================
