---------------------------- MODULE FundsPromise ----------------------------
(***************************************************************************)
(* What the facade promises about an order, whatever happens to the        *)
(* process that runs it: the record never runs ahead of the money.         *)
(*                                                                         *)
(* Money makes facts, in an order that is fixed, and a fact stays a fact.  *)
(* The order's state is a claim about the money, and a claim is made only  *)
(* when the fact it rests on has happened.  It may lag behind for as long  *)
(* as it likes, which is what a crash between a transfer and its record    *)
(* does to it.                                                             *)
(***************************************************************************)
CONSTANT Orders

VARIABLES
    facts,  \* what has happened to the money of each order
    told    \* what the record of each order says

Facts == {"collected", "captured", "converted", "broadcast", "paid",
          "returned"}

\* What must have happened before a fact can.
Causes == [collected |-> {},
           captured  |-> {"collected"},
           converted |-> {"captured"},
           broadcast |-> {"captured"},
           paid      |-> {"broadcast"},
           returned  |-> {"collected"}]

\* What each claim rests on.
Evidence == [nothing   |-> {},
             held      |-> {"collected"},
             owed      |-> {"captured"},
             released  |-> {"converted"},
             offramped |-> {"broadcast"},
             paid      |-> {"paid"},
             refunded  |-> {"returned"}]

Happens(o) ==
    /\ \E f \in Facts \ facts[o] :
         /\ Causes[f] \subseteq facts[o]
         /\ facts' = [facts EXCEPT ![o] = @ \cup {f}]
    /\ UNCHANGED told

Tell(o) ==
    /\ \E t \in DOMAIN Evidence :
         /\ Evidence[t] \subseteq facts[o]
         /\ told' = [told EXCEPT ![o] = t]
    /\ UNCHANGED facts

Init ==
    /\ facts = [o \in Orders |-> {}]
    /\ told = [o \in Orders |-> "nothing"]

Next == \E o \in Orders : Happens(o) \/ Tell(o)

Spec == Init /\ [][Next]_<<facts, told>>
=============================================================================
