--------------------------- MODULE EpochReceipts ---------------------------
(***************************************************************************)
(* What the lifecycle of a host session promises about what its epochs     *)
(* owe: work is taken on for the current epoch only and before it has a    *)
(* receipt, an epoch is left behind only with a receipt or with nothing    *)
(* owed, and a receipt is settled only once nothing is owed any more.      *)
(*                                                                         *)
(* There are no hooks, locks, ledgers, hints or failures here.             *)
(***************************************************************************)
EXTENDS Naturals

CONSTANTS Epochs, Workspaces, None,
          EndsLate    \* may an epoch be replaced before its receipt is opened

VARIABLES
    current,    \* the recorded epoch, or None
    last,       \* the last epoch that started
    receipt,    \* the state of the receipt of each epoch
    owed        \* the jobs owed, as pairs of an epoch and a workspace

vars == <<current, last, receipt, owed>>

Owes(e) == \E w \in Workspaces : <<e, w>> \in owed

TypeOK ==
    /\ current \in Epochs \cup {None} /\ last \in Epochs
    /\ receipt \in [Epochs -> {"none", "pending", "settled"}]
    /\ owed \subseteq Epochs \X Workspaces

Init ==
    /\ current = 1 /\ last = 1
    /\ receipt = [e \in Epochs |-> "none"]
    /\ owed = {}

Reserve(e, w) ==
    /\ current = e /\ receipt[e] = "none"
    /\ owed' = owed \cup {<<e, w>>}
    /\ UNCHANGED <<current, last, receipt>>

\* Jobs end, are settled, or are delegated.
Discharge ==
    /\ owed' \subseteq owed
    /\ UNCHANGED <<current, last, receipt>>

Turns(e, from, to) ==
    /\ receipt[e] = from
    /\ receipt' = [receipt EXCEPT ![e] = to]
    /\ UNCHANGED <<current, last, owed>>

\* A receipt is opened for the current epoch, or late: for one that owes nothing.
Publish(e) == (current = e \/ (EndsLate /\ ~ Owes(e))) /\ Turns(e, "none", "pending")
Settle(e)  == ~ Owes(e) /\ Turns(e, "pending", "settled")
Forget(e)  == Turns(e, "settled", "none")

\* The epoch is left without its record, ...
End ==
    /\ current # None /\ receipt[current] # "none"
    /\ current' = None
    /\ UNCHANGED <<last, receipt, owed>>

\* ... or replaced by the next.
Start ==
    /\ last + 1 \in Epochs
    /\ current # None => receipt[current] # "none" \/ ~ Owes(current)
    /\ current' = last + 1 /\ last' = last + 1
    /\ UNCHANGED <<receipt, owed>>

Next ==
    \/ \E e \in Epochs : \/ \E w \in Workspaces : Reserve(e, w)
                         \/ Publish(e) \/ Settle(e) \/ Forget(e)
    \/ Discharge \/ End \/ Start

Spec == Init /\ [][Next]_vars
=============================================================================
