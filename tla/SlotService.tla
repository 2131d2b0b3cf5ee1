----------------------------- MODULE SlotService -----------------------------
(***************************************************************************)
(* What the migration of a slot promises to its clients: at any time one   *)
(* node has the slot, it serves the slot or has closed it for the          *)
(* hand-over, and the values change only by the clients' writes.  The      *)
(* hand-over itself changes who has the slot and nothing else.             *)
(*                                                                         *)
(* SlotMigration implements this specification.                            *)
(***************************************************************************)
EXTENDS Naturals

CONSTANTS Nodes, SlotKeys

VARIABLES
  holder,   \* the node that has the slot
  open,     \* whether the holder serves it
  value     \* what a read of a key returns

Init == holder \in Nodes /\ open = TRUE /\ value \in [SlotKeys -> Nat]

Write(k) == open /\ value' = [value EXCEPT ![k] = @ + 1] /\ UNCHANGED <<holder, open>>

Close == open /\ open' = FALSE /\ UNCHANGED <<holder, value>>

Reopen == ~open /\ open' = TRUE /\ UNCHANGED <<holder, value>>

HandOver(n) == ~open /\ holder' = n /\ open' = TRUE /\ UNCHANGED value

Next == (\E k \in SlotKeys : Write(k)) \/ Close \/ Reopen \/ (\E n \in Nodes : HandOver(n))

Spec == Init /\ [][Next]_<<holder, open, value>>
=============================================================================
