---------------------------- MODULE AdminHandoff ----------------------------
(***************************************************************************)
(* What both contracts promise of their ownership: one address is admin,   *)
(* an admin may nominate a successor, replacing any earlier nomination,    *)
(* and the office passes only to the nominee of the admin in office, which *)
(* consumes the nomination.  Verifier and Registry each implement this     *)
(* specification; it says nothing of the storage entries they use.         *)
(***************************************************************************)
CONSTANTS Address,  \* every address that can hold the office or sign
          NoAddr    \* stands for an absent nominee or nominator

VARIABLES admin,     \* the address in office
          nominee,   \* who may take over, or NoAddr
          nominator  \* who was in office when the nominee was named, or NoAddr

vars == <<admin, nominee, nominator>>

Init == /\ admin \in Address
        /\ nominee = NoAddr
        /\ nominator = NoAddr

Nominate == /\ nominee' \in Address
            /\ nominator' = admin
            /\ UNCHANGED admin

TakeOver == /\ nominee # NoAddr
            /\ nominator = admin
            /\ admin' = nominee
            /\ nominee' = NoAddr
            /\ nominator' = NoAddr

Next == Nominate \/ TakeOver

Spec == Init /\ [][Next]_vars

=============================================================================
