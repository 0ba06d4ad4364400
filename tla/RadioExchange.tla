---------------------------- MODULE RadioExchange ----------------------------
(***************************************************************************)
(* What one exchange of the driver with a tag promises, with nothing of    *)
(* interrupts and registers: a verdict is about what was heard between the *)
(* request and the verdict.  "heard" may run ahead of the verdict; it is   *)
(* what the chip could have shown when it was last looked at.              *)
(***************************************************************************)
EXTENDS Naturals

VARIABLES
    open,      \* a request is on its way or was sent
    heard,     \* what came of it
    verdict    \* how the last exchange ended

(* In the order in which one exchange passes through them.                 *)
Hearable == <<"nothing", "part", "whole", "damaged">>

Later(h) == {Hearable[i] : i \in {j \in 1..4 : \E k \in 1..j : Hearable[k] = h}}

(* Doubt and failure are always allowed, and so is the statement that a    *)
(* frame was sent.  Only a whole answer is taken for one, only silence for *)
(* absence.                                                                *)
Verdicts(h) ==
    {"Unsure", "Failed", "Sent"}
        \cup (IF h = "nothing" THEN {"NoTag"} ELSE {})
        \cup (IF h = "whole" THEN {"Answer"} ELSE {})

Init == open = FALSE /\ heard = "nothing" /\ verdict = "none"

Request ==
    /\ ~open
    /\ open' = TRUE /\ heard' = "nothing" /\ verdict' = "none"

Hear ==
    /\ open
    /\ heard' \in Later(heard)
    /\ UNCHANGED <<open, verdict>>

Conclude ==
    /\ open
    /\ open' = FALSE
    /\ heard' \in Later(heard)
    /\ verdict' \in Verdicts(heard')

(* Cancelled, or the SPI or the GPIO failed.                               *)
Abandon == open' = FALSE /\ heard' = "nothing" /\ verdict' = "none"

Next == Request \/ Hear \/ Conclude \/ Abandon

Spec == Init /\ [][Next]_<<open, heard, verdict>>
=============================================================================
