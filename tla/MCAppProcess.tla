----------------------------- MODULE MCAppProcess -----------------------------
(* The board's keyboard, with Esc, a letter and a key nobody knows, and    *)
(* another one with Esc and a Shift.                                       *)
EXTENDS AppProcess

MCKeyboards == <<"other", "board">>

MCCodes == [other |-> {"Esc", "LeftShift"}, board |-> {"Esc", "F", "Volume"}]
=============================================================================
