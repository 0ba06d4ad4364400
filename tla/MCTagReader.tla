----------------------------- MODULE MCTagReader -----------------------------
(* One NFC-A tag with two contents, another one, and a phone that answers  *)
(* both protocols.                                                         *)
EXTENDS TagReader

MCAntennaTags ==
    {[id |-> "u", content |-> c, techs |-> {"A"}] : c \in {"x", "y"}}
      \cup {[id |-> "v", content |-> "z", techs |-> {"A"}],
            [id |-> "phone", content |-> "x", techs |-> {"A", "F"}]}
=============================================================================
