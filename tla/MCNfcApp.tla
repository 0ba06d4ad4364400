-------------------------------- MODULE MCNfcApp -------------------------------
(* The two builds, with a clock that wraps soon.                           *)
EXTENDS NfcApp

(* AfterTick is what up to three events make of a status; a fourth adds    *)
(* nothing, and a tick reads at least that many.                           *)
OneMore(S) == S \cup UNION {Told(s) : s \in S}

ASSUME ThreeEventsAreAll ==
    \A s \in Statuses :
        /\ AfterTick(s) = OneMore(OneMore(OneMore({s})))
        /\ OneMore(AfterTick(s)) = AfterTick(s)
=============================================================================
