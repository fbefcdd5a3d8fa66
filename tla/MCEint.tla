------------------------------- MODULE MCEint -------------------------------
(***************************************************************************)
(* The three lines on a variant that has no INT2, as the ATmega328P, each  *)
(* sense mode on INT0 and INT2, and instructions of one and two cycles.    *)
(***************************************************************************)
EXTENDS Eint

MCVec == [l \in {0, 1, 2} |-> IF l = 2 THEN NoVector ELSE l]

\* Each mode for INT0 and INT2, with a level and an edge for INT1.
MCEicraValues ==
    {[l \in {0, 1, 2} |-> IF l = 1 THEN m ELSE n] : m \in {"LOW", "RISE"},
        n \in {"LOW", "CHANGE", "FALL", "RISE"}}
=============================================================================
