--------------------------- MODULE MCInstructions ---------------------------
(***************************************************************************)
(* What instructions are and what they compute: each of the 65536 program  *)
(* words looked up, and each arithmetic fragment run on every pair of words*)
(* of three-bit bytes.  The two share no state, so one rests in its first  *)
(* state while the other runs.                                             *)
(***************************************************************************)
EXTENDS Arith, Opcodes

Zero == [hi |-> 0, lo |-> 0]

LookUpRests == word = 0 /\ phase = "fetched"

FragmentRests ==
    /\ idiom = "lsr" /\ step = 0
    /\ rd = Zero /\ rr = Zero
    /\ sreg = [C |-> 0, Z |-> 0, N |-> 0, V |-> 0, S |-> 0]

MCInit ==
    \/ LookUpRests /\ Fetch /\ Init
    \/ FragmentRests /\ Init /\ Fetch

MCNext ==
    \/ LookUpRests /\ Next /\ UNCHANGED wordVars
    \/ FragmentRests /\ LookUpWord /\ UNCHANGED vars

MCSpec == MCInit /\ [][MCNext]_<<vars, wordVars>>
=============================================================================
