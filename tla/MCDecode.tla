------------------------------ MODULE MCDecode -------------------------------
(***************************************************************************)
(* The two halves of decoding on one instance: what a word or a halfword   *)
(* means (unit "words": one word, and the behaviour is over) and what      *)
(* stage2 holds back around it (unit "stage2").                            *)
(***************************************************************************)
EXTENDS Stage2, Decompress

VARIABLE unit

(* While words are decoded stage2 rests in one of its initial states. *)
MCInit == /\ unit \in {"words", "stage2"} /\ dec = Nothing
          /\ Init
          /\ unit = "words" => prog = [p \in 1 .. N |-> "ALU"]

Words == unit = "words" /\ dec = Nothing /\ (Decode \/ Expand) /\ UNCHANGED <<unit, vars>>
Stage2Step == unit = "stage2" /\ Next /\ UNCHANGED <<unit, dec>>

MCNext == Words \/ Stage2Step
MCSpec == MCInit /\ [][MCNext]_<<unit, dec, vars>> /\ (unit = "stage2" => Fairness)

(* Stage2's Advances, for the behaviours in which stage2 runs. *)
ProgramAdvances == unit = "stage2" => Advances
=============================================================================
