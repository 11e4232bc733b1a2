------------------------------- MODULE MCFetch -------------------------------
(***************************************************************************)
(* Small texts for Fetch.                                                  *)
(***************************************************************************)
EXTENDS Fetch, TLC

In(wide, kind, target) == [wide |-> wide, kind |-> kind, target |-> target]

(* Three words: a 16-bit branch, a 32-bit branch across two words, a       *)
(* 32-bit jump across two, a return.  Halfwords 2 and 4 are second halves. *)
Mixed == 0 :> In(FALSE, "branch", 3) @@ 1 :> In(TRUE, "branch", 5) @@ 2 :> In(FALSE, "alu", 0)
         @@ 3 :> In(TRUE, "jal", 1) @@ 4 :> In(TRUE, "branch", 0) @@ 5 :> In(FALSE, "ret", 0)

(* The same addresses after the text was rewritten: halfwords 2 and 5 are  *)
(* second halves.                                                          *)
Rewritten == 0 :> In(FALSE, "alu", 0) @@ 1 :> In(TRUE, "alu", 0) @@ 2 :> In(FALSE, "alu", 0)
         @@ 3 :> In(FALSE, "alu", 0) @@ 4 :> In(TRUE, "jal", 1) @@ 5 :> In(FALSE, "alu", 0)

TwoTexts == <<Mixed, Rewritten>>

(* The texts are ones software may have: their instructions start at these *)
(* addresses.                                                              *)
StartsOfTwo == <<{0, 1, 3, 5}, {0, 1, 3, 4}>>
ASSUME TextsAreDisciplined == Starts(StartsOfTwo)

(* The rewritten text loses its second word: an instruction that spans into *)
(* it and a jump into its upper half both trap.                             *)
SecondWord == {<<2, 1>>}
=============================================================================
