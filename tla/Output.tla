------------------------------- MODULE Output --------------------------------
(***************************************************************************)
(* What is left of a simulation when it is over, whatever produced it: the *)
(* text on the UART, the dumped signature, and that it stopped.  Harness   *)
(* gives these variables their behaviour.                                  *)
(***************************************************************************)
EXTENDS Integers, Sequences

CONSTANT StrLen        \* characters the program prints

VARIABLES halt, sig,                              \* the macro used, the signature's length
          printed, dumped,                        \* characters and words, in order
          bus_error, finished

Begin == 7             \* begin_signature

(* A compliance test's text is printed in full, once and in order, before  *)
(* the simulation stops: whatever the registers held before the reset, the *)
(* poll of bit 1 keeps the UART from overrunning and the poll of bit 0     *)
(* keeps the stop behind the last character.                               *)
TextPrinted == finished /\ halt = "rvmodel" => printed = [n \in 1 .. StrLen |-> n]

(* With riscv_test.h the store that stops the simulation waits for the     *)
(* whole dump: every word of the signature is written, once and in order.  *)
(* With compliance_model.h the first store of RVMODEL_HALT stops it and    *)
(* not one word is written.                                                *)
DumpBeforeFinish ==
  finished /\ ~bus_error =>
    dumped = IF halt = "rvmodel" THEN << >> ELSE [n \in 1 .. sig |-> Begin + n - 1]

(* When the simulation stops, everything that should have been written     *)
(* was: a compliance test's text is printed and a riscv_test.h signature   *)
(* is dumped, whole and in order (compliance_model.h, sign_dump.bsv).      *)
OutputComplete == TextPrinted /\ DumpBeforeFinish
=============================================================================
