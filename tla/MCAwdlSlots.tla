---------------------------- MODULE MCAwdlSlots ----------------------------
(* AwdlSlots for TLC: a peer that is on our channel in two slots of three  *)
(* or in one slot.  Its epoch is anywhere in a channel sequence, or so     *)
(* long ago that its window number wraps during the session.               *)
EXTENDS AwdlSlots

SomeEpochs == {Start - 5 - 387253 * k : k \in 0 .. 2} \cup {Start + 300000 - 65536 * AW_DURATION}

SomeSequences ==
  { [s \in SlotIndices |-> IF s % 3 = 0 THEN 44 ELSE 6],
    [s \in SlotIndices |-> IF s = 10 THEN 6 ELSE 149] }
=============================================================================
