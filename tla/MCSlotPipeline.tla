--------------------------- MODULE MCSlotPipeline ---------------------------
(* Slots of three parts, spectrogram after two; a slot may be cut before the *)
(* spectrogram is out, after it, in full, or one part too long.              *)
EXTENDS SlotPipeline
MCLengths == {1, 2, 3, 4}
=============================================================================
