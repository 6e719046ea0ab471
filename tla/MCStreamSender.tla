--------------------------- MODULE MCStreamSender ---------------------------
(* Sizes 1 and 3 against a 5-byte batch (one record of 3 fills it exactly, two
   of 1 fit) and a 4-byte queue of two records. *)
EXTENDS StreamSender
=============================================================================
