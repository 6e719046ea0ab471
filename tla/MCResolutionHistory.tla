------------------------ MODULE MCResolutionHistory ------------------------
(* The instance of MCReferenceResolution, with the history. *)
EXTENDS ResolutionHistory, MCReferenceResolution
=============================================================================
