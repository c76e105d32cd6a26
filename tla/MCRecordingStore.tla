------------------------- MODULE MCRecordingStore -------------------------
(* Instances of RecordingStore for TLC.                                     *)
EXTENDS RecordingStore, TLC
CONSTANT r1
OneChannel == r1 :> "c"
EarlyWindow == {<<0, 2>>}
=============================================================================
