------------------------- MODULE MCWebRTCPublisher -------------------------
(* Instances of WebRTCPublisher for TLC.                                    *)
EXTENDS WebRTCPublisher, TLC

\* The HTTP threads are interchangeable.
OffererSymmetry == Permutations(Offerers)
=============================================================================
