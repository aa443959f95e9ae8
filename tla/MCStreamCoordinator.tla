------------------------ MODULE MCStreamCoordinator ------------------------
(* Instances of StreamCoordinator for TLC.                                  *)
EXTENDS StreamCoordinator

\* The second frame has an empty inference image.
BlankSecond == {1}

\* What belongs to these frames may be lost: to any but the last.
LossyButLast == 0..(MaxFrame - 1)
=============================================================================
