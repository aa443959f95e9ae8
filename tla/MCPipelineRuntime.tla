------------------------- MODULE MCPipelineRuntime -------------------------
(* Instances of PipelineRuntime for TLC.                                    *)
EXTENDS PipelineRuntime

OneStream == {1}
TwoStreams == {1, 2}

CONSTANTS anonymizer1, anonymizer2, worker1
OneAnonymizer == {anonymizer1}
TwoAnonymizers == {anonymizer1, anonymizer2}
OneWorker == {worker1}
=============================================================================
