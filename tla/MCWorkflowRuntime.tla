------------------------- MODULE MCWorkflowRuntime -------------------------
(* Instances of WorkflowRuntime for TLC.                                   *)
EXTENDS WorkflowRuntime

\* One workflow with two steps on the same alert; the second also on its own end.
AlertAndFinished == << <<{"alert"}, {"alert", "finished"}>> >>

\* Two workflows on the same alert.
TwoOnAlert == << <<{"alert"}>>, <<{"alert"}>> >>

\* One step that listens to the end of any run.
OnFinished == << <<{"alert", "finished"}>> >>

OneOnAlert == << <<{"alert"}>> >>

\* One workflow with two steps on the same alert.
TwoSteps == << <<{"alert"}, {"alert"}>> >>
=============================================================================
