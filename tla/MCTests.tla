-------------------------------- MODULE MCTests --------------------------------
(***************************************************************************)
(* The instance of Scenario that replays the repository's tests.           *)
(***************************************************************************)
EXTENDS SchedulerTests, JobTests, WorkerTests

Empty == {}
WorkerIds == <<"a", "b", "c">>
VisionPools == [kind \in {"vision_analysis"} |-> {"default", "vision"}]
AllTests == SchedulerScripts \o JobScripts \o WorkerScripts

================================================================================
