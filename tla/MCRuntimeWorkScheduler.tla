----------------------- MODULE MCRuntimeWorkScheduler -----------------------
(* Two lanes, two work functions and two drainers: a drain that overlaps    *)
(* another, a lane re-enqueued while it runs and while it is awaited.       *)
EXTENDS RuntimeWorkScheduler
=============================================================================
