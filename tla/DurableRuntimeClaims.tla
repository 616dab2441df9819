------------------------ MODULE DurableRuntimeClaims ------------------------
(***************************************************************************)
(* What the comments of crates/clawdesk-runtime say about the runtime and  *)
(* the code of DurableRuntime does not keep.  Each formula is the claim as *)
(* written; a run of its own shows a behaviour that breaks it.             *)
(***************************************************************************)
EXTENDS DurableRuntime

\* lease.rs: "Only one worker may actively execute a run at a time."
OneWorkerExecutes ==
    \A t, u \in Tasks : At(t, "run") /\ At(u, "run") /\ Run(t) = Run(u) =>
        task[t].wid = task[u].wid
=============================================================================
