--------------------------- MODULE MCCertOpsJobs ---------------------------
(***************************************************************************)
(* Small instances of CertOpsJobs for TLC.  The constraints leave out, in  *)
(* one run, behaviour that another run explores.                           *)
(***************************************************************************)
EXTENDS CertOpsJobs, TLC

AgentSymmetry == Permutations(Agents)

\* No kill switch: explored by the operations run.
NeverPaused == ~paused

\* No kill switch, no certificate retirement, no approvals: explored by the
\* approval and operations runs.
LeasesOnly == ~paused /\ \A j \in Jobs : ~ended[j] /\ ~gated[j]
=============================================================================
