-------------------------- MODULE MCCertOpsOutbox --------------------------
(***************************************************************************)
(* Small instances of CertOpsOutbox for TLC.                               *)
(***************************************************************************)
EXTENDS CertOpsOutbox, TLC

Symmetry == Permutations(Intents) \cup Permutations(Drains)

\* Neither alerts nor jobs that outlast their deadline: the rows run has them.
AdoptionsOnly == \A i \in Intents : outbox[i].event # ALERT /\ ~overdue[i]
=============================================================================
