------------------------- MODULE MCRecoveryPipeline -------------------------
(* Instances of RecoveryPipeline for TLC.                                  *)
EXTENDS RecoveryPipeline, TLC

CONSTANTS o1, o2, o3, w1, w2, r1, r2

MCIven == (o1 :> 3 @@ o2 :> 2 @@ o3 :> 1)
IvenOf == [o \in Opp |-> MCIven[o]]
FirstAttempt == [o \in Opp |-> 1]
Symmetric == Permutations(Worker) \cup Permutations(Recon)
=============================================================================
