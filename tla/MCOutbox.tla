------------------------------ MODULE MCOutbox ------------------------------
(* Outbox for its liveness: a job, a setup and revocation. MCRecords has slots,   *)
(* full journals and faults.                                                     *)
EXTENDS Outbox

CONSTANTS j1, u1

MCJobs == {j1}
MCNone == {}
MCSetups == {u1}
(* Results of setups are twice as large as the others.                     *)
MCSize == [k \in Keys |-> IF k.kind = "setup" THEN 2 ELSE 1]
MCDoubtful == SetupKeys \cup JobKeys
=============================================================================
