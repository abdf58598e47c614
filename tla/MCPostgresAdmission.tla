------------------------- MODULE MCPostgresAdmission -------------------------
(* PostgresAdmission on two replicas.  An earlier request, whose replica    *)
(* crashed since, left a pending row that is at its deadline: no worker may *)
(* lease it, and until it is swept it still fills the queue.                *)
EXTENDS PostgresAdmission

CONSTANTS r1, r2, Earlier

MCReplicas   == {r1, r2}
MCOneReplica == {r1}
MCHomeOf     == [j \in Jobs |-> r1]
MCWindows    == -1..Window

LeftBehind == [NoRow EXCEPT !.state = "pending", !.id = 1]

OccupiedInit ==
    /\ row = [j \in Jobs |-> IF j = Earlier THEN LeftBehind ELSE NoRow]
    /\ nextId = 2 /\ fence = 0
    /\ counted = {} /\ held = {} /\ sweeper = None /\ phase = "off"
    /\ pc = [j \in Jobs |-> IF j = Earlier THEN "crashed" ELSE "idle"]
    /\ left = [j \in Jobs |-> 0]
    /\ got = [j \in Jobs |-> 0]

OccupiedSpec == OccupiedInit /\ [][AdmNext]_allVars /\ AdmFairness
=============================================================================
