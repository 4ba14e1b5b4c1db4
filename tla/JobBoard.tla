------------------------------ MODULE JobBoard ------------------------------
(***************************************************************************)
(* What the extract queue promises its users when leases outlast the work: *)
(* a board of jobs from which workers take open jobs into exclusive        *)
(* custody. Only the holder of a job can finish it, and only after         *)
(* delivering its result in this very custody; a finished or abandoned job *)
(* never comes back. How the custody is found out to be void (a lease, a   *)
(* clock) is no concern of the board.                                      *)
(***************************************************************************)
CONSTANTS Jobs, Workers, Nobody

VARIABLES
    status,     \* "absent", "open", "done" or "failed"
    holder,     \* who has custody of the job
    delivered   \* the holder has delivered the result

bvars == <<status, holder, delivered>>

BoardTypeOK ==
    /\ status \in [Jobs -> {"absent", "open", "done", "failed"}]
    /\ holder \in [Jobs -> Workers \cup {Nobody}]
    /\ delivered \in [Jobs -> BOOLEAN]

BoardInit ==
    /\ status = [j \in Jobs |-> "absent"]
    /\ holder = [j \in Jobs |-> Nobody]
    /\ delivered = [j \in Jobs |-> FALSE]

Custody(w) == {j \in Jobs : holder[j] = w}
Free == {j \in Jobs : status[j] = "open" /\ holder[j] = Nobody}

Submit(j) ==
    /\ status[j] = "absent"
    /\ status' = [status EXCEPT ![j] = "open"]
    /\ UNCHANGED <<holder, delivered>>

(* A worker without jobs takes some and discards others as unworkable. *)
Take(w, taken, discarded) ==
    /\ Custody(w) = {}
    /\ taken \cup discarded \subseteq Free
    /\ status' = [j \in Jobs |->
                     IF j \in discarded THEN "failed" ELSE status[j]]
    /\ holder' = [j \in Jobs |-> IF j \in taken THEN w ELSE holder[j]]
    /\ UNCHANGED delivered

Deliver(w, j) ==
    /\ holder[j] = w /\ ~delivered[j]
    /\ delivered' = [delivered EXCEPT ![j] = TRUE]
    /\ UNCHANGED <<status, holder>>

(* Custody of the jobs in S ends. *)
Release(S) ==
    /\ holder' = [j \in Jobs |-> IF j \in S THEN Nobody ELSE holder[j]]
    /\ delivered' = [j \in Jobs |-> delivered[j] /\ j \notin S]

(* All delivered jobs of the worker are finished. *)
Finish(w) ==
    LET S == {j \in Custody(w) : delivered[j]}
    IN  /\ S # {}
        /\ status' = [j \in Jobs |-> IF j \in S THEN "done" ELSE status[j]]
        /\ Release(S)

(* The worker reports failures: each job is reopened or given up. *)
GiveBack(w, reopened, givenUp) ==
    /\ reopened \cup givenUp \subseteq {j \in Custody(w) : ~delivered[j]}
    /\ status' = [j \in Jobs |->
                     IF j \in givenUp THEN "failed" ELSE status[j]]
    /\ Release(reopened \cup givenUp)

(* The worker is gone, and with it its custody and what it delivered. *)
Forget(w) ==
    /\ Release(Custody(w))
    /\ UNCHANGED status

BoardNext ==
    \/ \E j \in Jobs : Submit(j)
    \/ \E w \in Workers :
        \/ \E taken, discarded \in SUBSET Free : Take(w, taken, discarded)
        \/ \E reopened, givenUp \in SUBSET Custody(w) :
              GiveBack(w, reopened, givenUp)
        \/ \E j \in Jobs : Deliver(w, j)
        \/ Finish(w)
        \/ Forget(w)

BoardSpec == BoardInit /\ [][BoardNext]_bvars

=============================================================================
