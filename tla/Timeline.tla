------------------------------ MODULE Timeline -------------------------------
(***************************************************************************)
(* The contract timeline of one child or employee as the API promises it:  *)
(* every write takes effect at once, on the contracts as they are at that  *)
(* moment, or not at all, and no state in between is visible.              *)
(***************************************************************************)
EXTENDS ContractOps

VARIABLE rows       \* the committed contracts: id -> Slot

Init == rows \in Timelines

\* A write of the rows in R is visible only if the timeline stays legal.
Write(R) == NoOverlapIn(R) /\ rows' = R

Addressed(k) == Live(rows[k.id]) /\ checkVersion(k.exp, rows[k.id].ver)

Create(k) ==
    /\ k.kind = "create" /\ CreateOK(k)
    /\ \E i \in Ids : rows[i] = NoRow /\ Write([rows EXCEPT ![i] = Created(k)])

Correct(k) ==
    /\ k.kind = "correct" /\ Addressed(k) /\ CorrectOK(rows[k.id], k)
    /\ Write([rows EXCEPT ![k.id] = Corrected(@, k)])

End(k) ==
    /\ k.kind = "end" /\ Addressed(k) /\ EndOK(rows[k.id], k)
    /\ Write([rows EXCEPT ![k.id] = Ended(@, k)])

Amend(k) ==
    /\ k.kind = "amend" /\ Addressed(k) /\ AmendOK(rows[k.id], k)
    /\ \E i \in Ids :
         /\ rows[i] = NoRow
         /\ Write([rows EXCEPT ![k.id] = Closed(@, k), ![i] = Successor(rows[k.id], k)])

MoveBoundary(k) ==
    /\ k.kind = "boundary" /\ k.id # k.later
    /\ Addressed(k) /\ Live(rows[k.later]) /\ rows[k.later].ver = k.laterExp
    /\ BoundaryOK(rows[k.id], rows[k.later], k)
    /\ Write([rows EXCEPT ![k.id] = MovedEarlier(@, k), ![k.later] = MovedLater(@, k)])

\* A delete leaves a gap where the contract was.  Without a version it accepts
\* whatever the row has become since it was read.
Delete(k) ==
    /\ k.kind = "delete" /\ Addressed(k)
    /\ rows' = [rows EXCEPT ![k.id] = Gone]

Next == \E k \in Requests :
    Create(k) \/ Correct(k) \/ End(k) \/ Amend(k) \/ MoveBoundary(k) \/ Delete(k)

Spec == Init /\ [][Next]_rows
=============================================================================
