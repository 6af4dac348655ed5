---------------------------- MODULE BulkObjects -----------------------------
(***************************************************************************)
(* Bulk Create and Delete Created of the object panel.  A run's thread     *)
(* dispatches one request after the other, each in a thread of its own     *)
(* that registers the request id and then sends; the Receiver takes the    *)
(* ids from the tables as answers arrive, in any order, or never.          *)
(*                                                                         *)
(* A vehicle stands for the request that creates it and for the object id  *)
(* the simulator gives it.  The simulator and the network are the          *)
(* environment: a request may be refused, and anything may stay            *)
(* unanswered.                                                             *)
(***************************************************************************)
CONSTANTS Vehicles, DeleteIds
\* A delete request that is still to be made stands for one of the vehicles.
ASSUME BulkAssumption == Vehicles # {}

VARIABLES
  creating, toCreate,  \* _bulk_create_running, the rest of its poses
  deleting, toDelete,  \* _bulk_delete_running, the rest of its entity_ids
  createPending,       \* _bulk_create_pending
  deletePending,       \* _bulk_delete_pending: the ids in it
  tracked,             \* _bulk_created_ids
  create,              \* for each vehicle, how far its create request is
  delete,              \* for each delete request, how far it is, and of what
  alive,               \* simulator: the vehicles there are
  byHand, dropped      \* history: vehicles deleted one by one; vehicles
                       \* whose successful delete was answered unheeded

bulkRuns    == <<creating, toCreate, deleting, toDelete>>
bulkTables  == <<createPending, deletePending, tracked>>
bulkHistory == <<byHand, dropped>>
bulkVars == <<bulkRuns, bulkTables, create, delete, alive, bulkHistory>>

Progress == {"unused", "dispatched", "registered", "done", "refused", "answered"}

BulkTypeOK ==
  /\ creating \in BOOLEAN /\ toCreate \subseteq Vehicles
  /\ deleting \in BOOLEAN /\ toDelete \subseteq Vehicles
  /\ createPending \subseteq Vehicles /\ deletePending \subseteq DeleteIds
  /\ tracked \subseteq Vehicles /\ alive \subseteq Vehicles
  /\ create \in [Vehicles -> Progress]
  /\ delete \in [DeleteIds -> [at : Progress, of : Vehicles]]
  /\ byHand \subseteq Vehicles /\ dropped \subseteq Vehicles

BulkInit ==
  /\ creating = FALSE /\ toCreate = {} /\ deleting = FALSE /\ toDelete = {}
  /\ createPending = {} /\ deletePending = {} /\ tracked = {}
  /\ create = [v \in Vehicles |-> "unused"]
  /\ delete = [d \in DeleteIds |-> [at |-> "unused", of |-> CHOOSE v \in Vehicles : TRUE]]
  /\ alive = {} /\ byHand = {} /\ dropped = {}

-----------------------------------------------------------------------------
(* Bulk Create.                                                            *)

\* _on_bulk_create_objects, for as many poses as there are members of vs.
ClickBulkCreate(vs) ==
  /\ ~creating /\ vs # {} /\ \A v \in vs : create[v] = "unused"
  /\ creating' = TRUE /\ toCreate' = vs
  /\ UNCHANGED <<deleting, toDelete, bulkTables, create, delete, alive, bulkHistory>>

\* _run_bulk_create: dispatch starts a thread, or returns when not connected.
DispatchCreate(v, connected) ==
  /\ creating /\ v \in toCreate /\ create[v] = "unused"
  /\ toCreate' = toCreate \ {v}
  /\ create' = IF connected THEN [create EXCEPT ![v] = "dispatched"] ELSE create
  /\ UNCHANGED <<creating, deleting, toDelete, bulkTables, delete, alive, bulkHistory>>
CreateRunEnds ==
  /\ creating /\ toCreate = {} /\ creating' = FALSE
  /\ UNCHANGED <<toCreate, deleting, toDelete, bulkTables, create, delete, alive, bulkHistory>>

\* dispatch's thread: on_registered, then the send.
RegisterCreate(v) ==
  /\ create[v] = "dispatched" /\ create' = [create EXCEPT ![v] = "registered"]
  /\ createPending' = createPending \cup {v}
  /\ UNCHANGED <<bulkRuns, deletePending, tracked, delete, alive, bulkHistory>>

\* The simulator makes the vehicle, or refuses.
MakeVehicle(v) ==
  /\ create[v] = "registered"
  /\ \/ create' = [create EXCEPT ![v] = "done"] /\ alive' = alive \cup {v}
     \/ create' = [create EXCEPT ![v] = "refused"] /\ UNCHANGED alive
  /\ UNCHANGED <<bulkRuns, bulkTables, delete, bulkHistory>>

\* on_create_object_response
CreateAnswered(v) ==
  /\ create[v] \in {"done", "refused"}
  /\ create' = [create EXCEPT ![v] = "answered"]
  /\ IF v \in createPending
     THEN /\ createPending' = createPending \ {v}
          /\ tracked' = IF create[v] = "done" THEN tracked \cup {v} ELSE tracked
     ELSE UNCHANGED <<createPending, tracked>>
  /\ UNCHANGED <<bulkRuns, deletePending, delete, alive, bulkHistory>>

-----------------------------------------------------------------------------
(* Delete Created, and Delete of one object.                               *)

\* _on_bulk_delete_objects: what an earlier run still waits for is dropped.
ClickBulkDelete ==
  /\ ~creating /\ ~deleting /\ createPending = {} /\ tracked # {}
  /\ deletePending' = {} /\ deleting' = TRUE /\ toDelete' = tracked
  /\ UNCHANGED <<creating, toCreate, createPending, tracked, create, delete, alive, bulkHistory>>

\* _run_bulk_delete
DispatchDelete(v, d, connected) ==
  /\ deleting /\ v \in toDelete /\ delete[d].at = "unused"
  /\ toDelete' = toDelete \ {v}
  /\ delete' = IF connected THEN [delete EXCEPT ![d] = [at |-> "dispatched", of |-> v]] ELSE delete
  /\ UNCHANGED <<creating, toCreate, deleting, bulkTables, create, alive, bulkHistory>>
DeleteRunEnds ==
  /\ deleting /\ toDelete = {} /\ deleting' = FALSE
  /\ UNCHANGED <<creating, toCreate, toDelete, bulkTables, create, delete, alive, bulkHistory>>
RegisterDelete(d) ==
  /\ delete[d].at = "dispatched" /\ delete' = [delete EXCEPT ![d].at = "registered"]
  /\ deletePending' = deletePending \cup {d}
  /\ UNCHANGED <<bulkRuns, createPending, tracked, create, alive, bulkHistory>>

\* The simulator removes the vehicle if it is there and it wants to.
RemoveVehicle(d) ==
  /\ delete[d].at = "registered"
  /\ \/ /\ delete[d].of \in alive /\ alive' = alive \ {delete[d].of}
        /\ delete' = [delete EXCEPT ![d].at = "done"]
     \/ /\ delete' = [delete EXCEPT ![d].at = "refused"] /\ UNCHANGED alive
  /\ UNCHANGED <<bulkRuns, bulkTables, create, bulkHistory>>

\* Mutant: the vehicle is forgotten whatever the result code.
DeleteAnsweredAnyhow(d) ==
  /\ delete[d].at \in {"done", "refused"}
  /\ delete' = [delete EXCEPT ![d].at = "answered"]
  /\ IF d \in deletePending
     THEN deletePending' = deletePending \ {d} /\ tracked' = tracked \ {delete[d].of}
     ELSE UNCHANGED <<deletePending, tracked>>
  /\ UNCHANGED <<bulkRuns, createPending, create, alive, bulkHistory>>

\* on_delete_object_response
DeleteAnswered(d) ==
  LET v == delete[d].of  ok == delete[d].at = "done" IN
  /\ delete[d].at \in {"done", "refused"}
  /\ delete' = [delete EXCEPT ![d].at = "answered"]
  /\ deletePending' = deletePending \ {d}
  /\ tracked' = IF ok /\ d \in deletePending THEN tracked \ {v} ELSE tracked
  /\ dropped' = IF ok /\ d \notin deletePending THEN dropped \cup {v} ELSE dropped
  /\ UNCHANGED <<bulkRuns, createPending, create, alive, byHand>>

\* _on_delete_object, as the simulator carries it out; nobody heeds the answer.
DeleteByHand(v) ==
  /\ v \in alive /\ alive' = alive \ {v} /\ byHand' = byHand \cup {v}
  /\ UNCHANGED <<bulkRuns, bulkTables, create, delete, dropped>>

BulkNext ==
  \/ \E vs \in SUBSET Vehicles : ClickBulkCreate(vs)
  \/ CreateRunEnds \/ ClickBulkDelete \/ DeleteRunEnds
  \/ \E v \in Vehicles :
       \/ \E connected \in BOOLEAN : DispatchCreate(v, connected)
       \/ RegisterCreate(v) \/ MakeVehicle(v) \/ CreateAnswered(v) \/ DeleteByHand(v)
       \/ \E d \in DeleteIds, connected \in BOOLEAN : DispatchDelete(v, d, connected)
  \/ \E d \in DeleteIds : RegisterDelete(d) \/ RemoveVehicle(d) \/ DeleteAnswered(d)

BulkSpec == BulkInit /\ [][BulkNext]_bulkVars

-----------------------------------------------------------------------------
(* Properties.                                                             *)

\* A request whose answer was handled is in no table, so that Delete Created
\* is blocked only by creates that are really unanswered: an id is registered
\* before its request is sent (dispatch, on_registered).
PendingIsUnanswered ==
  /\ \A v \in createPending : create[v] \in {"registered", "done", "refused"}
  /\ \A d \in deletePending : delete[d].at \in {"registered", "done", "refused"}

\* A vehicle whose creation was answered and which is still there is tracked:
\* no failed, repeated or late delete makes the panel forget it.
NeverForgotten == \A v \in alive : create[v] = "answered" => v \in tracked

\* A vehicle that is tracked and gone has a delete on its way back that the
\* table still waits for, or it was deleted by hand, or the answer of its
\* delete was dropped by a retry: the retry clears the table of the run before.
GoneIsExplained ==
  \A v \in tracked \ alive :
    \/ v \in byHand \cup dropped
    \/ \E d \in DeleteIds : delete[d].of = v /\ delete[d].at = "done"

\* What the panel tracks and waits for is what the simulator has and owes.
TablesAreTrue == PendingIsUnanswered /\ NeverForgotten /\ GoneIsExplained
=============================================================================
