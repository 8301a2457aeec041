---------------------------- MODULE MCSyncScheduler ----------------------------
(* Model checking of SyncScheduler; the cfgs choose the faults. *)
EXTENDS SyncScheduler

NoFaults == {}
CycleHang == {"hang"}
AuditFails == {"auditFails"}
================================================================================
