----------------------------- MODULE MCSupervisor -----------------------------
(* Supervisor.tla with two children. *)
EXTENDS Supervisor

MCChildSpecs == <<"a", "b">>
=============================================================================
