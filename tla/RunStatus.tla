------------------------------ MODULE RunStatus ------------------------------
(***************************************************************************)
(* The status vocabularies of a run and of a step, and the two tables of   *)
(* sanctioned moves every store write is checked against                   *)
(* (crates/htui-core/src/model/run.rs).  Pure definitions: the modules     *)
(* that model writers EXTEND this one.                                     *)
(***************************************************************************)

\* A run's statuses, and those of a run that still holds its item.
ActiveRun == {"queued", "running", "awaiting", "stopped"}
TerminalRun == {"done", "failed", "cancelled"}
RunStatuses == ActiveRun \cup TerminalRun

\* RunStatus::can_move_to: where a run may go from each status.
RunMoves ==
  [ queued    |-> {"running", "cancelled", "failed"},
    running   |-> {"awaiting", "done", "failed", "cancelled", "stopped"},
    awaiting  |-> {"running", "failed", "cancelled"},
    stopped   |-> {"running", "cancelled", "failed"},
    done      |-> {},
    failed    |-> {},
    cancelled |-> {} ]

RunCanMove(from, to) == to \in RunMoves[from]

\* A step's statuses; `failed` is not terminal, `done` is though it may be superseded.
StepStatuses == {"pending", "running", "awaiting", "stopped",
                 "done", "failed", "cancelled", "superseded"}
TerminalStep == {"done", "cancelled", "superseded"}

\* StepStatus::can_move_to, with its one self-move (a gated step promoted to chat).
StepMoves ==
  [ pending    |-> {"running", "superseded", "cancelled"},
    running    |-> {"awaiting", "done", "failed", "cancelled", "stopped"},
    stopped    |-> {"running", "cancelled", "failed", "superseded"},
    awaiting   |-> {"done", "failed", "superseded", "awaiting", "cancelled"},
    failed     |-> {"awaiting", "cancelled"},
    done       |-> {"superseded"},
    cancelled  |-> {},
    superseded |-> {} ]

StepCanMove(from, to) == to \in StepMoves[from]
=============================================================================
