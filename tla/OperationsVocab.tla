-------------------------- MODULE OperationsVocab --------------------------
(***************************************************************************)
(* The operation vocabulary: kinds, statuses, triggers, priorities, the    *)
(* pausable stages, the follow-up chain of every kind and what each index  *)
(* mode keeps up to date.  Tables only; every other module of the          *)
(* operations subsystem reads them.                                        *)
(*   src/app/services/operations/vocab.py, followups.py, index_mode.py     *)
(***************************************************************************)
EXTENDS Integers, Sequences

KINDS == {"import_connect", "backup", "restore", "restore_check", "check",
          "prune", "compact", "delete_archive", "wipe", "prune_compare",
          "rclone_sync", "package_install", "stats", "archive_sync",
          "history_index", "history_merge"}

\* The kinds that hold their repository's lane.
EXCLUSIVE_KINDS == {"backup", "check", "prune", "compact", "delete_archive",
                    "wipe", "prune_compare", "history_index"}

INDEX_KINDS == {"stats", "archive_sync", "history_index", "history_merge"}

SHARED_INDEX_KINDS == INDEX_KINDS \ EXCLUSIVE_KINDS

\* What admission refuses a listing for, queued or running.
WRITE_MAINTENANCE_KINDS == {"prune", "compact", "delete_archive", "wipe"}

\* Kinds start_maintenance accepts; it refuses a second active one.
MAINTENANCE_KINDS == {"check", "prune", "compact", "delete_archive",
                      "restore_check"}

\* The order of a plan's steps after its backup.
StepRank(kind) == CASE kind = "prune"   -> 1 [] kind = "compact" -> 2
                    [] kind = "check"   -> 3 [] OTHER            -> 4

\* Kinds whose service writes the verdict on the row in a session of its own,
\* while the runner's task is still executing; the executor reads it back.
SERVICE_KINDS == MAINTENANCE_KINDS \cup {"backup", "wipe"}

\* Running kinds a cancel request may flag (the routes refuse the others).
CANCELLABLE_WHILE_RUNNING ==
    {"backup", "restore", "check", "compact", "prune", "delete_archive",
     "restore_check", "history_index", "history_merge"}

SUCCESS_STATUSES  == {"completed", "completed_with_warnings"}
TERMINAL_STATUSES == SUCCESS_STATUSES \cup {"failed", "cancelled", "skipped"}
STATUSES          == {"queued", "running"} \cup TERMINAL_STATUSES

\* What an executor may return; a deferral and a cancel are the runner's own.
OUTCOME_STATUSES == SUCCESS_STATUSES \cup {"skipped", "failed"}

TRIGGERS == {"manual", "schedule", "plan", "import", "followup", "reconcile",
             "retry", "preview"}

STAGES == {"archives", "retention", "history", "stats"}

\* STAGE_FOR_KIND: the pausable stage of a kind; "none" for the others.
StageForKind(kind) ==
    CASE kind \in {"archive_sync", "history_merge"} -> "archives"
      [] kind = "prune_compare"                     -> "retention"
      [] kind = "history_index"                     -> "history"
      [] kind = "stats"                             -> "stats"
      [] OTHER                                      -> "none"

PriorityForTrigger(trigger) ==
    CASE trigger = "schedule"  -> 5
      [] trigger = "followup"  -> 10
      [] trigger = "reconcile" -> 20
      [] OTHER                 -> 0

\* The follow-up kinds of a kind, in order; no chain is longer than three.
FOLLOWUPS == [kind \in KINDS |->
    CASE kind = "import_connect" -> <<"stats", "archive_sync", "history_index">>
      [] kind = "backup"         -> <<"archive_sync", "history_index", "stats">>
      [] kind \in {"prune", "delete_archive", "wipe"} -> <<"archive_sync", "stats">>
      [] kind = "compact"        -> <<"stats">>
      [] kind = "archive_sync"   -> <<"prune_compare">>
      [] OTHER                   -> << >>]

\* What the reconcile pass asks for.
RECONCILE_CHAIN == <<"archive_sync", "history_index", "stats">>

PLAN_GATED_KINDS == {"history_index"}

INDEX_MODES == {"full", "archives", "off"}

\* index_mode.allows: the mode drops only the index kinds it does not refresh.
Allows(mode, kind) ==
    \/ kind \notin {"stats", "archive_sync", "history_index"}
    \/ mode = "full"
    \/ mode = "archives" /\ kind \in {"stats", "archive_sync"}

=============================================================================
