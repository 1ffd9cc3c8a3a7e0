------------------------- MODULE MCOperationRunner -------------------------
(* Small instances of OperationRunner for TLC. *)
EXTENDS OperationRunner, TLC

CONSTANT r1

Ask(kinds, repo, trigger) == [kinds |-> kinds, repo |-> repo, trigger |-> trigger]

PlanBackup == {Ask(<<"backup">>, r1, "plan")}
BackupAndCheck == PlanBackup \cup {Ask(<<"check">>, r1, "manual")}

ModeOff      == [r \in Repos |-> "off"]
ModeArchives == [r \in Repos |-> "archives"]
=============================================================================
