------------------------------ MODULE MCTasks ------------------------------
(***************************************************************************)
(* The tasks and threads that the runtime leaves behind a request, each    *)
(* part on its own: the sessions of terminals, the two ends of an archive, *)
(* and commands.  `part' says which of them a behaviour is about; the      *)
(* others stay as they begin, where nothing is owed.                       *)
(***************************************************************************)
EXTENDS Terminals, Archive, Execute

VARIABLE part

TasksInit ==
    /\ part \in {"terminals", "archive", "execute"}
    /\ Init /\ ArchiveInit /\ ExecuteInit
    /\ part = "archive" \/ (limit = (CHOOSE l \in Limits : TRUE) /\ files = [f \in File |-> 1] /\ hot = NoFiles)

TasksNext ==
    /\ UNCHANGED part
    /\ \/ part = "terminals" /\ Next /\ UNCHANGED <<archiveVars, executeVars>>
       \/ part = "archive" /\ ArchiveNext /\ UNCHANGED <<vars, executeVars>>
       \/ part = "execute" /\ ExecuteNext /\ UNCHANGED <<vars, archiveVars>>

(* The runtime's tasks and threads run, and its deadlines pass. *)
TasksFairness ==
    /\ Fairness
    /\ WF_archiveVars(Builder) /\ WF_archiveVars(Encode)
    /\ WF_archiveVars(Decode) /\ WF_archiveVars(Extract)
    /\ WF_executeVars(EndOfOutput) /\ WF_executeVars(Expire) /\ WF_executeVars(Reap)

TasksSpec == TasksInit /\ [][TasksNext]_<<part, vars, archiveVars, executeVars>> /\ TasksFairness
=============================================================================
