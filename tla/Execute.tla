------------------------------ MODULE Execute ------------------------------
(***************************************************************************)
(* POST /execute (runtime/src/execute.rs): a shell in a process group of   *)
(* its own, whose output is read to its end within the timeout, and which  *)
(* is then waited for.                                                     *)
(*                                                                         *)
(* The shell may start other processes, which inherit its group and its    *)
(* pipes unless they are given others.  The pipes are at an end when no    *)
(* process holds them.  Output is a count of chunks.                       *)
(***************************************************************************)
EXTENDS Integers, FiniteSets

CONSTANTS
    Proc, Shell,    \* processes; the direct child is one of them
    MaxOutputBytes, \* max_output_bytes, in chunks
    MaxWritten      \* bound: chunks written

ASSUME ExecuteAssumption ==
    Shell \in Proc /\ MaxOutputBytes \in Nat /\ MaxWritten \in Nat

VARIABLES
    handler,    \* "idle", "read", "wait", "reap", "done" or "dropped"
    proc,       \* each process: its state, its group, whether it has the pipes
    written,    \* chunks written to the pipes
    heard,      \* chunks read from them
    result      \* ExecuteResponse: exit code, chunks, whether it was cut

executeVars == <<handler, proc, written, heard, result>>

Unborn == [state |-> "unborn", grouped |-> FALSE, pipes |-> FALSE]
Alive == {p \in Proc : proc[p].state = "runs"}
Writers == {p \in Alive : proc[p].pipes}
Grouped == {p \in Alive : proc[p].grouped}
NoResult == [code |-> -1, chunks |-> 0, cut |-> FALSE]
TimedOut == 124

ExecuteInit ==
    /\ handler = "idle"
    /\ proc = [p \in Proc |-> Unborn]
    /\ written = 0 /\ heard = 0
    /\ result = NoResult

(* Killed or exited; the direct child stays a zombie until it is reaped. *)
Ended(ps) == [p \in Proc |-> IF p \in ps \cap Alive THEN [proc[p] EXCEPT !.state = "dead"] ELSE proc[p]]

(* run_command: spawn fails with an answer, or the child runs. *)
Spawn ==
    /\ handler = "idle"
    /\ \/ /\ handler' = "read"
          /\ proc' = [proc EXCEPT ![Shell] = [state |-> "runs", grouped |-> TRUE, pipes |-> TRUE]]
          /\ UNCHANGED result
       \/ /\ handler' = "done"
          /\ result' = [NoResult EXCEPT !.code = 1]
          /\ UNCHANGED proc
    /\ UNCHANGED <<written, heard>>

-----------------------------------------------------------------------------
(* The processes *)

(* cmd &, with its own output or not, in its own session or not. *)
Fork(p, q) ==
    /\ p \in Alive /\ proc[q].state = "unborn"
    /\ \E pipes, grouped \in BOOLEAN :
         /\ pipes => proc[p].pipes
         /\ grouped => proc[p].grouped
         /\ proc' = [proc EXCEPT ![q] = [state |-> "runs", grouped |-> grouped, pipes |-> pipes]]
    /\ UNCHANGED <<handler, written, heard, result>>

Write(p) ==
    /\ p \in Writers /\ written < MaxWritten /\ handler \in {"read", "wait"}
    /\ written' = written + 1
    /\ UNCHANGED <<handler, proc, heard, result>>

(* exec >&- 2>&-: the process goes on without the pipes. *)
ClosePipes(p) ==
    /\ p \in Writers
    /\ proc' = [proc EXCEPT ![p].pipes = FALSE]
    /\ UNCHANGED <<handler, written, heard, result>>

Exit(p) ==
    /\ p \in Alive
    /\ proc' = Ended({p})
    /\ UNCHANGED <<handler, written, heard, result>>

-----------------------------------------------------------------------------
(* The handler *)

ReadOpt ==
    /\ handler = "read" /\ heard < written
    /\ heard' = heard + 1
    /\ UNCHANGED <<handler, proc, written, result>>

(* Both pipes are at their end: the child is waited for, without a limit. *)
EndOfOutput ==
    /\ handler = "read" /\ heard = written /\ Writers = {}
    /\ handler' = "wait"
    /\ UNCHANGED <<proc, written, heard, result>>

(* Mutant: only the direct child is killed. *)
ExpireChild ==
    /\ handler = "read"
    /\ proc' = Ended({Shell})
    /\ handler' = "reap"
    /\ UNCHANGED <<written, heard, result>>

(* Mutant: the timeout covers the first chunk only. *)
ExpireFirst ==
    /\ handler = "read" /\ heard = 0
    /\ proc' = Ended(Grouped)
    /\ handler' = "reap"
    /\ UNCHANGED <<written, heard, result>>

(* The timeout: killpg, then the direct child is reaped. *)
Expire ==
    /\ handler = "read"
    /\ proc' = Ended(Grouped)
    /\ handler' = "reap"
    /\ UNCHANGED <<written, heard, result>>

Cap(n) == IF n > MaxOutputBytes THEN MaxOutputBytes ELSE n

Reap ==
    /\ handler \in {"wait", "reap"} /\ Shell \notin Alive
    /\ handler' = "done"
    /\ result' = IF handler = "reap" THEN [NoResult EXCEPT !.code = TimedOut]
                 ELSE [code |-> 0, chunks |-> Cap(heard), cut |-> heard > MaxOutputBytes]
    /\ UNCHANGED <<proc, written, heard>>

(* The caller disconnects: the handler is dropped, and kill_on_drop kills  *)
(* the direct child.                                                       *)
Disconnect ==
    /\ handler \in {"read", "wait", "reap"}
    /\ handler' = "dropped"
    /\ proc' = Ended({Shell})
    /\ UNCHANGED <<written, heard, result>>

-----------------------------------------------------------------------------
ExecuteNext ==
    \/ Spawn \/ ReadOpt \/ EndOfOutput \/ Expire \/ Reap \/ Disconnect
    \/ \E p \in Proc : Write(p) \/ ClosePipes(p) \/ Exit(p) \/ \E q \in Proc : Fork(p, q)

ExecuteSpec == ExecuteInit /\ [][ExecuteNext]_executeVars

(* Tree kill (execute.rs:132-133, 179-184): once a command is reported as  *)
(* timed out nothing runs that it left in its group; and an answer that is *)
(* not cut has all that was written, by whichever process (152-154).       *)
NothingLeftBehind ==
    handler = "done" =>
        /\ result.code = TimedOut => Grouped = {}
        /\ result.code = 0 => Writers = {} /\ result.chunks = Cap(written)

(* A command is answered or dropped in the end (execute.rs:105-109),       *)
(* unless its shell gives up its pipes and runs on.                        *)
Answered == handler \in {"done", "dropped"}
Holds == proc[Shell].state # "runs" \/ proc[Shell].pipes
CommandEnds == handler = "read" /\ []Holds ~> Answered

(* The same without the condition: the timeout does not cover the wait     *)
(* (execute.rs:160-161).                                                   *)
CommandEndsAlways == handler = "read" ~> Answered
=============================================================================
