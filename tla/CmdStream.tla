----------------------------- MODULE CmdStream -----------------------------
(***************************************************************************)
(* What executing a command buffer means, without slots, buffers or VTCM:  *)
(* commands start in recorded order, a bounded number of dispatches run at *)
(* once, nothing crosses a barrier, and the execution reports success      *)
(* exactly when every command ran and none failed. CmdExec.tla is the      *)
(* implementation.                                                         *)
(***************************************************************************)
EXTENDS Naturals, Sequences, FiniteSets

CONSTANTS
  Programs,   \* recorded command buffers: sequences of records with a kind
  Limit       \* dispatches that may run at the same time

VARIABLES
  program,    \* the command buffer being executed
  next,       \* index of the next command to start
  running,    \* indices of the commands that are running
  failed,     \* indices of the commands that ran and failed
  refused,    \* the execution gave up: out of memory, or a bad command
  result      \* "none" until the execution returns

streamVars == <<program, next, running, failed, refused, result>>

StreamInit ==
  /\ program \in Programs
  /\ next = 1
  /\ running = {}
  /\ failed = {}
  /\ refused = FALSE
  /\ result = "none"

Walking == result = "none" /\ ~ refused /\ next <= Len(program)

StreamStart ==
  /\ Walking
  /\ program[next].kind # "barrier"
  /\ program[next].kind = "dispatch" => Cardinality(running) < Limit
  /\ running' = running \cup {next}
  /\ next' = next + 1
  /\ UNCHANGED <<program, failed, refused, result>>

StreamFinish(i, ok) ==
  /\ i \in running
  /\ running' = running \ {i}
  /\ failed' = IF ok THEN failed ELSE failed \cup {i}
  /\ UNCHANGED <<program, next, refused, result>>

StreamBarrier ==
  /\ Walking
  /\ program[next].kind = "barrier"
  /\ running = {}
  /\ next' = next + 1
  /\ UNCHANGED <<program, running, failed, refused, result>>

StreamRefuse ==
  /\ result = "none" /\ ~ refused
  /\ refused' = TRUE
  /\ UNCHANGED <<program, next, running, failed, result>>

StreamEnd ==
  /\ result = "none"
  /\ running = {}
  /\ next > Len(program) \/ failed # {} \/ refused
  /\ result' = IF failed = {} /\ ~ refused THEN "SUCCESS" ELSE "ERROR"
  /\ UNCHANGED <<program, next, running, failed, refused>>

StreamNext ==
  \/ StreamStart
  \/ \E i \in running, ok \in BOOLEAN : StreamFinish(i, ok)
  \/ StreamBarrier
  \/ StreamRefuse
  \/ StreamEnd

StreamSpec == StreamInit /\ [][StreamNext]_streamVars
============================================================================
