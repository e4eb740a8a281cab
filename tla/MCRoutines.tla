----------------------------- MODULE MCRoutines -----------------------------
(***************************************************************************)
(* Small instances of the repository's loops and sequential code, of which *)
(* one runs: the main loops of the device agent with their callbacks, the  *)
(* transfer of a vector of buffers, the list of buffers, the message       *)
(* format, the stream connection, and the exercises.  They share nothing;  *)
(* while one runs the variables of the others keep a first value.          *)
(***************************************************************************)
EXTENDS DeviceAgent, IovTransfer, BufferList, MessageType, IostreamConnection, Exercises

VARIABLE code

(* The three main loops: the agent's client, and both sides of MNDBServer. *)
MCArgs == {[prog |-> "agent", mode |-> 0, type |-> 3, contype |-> 2, devs |-> 1, conns |-> 2],
           [prog |-> "mndb", mode |-> 0, type |-> 2, contype |-> 1, devs |-> 2, conns |-> 1],
           [prog |-> "mndb", mode |-> 2, type |-> 0, contype |-> 0, devs |-> 2, conns |-> 2]}

Codes == {"agent", "transfer", "buffers", "message", "connection", "output", "exercises"}

RInit ==
    /\ code \in Codes
    /\ AgentInit /\ (code # "agent" => opt.prog = "agent")
    /\ IF code = "transfer" THEN Init
       ELSE /\ dir = "send" /\ total_len = 0 /\ iov = <<>> /\ remain_bytes = 0
            /\ timeout_ms = 0 /\ moved = <<>> /\ ret = "none"
    /\ IF code = "buffers" THEN BufferInit
       ELSE heap = [b \in Bufs |-> Constructed(b, 0)] /\ added = Null
    /\ CmsgInit
    /\ ConnInit
    /\ code # "output" => out.handler = "none" /\ ~out.vector
    /\ IF code = "exercises" THEN ExerciseInit ELSE exercise = [of |-> "none"] /\ result = {}

Runs(c) == code = c /\ UNCHANGED code

RNext ==
    \/ Runs("agent") /\ AgentNext
       /\ UNCHANGED <<vars, bufferVars, cmsgVars, connVars, exerciseVars>>
    \/ Runs("transfer") /\ Next
       /\ UNCHANGED <<agentVars, bufferVars, cmsgVars, connVars, exerciseVars>>
    \/ Runs("buffers") /\ BufferNext
       /\ UNCHANGED <<agentVars, vars, cmsgVars, connVars, exerciseVars>>
    \/ Runs("message") /\ CmsgNext
       /\ UNCHANGED <<agentVars, vars, bufferVars, connVars, exerciseVars>>
    \/ Runs("connection") /\ ConnNext
       /\ UNCHANGED <<agentVars, out, vars, bufferVars, cmsgVars, exerciseVars>>
    \/ Runs("output") /\ WriteNext
       /\ UNCHANGED <<agentVars, vars, bufferVars, cmsgVars, exerciseVars>>
    \/ Runs("exercises") /\ Solve
       /\ UNCHANGED <<agentVars, vars, bufferVars, cmsgVars, connVars>>

RSpec == RInit /\ [][RNext]_<<code, agentVars, vars, bufferVars, cmsgVars, connVars, exerciseVars>>

(* The elements of a list are known by their places only.                  *)
AnyElements == Permutations(Bufs)
=============================================================================
