----------------------------- MODULE MCWorkers -----------------------------
(***************************************************************************)
(* The two queues that a fixed set of workers serves, checked together:    *)
(* CommandEngine and the dispatcher of the MCP server.  They share no      *)
(* state; in a behaviour one of them moves, chosen at the start, and the   *)
(* other one stays where it starts.  The commands of the one are the       *)
(* request ids of the other.                                               *)
(***************************************************************************)
EXTENDS CommandEngine, TLC

VARIABLES part, session, active, seen, jobs, running, closing, req, batch, line, reached, actor

dispatcherVars == <<session, active, seen, jobs, running, closing, req, batch, line, reached,
                    actor>>

MD == INSTANCE McpDispatcher WITH
  Id <- Cmd, queue <- jobs, inFlight <- running, at <- reached, MaximumInFlight <- 2,
  Kinds <- {"init", "initialized", "ping", "call", "cancel"}, Metadata <- BOOLEAN,
  MaxRequests <- 3, MaxBatches <- 1

WorkersInit ==
  /\ part \in {"commands", "dispatcher"}
  /\ Init
  /\ MD!Init

WorkersNext ==
  /\ part' = part
  /\ \/ part = "commands" /\ Next /\ UNCHANGED dispatcherVars
     \/ part = "dispatcher" /\ MD!Next /\ UNCHANGED vars

WorkersSpec == WorkersInit /\ [][WorkersNext]_<<part, vars, dispatcherVars>>

Symmetric == Permutations(Cmd) \cup Permutations(Worker) \cup Permutations(Closer)

-----------------------------------------------------------------------------
(* An id names one request at a time, every request that is owed an answer *)
(* gets one, and a batch is answered as a whole or, if it repeats an id,   *)
(* not run (McpDispatcher, dispatch, BatchResponses and finish).           *)
RequestsKept == MD!RequestsKept

(* No wake-up of a worker is lost and finish returns (McpDispatcher,       *)
(* worker and finish).                                                     *)
NobodyStuck == MD!NobodyStuck
=============================================================================
