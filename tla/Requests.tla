------------------------------ MODULE Requests ------------------------------
(***************************************************************************)
(* Requests and jobs of the Node process.  A handler runs alone between    *)
(* two awaits; at an await others run.  A handler whose interleavings      *)
(* matter occupies a slot p \in Procs with a record holding its position   *)
(* pc and the rows it has read; a handler that reads and writes without a  *)
(* point where another could matter is one step.                           *)
(***************************************************************************)
EXTENDS Integers, FiniteSets

CONSTANTS
  Procs,      \* bound: handlers in flight
  NoCall,     \* a free slot
  MaxCalls,   \* bound: handlers started
  MaxDeaths   \* bound: handlers that die

VARIABLES call, calls, deaths

requestVars == <<call, calls, deaths>>

ASSUME RequestConstantsOK == MaxCalls \in Nat /\ MaxDeaths \in Nat

RequestsInit == call = [p \in Procs |-> NoCall] /\ calls = 0 /\ deaths = 0

At(p, pc)    == call[p] # NoCall /\ call[p].pc = pc
InFlight(pc) == {p \in Procs : At(p, pc)}

(* A handler that is one step.                                             *)
OneStep == calls < MaxCalls /\ calls' = calls + 1 /\ UNCHANGED <<call, deaths>>

Begin(p, state) ==
  /\ calls < MaxCalls /\ call[p] = NoCall
  /\ call' = [call EXCEPT ![p] = state]
  /\ calls' = calls + 1
  /\ UNCHANGED deaths

GotoState(p, state) == call' = [call EXCEPT ![p] = state] /\ UNCHANGED <<calls, deaths>>
Goto(p, pc) == GotoState(p, [call[p] EXCEPT !.pc = pc])
End(p)      == GotoState(p, NoCall)

(* An await throws, or the process stops.                                  *)
Dies(p) ==
  /\ call[p] # NoCall /\ deaths < MaxDeaths
  /\ call' = [call EXCEPT ![p] = NoCall]
  /\ deaths' = deaths + 1
  /\ UNCHANGED calls
==============================================================================
