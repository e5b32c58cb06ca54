-------------------------- MODULE ListenerLoopProofs --------------------------
(***************************************************************************)
(* How long a command waits in the listener's select loop, for every burst *)
(* limit, queue capacity and choice of select!.                            *)
(***************************************************************************)
EXTENDS ListenerLoop, TLAPS

\* The burst counter is at least the number of completions that overtook the
\* oldest command, because both start over together; the one reset of the
\* burst that keeps the history happens when no command waits.
BurstInvariant ==
    /\ commands \in Nat /\ completions \in Nat /\ fences \in Nat
    /\ burst \in 0..BurstLimit /\ overtaken \in 0..BurstLimit
    /\ overtaken <= burst
    /\ commands = 0 => overtaken = 0
    /\ probing => burst = 0

\* The completion that select! takes leaves the burst within its limit.
LEMMA CompletionWithinBurst ==
  ASSUME BurstInvariant, SelectCompletion
  PROVE  BurstInvariant'
<1>1. burst < BurstLimit
  BY LoopAssumption DEF SelectCompletion, BurstReached, BurstInvariant
<1>2. overtaken' \in 0..BurstLimit /\ overtaken' <= burst + 1
  BY <1>1, LoopAssumption DEF SelectCompletion, BurstInvariant
<1>3. commands' = 0 => overtaken' = 0
  BY DEF SelectCompletion
<1> QED
  BY <1>1, <1>2, <1>3, LoopAssumption DEF SelectCompletion, BurstInvariant

\* At most BurstLimit completions are handled while a command waits: the
\* probe at the top of the loop serves the command queue before the next
\* burst, whichever ready branch select! takes in between.
THEOREM CommandsNotStarved == LoopSpec => []BoundedOvertaking
<1>1. LoopInit => BurstInvariant
  BY LoopAssumption DEF LoopInit, BurstInvariant
<1>2. BurstInvariant /\ [LoopNext]_loopVars => BurstInvariant'
  <2> SUFFICES ASSUME BurstInvariant, [LoopNext]_loopVars PROVE BurstInvariant'
    OBVIOUS
  <2>1. CASE SendCommand \/ SendCompletion \/ SendFence
    BY <2>1 DEF SendCommand, SendCompletion, SendFence, BurstInvariant
  <2>2. CASE Probe
    <3>1. CASE TakeFence /\ UNCHANGED probing
      BY <3>1, LoopAssumption DEF TakeFence, BurstInvariant
    <3>2. CASE TakeCommand /\ UNCHANGED probing
      BY <3>2, LoopAssumption DEF TakeCommand, BurstInvariant
    <3>3. CASE /\ commands = 0 /\ burst' = 0 /\ probing' = TRUE
               /\ UNCHANGED <<commands, completions, fences, overtaken>>
      BY <3>3, LoopAssumption DEF BurstInvariant
    <3> QED
      BY <2>2, <3>1, <3>2, <3>3 DEF Probe
  <2>3. CASE SelectCompletion
    BY <2>3, CompletionWithinBurst
  <2>4. CASE SelectOther
    BY <2>4, LoopAssumption DEF SelectOther, TakeCommand, TakeFence, BurstInvariant
  <2>5. CASE UNCHANGED loopVars
    BY <2>5 DEF loopVars, BurstInvariant
  <2> QED
    BY <2>1, <2>2, <2>3, <2>4, <2>5 DEF LoopNext, Loop
<1>3. BurstInvariant => BoundedOvertaking
  BY LoopAssumption DEF BurstInvariant, BoundedOvertaking
<1> QED
  BY <1>1, <1>2, <1>3, PTL DEF LoopSpec
=============================================================================
