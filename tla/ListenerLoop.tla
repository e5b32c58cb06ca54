----------------------------- MODULE ListenerLoop -----------------------------
(***************************************************************************)
(* The select loop of the registry listener (core/registry/listener.rs):   *)
(* completions, controls and commands compete for one task.  tokio's       *)
(* select! picks among ready branches at random, so a stream of            *)
(* completions could keep commands waiting; completion_burst bounds that.  *)
(***************************************************************************)
EXTENDS Integers, Sequences

CONSTANTS
    BurstLimit,     \* COMPLETION_BURST_LIMIT
    CommandCap,     \* capacity of the command queue
    CompletionCap   \* bound: completion identities waiting at a time

ASSUME LoopAssumption ==
    BurstLimit \in Nat \ {0} /\ CommandCap \in Nat \ {0} /\ CompletionCap \in Nat \ {0}

VARIABLES
    commands,     \* commands waiting in cmd_rx
    completions,  \* identities waiting in completion_rx
    fences,       \* fences waiting in control_rx
    burst,        \* completion_burst
    probing,      \* the loop is past its burst limit, before the select!
    overtaken     \* history: completions handled while the oldest command waits

loopVars == <<commands, completions, fences, burst, probing, overtaken>>

LoopInit ==
    /\ commands = 0 /\ completions = 0 /\ fences = 0
    /\ burst = 0 /\ probing = FALSE /\ overtaken = 0

-----------------------------------------------------------------------------
SendCommand ==
    /\ commands < CommandCap
    /\ commands' = commands + 1
    /\ UNCHANGED <<completions, fences, burst, probing, overtaken>>

SendCompletion ==
    /\ completions < CompletionCap
    /\ completions' = completions + 1
    /\ UNCHANGED <<commands, fences, burst, probing, overtaken>>

SendFence ==
    /\ fences = 0
    /\ fences' = 1
    /\ UNCHANGED <<commands, completions, burst, probing, overtaken>>

-----------------------------------------------------------------------------
\* handle_command for the oldest command; the burst starts over.
TakeCommand ==
    /\ commands > 0
    /\ commands' = commands - 1
    /\ burst' = 0 /\ overtaken' = 0
    /\ UNCHANGED <<completions, fences>>

\* handle_control: the fence drains every command before it replies.
TakeFence ==
    /\ fences > 0
    /\ fences' = fences - 1
    /\ commands' = 0
    /\ burst' = 0 /\ overtaken' = 0
    /\ UNCHANGED completions

\* Mutant: the burst is allowed one completion too many.
BurstReachedLate == burst > BurstLimit

BurstReached == burst >= BurstLimit

\* Mutant: the probe tries controls only.
ProbeControlsOnly ==
    /\ ~probing /\ BurstReached
    /\ \/ TakeFence /\ UNCHANGED probing
       \/ /\ fences = 0
          /\ burst' = 0 /\ probing' = TRUE
          /\ UNCHANGED <<commands, completions, fences, overtaken>>

\* The top of the loop: at the limit a control, then a command, is tried
\* before anything else; with neither ready the burst starts over.
Probe ==
    /\ ~probing /\ BurstReached
    /\ \/ TakeFence /\ UNCHANGED probing
       \/ fences = 0 /\ TakeCommand /\ UNCHANGED probing
       \/ /\ fences = 0 /\ commands = 0
          /\ burst' = 0 /\ probing' = TRUE
          /\ UNCHANGED <<commands, completions, fences, overtaken>>

\* select!: any ready branch.
SelectCompletion ==
    /\ probing \/ ~BurstReached
    /\ completions > 0
    /\ completions' = completions - 1
    /\ burst' = burst + 1
    /\ probing' = FALSE
    /\ overtaken' = IF commands = 0 THEN 0
                  ELSE IF overtaken <= BurstLimit THEN overtaken + 1 ELSE overtaken
    /\ UNCHANGED <<commands, fences>>

SelectOther ==
    /\ probing \/ ~BurstReached
    /\ TakeCommand \/ TakeFence
    /\ probing' = FALSE

Loop == Probe \/ SelectCompletion \/ SelectOther

LoopNext == SendCommand \/ SendCompletion \/ SendFence \/ Loop

LoopSpec == LoopInit /\ [][LoopNext]_loopVars

-----------------------------------------------------------------------------
\* While a command waits, at most BurstLimit completions are handled first.
\* Nothing is assumed of the choice select! makes.
BoundedOvertaking == overtaken <= BurstLimit
=============================================================================
