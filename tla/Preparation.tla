---------------------------- MODULE Preparation ----------------------------
(***************************************************************************)
(* What a run goes through before its bots trade: createRun fixes its      *)
(* numbers (LoadPlan), conformance() probes the engine to the last step    *)
(* (Conformance), and only then handle() dispatches the shards (LoadPlan), *)
(* whose bots meet the engine as the probe left it.                        *)
(***************************************************************************)
EXTENDS Conformance, LoadPlan

vars == <<probeVars, planVars>>

Init == ProbeInit /\ PlanInit

(* The order of handle(): the result of the probe, however bad, is stored  *)
(* and the fan-out follows.  A request that timed out may be served at any *)
(* point, under load too.                                                  *)
Next ==
    \/ CreateRun /\ UNCHANGED probeVars
    \/ job # NoJob /\ ProbeNext /\ UNCHANGED planVars
    \/ ServeLate /\ UNCHANGED planVars
    \/ Done /\ Dispatch /\ UNCHANGED probeVars

Spec == Init /\ [][Next]_vars

(* The load starts from an empty book: by the time a shard is out, the     *)
(* scenario has taken back all it brought.  For the reference book this is *)
(* unconditional; a correct engine is empty if it has served every request *)
(* of the probe (pending is empty), each before any later one (overtaken   *)
(* is FALSE), with or without an answer.  An order of the probe that is    *)
(* served after conf-G, or whose sweep never comes, does stay for the bots *)
(* to trade with.                                                          *)
ProbeLeavesNothing ==
    shards # <<>> =>
        /\ \A s \in Ref!Side, p \in Ref!Ticks : ref[s][p] = <<>>
        /\ habit = "price-time" /\ pending = {} /\ ~overtaken => book = <<>>
=============================================================================
