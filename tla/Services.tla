----------------------------- MODULE Services -----------------------------
(***************************************************************************)
(* The services the pipeline and the execution engine call, in one         *)
(* specification.  They share no state: each has its own locks, and what   *)
(* one reads of another (the fleet's health, the opportunity mode) is a    *)
(* nondeterministic input of its module.  Steps of two of them commute, so *)
(* a behaviour of all is, for each, one of it alone; focus names the one   *)
(* that runs, and every initial state chooses another.                     *)
(***************************************************************************)
EXTENDS GasPricing, LookupBudget, PoolCache, Controls, FileTelemetry, AdaptivePolicy, SwapDecoder

VARIABLE focus

vars == <<signed, lookupVars, cacheVars, controlVars, fileVars, policyVars, decoderVars, focus>>

Init ==
  /\ GasInit /\ LookupInit /\ CacheInit /\ ControlsInit /\ FilesInit /\ PolicyInit /\ DecoderInit
  /\ focus \in {"gas", "lookup", "cache", "controls", "files", "policy", "decoder"}

Next ==
  \/ /\ focus = "gas" /\ GasNext
     /\ UNCHANGED <<lookupVars, cacheVars, controlVars, fileVars, policyVars, decoderVars, focus>>
  \/ /\ focus = "lookup" /\ LookupNext
     /\ UNCHANGED <<signed, cacheVars, controlVars, fileVars, policyVars, decoderVars, focus>>
  \/ /\ focus = "cache" /\ CacheNext
     /\ UNCHANGED <<signed, lookupVars, controlVars, fileVars, policyVars, decoderVars, focus>>
  \/ /\ focus = "controls" /\ ControlsNext
     /\ UNCHANGED <<signed, lookupVars, cacheVars, fileVars, policyVars, decoderVars, focus>>
  \/ /\ focus = "files" /\ FilesNext
     /\ UNCHANGED <<signed, lookupVars, cacheVars, controlVars, policyVars, decoderVars, focus>>
  \/ /\ focus = "policy" /\ PolicyNext
     /\ UNCHANGED <<signed, lookupVars, cacheVars, controlVars, fileVars, decoderVars, focus>>
  \/ /\ focus = "decoder" /\ DecoderNext
     /\ UNCHANGED <<signed, lookupVars, cacheVars, controlVars, fileVars, policyVars, focus>>

Spec == Init /\ [][Next]_vars
===========================================================================
