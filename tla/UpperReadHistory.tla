-------------------------- MODULE UpperReadHistory --------------------------
(***************************************************************************)
(* UpperDriver with two history variables per app-facing request, to say   *)
(* what an application may be shown: for the request that is under way,    *)
(* whether the override was on at some time since it arrived, and whether  *)
(* an injected report was on show all the time since then.  The variables  *)
(* are reset when no request is under way and constrain no step.           *)
(***************************************************************************)
EXTENDS UpperDriver

VARIABLES overriddenOnce, shownThroughout

historyVars == <<vars, overriddenOnce, shownThroughout>>

UnderWay(r) == rpc[r] \notin Settled

HInit ==
  /\ Init
  /\ overriddenOnce  = [r \in Requests |-> FALSE]
  /\ shownThroughout = [r \in Requests |-> TRUE]

Observe ==
  /\ overriddenOnce' = [r \in Requests |->
       UnderWay(r)' /\ (overriddenOnce[r] \/ OverrideEnabled')]
  /\ shownThroughout' = [r \in Requests |->
       UnderWay(r)' => (shownThroughout[r] /\ ShowsInjected')]

HNext == Next /\ Observe

HSpec == HInit /\ [][HNext]_historyVars

\* An application is shown the injected state only by a request during which
\* the override was on: not by one sent after OFF, release or cleanup, however
\* late a thread that saw the override acts on it.
InjectedOnlyUnderOverride ==
  [][\A r \in Requests :
       UnderWay(r) /\ rpc'[r] = "injected" => overriddenOnce[r]]_historyVars

\* An application is never shown the physical controller by a state query
\* during all of which the override was on and a report injected.
NativeOnlyWithoutOverride ==
  [][\A r \in Requests :
       UnderWay(r) /\ rpc'[r] = "native" /\ kind[r] = "xinput"
       => ~shownThroughout[r]]_historyVars
=============================================================================
