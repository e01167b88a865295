-------------------------- MODULE MCIngestWorkflow --------------------------
(* Instances of IngestWorkflow for TLC.                                     *)
EXTENDS IngestWorkflow, TLC

Auto(canary, provider, pauses) ==
  [sources |-> {}, mode |-> "auto_full", canary |-> canary, provider |-> provider,
   pause |-> pauses]
Unpaused(m) ==
  [sources |-> {}, mode |-> m, canary |-> "default", provider |-> "skip", pause |-> {}]

\* A repair brings in the other modes, and any pause of any scope.
SourceScopes ==
  {[s EXCEPT !.sources = Source] : s \in {Unpaused("manual"), Auto("off", "skip", {})}}

\* The boundaries of the Pass phase, alone and together.
PassScopes ==
  {Unpaused("manual"), Unpaused("canary_only"),
   Auto("off", "skip", {ExactPlan, PassRun}), Auto("default", "skip", {CanaryRun, PassRun}),
   Auto("sample", "skip", {ExactPlan, CanaryRun})}

\* The boundaries of the checkpoints and the release; a repair brings them to a
\* workflow without a provider too.
ReleaseScopes ==
  {Auto("off", "sync", {Gate1, ReleaseApply}), Auto("off", "sync", {Gate2, ReleaseSync})}

AllScopes == SourceScopes \cup PassScopes \cup ReleaseScopes

Permuted == Permutations(Id) \cup Permutations(Source)
=============================================================================
