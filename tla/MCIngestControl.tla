--------------------------- MODULE MCIngestControl ---------------------------
EXTENDS IngestControl

CONSTANTS s1, s2, c1

MCSource == {}
MCId == {c1}

MCOneSlice == {s1}
MCTwoSlices == {s1, s2}

\* The whole chain: with canary, index and a pause once the Passes are done, or
\* with none of them.
MCWithPause ==
  [sources |-> {}, mode |-> "auto_full", canary |-> "default", provider |-> "sync", pause |-> {PassRun}]
MCUnpaused == [sources |-> {}, mode |-> "auto_full", canary |-> "off", provider |-> "skip", pause |-> {}]
MCChain == {MCWithPause, MCUnpaused}
MCPlain == {MCUnpaused}

\* One of the Passes only.
MCCanary == {[sources |-> {}, mode |-> "canary_only", canary |-> "default", provider |-> "skip", pause |-> {}]}
=============================================================================
