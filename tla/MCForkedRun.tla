----------------------------- MODULE MCForkedRun -----------------------------
EXTENDS ForkedRun

\* Silence, a report behind more noise than the parent keeps, one before it, and two.
ShortOutputs == { <<>>, <<"noise">>, <<"asan", "noise">>, <<"noise", "noise", "ubsan">>,
                  <<"ubsan", "asan", "noise">> }
==============================================================================
