------------------------------- MODULE MC_Alarm -------------------------------
EXTENDS Alarm

CONSTANTS probe, rt1, rt2

MCAlarms == {probe, rt1, rt2}
MCRole == probe :> "probe" @@ rt1 :> "retransmit" @@ rt2 :> "retransmit"

\* Time in microseconds, as TimeBase keeps it.
MCSecond == FromSeconds(1)
\* SendBuffer's fromSeconds(1) and IPLayer::probeInterval()'s fromSeconds(3).
MCRto == FromSeconds(1)
MCProbe == FromSeconds(3)
MCGranularity == FromMilliseconds(1)
MCQuantum == FromMilliseconds(500)
\* A start 3.5 s into a second: the clock updateNow computes is not the
\* wall clock (see Clock).
MCReal0 == FromSeconds(10) + FromMilliseconds(3500)
MCMaxReal == MCReal0 + FromSeconds(4)
\* elapse(fromSeconds(1)) and elapse(fromMilliseconds(3600)) of
\* socket_session_test.cpp.
MCElapseSteps == {FromSeconds(1), FromMilliseconds(3600)}
MCMockHorizon == 5 * MCSecond
===============================================================================
