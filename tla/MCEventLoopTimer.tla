-------------------------- MODULE MCEventLoopTimer --------------------------
(* Instances of EventLoopTimer: a periodic timer p and a one-shot timer o.  *)
EXTENDS EventLoopTimer
MCTimers == {"p", "o"}
MCPeriodic == {"p"}
=============================================================================
