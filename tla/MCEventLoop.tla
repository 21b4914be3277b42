---------------------------- MODULE MCEventLoop ----------------------------
(* Instances of EventLoop: queues a and b, of which b may be edge-triggered *)
(* or have a one-time subscription.                                         *)
EXTENDS EventLoop
MCObjects == {"a", "b"}
MCOne == {"b"}
MCNone == {}
MCCapacity == [o \in MCObjects |-> IF o = "a" THEN 2 ELSE 1]
=============================================================================
