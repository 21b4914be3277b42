---------------------------- MODULE KeyProtocol ----------------------------
(***************************************************************************)
(* What the input service promises about the events of each key, whatever  *)
(* the bouncing of its contact and the order in which two threads publish: *)
(* Press, then either Short or Long and any number of Repeat, then Release, *)
(* all with the sequence counter of the Press, which no other press has.   *)
(***************************************************************************)
EXTENDS Naturals

CONSTANT Keys

VARIABLES last,    (* last event published of every key                    *)
          used,    (* sequence counters of the presses so far              *)
          boot     (* keys that were held when the service started         *)

Silent == [type |-> "None", seq |-> 0]

(* The types that may follow one another within one press: a Short is       *)
(* published by input_srv right before the Release (input.c:170-179), Long  *)
(* and Repeat by the timer before that.                                     *)
Follows(a, b) ==
    \/ a = "Press" /\ b \in {"Short", "Long"}
    \/ a = "Short" /\ b = "Release"
    \/ a \in {"Long", "Repeat"} /\ b \in {"Repeat", "Release"}

Init == last = [k \in Keys |-> Silent] /\ used = {} /\ boot \in SUBSET Keys

Press(k, n) ==
    /\ last[k].type \in {"None", "Release"}
    /\ n \notin used
    /\ last' = [last EXCEPT ![k] = [type |-> "Press", seq |-> n]]
    /\ used' = used \cup {n}
    /\ UNCHANGED boot

Go(k, t) ==
    /\ Follows(last[k].type, t)
    /\ last' = [last EXCEPT ![k].type = t]
    /\ UNCHANGED <<used, boot>>

(* A key held at boot reports no Press; letting it go still reports a Short *)
(* and a Release, with a counter that was never set.                        *)
LetGo(k, n) ==
    /\ k \in boot /\ last[k].type = "None"
    /\ last' = [last EXCEPT ![k] = [type |-> "Short", seq |-> n]]
    /\ UNCHANGED <<used, boot>>

(* Any number may be the counter of a press, it is the one the step shows.  *)
Next == \E k \in Keys :
            \/ LET n == last'[k].seq IN n \in Nat /\ (Press(k, n) \/ LetGo(k, n))
            \/ \E t \in {"Short", "Long", "Repeat", "Release"} : Go(k, t)

Spec == Init /\ [][Next]_<<last, used, boot>>
=============================================================================
