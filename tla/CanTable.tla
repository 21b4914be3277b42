------------------------------ MODULE CanTable ------------------------------
(***************************************************************************)
(* What the CAN worker promises to its readers, with no FIFO, interrupt,   *)
(* flag, thread or mutex: a table of at most MaxIds ids, each with a count *)
(* and the last payload, into which the frames of the bus are folded one   *)
(* by one and in the order of the bus.  A frame is lost only when it       *)
(* cannot wait, and never one of the Kept oldest that wait.  Once closed,  *)
(* the table changes no more, but for its reset.                           *)
(***************************************************************************)
EXTENDS Naturals, Sequences, FiniteSets

CONSTANTS Ids, Payloads, MaxIds, CountMod,
          Capacity,   (* frames that can wait                               *)
          Kept        (* of these, the frames sure not to be lost           *)

VARIABLES backlog,    (* frames that wait, in bus order                     *)
          known,      (* ids in the table                                   *)
          count,      (* frames counted per id, modulo CountMod             *)
          last,       (* last payload per id, as a set of at most one       *)
          open        (* the table still accepts frames                     *)

tableVars == <<backlog, known, count, last, open>>

AbsFrame == [id : Ids, data : Payloads]

Init ==
    /\ backlog = <<>> /\ known = {} /\ open = TRUE
    /\ count = [i \in Ids |-> 0]
    /\ last = [i \in Ids |-> {}]

Receive(f) ==
    /\ Len(backlog) < Capacity
    /\ backlog' = Append(backlog, f)
    /\ UNCHANGED <<known, count, last, open>>

(* The oldest frames stay: position Kept + 1 is the first that can be lost. *)
Lose ==
    /\ Len(backlog) > Kept
    /\ backlog' = SubSeq(backlog, 1, Kept) \o SubSeq(backlog, Kept + 2, Len(backlog))
    /\ UNCHANGED <<known, count, last, open>>

Count ==
    /\ open /\ backlog # <<>>
    /\ backlog' = Tail(backlog)
    /\ LET f == Head(backlog)
       IN  IF f.id \in known \/ Cardinality(known) < MaxIds
           THEN /\ known' = known \cup {f.id}
                /\ count' = [count EXCEPT ![f.id] = (@ + 1) % CountMod]
                /\ last' = [last EXCEPT ![f.id] = {f.data}]
           ELSE UNCHANGED <<known, count, last>>
    /\ UNCHANGED open

Close ==
    /\ open
    /\ open' = FALSE
    /\ \E k \in 0 .. Len(backlog) : backlog' = SubSeq(backlog, k + 1, Len(backlog))
    /\ UNCHANGED <<known, count, last>>

Reset ==
    /\ ~open
    /\ known' = {}
    /\ count' = [i \in Ids |-> 0]
    /\ last' = [i \in Ids |-> {}]
    /\ UNCHANGED <<backlog, open>>

Next == (\E f \in AbsFrame : Receive(f)) \/ Lose \/ Count \/ Close \/ Reset

Spec == Init /\ [][Next]_tableVars
=============================================================================
