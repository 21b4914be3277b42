----------------------------- MODULE FuriProofs -----------------------------
(***************************************************************************)
(* Proofs about the parts of the FURI core that keep lists of others: the  *)
(* threads and the init thread that scrubs them, the record storage, the   *)
(* heap.  They share nothing; each is for all values of its constants.     *)
(***************************************************************************)
EXTENDS Threads, Records, Heap, SequenceTheorems, FiniteSetTheorems,
        WellFoundedInduction, TLAPS
-----------------------------------------------------------------------------
(* Threads: one that was joined has no task left, none is forgotten.        *)

(* What a put adds to the members of a queue, and a get takes from them.    *)
Distinct(q) == \A i, j \in 1 .. Len(q) : q[i] = q[j] => i = j

LEMMA PutMembers ==
    ASSUME NEW S, NEW q \in Seq(S), NEW e \in S, ~ Contains(q, e), Distinct(q)
    PROVE  /\ Append(q, e) \in Seq(S) /\ Len(Append(q, e)) = Len(q) + 1
           /\ Distinct(Append(q, e))
           /\ \A u : Contains(Append(q, e), u) <=> Contains(q, u) \/ u = e
<1>1. /\ Append(q, e) \in Seq(S) /\ Len(Append(q, e)) = Len(q) + 1
      /\ \A i \in 1 .. Len(q) : Append(q, e)[i] = q[i]
      /\ Append(q, e)[Len(q) + 1] = e
  OBVIOUS
<1>2. Distinct(Append(q, e))
  BY <1>1 DEF Distinct, Contains
<1>3. \A u : Contains(Append(q, e), u) <=> Contains(q, u) \/ u = e
  BY <1>1 DEF Contains
<1>4. QED
  BY <1>1, <1>2, <1>3

LEMMA GetMembers ==
    ASSUME NEW S, NEW q \in Seq(S), q # <<>>, Distinct(q)
    PROVE  /\ Tail(q) \in Seq(S) /\ Len(Tail(q)) = Len(q) - 1 /\ Head(q) \in S
           /\ Distinct(Tail(q)) /\ Contains(q, Head(q))
           /\ \A u : Contains(Tail(q), u) <=> Contains(q, u) /\ u # Head(q)
<1>1. /\ Tail(q) \in Seq(S) /\ Len(q) \in Nat \ {0} /\ Len(Tail(q)) = Len(q) - 1
      /\ Head(q) = q[1] /\ q[1] \in S
      /\ \A i \in 1 .. Len(q) - 1 : Tail(q)[i] = q[i + 1]
  OBVIOUS
<1>2. Distinct(Tail(q))
  BY <1>1 DEF Distinct
<1>3. Contains(q, Head(q))
  BY <1>1 DEF Contains
<1>4. ASSUME NEW u, Contains(Tail(q), u) PROVE Contains(q, u) /\ u # Head(q)
  <2>1. PICK i \in 1 .. Len(q) - 1 : Tail(q)[i] = u
    BY <1>1, <1>4 DEF Contains
  <2>2. i + 1 \in 1 .. Len(q) /\ q[i + 1] = u /\ 1 \in 1 .. Len(q) /\ i + 1 # 1
    BY <1>1, <2>1
  <2>3. QED
    BY <1>1, <2>2 DEF Contains, Distinct
<1>5. ASSUME NEW u, Contains(q, u), u # Head(q) PROVE Contains(Tail(q), u)
  <2>1. PICK i \in 1 .. Len(q) : q[i] = u
    BY <1>5 DEF Contains
  <2>2. i - 1 \in 1 .. Len(q) - 1
    BY <1>1, <1>5, <2>1
  <2>3. QED
    BY <1>1, <2>1, <2>2 DEF Contains
<1>6. QED
  BY <1>1, <1>2, <1>3, <1>4, <1>5

(* A sequence of one element is that element.                               *)
LEMMA OneElement ==
    ASSUME NEW S, NEW q \in Seq(S), Len(q) = 1
    PROVE  q[1] \in S /\ \A u : q = <<u>> <=> q[1] = u
<1>1. q[1] \in S
  OBVIOUS
<1>2. ASSUME NEW u, q[1] = u PROVE q = <<u>>
  <2>1. <<u>> \in Seq(S) /\ Len(<<u>>) = 1 /\ <<u>>[1] = u
    BY <1>1, <1>2
  <2>2. QED
    BY <1>2, <2>1, SeqEqual
<1>3. ASSUME NEW u, q = <<u>> PROVE q[1] = u
  BY <1>3
<1>4. QED
  BY <1>1, <1>2, <1>3

(* The inductive invariant, for one thread: where its task stands says what *)
(* its state is and who has it, and until it is stopped its owner waits to  *)
(* join it.                                                                 *)
Stopped(t) == scrubber = "stopped" /\ scrubbed = <<t>>
OnePlace(t) ==
    /\ Contains(scrubQueue, t) => task[t] = "suspended" /\ ~ Deleting(t)
    /\ Deleting(t) => task[t] = "suspended"
    /\ task[t] = "suspended" => Contains(scrubQueue, t) \/ Deleting(t)
    /\ Stopped(t) => task[t] = "none" /\ state[t] = "Stopping"
StateAgrees(t) ==
    /\ task[t] # "none" => owner[t] = "join"
    /\ task[t] = "begin" => state[t] = "Starting"
    /\ task[t] = "callback" => state[t] = "Running"
    /\ task[t] \in {"put", "suspended"} => state[t] = "Stopping"
    /\ owner[t] \in {"none", "idle"} => state[t] = "Stopped"
    /\ owner[t] = "create" => state[t] = "Starting"
ThreadsInv ==
    /\ ThreadsTypeOK /\ Distinct(scrubQueue)
    /\ \A t \in Threads : OnePlace(t) /\ StateAgrees(t)

(* The invariant holds at first and at every step.                          *)
THEOREM ThreadsInvariant == ThreadsSpec => []ThreadsInv
<1> USE ThreadsAssumption DEF ThreadsAssumption
<1>1. ThreadsInit => ThreadsInv
  BY DEF ThreadsInit, ThreadsInv, ThreadsTypeOK, Distinct, OnePlace, StateAgrees,
         Stopped, Deleting, Contains
<1>2. ThreadsInv /\ [ThreadsNext]_threadVars => ThreadsInv'
  <2> SUFFICES ASSUME ThreadsInv, [ThreadsNext]_threadVars PROVE ThreadsInv'
    OBVIOUS
  <2> USE DEF ThreadsTypeOK, ThreadsInv
  <2>1. ASSUME UNCHANGED <<scrubQueue, scrubber, scrubbed>>
        PROVE  /\ Distinct(scrubQueue')
               /\ \A u : /\ Contains(scrubQueue', u) <=> Contains(scrubQueue, u)
                         /\ Deleting(u)' <=> Deleting(u)
                         /\ Stopped(u)' <=> Stopped(u)
    BY <2>1 DEF Deleting, Stopped
  <2>2. ASSUME NEW t \in Threads, AllocThread(t) PROVE ThreadsInv'
    <3>1. UNCHANGED <<scrubQueue, scrubber, scrubbed>>
      BY <2>2 DEF AllocThread, scrubVars
    <3>2. ThreadsTypeOK'
      BY <2>2, <3>1 DEF AllocThread
    <3>3. \A u \in Threads : OnePlace(u)'
      BY <2>1, <2>2, <3>1 DEF AllocThread, OnePlace, StateAgrees
    <3>4. \A u \in Threads : StateAgrees(u)'
      BY <2>2 DEF AllocThread, OnePlace, StateAgrees
    <3>5. QED
      BY <2>1, <3>1, <3>2, <3>3, <3>4
  <2>3. ASSUME NEW t \in Threads, StartThread(t) PROVE ThreadsInv'
    <3>1. UNCHANGED <<scrubQueue, scrubber, scrubbed>>
      BY <2>3 DEF StartThread, scrubVars
    <3>2. ThreadsTypeOK'
      BY <2>3, <3>1 DEF StartThread
    <3>3. \A u \in Threads : OnePlace(u)'
      BY <2>1, <2>3, <3>1 DEF StartThread, OnePlace, StateAgrees
    <3>4. \A u \in Threads : StateAgrees(u)'
      BY <2>3 DEF StartThread, OnePlace, StateAgrees
    <3>5. QED
      BY <2>1, <3>1, <3>2, <3>3, <3>4
  <2>4. ASSUME NEW t \in Threads, CreateTask(t) PROVE ThreadsInv'
    <3>1. UNCHANGED <<scrubQueue, scrubber, scrubbed>>
      BY <2>4 DEF CreateTask, scrubVars
    <3>2. ThreadsTypeOK'
      BY <2>4, <3>1 DEF CreateTask
    <3>3. \A u \in Threads : OnePlace(u)'
      BY <2>1, <2>4, <3>1 DEF CreateTask, OnePlace, StateAgrees
    <3>4. \A u \in Threads : StateAgrees(u)'
      BY <2>4 DEF CreateTask, OnePlace, StateAgrees
    <3>5. QED
      BY <2>1, <3>1, <3>2, <3>3, <3>4
  <2>5. ASSUME NEW t \in Threads, JoinThread(t) PROVE ThreadsInv'
    <3>1. UNCHANGED <<scrubQueue, scrubber, scrubbed>>
      BY <2>5 DEF JoinThread, scrubVars
    <3>2. ThreadsTypeOK'
      BY <2>5, <3>1 DEF JoinThread
    <3>3. \A u \in Threads : OnePlace(u)'
      BY <2>1, <2>5, <3>1 DEF JoinThread, OnePlace, StateAgrees
    <3>4. \A u \in Threads : StateAgrees(u)'
      BY <2>5 DEF JoinThread, OnePlace, StateAgrees
    <3>5. QED
      BY <2>1, <3>1, <3>2, <3>3, <3>4
  <2>6. ASSUME NEW t \in Threads, FreeThread(t) PROVE ThreadsInv'
    <3>1. UNCHANGED <<scrubQueue, scrubber, scrubbed>>
      BY <2>6 DEF FreeThread, scrubVars
    <3>2. ThreadsTypeOK'
      BY <2>6, <3>1 DEF FreeThread
    <3>3. \A u \in Threads : OnePlace(u)'
      BY <2>1, <2>6, <3>1 DEF FreeThread, OnePlace, StateAgrees
    <3>4. \A u \in Threads : StateAgrees(u)'
      BY <2>6 DEF FreeThread, OnePlace, StateAgrees
    <3>5. QED
      BY <2>1, <3>1, <3>2, <3>3, <3>4
  <2>7. ASSUME NEW t \in Threads, BeginBody(t) PROVE ThreadsInv'
    <3>1. UNCHANGED <<scrubQueue, scrubber, scrubbed>>
      BY <2>7 DEF BeginBody, scrubVars
    <3>2. ThreadsTypeOK'
      BY <2>7, <3>1 DEF BeginBody
    <3>3. \A u \in Threads : OnePlace(u)'
      BY <2>1, <2>7, <3>1 DEF BeginBody, OnePlace, StateAgrees
    <3>4. \A u \in Threads : StateAgrees(u)'
      BY <2>7 DEF BeginBody, OnePlace, StateAgrees
    <3>5. QED
      BY <2>1, <3>1, <3>2, <3>3, <3>4
  <2>8. ASSUME NEW t \in Threads, ReturnFromBody(t) PROVE ThreadsInv'
    <3>1. UNCHANGED <<scrubQueue, scrubber, scrubbed>>
      BY <2>8 DEF ReturnFromBody, scrubVars
    <3>2. ThreadsTypeOK'
      BY <2>8, <3>1 DEF ReturnFromBody
    <3>3. \A u \in Threads : OnePlace(u)'
      BY <2>1, <2>8, <3>1 DEF ReturnFromBody, OnePlace, StateAgrees
    <3>4. \A u \in Threads : StateAgrees(u)'
      BY <2>8 DEF ReturnFromBody, OnePlace, StateAgrees
    <3>5. QED
      BY <2>1, <3>1, <3>2, <3>3, <3>4
  <2>9. ASSUME NEW t \in Threads, PutScrub(t) PROVE ThreadsInv'
    <3>1. ~ Contains(scrubQueue, t) /\ ~ Deleting(t)
      BY <2>9 DEF PutScrub, OnePlace
    <3>2. /\ scrubQueue' \in Seq(Threads) /\ Len(scrubQueue') <= ScrubLength
          /\ Distinct(scrubQueue')
          /\ \A u : Contains(scrubQueue', u) <=> Contains(scrubQueue, u) \/ u = t
      BY <2>9, <3>1, PutMembers DEF PutScrub
    <3>3. \A u : (Deleting(u)' <=> Deleting(u)) /\ (Stopped(u)' <=> Stopped(u))
      BY <2>9 DEF PutScrub, scrubVars, Deleting, Stopped
    <3>4. QED
      BY <2>9, <3>1, <3>2, <3>3 DEF PutScrub, scrubVars, OnePlace, StateAgrees
  <2>10. CASE GetScrub
    <3> DEFINE h == Head(scrubQueue)
    <3>1. /\ scrubQueue' \in Seq(Threads) /\ Len(scrubQueue') <= ScrubLength
          /\ h \in Threads /\ Distinct(scrubQueue') /\ Contains(scrubQueue, h)
          /\ \A u : Contains(scrubQueue', u) <=> Contains(scrubQueue, u) /\ u # h
      BY <2>10, GetMembers DEF GetScrub
    <3>2. /\ scrubbed' \in Seq(Threads) /\ Len(scrubbed') = 1 /\ scrubbed'[1] = h
      BY <2>10, <3>1 DEF GetScrub
    <3>3. \A u : (Deleting(u)' <=> u = h) /\ ~ Stopped(u)' /\ ~ Deleting(u) /\ ~ Stopped(u)
      BY <2>10, <3>2, OneElement DEF GetScrub, Deleting, Stopped
    <3>4. QED
      BY <2>10, <3>1, <3>2, <3>3 DEF GetScrub, OnePlace, StateAgrees
  <2>11. CASE DeleteTask
    <3>1. PICK h \in Threads : scrubbed[1] = h
      BY <2>11, OneElement DEF DeleteTask
    <3>2. \A u : (Deleting(u) <=> u = h) /\ ~ Stopped(u) /\ ~ Deleting(u)' /\ (Stopped(u)' <=> u = h)
      BY <2>11, <3>1, OneElement DEF DeleteTask, Deleting, Stopped
    <3>3. /\ Distinct(scrubQueue')
          /\ \A u : Contains(scrubQueue', u) <=> Contains(scrubQueue, u)
      BY <2>11 DEF DeleteTask
    <3>4. QED
      BY <2>11, <3>1, <3>2, <3>3 DEF DeleteTask, OnePlace, StateAgrees
  <2>12. CASE SetStopped
    <3>1. PICK h \in Threads : scrubbed[1] = h
      BY <2>12, OneElement DEF SetStopped
    <3>2. \A u : (Stopped(u) <=> u = h) /\ ~ Deleting(u) /\ ~ Deleting(u)' /\ ~ Stopped(u)'
      BY <2>12, <3>1, OneElement DEF SetStopped, Deleting, Stopped
    <3>3. /\ Distinct(scrubQueue')
          /\ \A u : Contains(scrubQueue', u) <=> Contains(scrubQueue, u)
      BY <2>12 DEF SetStopped
    <3>4. QED
      BY <2>12, <3>1, <3>2, <3>3 DEF SetStopped, OnePlace, StateAgrees
  <2>13. CASE CallStopped
    <3>1. \A u : ~ Stopped(u) /\ ~ Deleting(u) /\ ~ Deleting(u)' /\ ~ Stopped(u)'
      BY <2>13 DEF CallStopped, Deleting, Stopped
    <3>2. scrubbed' \in Seq(Threads) /\ Len(scrubbed') = 0
      BY <2>13 DEF CallStopped
    <3>3. /\ Distinct(scrubQueue')
          /\ \A u : Contains(scrubQueue', u) <=> Contains(scrubQueue, u)
      BY <2>13 DEF CallStopped
    <3>4. QED
      BY <2>13, <3>1, <3>2, <3>3 DEF CallStopped, OnePlace, StateAgrees
  <2>14. CASE UNCHANGED threadVars
    BY <2>1, <2>14 DEF threadVars, scrubVars, OnePlace, StateAgrees
  <2>15. QED
    BY <2>2, <2>3, <2>4, <2>5, <2>6, <2>7, <2>8, <2>9, <2>10, <2>11, <2>12, <2>13, <2>14
       DEF ThreadsNext, Scrub, Owner, Body
<1>3. QED
  BY <1>1, <1>2, PTL DEF ThreadsSpec

(* Once furi_thread_join has returned the kernel has no task in the memory  *)
(* of the thread, and the init thread will not write to its state.          *)
THEOREM ThreadsJoinedIsGone == ThreadsSpec => []JoinedIsGone
<1>1. ThreadsInv => JoinedIsGone
  <2> SUFFICES ASSUME ThreadsInv PROVE JoinedIsGone
    OBVIOUS
  <2> USE DEF ThreadsInv, OnePlace, Stopped, Deleting, InHand
  <2>1. ScrubbedOnce
    BY DEF ScrubbedOnce, Distinct
  <2>2. ASSUME NEW t \in Threads
        PROVE  /\ owner[t] \in {"none", "idle"} => Quiescent(t) /\ state[t] = "Stopped"
               /\ owner[t] = "create" => Quiescent(t) /\ state[t] = "Starting"
               /\ task[t] = "begin" => state[t] = "Starting"
               /\ task[t] = "callback" => state[t] = "Running"
    BY DEF Quiescent, StateAgrees
  <2>3. QED
    BY <2>1, <2>2 DEF JoinedIsGone
<1>2. QED
  BY <1>1, ThreadsInvariant, PTL
-----------------------------------------------------------------------------
(* Records: nobody loses one under his hands.                               *)

(* What one step adds to the calls made before it.                          *)
LEMMA OneMoreCall ==
    ASSUME NEW c \in Clients, NEW i \in 1 .. Len(Program[c]), NEW call \in Calls, NEW n \in Names
    PROVE  /\ IsFiniteSet(Before(c, i, call, n)) /\ Cardinality(Before(c, i, call, n)) \in Nat
           /\ Cardinality(Before(c, i + 1, call, n)) = Cardinality(Before(c, i, call, n))
                 + (IF Program[c][i] = [call |-> call, name |-> n] THEN 1 ELSE 0)
<1> DEFINE all == 1 .. Len(Program[c])
           b == Before(c, i, call, n)
<1>1. Len(Program[c]) \in Nat /\ IsFiniteSet(all)
  BY RecordsAssumption, FS_Interval DEF RecordsAssumption
<1>2. b \subseteq all
  BY DEF Before
<1>3. IsFiniteSet(b)
  BY <1>1, <1>2, FS_Subset
<1>4. Cardinality(b) \in Nat
  BY <1>3, FS_CardinalityType
<1>5. i \notin b
  BY DEF Before
<1>6. Before(c, i + 1, call, n) =
         IF Program[c][i] = [call |-> call, name |-> n] THEN b \cup {i} ELSE b
  BY <1>1 DEF Before
<1>7. Cardinality(b \cup {i}) = Cardinality(b) + 1
  BY <1>3, <1>5, FS_AddElement
<1>8. QED
  BY <1>3, <1>4, <1>6, <1>7

(* What a thread uses and has made after a call of its program.             *)
AtCall(c, call, n) ==
    at[c] \in 1 .. Len(Program[c]) /\ Program[c][at[c]] = [call |-> call, name |-> n]
LEMMA ProgramStep ==
    ASSUME NEW c \in Clients, NEW call \in Calls, NEW n \in Names,
           at \in [Clients -> Nat], AtCall(c, call, n), at' = Advanced(c)
    PROVE  /\ at' \in [Clients -> Nat] /\ at'[c] > 0
           /\ \A d \in Clients \ {c} : at'[d] = at[d]
           /\ \A m \in Names \ {n} : Uses(c, at'[c], m) = Uses(c, at[c], m)
                                 /\ Made(c, at'[c], m) = Made(c, at[c], m)
           /\ Uses(c, at'[c], n) = Uses(c, at[c], n)
                 + (IF call = "open" THEN 1 ELSE 0) - (IF call = "close" THEN 1 ELSE 0)
           /\ Made(c, at'[c], n) = Made(c, at[c], n)
                 + (IF call = "create" THEN 1 ELSE 0) - (IF call = "destroy" THEN 1 ELSE 0)
           /\ Uses(c, at'[c], n) >= 0 /\ Made(c, at'[c], n) \in 0 .. 1
           /\ \A m \in Names : Uses(c, at[c], m) \in Int /\ Made(c, at[c], m) \in Int
           /\ Made(c, at[c], n) \in 0 .. 1
<1> DEFINE i == at[c]
<1>1. /\ i \in 1 .. Len(Program[c]) /\ Program[c][i] = [call |-> call, name |-> n]
      /\ Len(Program[c]) \in Nat /\ LoopFrom[c] \in Nat \ {0}
  BY RecordsAssumption DEF AtCall, RecordsAssumption
<1>2. at' = [at EXCEPT ![c] = IF i = Len(Program[c]) THEN LoopFrom[c] ELSE i + 1]
  BY DEF Advanced
<1>3. /\ at' \in [Clients -> Nat] /\ at'[c] > 0 /\ \A d \in Clients \ {c} : at'[d] = at[d]
      /\ at'[c] = IF i = Len(Program[c]) THEN LoopFrom[c] ELSE i + 1
  BY <1>1, <1>2
<1>4. \A m \in Names :
         Uses(c, at'[c], m) = Uses(c, i + 1, m) /\ Made(c, at'[c], m) = Made(c, i + 1, m)
  BY <1>1, <1>3, ProgramAssumption DEF ProgramAssumption
<1>5. ASSUME NEW m \in Names
      PROVE  /\ Uses(c, i, m) \in Int /\ Made(c, i, m) \in Int
             /\ Uses(c, i + 1, m) = Uses(c, i, m)
                   + (IF m = n /\ call = "open" THEN 1 ELSE 0)
                   - (IF m = n /\ call = "close" THEN 1 ELSE 0)
             /\ Made(c, i + 1, m) = Made(c, i, m)
                   + (IF m = n /\ call = "create" THEN 1 ELSE 0)
                   - (IF m = n /\ call = "destroy" THEN 1 ELSE 0)
  <2>1. \A k \in Calls :
           /\ Cardinality(Before(c, i, k, m)) \in Nat
           /\ Cardinality(Before(c, i + 1, k, m)) = Cardinality(Before(c, i, k, m))
                 + (IF Program[c][i] = [call |-> k, name |-> m] THEN 1 ELSE 0)
    BY <1>1, OneMoreCall
  <2>2. \A k \in Calls : Program[c][i] = [call |-> k, name |-> m] <=> m = n /\ k = call
    BY <1>1
  <2>3. QED
    BY <2>1, <2>2 DEF Uses, Made, Calls
<1>6. /\ i \in 1 .. Len(Program[c]) + 1 /\ i + 1 \in 1 .. Len(Program[c]) + 1
  BY <1>1
<1>7. Uses(c, i + 1, n) >= 0 /\ Made(c, i + 1, n) \in 0 .. 1 /\ Made(c, i, n) \in 0 .. 1
  BY <1>6, ProgramAssumption DEF ProgramAssumption
<1>8. QED
  <2>1. /\ \A m \in Names \ {n} : Uses(c, at'[c], m) = Uses(c, i, m)
                              /\ Made(c, at'[c], m) = Made(c, i, m)
        /\ \A m \in Names : Uses(c, i, m) \in Int /\ Made(c, i, m) \in Int
    BY <1>4, <1>5
  <2>2. /\ Uses(c, at'[c], n) = Uses(c, i, n) + (IF call = "open" THEN 1 ELSE 0)
                                - (IF call = "close" THEN 1 ELSE 0)
        /\ Made(c, at'[c], n) = Made(c, i, n) + (IF call = "create" THEN 1 ELSE 0)
                                - (IF call = "destroy" THEN 1 ELSE 0)
    BY <1>4, <1>5
  <2>3. QED
    BY <1>3, <1>4, <1>7, <2>1, <2>2 DEF Calls

(* The inductive invariant.  The handles of a record are numbered per       *)
(* thread, so that its holders are counted without a sum; what a thread     *)
(* holds, and whether it has made a record, is what its program did so far. *)
Handles(n) == {h \in Clients \X Nat : h[2] \in 1 .. held[h[1]][n]}
CountedHolders(n) == IsFiniteSet(Handles(n)) /\ holders[n] = Cardinality(Handles(n))
FollowsProgram(c, n) ==
    /\ held[c][n] = Uses(c, at[c], n) + (IF Waits(c, n) THEN 1 ELSE 0)
    /\ Creator(c, n) => (n \in ready <=> Made(c, at[c], n) = 1)
    /\ held[c][n] > 0 => n \in records
    /\ Uses(c, at[c], n) > 0 => n \in ready
RecordsInv ==
    /\ RecordsTypeOK
    /\ \A c \in Clients : at[c] > 0
    /\ \A c \in inOpen : at[c] <= Len(Program[c]) /\ Program[c][at[c]].call = "open"
    /\ \A n \in Names : CountedHolders(n)
    /\ \A c \in Clients, n \in Names : FollowsProgram(c, n)

(* A number of calls is a number, for every step.                           *)
LEMMA IntUses ==
    ASSUME NEW c \in Clients, NEW i, NEW n \in Names
    PROVE  Uses(c, i, n) \in Int
<1>1. ASSUME NEW call PROVE Cardinality(Before(c, i, call, n)) \in Nat
  <2>1. IsFiniteSet(1 .. Len(Program[c]))
    BY RecordsAssumption, FS_Interval DEF RecordsAssumption
  <2>2. Before(c, i, call, n) \subseteq 1 .. Len(Program[c])
    BY DEF Before
  <2>3. QED
    BY <2>1, <2>2, FS_Subset, FS_CardinalityType
<1>2. QED
  BY <1>1 DEF Uses

(* Counting a handle more or less keeps the holders counted.                *)
LEMMA HandleTaken ==
    ASSUME NEW c \in Clients, NEW n \in Names, held \in [Clients -> [Names -> Nat]],
           holders \in [Names -> Nat], \A m \in Names : CountedHolders(m),
           held' = [held EXCEPT ![c][n] = @ + 1], holders' = [holders EXCEPT ![n] = @ + 1]
    PROVE  \A m \in Names : CountedHolders(m)'
<1>1. \A h \in Clients \X Nat : h = <<c, held[c][n] + 1>> <=> h[1] = c /\ h[2] = held[c][n] + 1
  OBVIOUS
<1>2. ASSUME NEW d \in Clients, NEW m \in Names
      PROVE  held'[d][m] = IF d = c /\ m = n THEN held[d][m] + 1 ELSE held[d][m]
  OBVIOUS
<1>3. Handles(n)' = Handles(n) \cup {<<c, held[c][n] + 1>>}
  <2>1. held[c][n] \in Nat
    OBVIOUS
  <2>2. ASSUME NEW d \in Clients, NEW j \in Nat
        PROVE  j \in 1 .. held'[d][n] <=> j \in 1 .. held[d][n] \/ (d = c /\ j = held[c][n] + 1)
    <3>1. held[d][n] \in Nat /\ (d = c => held[d][n] = held[c][n])
      OBVIOUS
    <3>2. held'[d][n] = IF d = c THEN held[d][n] + 1 ELSE held[d][n]
      BY <1>2
    <3>3. QED
      BY <2>1, <3>1, <3>2
  <2>3. QED
    BY <1>1, <2>1, <2>2 DEF Handles
<1>4. \A m \in Names \ {n} : Handles(m)' = Handles(m)
  BY <1>2 DEF Handles
<1>5. <<c, held[c][n] + 1>> \notin Handles(n)
  BY DEF Handles
<1>6. ASSUME NEW m \in Names PROVE CountedHolders(m)'
  <2>1. CASE m = n
    <3>1. IsFiniteSet(Handles(n)') /\ Cardinality(Handles(n)') = Cardinality(Handles(n)) + 1
      BY <1>3, <1>5, FS_AddElement DEF CountedHolders
    <3>2. holders'[n] = holders[n] + 1 /\ holders[n] = Cardinality(Handles(n))
      BY DEF CountedHolders
    <3>3. QED
      BY <2>1, <3>1, <3>2 DEF CountedHolders
  <2>2. CASE m # n
    BY <1>4, <2>2 DEF CountedHolders
  <2>3. QED
    BY <2>1, <2>2
<1>7. QED
  BY <1>6

LEMMA HandleGiven ==
    ASSUME NEW c \in Clients, NEW n \in Names, held \in [Clients -> [Names -> Nat]],
           holders \in [Names -> Nat], \A m \in Names : CountedHolders(m), held[c][n] > 0,
           held' = [held EXCEPT ![c][n] = @ - 1], holders' = [holders EXCEPT ![n] = @ - 1]
    PROVE  (\A m \in Names : CountedHolders(m)') /\ holders'[n] \in Nat
<1>1. <<c, held[c][n]>> \in Handles(n)
  BY DEF Handles
<1>2. ASSUME NEW d \in Clients, NEW m \in Names
      PROVE  held'[d][m] = IF d = c /\ m = n THEN held[d][m] - 1 ELSE held[d][m]
  OBVIOUS
<1>3. Handles(n)' = Handles(n) \ {<<c, held[c][n]>>}
  <2>1. held[c][n] \in Nat
    OBVIOUS
  <2>2. ASSUME NEW d \in Clients, NEW j \in Nat
        PROVE  j \in 1 .. held'[d][n] <=> j \in 1 .. held[d][n] /\ ~ (d = c /\ j = held[c][n])
    <3>1. held[d][n] \in Nat
      OBVIOUS
    <3>2. held'[d][n] = IF d = c THEN held[d][n] - 1 ELSE held[d][n]
      BY <1>2
    <3>3. QED
      BY <2>1, <3>1, <3>2
  <2>3. QED
    BY <2>1, <2>2 DEF Handles
<1>4. \A m \in Names \ {n} : Handles(m)' = Handles(m)
  BY <1>2 DEF Handles
<1>5. /\ IsFiniteSet(Handles(n)') /\ Cardinality(Handles(n)') = Cardinality(Handles(n)) - 1
      /\ holders[n] = Cardinality(Handles(n)) /\ holders'[n] = holders[n] - 1
  <2>1. IsFiniteSet(Handles(n)) /\ holders[n] = Cardinality(Handles(n))
    BY DEF CountedHolders
  <2>2. LET S == Handles(n) \ {<<c, held[c][n]>>}
        IN  IsFiniteSet(S) /\ Cardinality(S) = Cardinality(Handles(n)) - 1
    BY <1>1, <2>1, FS_RemoveElement
  <2>3. QED
    BY <1>3, <2>1, <2>2
<1>6. Cardinality(Handles(n)') \in Nat
  BY <1>5, FS_CardinalityType
<1>7. ASSUME NEW m \in Names PROVE CountedHolders(m)'
  <2>1. CASE m = n
    BY <1>5, <2>1 DEF CountedHolders
  <2>2. CASE m # n
    BY <1>4, <2>2 DEF CountedHolders
  <2>3. QED
    BY <2>1, <2>2
<1>8. QED
  BY <1>5, <1>6, <1>7

(* A record that nobody holds has no handle.                                *)
LEMMA NoHolder ==
    ASSUME NEW n \in Names, held \in [Clients -> [Names -> Nat]], CountedHolders(n), holders[n] = 0
    PROVE  \A c \in Clients : held[c][n] = 0
<1>1. Handles(n) = {}
  BY FS_EmptySet DEF CountedHolders
<1>2. ASSUME NEW c \in Clients, held[c][n] # 0 PROVE FALSE
  <2>1. held[c][n] \in Nat /\ <<c, held[c][n]>> \in Handles(n)
    BY <1>2 DEF Handles
  <2>2. QED
    BY <1>1, <2>1
<1>3. QED
  BY <1>2

(* The invariant holds at first and at every step.                          *)
THEOREM RecordsInvariant == RecordsSpec => []RecordsInv
<1>1. RecordsInit => RecordsInv
  <2> SUFFICES ASSUME RecordsInit PROVE RecordsInv
    OBVIOUS
  <2>1. ASSUME NEW c \in Clients, NEW n \in Names
        PROVE  Uses(c, 1, n) = 0 /\ Made(c, 1, n) = 0
    <3>1. \A k \in Calls : Before(c, 1, k, n) = {}
      BY DEF Before
    <3>2. QED
      BY <3>1, FS_EmptySet DEF Uses, Made, Calls
  <2>2. \A n \in Names : Handles(n) = {}
    BY DEF RecordsInit, Handles
  <2>3. \A n \in Names : CountedHolders(n)
    BY <2>2, FS_EmptySet DEF RecordsInit, CountedHolders
  <2>4. \A c \in Clients, n \in Names : FollowsProgram(c, n)
    BY <2>1 DEF RecordsInit, FollowsProgram, Waits
  <2>5. QED
    BY <2>3, <2>4 DEF RecordsInit, RecordsInv, RecordsTypeOK
<1>2. RecordsInv /\ [RecordsNext]_recordVars => RecordsInv'
  <2> SUFFICES ASSUME RecordsInv, [RecordsNext]_recordVars PROVE RecordsInv'
    OBVIOUS
  <2> USE DEF RecordsTypeOK
  <2>1. /\ RecordsTypeOK /\ \A c \in Clients : at[c] > 0
        /\ \A c \in inOpen : at[c] <= Len(Program[c]) /\ Program[c][at[c]].call = "open"
        /\ \A n \in Names : CountedHolders(n)
        /\ \A c \in Clients, n \in Names : FollowsProgram(c, n)
        /\ \A c \in Clients : Len(Program[c]) \in Nat
    BY RecordsAssumption DEF RecordsInv, RecordsAssumption
  <2>2. ASSUME NEW c \in Clients, NEW call \in Calls, NEW n \in Names, Calling(c, call, n)
        PROVE  AtCall(c, call, n) /\ c \notin inOpen /\ \A m \in Names : ~ Waits(c, m)
    BY <2>1, <2>2 DEF Calling, AtCall, Waits
  <2>3. UNCHANGED <<holders, held>> => \A n \in Names : CountedHolders(n)'
    BY <2>1 DEF CountedHolders, Handles
  <2>4. ASSUME NEW c \in Clients, NEW call \in Calls, NEW n \in Names, Calling(c, call, n),
               at' = Advanced(c), UNCHANGED inOpen
        PROVE  /\ at' \in [Clients -> Nat] /\ \A d \in Clients : at'[d] > 0
               /\ \A d \in inOpen' : at'[d] <= Len(Program[d]) /\ Program[d][at'[d]].call = "open"
               /\ \A d \in Clients, m \in Names : Waits(d, m)' <=> Waits(d, m)
               /\ \A m \in Names : ~ Waits(c, m)
               /\ \A d \in Clients, m \in Names : d # c \/ m # n =>
                     /\ Uses(d, at'[d], m) = Uses(d, at[d], m)
                     /\ Made(d, at'[d], m) = Made(d, at[d], m)
    <3>1. AtCall(c, call, n) /\ c \notin inOpen /\ \A m \in Names : ~ Waits(c, m)
      BY <2>2, <2>4
    <3>2. /\ at' \in [Clients -> Nat] /\ at'[c] > 0
          /\ \A d \in Clients \ {c} : at'[d] = at[d]
          /\ \A m \in Names \ {n} : Uses(c, at'[c], m) = Uses(c, at[c], m)
                                /\ Made(c, at'[c], m) = Made(c, at[c], m)
      BY <2>1, <2>4, <3>1, ProgramStep
    <3>3. \A d \in Clients, m \in Names : Waits(d, m)' <=> Waits(d, m)
      BY <2>4, <3>1, <3>2 DEF Waits
    <3>4. \A d \in inOpen' : d \in Clients \ {c} /\ d \in inOpen
      BY <2>1, <2>4, <3>1
    <3>5. QED
      BY <2>1, <3>1, <3>2, <3>3, <3>4
  <2>5. ASSUME NEW c \in Clients, NEW n \in Names, CreateRecord(c, n) PROVE RecordsInv'
    <3>1. /\ Calling(c, "create", n) /\ records' = records \cup {n} /\ ready' = ready \cup {n}
          /\ at' = Advanced(c) /\ UNCHANGED <<holders, inOpen, held>> /\ AtCall(c, "create", n)
      BY <2>2, <2>5 DEF CreateRecord, Calls
    <3>2. Uses(c, at'[c], n) = Uses(c, at[c], n) /\ Made(c, at'[c], n) = 1
      <4>1. /\ Uses(c, at'[c], n) = Uses(c, at[c], n) + 0 - 0
            /\ Made(c, at'[c], n) = Made(c, at[c], n) + 1 - 0
            /\ Made(c, at'[c], n) \in 0 .. 1 /\ Made(c, at[c], n) \in 0 .. 1
            /\ Uses(c, at[c], n) \in Int
        BY <2>1, <3>1, ProgramStep DEF Calls
      <4>2. QED
        BY <4>1
    <3>3. /\ Creator(c, n)
          /\ \A d \in Clients : Creator(d, n) => d = c
      BY <3>1, ProgramAssumption DEF AtCall, Creator, ProgramAssumption
    <3>4. ASSUME NEW d \in Clients, NEW m \in Names PROVE FollowsProgram(d, m)'
      <4>1. Uses(d, at'[d], m) = Uses(d, at[d], m) /\ (Waits(d, m)' <=> Waits(d, m))
        BY <2>4, <3>1, <3>2 DEF Calls
      <4>2. Creator(d, m) => (m \in ready' <=> Made(d, at'[d], m) = 1)
        <5>1. CASE m = n
          BY <3>1, <3>2, <3>3, <5>1
        <5>2. CASE m # n
          <6>1. Made(d, at'[d], m) = Made(d, at[d], m) /\ (m \in ready' <=> m \in ready)
            BY <2>4, <3>1, <5>2 DEF Calls
          <6>2. QED
            BY <2>1, <6>1 DEF FollowsProgram
        <5>3. QED
          BY <5>1, <5>2
      <4>3. FollowsProgram(d, m)
        BY <2>1
      <4>4. QED
        BY <3>1, <4>1, <4>2, <4>3 DEF FollowsProgram
    <3>5. QED
      BY <2>1, <2>3, <2>4, <3>1, <3>4 DEF RecordsInv, Calls
  <2>6. ASSUME NEW c \in Clients, NEW n \in Names, DestroyRecord(c, n) PROVE RecordsInv'
    <3>1. /\ Calling(c, "destroy", n) /\ records' = records \ {n} /\ ready' = ready \ {n}
          /\ at' = Advanced(c) /\ UNCHANGED <<holders, inOpen, held>> /\ AtCall(c, "destroy", n)
          /\ holders[n] = 0
      BY <2>2, <2>6 DEF DestroyRecord, Calls
    <3>2. Uses(c, at'[c], n) = Uses(c, at[c], n) /\ Made(c, at'[c], n) = 0
      <4>1. /\ Uses(c, at'[c], n) = Uses(c, at[c], n) + 0 - 0
            /\ Made(c, at'[c], n) = Made(c, at[c], n) + 0 - 1
            /\ Made(c, at'[c], n) \in 0 .. 1 /\ Made(c, at[c], n) \in 0 .. 1
            /\ Uses(c, at[c], n) \in Int
        BY <2>1, <3>1, ProgramStep DEF Calls
      <4>2. QED
        BY <4>1
    <3>3. ASSUME NEW d \in Clients, Creator(d, n) PROVE d = c
      <4>1. Made(c, at[c], n) = 1
        <5>1. /\ Made(c, at'[c], n) = Made(c, at[c], n) + 0 - 1
              /\ Made(c, at[c], n) \in 0 .. 1
          BY <2>1, <3>1, ProgramStep DEF Calls
        <5>2. QED
          BY <3>2, <5>1
      <4>2. Creator(c, n)
        <5>1. /\ Cardinality(Before(c, at[c], "create", n)) \in Nat
              /\ Cardinality(Before(c, at[c], "destroy", n)) \in Nat
          BY <3>1, OneMoreCall DEF AtCall, Calls
        <5>2. Cardinality(Before(c, at[c], "create", n)) # 0
          BY <4>1, <5>1 DEF Made
        <5>3. Before(c, at[c], "create", n) # {}
          BY <5>2, FS_EmptySet
        <5>4. QED
          BY <5>3 DEF Before, Creator
      <4>3. QED
        BY <3>3, <4>2, ProgramAssumption DEF ProgramAssumption
    <3>4. \A d \in Clients : held[d][n] = 0
      BY <2>1, <3>1, NoHolder
    <3>5. ASSUME NEW d \in Clients, NEW m \in Names PROVE FollowsProgram(d, m)'
      <4>1. Uses(d, at'[d], m) = Uses(d, at[d], m) /\ (Waits(d, m)' <=> Waits(d, m))
        BY <2>4, <3>1, <3>2 DEF Calls
      <4>2. Creator(d, m) => (m \in ready' <=> Made(d, at'[d], m) = 1)
        <5>1. CASE m = n
          BY <3>1, <3>2, <3>3, <5>1
        <5>2. CASE m # n
          <6>1. Made(d, at'[d], m) = Made(d, at[d], m) /\ (m \in ready' <=> m \in ready)
            BY <2>4, <3>1, <5>2 DEF Calls
          <6>2. QED
            BY <2>1, <6>1 DEF FollowsProgram
        <5>3. QED
          BY <5>1, <5>2
      <4>3. FollowsProgram(d, m) /\ held[d][m] \in Nat
        BY <2>1
      <4>4. m = n => held[d][m] = 0 /\ ~ (Uses(d, at[d], m) > 0)
        <5>1. Uses(d, at[d], m) \in Int
          BY IntUses
        <5>2. QED
          BY <3>4, <4>3, <5>1 DEF FollowsProgram
      <4>5. QED
        BY <3>1, <4>1, <4>2, <4>3, <4>4 DEF FollowsProgram
    <3>6. QED
      BY <2>1, <2>3, <2>4, <3>1, <3>5 DEF RecordsInv, Calls
  <2>7. ASSUME NEW c \in Clients, NEW n \in Names, OpenRecord(c, n) PROVE RecordsInv'
    <3>1. /\ Calling(c, "open", n) /\ records' = records \cup {n}
          /\ holders' = [holders EXCEPT ![n] = @ + 1] /\ held' = [held EXCEPT ![c][n] = @ + 1]
          /\ inOpen' = inOpen \cup {c} /\ UNCHANGED <<ready, at>> /\ AtCall(c, "open", n)
          /\ c \notin inOpen
      BY <2>2, <2>7 DEF OpenRecord, Calls
    <3>2. \A m \in Names : CountedHolders(m)'
      BY <2>1, <3>1, HandleTaken
    <3>3. /\ held' \in [Clients -> [Names -> Nat]] /\ holders' \in [Names -> Nat]
          /\ \A d \in Clients, m \in Names :
                held'[d][m] = IF d = c /\ m = n THEN held[d][m] + 1 ELSE held[d][m]
      BY <2>1, <3>1
    <3>4. ASSUME NEW d \in Clients, NEW m \in Names PROVE FollowsProgram(d, m)'
      <4>1. Waits(d, m)' <=> (d = c /\ m = n) \/ (d # c /\ Waits(d, m))
        BY <3>1 DEF Waits, AtCall
      <4>2. FollowsProgram(d, m) /\ held[d][m] \in Nat /\ (d = c => ~ Waits(d, m))
        BY <2>1, <3>1 DEF Waits
      <4>3. Uses(d, at[d], m) \in Int
        BY IntUses
      <4>4. QED
        BY <3>1, <3>3, <4>1, <4>2, <4>3 DEF FollowsProgram
    <3>5. \A d \in inOpen' : at'[d] <= Len(Program[d]) /\ Program[d][at'[d]].call = "open"
      BY <2>1, <3>1 DEF AtCall
    <3>6. QED
      BY <2>1, <3>1, <3>2, <3>3, <3>4, <3>5 DEF RecordsInv
  <2>8. ASSUME NEW c \in Clients, NEW n \in Names, Ready(c, n) PROVE RecordsInv'
    <3>1. /\ c \in inOpen /\ Program[c][at[c]].name = n /\ n \in ready
          /\ inOpen' = inOpen \ {c} /\ at' = Advanced(c)
          /\ UNCHANGED <<records, holders, ready, held>>
      BY <2>8 DEF Ready
    <3>2. AtCall(c, "open", n)
      <4>1. at[c] \in 1 .. Len(Program[c])
        BY <2>1, <3>1
      <4>2. Program[c][at[c]] \in [call : Calls, name : Names]
        <5>1. c \in Clients /\ Program[c] \in Seq([call : Calls, name : Names])
          BY RecordsAssumption DEF RecordsAssumption
        <5>2. QED
          BY <4>1, <5>1, ElementOfSeq
      <4>3. QED
        BY <2>1, <3>1, <4>1, <4>2 DEF AtCall
    <3>3. /\ at' \in [Clients -> Nat] /\ at'[c] > 0
          /\ \A d \in Clients \ {c} : at'[d] = at[d]
          /\ \A m \in Names \ {n} : Uses(c, at'[c], m) = Uses(c, at[c], m)
                                /\ Made(c, at'[c], m) = Made(c, at[c], m)
          /\ Uses(c, at'[c], n) = Uses(c, at[c], n) + 1 - 0
          /\ Made(c, at'[c], n) = Made(c, at[c], n) + 0 - 0
          /\ \A m \in Names : Made(c, at[c], m) \in Int
      BY <2>1, <3>1, <3>2, ProgramStep DEF Calls
    <3>4. ASSUME NEW d \in Clients, NEW m \in Names PROVE FollowsProgram(d, m)'
      <4>1. FollowsProgram(d, m) /\ held[d][m] \in Nat /\ Uses(d, at[d], m) \in Int
        BY <2>1, IntUses
      <4>2. CASE d # c
        <5>1. (Waits(d, m)' <=> Waits(d, m)) /\ at'[d] = at[d]
          BY <3>1, <3>3, <4>2 DEF Waits
        <5>2. QED
          BY <3>1, <4>1, <5>1 DEF FollowsProgram
      <4>3. CASE d = c
        <5>1. /\ ~ Waits(d, m)' /\ (Waits(d, m) <=> m = n)
              /\ Made(d, at'[d], m) = Made(d, at[d], m)
              /\ Uses(d, at'[d], m) = Uses(d, at[d], m) + (IF m = n THEN 1 ELSE 0)
          BY <3>1, <3>3, <4>1, <4>3 DEF Waits
        <5>2. QED
          BY <3>1, <4>1, <5>1 DEF FollowsProgram
      <4>4. QED
        BY <4>2, <4>3
    <3>5. /\ \A d \in inOpen' : at'[d] <= Len(Program[d]) /\ Program[d][at'[d]].call = "open"
          /\ \A d \in Clients : at'[d] > 0
      BY <2>1, <3>1, <3>3
    <3>6. QED
      BY <2>1, <2>3, <3>1, <3>3, <3>4, <3>5 DEF RecordsInv
  <2>9. ASSUME NEW c \in Clients, NEW n \in Names, CloseRecord(c, n) PROVE RecordsInv'
    <3>1. /\ Calling(c, "close", n) /\ holders' = [holders EXCEPT ![n] = @ - 1]
          /\ held' = [held EXCEPT ![c][n] = @ - 1] /\ at' = Advanced(c)
          /\ UNCHANGED <<records, ready, inOpen>> /\ AtCall(c, "close", n)
      BY <2>2, <2>9 DEF CloseRecord, Calls
    <3>2. /\ Uses(c, at'[c], n) = Uses(c, at[c], n) + 0 - 1
          /\ Made(c, at'[c], n) = Made(c, at[c], n) + 0 - 0
          /\ Uses(c, at'[c], n) >= 0 /\ Made(c, at[c], n) \in Int
      BY <2>1, <3>1, ProgramStep DEF Calls
    <3>3. Uses(c, at[c], n) > 0 /\ held[c][n] > 0 /\ held[c][n] \in Nat
      <4>1. Uses(c, at[c], n) \in Int /\ FollowsProgram(c, n) /\ held[c][n] \in Nat
        BY <2>1, IntUses
      <4>2. QED
        BY <3>2, <4>1 DEF FollowsProgram
    <3>4. (\A m \in Names : CountedHolders(m)') /\ holders'[n] \in Nat
      BY <2>1, <3>1, <3>3, HandleGiven
    <3>5. /\ held' \in [Clients -> [Names -> Nat]] /\ holders' \in [Names -> Nat]
          /\ \A d \in Clients, m \in Names :
                held'[d][m] = IF d = c /\ m = n THEN held[d][m] - 1 ELSE held[d][m]
      <4>1. holders' \in [Names -> Nat]
        BY <2>1, <3>1, <3>4
      <4>2. held[c][n] - 1 \in Nat
        BY <3>3
      <4>3. QED
        BY <2>1, <3>1, <4>1, <4>2
    <3>6. ASSUME NEW d \in Clients, NEW m \in Names PROVE FollowsProgram(d, m)'
      <4>1. FollowsProgram(d, m) /\ held[d][m] \in Nat /\ Uses(d, at[d], m) \in Int
        BY <2>1, IntUses
      <4>2. Waits(d, m)' <=> Waits(d, m)
        BY <2>4, <3>1 DEF Calls
      <4>3. CASE d = c /\ m = n
        <5>1. ~ Waits(d, m)
          BY <2>4, <3>1, <4>3 DEF Calls
        <5>2. held'[d][m] = held[d][m] - 1 /\ Uses(d, at'[d], m) = Uses(d, at[d], m) - 1
          BY <3>2, <3>5, <4>1, <4>3
        <5>3. Made(d, at'[d], m) = Made(d, at[d], m)
          BY <3>2, <4>3
        <5>4. QED
          BY <3>1, <4>1, <4>2, <5>1, <5>2, <5>3 DEF FollowsProgram
      <4>4. CASE ~ (d = c /\ m = n)
        <5>1. /\ held'[d][m] = held[d][m] /\ Uses(d, at'[d], m) = Uses(d, at[d], m)
              /\ Made(d, at'[d], m) = Made(d, at[d], m)
          BY <2>4, <3>1, <3>5, <4>4 DEF Calls
        <5>2. QED
          BY <3>1, <4>1, <4>2, <5>1 DEF FollowsProgram
      <4>5. QED
        BY <4>3, <4>4
    <3>7. QED
      BY <2>1, <2>4, <3>1, <3>4, <3>5, <3>6 DEF RecordsInv, Calls
  <2>10. CASE UNCHANGED recordVars
    BY <2>1, <2>3, <2>10 DEF recordVars, RecordsInv, FollowsProgram, Waits
  <2>11. QED
    BY <2>5, <2>6, <2>7, <2>8, <2>9, <2>10 DEF RecordsNext, Client
<1>3. QED
  BY <1>1, <1>2, PTL DEF RecordsSpec

(* What a thread has opened, or waits for, keeps its entry, its data stays  *)
(* until it is closed, and no call meets a furi_check, whatever creators    *)
(* and other users do: for every program that keeps to record.h.            *)
THEOREM RecordsNeverLost == RecordsSpec => []RecordsKept
<1>1. RecordsInv => RecordsKept
  <2> SUFFICES ASSUME RecordsInv, NEW c \in Clients, NEW n \in Names
               PROVE  /\ held[c][n] > 0 => n \in records
                      /\ held[c][n] > (IF Waits(c, n) THEN 1 ELSE 0) => n \in ready
                      /\ Calling(c, "create", n) => n \notin ready
                      /\ Calling(c, "destroy", n) => n \in records
                      /\ Calling(c, "close", n) => held[c][n] > 0
    BY DEF RecordsKept, RecordsInv
  <2>1. /\ FollowsProgram(c, n) /\ held[c][n] \in Nat /\ Uses(c, at[c], n) \in Int
        /\ ready \subseteq records /\ at \in [Clients -> Nat] /\ at[c] > 0
        /\ Len(Program[c]) \in Nat
    BY IntUses, RecordsAssumption DEF RecordsInv, RecordsTypeOK, RecordsAssumption
  <2>2. ASSUME NEW call \in Calls, Calling(c, call, n)
        PROVE  at[c] \in 1 .. Len(Program[c]) /\ Program[c][at[c]] = [call |-> call, name |-> n]
    BY <2>1, <2>2 DEF Calling
  <2>3. ASSUME NEW call \in Calls, Calling(c, call, n)
        PROVE  /\ Uses(c, at[c] + 1, n) >= 0
               /\ Made(c, at[c], n) \in 0 .. 1 /\ Made(c, at[c] + 1, n) \in 0 .. 1
               /\ \A k \in Calls :
                     /\ Cardinality(Before(c, at[c], k, n)) \in Nat
                     /\ Cardinality(Before(c, at[c] + 1, k, n)) = Cardinality(Before(c, at[c], k, n))
                           + (IF k = call THEN 1 ELSE 0)
    <3>0. at[c] \in 1 .. Len(Program[c]) /\ Program[c][at[c]] = [call |-> call, name |-> n]
      BY <2>2, <2>3
    <3>1. at[c] \in 1 .. Len(Program[c]) + 1 /\ at[c] + 1 \in 1 .. Len(Program[c]) + 1
      BY <2>1, <3>0
    <3>2. /\ Uses(c, at[c] + 1, n) >= 0
          /\ Made(c, at[c], n) \in 0 .. 1 /\ Made(c, at[c] + 1, n) \in 0 .. 1
      BY <3>1, ProgramAssumption DEF ProgramAssumption
    <3>3. \A k \in Calls : Program[c][at[c]] = [call |-> k, name |-> n] <=> k = call
      BY <3>0
    <3>4. QED
      BY <3>0, <3>2, <3>3, OneMoreCall
  <2>4. ASSUME Calling(c, "create", n) PROVE n \notin ready
    <3>1. Made(c, at[c], n) # 1
      BY <2>3, <2>4 DEF Made, Calls
    <3>2. Creator(c, n)
      BY <2>2, <2>4 DEF Creator, Calls
    <3>3. QED
      BY <2>1, <3>1, <3>2 DEF FollowsProgram
  <2>5. ASSUME Calling(c, "destroy", n) PROVE n \in records
    <3>1. Made(c, at[c], n) = 1 /\ Cardinality(Before(c, at[c], "create", n)) # 0
      BY <2>3, <2>5 DEF Made, Calls
    <3>2. Before(c, at[c], "create", n) # {}
      BY <3>1, FS_EmptySet
    <3>3. Creator(c, n)
      BY <3>2 DEF Before, Creator
    <3>4. QED
      BY <2>1, <3>1, <3>3 DEF FollowsProgram
  <2>6. ASSUME Calling(c, "close", n) PROVE held[c][n] > 0
    <3>1. Uses(c, at[c], n) > 0
      BY <2>3, <2>6 DEF Uses, Calls
    <3>2. QED
      BY <2>1, <3>1 DEF FollowsProgram
  <2>7. QED
    BY <2>1, <2>4, <2>5, <2>6 DEF FollowsProgram
<1>2. QED
  BY <1>1, RecordsInvariant, PTL
-----------------------------------------------------------------------------
(* The heap: no memory is handed out twice, none is lost, and what is freed *)
(* is merged and counted.                                                   *)

(* A set of natural numbers has a least element.                            *)
LEMMA LeastNatural ==
    ASSUME NEW S \in SUBSET Nat, S # {}
    PROVE  \E n \in S : \A m \in S : n <= m
<1> DEFINE R == OpToRel(<, Nat)
<1>1. IsWellFoundedOn(R, Nat)
  BY NatLessThanWellFounded
<1>2. \A x, y \in Nat : <<x, y>> \in R <=> x < y
  BY DEF OpToRel
<1> HIDE DEF R
<1>3. PICK x \in S : \A y \in S : ~ (<<y, x>> \in R)
  BY <1>1, WFMin
<1>4. QED
  <2>1. \A y \in S : ~ (y < x)
    BY <1>2, <1>3
  <2>2. QED
    BY <2>1

(* The inductive invariant, in terms of addresses: each is in the heap, and *)
(* is free or in exactly one block that was handed out.  A block that is    *)
(* being wiped is in the hands of one task and not allocated any more.      *)
Ahead(b, c) == b.at + b.size < c.at
Sorted(list) == \A i, j \in 1 .. Len(list) : i < j => Ahead(list[i], list[j])
CoveredBy(list, a) == \E i \in 1 .. Len(list) : Covers(list[i], a)
FreeAt(a) == CoveredBy(freeList, a)
EachOnce ==
    /\ \A a \in Nat : FreeAt(a) => a < HeapSize
    /\ \A b \in Handed, a \in Nat : Covers(b, a) => a < HeapSize /\ ~ FreeAt(a)
    /\ \A b, c \in Handed, a \in Nat : Covers(b, a) /\ Covers(c, a) => b = c
    /\ \A a \in Nat : a < HeapSize => FreeAt(a) \/ \E b \in Handed : Covers(b, a)
OneOwner ==
    /\ \A t \in Tasks : wiping[t] \cap used = {}
    /\ \A t \in Tasks : \A b, c \in wiping[t] : b = c
    /\ \A t, u \in Tasks : t # u => wiping[t] \cap wiping[u] = {}
HeapInv == HeapTypeOK /\ Sorted(freeList) /\ EachOnce /\ OneOwner /\ Counted

(* What blocks are.                                                         *)
LEMMA BlockType ==
    /\ \A x \in Block : x.at \in Nat /\ x.size \in Nat /\ x.size > 0
    /\ \A list \in Seq(Block) : \A i \in 1 .. Len(list) :
          list[i] \in Block /\ list[i].at \in Nat /\ list[i].size \in Nat /\ list[i].size > 0
<1>1. ASSUME NEW x \in Block PROVE x.at \in Nat /\ x.size \in Nat /\ x.size > 0
  BY DEF Block
<1>2. ASSUME NEW list \in Seq(Block), NEW i \in 1 .. Len(list) PROVE list[i] \in Block
  OBVIOUS
<1>3. QED
  BY <1>1, <1>2

(* A list in which the elements from p + 1 to q - 1 give way to one, x.     *)
Spliced(list, p, x, q) == SubSeq(list, 1, p) \o <<x>> \o SubSeq(list, q, Len(list))
IsSpliced(r, list, p, x, q) ==
    /\ Len(r) = p + 2 + Len(list) - q
    /\ \A i \in 1 .. p : r[i] = list[i]
    /\ r[p + 1] = x
    /\ \A i \in p + 2 .. Len(r) : r[i] = list[i - p - 2 + q]
LEMMA SplicedElements ==
    ASSUME NEW S, NEW list \in Seq(S), NEW x \in S,
           NEW p \in 0 .. Len(list), NEW q \in p + 1 .. Len(list) + 1,
           NEW r, r = Spliced(list, p, x, q)
    PROVE  r \in Seq(S) /\ IsSpliced(r, list, p, x, q)
<1> DEFINE front == SubSeq(list, 1, p)
           back == SubSeq(list, q, Len(list))
           two == front \o <<x>>
<1>1. /\ front \in Seq(S) /\ Len(front) = p /\ \A i \in 1 .. p : front[i] = list[i]
      /\ Len(list) \in Nat
  BY SubSeqProperties
<1>2. /\ back \in Seq(S) /\ Len(back) = Len(list) - q + 1
      /\ \A i \in 1 .. Len(list) - q + 1 : back[i] = list[q + i - 1]
  BY SubSeqProperties
<1>3. <<x>> \in Seq(S) /\ Len(<<x>>) = 1 /\ <<x>>[1] = x
  OBVIOUS
<1> HIDE DEF front, back
<1>4. /\ two \in Seq(S) /\ Len(two) = p + 1
      /\ \A i \in 1 .. p + 1 : two[i] = IF i <= p THEN front[i] ELSE <<x>>[i - p]
  BY <1>1, <1>3, ConcatProperties
<1>5. /\ two[p + 1] = x /\ \A i \in 1 .. p : two[i] = list[i]
  BY <1>1, <1>3, <1>4
<1> HIDE DEF two
<1>6. /\ two \o back \in Seq(S) /\ Len(two \o back) = p + 1 + (Len(list) - q + 1)
      /\ \A i \in 1 .. p + 1 + (Len(list) - q + 1) :
            (two \o back)[i] = IF i <= p + 1 THEN two[i] ELSE back[i - (p + 1)]
  <2>1. /\ two \o back \in Seq(S) /\ Len(two \o back) = Len(two) + Len(back)
        /\ \A i \in 1 .. Len(two) + Len(back) :
              (two \o back)[i] = IF i <= Len(two) THEN two[i] ELSE back[i - Len(two)]
    BY <1>2, <1>4, ConcatProperties
  <2>2. QED
    BY <1>2, <1>4, <2>1
<1>7. r = two \o back
  BY DEF Spliced, two, front, back
<1>8. \A i \in p + 2 .. p + 2 + Len(list) - q : (two \o back)[i] = list[i - p - 2 + q]
  <2> SUFFICES ASSUME NEW i \in p + 2 .. p + 2 + Len(list) - q
               PROVE  (two \o back)[i] = list[i - p - 2 + q]
    OBVIOUS
  <2>1. (two \o back)[i] = back[i - (p + 1)]
    BY <1>1, <1>6
  <2>2. i - (p + 1) \in 1 .. Len(list) - q + 1
    BY <1>1
  <2>3. back[i - (p + 1)] = list[q + (i - (p + 1)) - 1]
    BY <1>2, <2>2
  <2>4. q + (i - (p + 1)) - 1 = i - p - 2 + q
    BY <1>1
  <2>5. QED
    BY <2>1, <2>3, <2>4
<1>9. \A i \in 1 .. p + 1 : (two \o back)[i] = two[i]
  BY <1>1, <1>6
<1>10. Len(r) = p + 2 + Len(list) - q
  BY <1>1, <1>6, <1>7
<1>11. \A i \in 1 .. p : i \in 1 .. p + 1
  OBVIOUS
<1>12. p + 1 \in 1 .. p + 1
  OBVIOUS
<1>13. QED
  BY <1>5, <1>6, <1>7, <1>8, <1>9, <1>10, <1>11, <1>12 DEF IsSpliced

(* A block that is put where there is room for it keeps the list sorted,    *)
(* and the list covers the addresses of the block and of what remains.      *)
LEMMA SplicedSorted ==
    ASSUME NEW list \in Seq(Block), NEW x \in Block, Sorted(list),
           NEW p \in 0 .. Len(list), NEW q \in p + 1 .. Len(list) + 1,
           \A i \in 1 .. p : Ahead(list[i], x), \A i \in q .. Len(list) : Ahead(x, list[i]),
           NEW r, r = Spliced(list, p, x, q)
    PROVE  /\ r \in Seq(Block) /\ Sorted(r)
           /\ \A a \in Nat : CoveredBy(r, a) <=>
                 \/ Covers(x, a)
                 \/ \E i \in 1 .. Len(list) : ((i <= p \/ i >= q) /\ Covers(list[i], a))
<1>1. /\ r \in Seq(Block) /\ Len(r) = p + 2 + Len(list) - q
      /\ \A i \in 1 .. p : r[i] = list[i]
      /\ r[p + 1] = x
      /\ \A i \in p + 2 .. Len(r) : r[i] = list[i - p - 2 + q]
      /\ Len(list) \in Nat
  <2>1. Len(list) \in Nat
    OBVIOUS
  <2>2. r \in Seq(Block) /\ IsSpliced(r, list, p, x, q)
    BY SplicedElements
  <2>3. QED
    BY <2>1, <2>2 DEF IsSpliced
<1>2. Sorted(r)
  <2> SUFFICES ASSUME NEW i \in 1 .. Len(r), NEW j \in 1 .. Len(r), i < j
               PROVE  Ahead(r[i], r[j])
    BY DEF Sorted
  <2> USE <1>1
  <2>0. \A m, n \in 1 .. Len(list) : m < n => Ahead(list[m], list[n])
    BY DEF Sorted
  <2>1. CASE j <= p
    <3>1. i \in 1 .. p /\ j \in 1 .. p /\ i \in 1 .. Len(list) /\ j \in 1 .. Len(list)
      BY <2>1
    <3>2. r[i] = list[i] /\ r[j] = list[j]
      BY <3>1
    <3>3. Ahead(list[i], list[j])
      BY <2>0, <3>1
    <3>4. QED
      BY <3>2, <3>3
  <2>2. CASE j = p + 1
    <3>1. i \in 1 .. p
      BY <2>2
    <3>2. r[i] = list[i] /\ Ahead(list[i], x)
      BY <3>1
    <3>3. QED
      BY <2>2, <3>2
  <2>3. CASE j > p + 1
    <3>1. PICK k \in q .. Len(list) : k = j - p - 2 + q /\ r[j] = list[k]
      <4>1. j \in p + 2 .. Len(r) /\ j - p - 2 + q \in q .. Len(list)
        BY <1>1, <2>3
      <4>2. QED
        BY <1>1, <4>1
    <3>2. CASE i <= p
      <4>1. i \in 1 .. p /\ i \in 1 .. Len(list) /\ k \in 1 .. Len(list) /\ i < k
        BY <3>1, <3>2
      <4>2. r[i] = list[i]
        BY <4>1
      <4>3. Ahead(list[i], list[k])
        BY <2>0, <4>1
      <4>4. QED
        BY <3>1, <4>2, <4>3
    <3>3. CASE i = p + 1
      <4>1. r[i] = x /\ Ahead(x, list[k])
        BY <3>1, <3>3
      <4>2. QED
        BY <3>1, <4>1
    <3>4. CASE i > p + 1
      <4> DEFINE m == i - p - 2 + q
      <4>1. i \in p + 2 .. Len(r)
        BY <3>4
      <4>2. r[i] = list[m]
        BY <4>1
      <4>3. m \in 1 .. Len(list) /\ k \in 1 .. Len(list) /\ m < k
        BY <3>1, <3>4
      <4> HIDE DEF m
      <4>4. Ahead(list[m], list[k])
        BY <2>0, <4>3
      <4>5. QED
        BY <3>1, <4>2, <4>4
    <3>5. QED
      BY <1>1, <3>2, <3>3, <3>4
  <2>4. QED
    BY <1>1, <2>1, <2>2, <2>3
<1>3. ASSUME NEW a \in Nat, CoveredBy(r, a)
      PROVE  \/ Covers(x, a)
             \/ \E i \in 1 .. Len(list) : ((i <= p \/ i >= q) /\ Covers(list[i], a))
  <2>1. PICK j \in 1 .. Len(r) : Covers(r[j], a)
    BY <1>3 DEF CoveredBy
  <2>2. CASE j <= p
    BY <1>1, <2>1, <2>2
  <2>3. CASE j = p + 1
    BY <1>1, <2>1, <2>3
  <2>4. CASE j > p + 1
    <3>1. j - p - 2 + q \in q .. Len(list) /\ r[j] = list[j - p - 2 + q]
      BY <1>1, <2>4
    <3>2. QED
      BY <2>1, <3>1
  <2>5. QED
    BY <1>1, <2>2, <2>3, <2>4
<1>4. ASSUME NEW a \in Nat, Covers(x, a) PROVE CoveredBy(r, a)
  <2>1. p + 1 \in 1 .. Len(r)
    BY <1>1
  <2>2. QED
    BY <1>1, <1>4, <2>1 DEF CoveredBy
<1>5. ASSUME NEW a \in Nat, NEW i \in 1 .. Len(list), i <= p \/ i >= q, Covers(list[i], a)
      PROVE  CoveredBy(r, a)
  <2>1. CASE i <= p
    <3>1. i \in 1 .. Len(r) /\ r[i] = list[i]
      BY <1>1, <2>1
    <3>2. QED
      BY <1>5, <3>1 DEF CoveredBy
  <2>2. CASE i >= q
    <3>1. i + p + 2 - q \in p + 2 .. Len(r) /\ (i + p + 2 - q) - p - 2 + q = i
      BY <1>1, <2>2
    <3>2. r[i + p + 2 - q] = list[i] /\ i + p + 2 - q \in 1 .. Len(r)
      BY <1>1, <3>1
    <3>3. QED
      BY <1>5, <3>2 DEF CoveredBy
  <2>3. QED
    BY <1>5, <2>1, <2>2
<1>6. QED
  BY <1>1, <1>2, <1>3, <1>4, <1>5

(* There is a place for a block in every list.                              *)
LEMMA PlaceFound ==
    ASSUME NEW list \in Seq(Block), NEW x \in Block, NEW n, n = Place(list, x)
    PROVE  /\ n \in 0 .. Len(list)
           /\ \A i \in 1 .. n : list[i].at < x.at
           /\ n < Len(list) => list[n + 1].at >= x.at
<1> DEFINE Good(k) == /\ \A i \in 1 .. k : list[i].at < x.at
                      /\ k < Len(list) => list[k + 1].at >= x.at
           S == {i \in 1 .. Len(list) : ~ (list[i].at < x.at)}
<1>1. /\ Len(list) \in Nat /\ x.at \in Nat
      /\ \A i \in 1 .. Len(list) : list[i].at \in Nat
  BY BlockType
<1>2. \E k \in 0 .. Len(list) : Good(k)
  <2>1. CASE S = {}
    <3>1. \A i \in 1 .. Len(list) : list[i].at < x.at
      BY <2>1
    <3>2. Good(Len(list)) /\ Len(list) \in 0 .. Len(list)
      BY <1>1, <3>1
    <3>3. QED
      BY <3>2
  <2>2. CASE S # {}
    <3>1. S \in SUBSET Nat
      BY <1>1
    <3>2. PICK m \in S : \A y \in S : m <= y
      BY <2>2, <3>1, LeastNatural
    <3>3. m \in 1 .. Len(list) /\ ~ (list[m].at < x.at)
      BY <3>2
    <3>4. ASSUME NEW i \in 1 .. m - 1 PROVE list[i].at < x.at
      <4>1. i \in 1 .. Len(list) /\ i < m
        BY <1>1, <3>3
      <4>2. ~ (i \in S)
        BY <1>1, <3>2, <3>3, <4>1
      <4>3. QED
        BY <4>1, <4>2
    <3>5. m - 1 \in 0 .. Len(list) /\ m - 1 + 1 = m
      BY <1>1, <3>3
    <3>6. list[m].at >= x.at
      BY <1>1, <3>3
    <3>7. Good(m - 1)
      BY <3>4, <3>5, <3>6
    <3>8. QED
      BY <3>5, <3>7
  <2>3. QED
    BY <2>1, <2>2
<1>3. Place(list, x) \in 0 .. Len(list) /\ Good(Place(list, x))
  BY <1>2 DEF Place
<1>4. QED
  BY <1>3

(* A block that covers no address of the list goes into it without anything *)
(* else changing: prvInsertBlockIntoFreeList.                               *)
LEMMA InsertedSorted ==
    ASSUME NEW list \in Seq(Block), Sorted(list), NEW x \in Block,
           \A a \in Nat : Covers(x, a) => ~ CoveredBy(list, a),
           NEW r, r = Inserted(list, x)
    PROVE  /\ r \in Seq(Block) /\ Sorted(r)
           /\ \A a \in Nat : CoveredBy(r, a) <=> Covers(x, a) \/ CoveredBy(list, a)
<1> DEFINE n == Place(list, x)
           before == n > 0 /\ Touches(list[n], x)
           after == n < Len(list) /\ Touches(x, list[n + 1])
           joined == [at |-> IF before THEN list[n].at ELSE x.at,
                      size |-> (IF before THEN list[n].size ELSE 0) + x.size
                               + (IF after THEN list[n + 1].size ELSE 0)]
           p == IF before THEN n - 1 ELSE n
           q == IF after THEN n + 2 ELSE n + 1
<1>1. r = Spliced(list, p, joined, q)
  BY DEF Inserted, Spliced
<1>2. /\ n \in 0 .. Len(list)
      /\ \A i \in 1 .. n : list[i].at < x.at
      /\ n < Len(list) => list[n + 1].at >= x.at
  BY PlaceFound
<1>3. /\ Len(list) \in Nat /\ x.at \in Nat /\ x.size \in Nat /\ x.size > 0
      /\ \A i \in 1 .. Len(list) : list[i].at \in Nat /\ list[i].size \in Nat /\ list[i].size > 0
  BY BlockType
<1> HIDE DEF n
<1>4. \A i, j \in 1 .. Len(list) : i < j => list[i].at + list[i].size < list[j].at
  BY DEF Sorted, Ahead
<1>5. \A i \in 1 .. Len(list), a \in Nat :
         ~ (/\ list[i].at <= a /\ a < list[i].at + list[i].size
            /\ x.at <= a /\ a < x.at + x.size)
  BY DEF CoveredBy, Covers
<1>6. ASSUME NEW i \in 1 .. n PROVE list[i].at + list[i].size <= x.at
  <2>1. i \in 1 .. Len(list) /\ list[i].at < x.at
    BY <1>2, <1>3
  <2>2. x.at \in Nat /\ x.at <= x.at /\ x.at < x.at + x.size
    BY <1>3
  <2>3. ~ (list[i].at <= x.at /\ x.at < list[i].at + list[i].size)
    BY <1>5, <2>1, <2>2
  <2>4. QED
    BY <1>3, <2>1, <2>3
<1>7. ASSUME NEW i \in n + 1 .. Len(list) PROVE x.at + x.size <= list[i].at
  <2>1. i \in 1 .. Len(list) /\ n + 1 \in 1 .. Len(list) /\ n < Len(list)
    BY <1>2, <1>3
  <2>2. list[i].at >= x.at
    <3>1. CASE i = n + 1
      BY <1>2, <2>1, <3>1
    <3>2. CASE i > n + 1
      BY <1>2, <1>3, <1>4, <2>1, <3>2
    <3>3. QED
      BY <1>2, <3>1, <3>2
  <2>3. ~ (x.at <= list[i].at /\ list[i].at < x.at + x.size)
    <3>1. /\ list[i].at \in Nat /\ list[i].size \in Nat /\ list[i].size > 0
      BY <1>3, <2>1
    <3>2. list[i].at <= list[i].at /\ list[i].at < list[i].at + list[i].size
      BY <3>1
    <3>3. QED
      BY <1>5, <2>1, <3>1, <3>2
  <2>4. QED
    BY <1>3, <2>1, <2>2, <2>3
<1>8. /\ before => n \in 1 .. Len(list) /\ n \in 1 .. n /\ list[n].at + list[n].size = x.at
      /\ after => n + 1 \in 1 .. Len(list) /\ x.at + x.size = list[n + 1].at
  BY <1>2, <1>3 DEF Touches
<1>9. /\ ~ before => p = n /\ joined.at = x.at
      /\ before => p = n - 1 /\ joined.at = list[n].at
      /\ ~ after => q = n + 1
      /\ after => q = n + 2
      /\ p \in 0 .. Len(list) /\ q \in p + 1 .. Len(list) + 1
  BY <1>2, <1>3, <1>8
<1> DEFINE first == IF before THEN list[n].size ELSE 0
           last == IF after THEN list[n + 1].size ELSE 0
<1>10. /\ joined.at \in Nat /\ joined.size \in Nat \ {0}
       /\ joined.at <= x.at
       /\ joined.at + first = x.at
       /\ joined.size = first + x.size + last
       /\ first \in Nat /\ last \in Nat
       /\ ~ before => first = 0
       /\ before => first = list[n].size
       /\ ~ after => joined.at + joined.size = x.at + x.size
       /\ after => joined.at + joined.size = list[n + 1].at + list[n + 1].size
  <2>1. joined.size = first + x.size + last
    OBVIOUS
  <2>2. first \in Nat /\ last \in Nat
    BY <1>3, <1>8
  <2>3. /\ ~ before => first = 0
        /\ before => first = list[n].size
        /\ ~ after => last = 0
        /\ after => last = list[n + 1].size
    OBVIOUS
  <2> HIDE DEF joined, first, last, before, after, p, q
  <2>4. joined.at \in Nat /\ joined.at + first = x.at
    <3>1. CASE before
      BY <1>3, <1>8, <1>9, <2>3, <3>1
    <3>2. CASE ~ before
      BY <1>3, <1>8, <1>9, <2>3, <3>2
    <3>3. QED
      BY <3>1, <3>2
  <2>5. joined.size \in Nat \ {0} /\ joined.at <= x.at
    BY <1>3, <2>1, <2>2, <2>4
  <2>6. joined.at + joined.size = x.at + x.size + last
    BY <1>3, <2>1, <2>2, <2>4
  <2>7. CASE after
    <3>1. x.at + x.size = list[n + 1].at /\ list[n + 1].at \in Nat /\ list[n + 1].size \in Nat
      BY <1>3, <1>8, <2>7
    <3>2. joined.at + joined.size = list[n + 1].at + list[n + 1].size
      BY <1>3, <2>3, <2>6, <2>7, <3>1
    <3>3. QED
      BY <2>1, <2>2, <2>3, <2>4, <2>5, <2>7, <3>2
  <2>8. CASE ~ after
    <3>1. joined.at + joined.size = x.at + x.size
      BY <1>3, <2>3, <2>6, <2>8
    <3>2. QED
      BY <2>1, <2>2, <2>3, <2>4, <2>5, <2>8, <3>1
  <2>9. QED
    BY <2>7, <2>8
<1> HIDE DEF before, after, joined, p, q, first, last
<1>11. joined \in Block
  <2>1. joined = [at |-> joined.at, size |-> joined.size]
    BY DEF joined
  <2>2. QED
    BY <1>10, <2>1 DEF Block
<1> DEFINE from == joined.at
           past == joined.at + joined.size
<1>11a. /\ from \in Nat /\ past \in Nat /\ from + first = x.at /\ first \in Nat
        /\ ~ before => first = 0
        /\ before => first = list[n].size
        /\ ~ after => past = x.at + x.size
        /\ after => past = list[n + 1].at + list[n + 1].size
  BY <1>10
<1>11b. \A a : Covers(joined, a) <=> from <= a /\ a < past
  BY DEF Covers
<1>11c. \A b : Ahead(joined, b) <=> past < b.at
  BY DEF Ahead
<1> HIDE DEF from, past
<1>12. ASSUME NEW a \in Nat
       PROVE  Covers(joined, a) <=>
                 \/ Covers(x, a)
                 \/ (before /\ Covers(list[n], a))
                 \/ (after /\ Covers(list[n + 1], a))
  <2> DEFINE left == x.at
             right == x.at + x.size
  <2>1. left \in Nat /\ right \in Nat /\ left < right
    BY <1>3
  <2>2. Covers(x, a) <=> left <= a /\ a < right
    BY DEF Covers
  <2>3. ASSUME before PROVE (Covers(list[n], a) <=> from <= a /\ a < left) /\ from < left
    <3>1. list[n].at \in Nat /\ list[n].size \in Nat /\ list[n].size > 0
      BY <1>3, <1>8, <2>3
    <3>2. from = list[n].at /\ list[n].at + list[n].size = left
      BY <1>8, <1>9, <2>3 DEF from
    <3>3. QED
      BY <3>1, <3>2 DEF Covers
  <2>4. ASSUME after PROVE (Covers(list[n + 1], a) <=> right <= a /\ a < past) /\ right < past
    <3>1. list[n + 1].at \in Nat /\ list[n + 1].size \in Nat /\ list[n + 1].size > 0
      BY <1>3, <1>8, <2>4
    <3>2. right = list[n + 1].at /\ past = list[n + 1].at + list[n + 1].size
      BY <1>8, <1>11a, <2>4
    <3>3. QED
      BY <3>1, <3>2 DEF Covers
  <2>5. (~ before => from = left) /\ (~ after => past = right) /\ from \in Nat /\ past \in Nat
    BY <1>9, <1>11a DEF from
  <2> HIDE DEF left, right
  <2>6. QED
    BY <1>11b, <2>1, <2>2, <2>3, <2>4, <2>5
<1>13. ASSUME NEW i \in 1 .. p PROVE Ahead(list[i], joined)
  <2>1. CASE before
    <3>1. n \in 1 .. Len(list) /\ i \in 1 .. Len(list) /\ i < n
      BY <1>2, <1>3, <1>8, <1>9, <2>1
    <3>2. list[i].at + list[i].size < list[n].at
      BY <1>4, <3>1
    <3>3. QED
      BY <1>9, <2>1, <3>2 DEF Ahead
  <2>2. CASE ~ before
    <3>1. i \in 1 .. n /\ i \in 1 .. Len(list) /\ n \in 1 .. n /\ n \in 1 .. Len(list) /\ n > 0
      BY <1>2, <1>3, <1>9, <2>2
    <3>2. list[n].at + list[n].size <= x.at /\ list[n].at + list[n].size # x.at
      BY <1>6, <2>2, <3>1 DEF before, Touches
    <3>3. list[n].at + list[n].size < x.at /\ joined.at = x.at
      <4>1. list[n].at \in Nat /\ list[n].size \in Nat
        BY <1>3, <3>1
      <4>2. x.at \in Nat
        BY <1>3
      <4>3. list[n].at + list[n].size < x.at
        BY <3>2, <4>1, <4>2
      <4>4. joined.at = x.at
        BY <1>9, <2>2
      <4>5. QED
        BY <4>3, <4>4
    <3>4. CASE i = n
      BY <3>3, <3>4 DEF Ahead
    <3>5. CASE i < n
      <4>1. list[i].at + list[i].size < list[n].at
        BY <1>4, <3>1, <3>5
      <4>2. list[i].at + list[i].size < x.at
        BY <1>3, <3>1, <3>3, <4>1
      <4>3. QED
        BY <3>3, <4>2 DEF Ahead
    <3>6. QED
      BY <1>2, <3>1, <3>4, <3>5
  <2>3. QED
    BY <2>1, <2>2
<1>14. ASSUME NEW i \in q .. Len(list) PROVE Ahead(joined, list[i])
  <2>1. CASE after
    <3>1. n + 1 \in 1 .. Len(list) /\ i \in 1 .. Len(list) /\ n + 1 < i
      BY <1>2, <1>3, <1>8, <1>9, <2>1
    <3>2. list[n + 1].at + list[n + 1].size < list[i].at
      BY <1>4, <3>1
    <3>3. QED
      BY <1>10, <2>1, <3>2 DEF Ahead
  <2>2. CASE ~ after
    <3>1. /\ i \in n + 1 .. Len(list) /\ i \in 1 .. Len(list) /\ n < Len(list)
          /\ n + 1 \in n + 1 .. Len(list) /\ n + 1 \in 1 .. Len(list)
      BY <1>2, <1>3, <1>9, <2>2
    <3>2. x.at + x.size <= list[n + 1].at /\ x.at + x.size # list[n + 1].at
      BY <1>7, <2>2, <3>1 DEF after, Touches
    <3>3. list[n + 1].at \in Nat /\ list[n + 1].size \in Nat /\ list[i].at \in Nat
      BY <1>3, <3>1
    <3>4. past < list[n + 1].at
      BY <1>3, <1>11a, <2>2, <3>2, <3>3
    <3>5. CASE i = n + 1
      BY <1>11c, <3>4, <3>5
    <3>6. CASE i > n + 1
      <4>1. list[n + 1].at + list[n + 1].size < list[i].at
        BY <1>4, <3>1, <3>6
      <4>2. past < list[i].at
        BY <1>11a, <3>3, <3>4, <4>1
      <4>3. QED
        BY <1>11c, <4>2
    <3>7. QED
      BY <1>2, <3>1, <3>5, <3>6
  <2>3. QED
    BY <2>1, <2>2
<1>15. /\ r \in Seq(Block) /\ Sorted(r)
       /\ \A a \in Nat : CoveredBy(r, a) <=>
             \/ Covers(joined, a)
             \/ \E i \in 1 .. Len(list) : ((i <= p \/ i >= q) /\ Covers(list[i], a))
  BY <1>1, <1>9, <1>11, <1>13, <1>14, SplicedSorted
<1>16. \A i \in 1 .. Len(list) :
          \/ i <= p \/ i >= q
          \/ before /\ i = n
          \/ after /\ i = n + 1
  BY <1>2, <1>3, <1>9
<1>17. ASSUME NEW a \in Nat PROVE CoveredBy(r, a) <=> Covers(x, a) \/ CoveredBy(list, a)
  <2>1. ASSUME CoveredBy(r, a) PROVE Covers(x, a) \/ CoveredBy(list, a)
    <3>1. CASE Covers(joined, a)
      BY <1>8, <1>12, <3>1 DEF CoveredBy
    <3>2. CASE \E i \in 1 .. Len(list) : ((i <= p \/ i >= q) /\ Covers(list[i], a))
      BY <3>2 DEF CoveredBy
    <3>3. QED
      BY <1>15, <2>1, <3>1, <3>2
  <2>2. ASSUME Covers(x, a) PROVE CoveredBy(r, a)
    BY <1>12, <1>15, <2>2
  <2>3. ASSUME CoveredBy(list, a) PROVE CoveredBy(r, a)
    <3>1. PICK i \in 1 .. Len(list) : Covers(list[i], a)
      BY <2>3 DEF CoveredBy
    <3>2. CASE i <= p \/ i >= q
      BY <1>15, <3>1, <3>2
    <3>3. CASE (before /\ i = n) \/ (after /\ i = n + 1)
      BY <1>12, <1>15, <3>1, <3>3
    <3>4. QED
      BY <1>16, <3>2, <3>3
  <2>4. QED
    BY <2>1, <2>2, <2>3
<1>18. QED
  BY <1>15, <1>17

(* A list without one of its elements.                                      *)
LEMMA RemovedElements ==
    ASSUME NEW S, NEW list \in Seq(S), NEW n \in 1 .. Len(list), NEW r, r = RemoveAt(list, n)
    PROVE  /\ r \in Seq(S) /\ Len(r) = Len(list) - 1
           /\ \A i \in 1 .. n - 1 : r[i] = list[i]
           /\ \A i \in n .. Len(r) : r[i] = list[i + 1]
<1> DEFINE front == SubSeq(list, 1, n - 1)
           back == SubSeq(list, n + 1, Len(list))
<1>1. /\ front \in Seq(S) /\ Len(front) = n - 1 /\ \A i \in 1 .. n - 1 : front[i] = list[i]
      /\ Len(list) \in Nat
  BY SubSeqProperties
<1>2. /\ back \in Seq(S) /\ Len(back) = Len(list) - n
      /\ \A i \in 1 .. Len(list) - n : back[i] = list[n + i]
  <2>1. /\ back \in Seq(S) /\ Len(back) = Len(list) - (n + 1) + 1
        /\ \A i \in 1 .. Len(list) - (n + 1) + 1 : back[i] = list[n + 1 + i - 1]
    BY SubSeqProperties
  <2>2. Len(list) - (n + 1) + 1 = Len(list) - n
    BY <1>1
  <2>3. ASSUME NEW i \in 1 .. Len(list) - n PROVE back[i] = list[n + i]
    <3>1. n + 1 + i - 1 = n + i
      BY <1>1
    <3>2. back[i] = list[n + 1 + i - 1]
      BY <2>1, <2>2
    <3>3. QED
      BY <3>1, <3>2
  <2>4. QED
    BY <2>1, <2>2, <2>3
<1> HIDE DEF front, back
<1>3. /\ front \o back \in Seq(S) /\ Len(front \o back) = Len(front) + Len(back)
      /\ \A i \in 1 .. Len(front) + Len(back) :
            (front \o back)[i] = IF i <= Len(front) THEN front[i] ELSE back[i - Len(front)]
  BY <1>1, <1>2, ConcatProperties
<1>4. r = front \o back
  BY DEF RemoveAt, front, back
<1>5. r \in Seq(S) /\ Len(r) = Len(list) - 1
  BY <1>1, <1>2, <1>3, <1>4
<1>6. ASSUME NEW i \in 1 .. n - 1 PROVE r[i] = list[i]
  <2>1. i \in 1 .. Len(front) + Len(back) /\ i <= Len(front)
    BY <1>1, <1>2
  <2>2. QED
    BY <1>1, <1>3, <1>4, <2>1
<1>7. ASSUME NEW i \in n .. Len(r) PROVE r[i] = list[i + 1]
  <2>1. i \in 1 .. Len(front) + Len(back) /\ ~ (i <= Len(front))
    BY <1>1, <1>2, <1>5
  <2>2. r[i] = back[i - (n - 1)]
    BY <1>1, <1>3, <1>4, <2>1
  <2>3. i - (n - 1) \in 1 .. Len(list) - n /\ n + (i - (n - 1)) = i + 1
    BY <1>1, <1>5
  <2>4. QED
    BY <1>2, <2>2, <2>3
<1>8. QED
  BY <1>5, <1>6, <1>7

(* A sorted list has each address in one block at most.                     *)
LEMMA SortedApart ==
    ASSUME NEW list \in Seq(Block), Sorted(list), NEW i \in 1 .. Len(list), NEW j \in 1 .. Len(list),
           NEW a \in Nat, Covers(list[i], a), Covers(list[j], a)
    PROVE  i = j
<1>1. ASSUME NEW m \in 1 .. Len(list), NEW k \in 1 .. Len(list), m < k,
             Covers(list[m], a), Covers(list[k], a)
      PROVE  FALSE
  <2>1. list[m].at \in Nat /\ list[m].size \in Nat /\ list[k].at \in Nat
    BY BlockType
  <2>2. list[m].at + list[m].size < list[k].at
    BY <1>1 DEF Sorted, Ahead
  <2>3. a < list[m].at + list[m].size /\ list[k].at <= a
    BY <1>1 DEF Covers
  <2>4. QED
    BY <2>1, <2>2, <2>3
<1>2. i < j \/ j < i \/ i = j
  OBVIOUS
<1>3. QED
  BY <1>1, <1>2

(* First fit: what malloc takes from the list, and what it leaves there.    *)
LEMMA Taken ==
    ASSUME NEW list \in Seq(Block), Sorted(list), NEW n \in 1 .. Len(list), NEW r,
           r = RemoveAt(list, n)
    PROVE  /\ r \in Seq(Block) /\ Sorted(r)
           /\ \A a \in Nat : CoveredBy(r, a) <=> CoveredBy(list, a) /\ ~ Covers(list[n], a)
<1>1. /\ r \in Seq(Block) /\ Len(r) = Len(list) - 1 /\ Len(list) \in Nat
      /\ \A i \in 1 .. n - 1 : r[i] = list[i]
      /\ \A i \in n .. Len(r) : r[i] = list[i + 1]
  <2>1. Len(list) \in Nat
    OBVIOUS
  <2>2. QED
    BY <2>1, RemovedElements
<1> DEFINE old(i) == IF i < n THEN i ELSE i + 1
<1>2. ASSUME NEW i \in 1 .. Len(r) PROVE old(i) \in 1 .. Len(list) /\ old(i) # n /\ r[i] = list[old(i)]
  <2>1. CASE i < n
    BY <1>1, <2>1
  <2>2. CASE ~ (i < n)
    <3>1. i \in n .. Len(r) /\ i + 1 \in 1 .. Len(list) /\ i + 1 # n
      BY <1>1, <2>2
    <3>2. QED
      BY <1>1, <2>2, <3>1
  <2>3. QED
    BY <2>1, <2>2
<1>3. ASSUME NEW i \in 1 .. Len(list), i # n PROVE \E j \in 1 .. Len(r) : r[j] = list[i]
  <2>1. CASE i < n
    BY <1>1, <2>1
  <2>2. CASE i > n
    <3>1. i - 1 \in n .. Len(r) /\ i - 1 \in 1 .. Len(r) /\ (i - 1) + 1 = i
      BY <1>1, <2>2
    <3>2. r[i - 1] = list[(i - 1) + 1]
      BY <1>1, <3>1
    <3>3. QED
      BY <3>1, <3>2
  <2>3. QED
    BY <1>3, <2>1, <2>2
<1>4. \A i, j \in 1 .. Len(r) : i < j => old(i) < old(j)
  BY <1>1
<1> HIDE DEF old
<1>5. Sorted(r)
  <2> SUFFICES ASSUME NEW i \in 1 .. Len(r), NEW j \in 1 .. Len(r), i < j
               PROVE  Ahead(r[i], r[j])
    BY DEF Sorted
  <2>1. old(i) \in 1 .. Len(list) /\ old(j) \in 1 .. Len(list) /\ old(i) < old(j)
    BY <1>2, <1>4
  <2>2. Ahead(list[old(i)], list[old(j)])
    BY <2>1 DEF Sorted
  <2>3. QED
    BY <1>2, <2>2
<1>6. ASSUME NEW a \in Nat PROVE CoveredBy(r, a) <=> CoveredBy(list, a) /\ ~ Covers(list[n], a)
  <2>1. ASSUME CoveredBy(r, a) PROVE CoveredBy(list, a) /\ ~ Covers(list[n], a)
    <3>1. PICK i \in 1 .. Len(r) : Covers(r[i], a)
      BY <2>1 DEF CoveredBy
    <3>2. old(i) \in 1 .. Len(list) /\ old(i) # n /\ Covers(list[old(i)], a)
      BY <1>2, <3>1
    <3>3. QED
      BY <3>2, SortedApart DEF CoveredBy
  <2>2. ASSUME CoveredBy(list, a), ~ Covers(list[n], a) PROVE CoveredBy(r, a)
    BY <1>3, <2>2 DEF CoveredBy
  <2>3. QED
    BY <2>1, <2>2
<1>7. QED
  BY <1>1, <1>5, <1>6

(* A block that is split: its end stays in the list.                        *)
FrontPart(list, n, wanted) == [at |-> list[n].at, size |-> wanted]
BackPart(list, n, wanted) == [at |-> list[n].at + wanted, size |-> list[n].size - wanted]
Shortened(list, n, wanted) == [list EXCEPT ![n] = BackPart(list, n, wanted)]
LEMMA Split ==
    ASSUME NEW list \in Seq(Block), Sorted(list), NEW n \in 1 .. Len(list),
           NEW wanted \in Nat \ {0}, list[n].size > wanted,
           NEW x, x = FrontPart(list, n, wanted),
           NEW r, r = Shortened(list, n, wanted)
    PROVE  /\ r \in Seq(Block) /\ Sorted(r)
           /\ \A a \in Nat : CoveredBy(r, a) <=> CoveredBy(list, a) /\ ~ Covers(x, a)
           /\ \A a \in Nat : Covers(x, a) => CoveredBy(list, a)
<1> USE DEF FrontPart, BackPart, Shortened
<1> DEFINE rest == [at |-> list[n].at + wanted, size |-> list[n].size - wanted]
           from == list[n].at
           mid == list[n].at + wanted
           past == list[n].at + list[n].size
<1>1. /\ Len(list) \in Nat /\ list[n].at \in Nat /\ list[n].size \in Nat
      /\ \A i \in 1 .. Len(list) : list[i].at \in Nat
  BY BlockType
<1>2. rest \in Block
  <2>1. list[n].at + wanted \in Nat /\ list[n].size - wanted \in Nat \ {0}
    BY <1>1
  <2>2. QED
    BY <2>1 DEF Block
<1>3. /\ r \in Seq(Block) /\ Len(r) = Len(list) /\ r[n] = rest
      /\ \A i \in 1 .. Len(list) : i # n => r[i] = list[i]
  BY <1>2
<1>4. from \in Nat /\ mid \in Nat /\ past \in Nat /\ from < mid /\ mid < past
  BY <1>1
<1>5. /\ \A a : Covers(x, a) <=> from <= a /\ a < mid
      /\ \A a : Covers(list[n], a) <=> from <= a /\ a < past
  BY DEF Covers
<1>6. \A a : Covers(rest, a) <=> mid <= a /\ a < past
  <2>1. rest.at + rest.size = past
    BY <1>1
  <2>2. QED
    BY <2>1 DEF Covers
<1>7. ASSUME NEW i \in 1 .. Len(list), Ahead(list[i], list[n]) PROVE Ahead(list[i], rest)
  <2>1. list[i].at \in Nat /\ list[i].size \in Nat
    BY BlockType
  <2>2. list[i].at + list[i].size < from
    BY <1>7 DEF Ahead
  <2>3. list[i].at + list[i].size < mid
    <3> HIDE DEF from, mid
    <3>1. QED
      BY <1>4, <2>1, <2>2
  <2>4. rest.at = mid
    OBVIOUS
  <2>5. QED
    BY <2>3, <2>4 DEF Ahead
<1>8. ASSUME NEW i \in 1 .. Len(list), Ahead(list[n], list[i]) PROVE Ahead(rest, list[i])
  <2>1. rest.at + rest.size = past
    BY <1>1
  <2>2. QED
    BY <1>8, <2>1 DEF Ahead
<1> HIDE DEF rest, from, mid, past
<1>9. Sorted(r)
  <2> SUFFICES ASSUME NEW i \in 1 .. Len(list), NEW j \in 1 .. Len(list), i < j
               PROVE  Ahead(r[i], r[j])
    BY <1>3 DEF Sorted
  <2>1. Ahead(list[i], list[j])
    BY DEF Sorted
  <2>2. CASE i = n
    BY <1>3, <1>8, <2>1, <2>2
  <2>3. CASE j = n
    BY <1>3, <1>7, <2>1, <2>3
  <2>4. CASE i # n /\ j # n
    BY <1>3, <2>1, <2>4
  <2>5. QED
    BY <2>2, <2>3, <2>4
<1>10. ASSUME NEW a \in Nat PROVE CoveredBy(r, a) <=> CoveredBy(list, a) /\ ~ Covers(x, a)
  <2>1. ASSUME CoveredBy(r, a) PROVE CoveredBy(list, a) /\ ~ Covers(x, a)
    <3>1. PICK i \in 1 .. Len(list) : Covers(r[i], a)
      BY <1>3, <2>1 DEF CoveredBy
    <3>2. CASE i = n
      <4>1. mid <= a /\ a < past
        BY <1>3, <1>6, <3>1, <3>2
      <4>2. Covers(list[n], a) /\ ~ Covers(x, a)
        BY <1>4, <1>5, <4>1
      <4>3. QED
        BY <4>2 DEF CoveredBy
    <3>3. CASE i # n
      <4>1. Covers(list[i], a)
        BY <1>3, <3>1, <3>3
      <4>2. ~ Covers(list[n], a)
        BY <3>3, <4>1, SortedApart
      <4>3. ~ Covers(x, a)
        BY <1>4, <1>5, <4>2
      <4>4. QED
        BY <4>1, <4>3 DEF CoveredBy
    <3>4. QED
      BY <3>2, <3>3
  <2>2. ASSUME CoveredBy(list, a), ~ Covers(x, a) PROVE CoveredBy(r, a)
    <3>1. PICK i \in 1 .. Len(list) : Covers(list[i], a)
      BY <2>2 DEF CoveredBy
    <3>2. CASE i = n
      <4>1. mid <= a /\ a < past
        BY <1>4, <1>5, <2>2, <3>1, <3>2
      <4>2. QED
        BY <1>3, <1>6, <4>1 DEF CoveredBy
    <3>3. CASE i # n
      BY <1>3, <3>1, <3>3 DEF CoveredBy
    <3>4. QED
      BY <3>2, <3>3
  <2>3. QED
    BY <2>1, <2>2
<1>11. ASSUME NEW a \in Nat, Covers(x, a) PROVE CoveredBy(list, a)
  <2>1. Covers(list[n], a)
    BY <1>4, <1>5, <1>11
  <2>2. QED
    BY <2>1 DEF CoveredBy
<1>12. QED
  BY <1>3, <1>9, <1>10, <1>11

(* A request is rounded up.                                                 *)
LEMMA Rounded ==
    ASSUME NEW bytes \in Requests
    PROVE  WantedSize(bytes) \in Nat \ {0} /\ WantedSize(bytes) >= Header + bytes
<1>1. bytes \in Nat \ {0} /\ Header \in Nat \ {0} /\ Align \in Nat \ {0}
  BY HeapAssumption
<1> DEFINE raw == bytes + Header
<1>2. raw \in Nat \ {0} /\ raw = Header + bytes
  BY <1>1
<1> HIDE DEF raw
<1>3. raw % Align \in Nat /\ raw % Align < Align
  BY <1>1, <1>2
<1>4. (raw + Align) - (raw % Align) \in Nat /\ (raw + Align) - (raw % Align) >= raw
  BY <1>1, <1>2, <1>3
<1>5. WantedSize(bytes) = IF (raw % Align) = 0 THEN raw ELSE (raw + Align) - (raw % Align)
  BY DEF WantedSize, raw
<1>6. QED
  BY <1>2, <1>4, <1>5

(* Two blocks with no common address are apart.                             *)
LEMMA Apart ==
    ASSUME NEW b \in Block, NEW c \in Block, \A a \in Nat : ~ (Covers(b, a) /\ Covers(c, a))
    PROVE  Promise!Disjoint(b, c)
<1>1. b.at \in Nat /\ b.size \in Nat \ {0} /\ c.at \in Nat /\ c.size \in Nat \ {0}
  BY BlockType
<1>2. ~ (Covers(b, c.at) /\ Covers(c, c.at)) /\ ~ (Covers(b, b.at) /\ Covers(c, b.at))
  BY <1>1
<1>3. ~ (b.at <= c.at /\ c.at < b.at + b.size) /\ ~ (c.at <= b.at /\ b.at < c.at + c.size)
  BY <1>1, <1>2 DEF Covers
<1>4. b.at + b.size <= c.at \/ c.at + c.size <= b.at
  BY <1>1, <1>3
<1>5. QED
  BY <1>4 DEF Promise!Disjoint

(* The bytes of a block, and of a list.                                     *)
Extent(b) == {a \in 0 .. HeapSize - 1 : Covers(b, a)}
BytesOf(list) == {a \in 0 .. HeapSize - 1 : CoveredBy(list, a)}
LEMMA ExtentSize ==
    ASSUME NEW b \in Block, \A a \in Nat : Covers(b, a) => a < HeapSize
    PROVE  Cardinality(Extent(b)) = b.size /\ IsFiniteSet(Extent(b)) /\ b.at + b.size <= HeapSize
<1> DEFINE last == b.at + b.size - 1
<1>1. b.at \in Nat /\ b.size \in Nat \ {0} /\ HeapSize \in Nat
  BY BlockType, HeapAssumption
<1>2. last \in Nat /\ b.at <= last
  BY <1>1
<1>3. Covers(b, last)
  BY <1>1 DEF Covers
<1>4. last < HeapSize
  BY <1>2, <1>3
<1>5. Extent(b) = b.at .. last
  <2>1. ASSUME NEW a \in Int PROVE a \in Extent(b) <=> a \in b.at .. last
    BY <1>1, <1>2, <1>4 DEF Extent, Covers
  <2>2. Extent(b) \subseteq Int /\ b.at .. last \subseteq Int
    BY <1>1 DEF Extent
  <2>3. QED
    BY <2>1, <2>2
<1>6. b.at \in Int /\ last \in Int /\ ~ (b.at > last) /\ last - b.at + 1 = b.size
  BY <1>1, <1>2
<1>7. IsFiniteSet(b.at .. last) /\ Cardinality(b.at .. last) = b.size
  <2> HIDE DEF last
  <2>1. QED
    BY <1>6, FS_Interval
<1>8. QED
  BY <1>1, <1>4, <1>5, <1>7

(* Bytes that go from one list to nobody's, or back, are counted once.      *)
LEMMA BytesMoved ==
    ASSUME NEW list, NEW r, NEW b \in Block, \A a \in Nat : Covers(b, a) => a < HeapSize,
           \A a \in Nat : CoveredBy(list, a) <=> CoveredBy(r, a) \/ Covers(b, a),
           \A a \in Nat : ~ (CoveredBy(r, a) /\ Covers(b, a))
    PROVE  Cardinality(BytesOf(list)) = Cardinality(BytesOf(r)) + b.size
<1>1. HeapSize \in Nat
  BY HeapAssumption
<1>2. 0 .. HeapSize - 1 \subseteq Nat /\ IsFiniteSet(0 .. HeapSize - 1)
  BY <1>1, FS_Interval
<1>3. IsFiniteSet(BytesOf(r)) /\ IsFiniteSet(Extent(b)) /\ Cardinality(Extent(b)) = b.size
  <2>1. BytesOf(r) \in SUBSET (0 .. HeapSize - 1)
    BY DEF BytesOf
  <2>2. QED
    BY <1>2, <2>1, FS_Subset, ExtentSize
<1>4. BytesOf(list) = BytesOf(r) \cup Extent(b) /\ BytesOf(r) \cap Extent(b) = {}
  BY <1>2 DEF BytesOf, Extent
<1>5. /\ Cardinality(BytesOf(r)) \in Nat /\ b.size \in Nat
      /\ Cardinality(BytesOf(r) \cap Extent(b)) = 0
  BY <1>3, <1>4, FS_EmptySet, FS_CardinalityType, BlockType
<1>6. Cardinality(BytesOf(r) \cup Extent(b)) = Cardinality(BytesOf(r)) + Cardinality(Extent(b)) - 0
  BY <1>3, <1>5, FS_Union
<1>7. QED
  BY <1>3, <1>4, <1>5, <1>6

LEMMA FreeBytesListed == freeList \in Seq(Block) => FreeBytes = BytesOf(freeList)
<1> SUFFICES ASSUME freeList \in Seq(Block) PROVE FreeBytes = BytesOf(freeList)
  OBVIOUS
<1>1. ToSet(freeList) = {freeList[i] : i \in 1 .. Len(freeList)}
  BY DEF ToSet
<1>2. \A a : (\E b \in ToSet(freeList) : Covers(b, a)) <=> CoveredBy(freeList, a)
  BY <1>1 DEF CoveredBy
<1>3. QED
  BY <1>2 DEF FreeBytes, BytesOf

(* What an allocation does: a block x changes hands.                        *)
Allocated(x, bytes) ==
    /\ x.size >= Header + bytes /\ lastRequest' = bytes
    /\ used' = used \cup {x} /\ wiping' = wiping
    /\ freeBytes' = freeBytes - x.size
    /\ minimumEver' = IF freeBytes' < minimumEver THEN freeBytes' ELSE minimumEver
    /\ freeList' \in Seq(Block) /\ Sorted(freeList')
    /\ \A a \in Nat : Covers(x, a) => CoveredBy(freeList, a)
    /\ \A a \in Nat : CoveredBy(freeList', a) <=> CoveredBy(freeList, a) /\ ~ Covers(x, a)
LEMMA MallocAllocates ==
    ASSUME freeList \in Seq(Block), Sorted(freeList), NEW bytes \in Requests, Malloc(bytes)
    PROVE  \E x \in Block : Allocated(x, bytes)
<1> DEFINE wanted == WantedSize(bytes)
<1>1. wanted \in Nat \ {0} /\ wanted >= Header + bytes
  BY Rounded
<1>2. PICK n \in 1 .. Len(freeList) :
        /\ Fits(n, wanted)
        /\ LET b == freeList[n]
               size == IF Splits(b.size, wanted) THEN wanted ELSE b.size
           IN  /\ freeList' = IF Splits(b.size, wanted)
                              THEN [freeList EXCEPT ![n] = [at |-> b.at + wanted, size |-> b.size - wanted]]
                              ELSE RemoveAt(freeList, n)
               /\ used' = used \cup {[at |-> b.at, size |-> size]}
               /\ freeBytes' = freeBytes - size
               /\ minimumEver' = IF freeBytes' < minimumEver THEN freeBytes' ELSE minimumEver
        /\ lastRequest' = bytes /\ UNCHANGED wiping
  BY DEF Malloc
<1>3. /\ freeList[n] \in Block /\ freeList[n].at \in Nat
      /\ freeList[n].size \in Nat /\ freeList[n].size > 0
  BY BlockType
<1>4. freeList[n].size >= wanted
  BY <1>2 DEF Fits
<1>5. bytes \in Nat /\ Header \in Nat \ {0}
  BY HeapAssumption
<1> HIDE DEF wanted
<1>6. CASE Splits(freeList[n].size, wanted)
  <2> DEFINE x == [at |-> freeList[n].at, size |-> wanted]
  <2>1. freeList[n].size > wanted
    <3>1. freeList[n].size - wanted > 2 * Header
      BY <1>6 DEF Splits
    <3>2. QED
      BY <1>1, <1>3, <1>5, <3>1
  <2>2. x \in Block
    BY <1>1, <1>3 DEF Block
  <2>3. freeList' = [freeList EXCEPT ![n] = [at |-> freeList[n].at + wanted, size |-> freeList[n].size - wanted]]
    BY <1>2, <1>6
  <2>4. /\ freeList' \in Seq(Block) /\ Sorted(freeList')
        /\ \A a \in Nat : CoveredBy(freeList', a) <=> CoveredBy(freeList, a) /\ ~ Covers(x, a)
        /\ \A a \in Nat : Covers(x, a) => CoveredBy(freeList, a)
    <3>1. x = FrontPart(freeList, n, wanted) /\ freeList' = Shortened(freeList, n, wanted)
      BY <2>3 DEF FrontPart, BackPart, Shortened
    <3> HIDE DEF x
    <3>2. QED
      BY <1>1, <2>1, <3>1, Split
  <2>5. /\ used' = used \cup {x} /\ wiping' = wiping /\ freeBytes' = freeBytes - x.size
        /\ minimumEver' = IF freeBytes' < minimumEver THEN freeBytes' ELSE minimumEver
        /\ x.size = wanted /\ lastRequest' = bytes
    BY <1>2, <1>6
  <2> HIDE DEF x
  <2>6. QED
    BY <1>1, <2>2, <2>4, <2>5 DEF Allocated
<1>7. CASE ~ Splits(freeList[n].size, wanted)
  <2> DEFINE x == freeList[n]
  <2>1. x = [at |-> freeList[n].at, size |-> freeList[n].size]
    BY <1>3 DEF Block
  <2>2. freeList' = RemoveAt(freeList, n)
    BY <1>2, <1>7
  <2>3. /\ freeList' \in Seq(Block) /\ Sorted(freeList')
        /\ \A a \in Nat : CoveredBy(freeList', a) <=> CoveredBy(freeList, a) /\ ~ Covers(x, a)
    BY <2>2, Taken
  <2>4. \A a \in Nat : Covers(x, a) => CoveredBy(freeList, a)
    BY DEF CoveredBy
  <2>5. /\ used' = used \cup {x} /\ wiping' = wiping /\ freeBytes' = freeBytes - x.size
        /\ minimumEver' = IF freeBytes' < minimumEver THEN freeBytes' ELSE minimumEver
        /\ lastRequest' = bytes
    BY <1>2, <1>7, <2>1
  <2>6. x.size >= Header + bytes
    BY <1>1, <1>3, <1>4, <1>5
  <2>7. QED
    BY <1>3, <2>3, <2>4, <2>5, <2>6 DEF Allocated
<1>8. QED
  BY <1>6, <1>7

(* Handed out is what is allocated or being wiped.                          *)
LEMMA HandedIs == \A b : b \in Handed <=> b \in used \/ \E t \in Tasks : b \in wiping[t]
BY DEF Handed

LEMMA HeapInitially == HeapInit => HeapInv
<1> SUFFICES ASSUME HeapInit PROVE HeapInv
  OBVIOUS
<1> USE DEF HeapInit
<1> DEFINE whole == [at |-> 0, size |-> HeapSize]
<1>1. HeapSize \in Nat \ {0} /\ whole \in Block
  BY HeapAssumption DEF Block
<1>2. freeList \in Seq(Block) /\ Len(freeList) = 1 /\ freeList[1] = whole
  BY <1>1
<1>3. HeapTypeOK
  BY <1>1, <1>2 DEF HeapTypeOK
<1>4. Sorted(freeList)
  BY <1>2 DEF Sorted
<1>5. \A a \in Nat : FreeAt(a) <=> a < HeapSize
  BY <1>1, <1>2 DEF FreeAt, CoveredBy, Covers
<1>6. Handed = {}
  BY DEF Handed
<1>7. EachOnce
  BY <1>5, <1>6 DEF EachOnce
<1>8. OneOwner
  BY DEF OneOwner
<1>9. FreeBytes = 0 .. HeapSize - 1
  <2>1. FreeBytes = BytesOf(freeList)
    BY <1>1, FreeBytesListed
  <2>2. ASSUME NEW a \in 0 .. HeapSize - 1 PROVE CoveredBy(freeList, a)
    BY <1>1, <1>5 DEF FreeAt
  <2>3. QED
    BY <2>1, <2>2 DEF BytesOf
<1>10. Cardinality(0 .. HeapSize - 1) = HeapSize
  BY <1>1, FS_Interval
<1>11. Counted
  BY <1>1, <1>9, <1>10 DEF Counted
<1>12. QED
  BY <1>3, <1>4, <1>7, <1>8, <1>11 DEF HeapInv

(* An allocation keeps the invariant, and hands out a block that nobody has. *)
LEMMA AllocationKeeps ==
    ASSUME HeapInv, NEW bytes \in Requests, Malloc(bytes)
    PROVE  HeapInv' /\ \E x \in Block : (Allocated(x, bytes) /\ Handed' = Handed \cup {x}
                                          /\ x.at + x.size <= HeapSize
                                          /\ \A c \in Handed : Promise!Disjoint(x, c))
<1> USE DEF HeapInv
<1>1. PICK x \in Block : Allocated(x, bytes)
  BY MallocAllocates DEF HeapTypeOK
<1> USE DEF Allocated
<1>2. x.size \in Nat /\ x.size > 0 /\ x.at \in Nat
  BY BlockType
<1>3. \A b : b \in Handed' <=> b \in Handed \/ b = x
  BY <1>1, HandedIs, HandedIs' DEF Handed
<1>4. \A a \in Nat : Covers(x, a) => FreeAt(a) /\ a < HeapSize
  BY <1>1 DEF FreeAt, EachOnce
<1>5. \A a \in Nat : FreeAt(a)' <=> FreeAt(a) /\ ~ Covers(x, a)
  BY <1>1 DEF FreeAt
<1>6. \A c \in Handed, a \in Nat : ~ (Covers(x, a) /\ Covers(c, a))
  BY <1>4 DEF EachOnce
<1>7. Covers(x, x.at)
  BY <1>2 DEF Covers
<1>8. x \notin Handed
  BY <1>2, <1>6, <1>7
<1>9. HeapTypeOK'
  BY <1>1, <1>2 DEF HeapTypeOK
<1>10. EachOnce'
  <2>1. \A a \in Nat : FreeAt(a)' => a < HeapSize
    BY <1>5 DEF EachOnce
  <2>2. \A b \in Handed', a \in Nat : Covers(b, a) => a < HeapSize /\ ~ FreeAt(a)'
    BY <1>3, <1>4, <1>5 DEF EachOnce
  <2>3. \A b, c \in Handed', a \in Nat : Covers(b, a) /\ Covers(c, a) => b = c
    BY <1>3, <1>6 DEF EachOnce
  <2>4. \A a \in Nat : a < HeapSize => FreeAt(a)' \/ \E b \in Handed' : Covers(b, a)
    BY <1>3, <1>5 DEF EachOnce
  <2>5. QED
    BY <2>1, <2>2, <2>3, <2>4 DEF EachOnce
<1>11. OneOwner'
  BY <1>1, <1>8, HandedIs DEF OneOwner
<1>12. Counted'
  <2>1. Cardinality(BytesOf(freeList)) = Cardinality(BytesOf(freeList')) + x.size
    <3>1. \A a \in Nat : CoveredBy(freeList, a) <=> CoveredBy(freeList', a) \/ Covers(x, a)
      BY <1>1
    <3>2. \A a \in Nat : ~ (CoveredBy(freeList', a) /\ Covers(x, a))
      BY <1>1
    <3>3. QED
      BY <1>4, <3>1, <3>2, BytesMoved
  <2>2. FreeBytes = BytesOf(freeList) /\ FreeBytes' = BytesOf(freeList')
    <3>1. freeList \in Seq(Block) /\ freeList' \in Seq(Block)
      BY <1>1 DEF HeapTypeOK
    <3>2. FreeBytes = BytesOf(freeList)
      BY <3>1, FreeBytesListed
    <3>3. (freeList \in Seq(Block) => FreeBytes = BytesOf(freeList))'
      BY FreeBytesListed, PTL
    <3>4. QED
      BY <3>1, <3>2, <3>3
  <2>3. IsFiniteSet(BytesOf(freeList')) /\ Cardinality(BytesOf(freeList')) \in Nat
    <3>1. HeapSize \in Nat /\ BytesOf(freeList') \in SUBSET (0 .. HeapSize - 1)
      BY HeapAssumption DEF BytesOf
    <3>2. IsFiniteSet(0 .. HeapSize - 1)
      BY <3>1, FS_Interval
    <3>3. QED
      BY <3>1, <3>2, FS_Subset, FS_CardinalityType
  <2>4. freeBytes' = freeBytes - x.size /\ freeBytes' = Cardinality(FreeBytes')
    BY <1>1, <1>2, <2>1, <2>2, <2>3 DEF Counted
  <2>5. minimumEver' <= freeBytes'
    BY <1>1, <1>9 DEF HeapTypeOK
  <2>6. QED
    BY <2>4, <2>5 DEF Counted
<1>13. x.at + x.size <= HeapSize
  BY <1>4, ExtentSize
<1>14. \A c \in Handed : Promise!Disjoint(x, c)
  <2>1. ASSUME NEW c \in Handed PROVE c \in Block
    BY HandedIs DEF HeapTypeOK
  <2>2. QED
    BY <1>6, <2>1, Apart
<1>15. Handed' = Handed \cup {x}
  BY <1>3
<1>16. QED
  BY <1>1, <1>9, <1>10, <1>11, <1>12, <1>13, <1>14, <1>15

(* While a block is wiped it stays in the hands of who frees it.            *)
LEMMA WipeKeeps ==
    ASSUME HeapInv, NEW t \in Tasks, NEW b \in used, Wipe(t, b)
    PROVE  HeapInv' /\ Handed' = Handed /\ lastRequest' = lastRequest
<1> USE DEF HeapInv, Wipe
<1>1. wiping' = [wiping EXCEPT ![t] = {b}] /\ wiping[t] = {} /\ wiping \in [Tasks -> SUBSET Block]
  BY DEF HeapTypeOK
<1>2. wiping'[t] = {b} /\ \A u \in Tasks : u # t => wiping'[u] = wiping[u]
  BY <1>1
<1>3. \A c : c \in Handed' <=> c \in Handed
  <2>1. \A c : c \in Handed' <=> c \in used' \/ \E u \in Tasks : c \in wiping'[u]
    BY DEF Handed
  <2>2. QED
    BY <1>1, <1>2, <2>1, HandedIs
<1>4. Handed' = Handed
  BY <1>3
<1>5. HeapTypeOK'
  BY <1>1 DEF HeapTypeOK
<1>6. EachOnce'
  BY <1>4 DEF EachOnce, FreeAt
<1>7. OneOwner'
  <2>1. \A u \in Tasks : b \notin wiping[u]
    BY DEF OneOwner
  <2>2. QED
    BY <1>2, <2>1 DEF OneOwner
<1>8. Counted'
  BY DEF Counted, FreeBytes
<1>9. QED
  BY <1>4, <1>5, <1>6, <1>7, <1>8

(* A block that goes back to the list is nobody's.                          *)
LEMMA LinkKeeps ==
    ASSUME HeapInv, NEW t \in Tasks, Link(t)
    PROVE  HeapInv' /\ lastRequest' = lastRequest /\ \E b \in Handed : Handed' = Handed \ {b}
<1> USE DEF HeapInv
<1>1. PICK b \in wiping[t] :
        /\ freeList' = Inserted(freeList, b) /\ freeBytes' = freeBytes + b.size
        /\ wiping' = [wiping EXCEPT ![t] = {}]
        /\ used' = used /\ minimumEver' = minimumEver /\ lastRequest' = lastRequest
  BY DEF Link
<1>2. /\ wiping \in [Tasks -> SUBSET Block] /\ b \in Block /\ b \in Handed
      /\ b.size \in Nat /\ b.size > 0
  <2>1. wiping \in [Tasks -> SUBSET Block] /\ b \in Block
    BY DEF HeapTypeOK
  <2>2. QED
    BY <2>1, BlockType, HandedIs
<1>3. wiping'[t] = {} /\ \A u \in Tasks : u # t => wiping'[u] = wiping[u]
  BY <1>1, <1>2
<1>4. wiping[t] = {b} /\ b \notin used /\ \A u \in Tasks : u # t => b \notin wiping[u]
  BY DEF OneOwner
<1>5. \A c : c \in Handed' <=> c \in Handed /\ c # b
  <2>1. \A c : c \in Handed' <=> c \in used' \/ \E u \in Tasks : c \in wiping'[u]
    BY DEF Handed
  <2>2. QED
    BY <1>1, <1>3, <1>4, <2>1, HandedIs
<1>6. /\ freeList' \in Seq(Block) /\ Sorted(freeList')
      /\ \A a \in Nat : CoveredBy(freeList', a) <=> Covers(b, a) \/ CoveredBy(freeList, a)
  <2>1. \A a \in Nat : Covers(b, a) => ~ CoveredBy(freeList, a)
    BY <1>2 DEF EachOnce, FreeAt
  <2>2. freeList \in Seq(Block)
    BY DEF HeapTypeOK
  <2>3. QED
    BY <1>1, <1>2, <2>1, <2>2, InsertedSorted
<1>7. HeapTypeOK'
  BY <1>1, <1>2, <1>6 DEF HeapTypeOK
<1>8. \A a \in Nat : FreeAt(a)' <=> FreeAt(a) \/ Covers(b, a)
  BY <1>6 DEF FreeAt
<1>9. EachOnce'
  <2>1. \A a \in Nat : FreeAt(a)' => a < HeapSize
    BY <1>2, <1>8 DEF EachOnce
  <2>2. \A c \in Handed', a \in Nat : Covers(c, a) => a < HeapSize /\ ~ FreeAt(a)'
    BY <1>2, <1>5, <1>8 DEF EachOnce
  <2>3. \A c, d \in Handed', a \in Nat : Covers(c, a) /\ Covers(d, a) => c = d
    BY <1>5 DEF EachOnce
  <2>4. \A a \in Nat : a < HeapSize => FreeAt(a)' \/ \E c \in Handed' : Covers(c, a)
    BY <1>5, <1>8 DEF EachOnce
  <2>5. QED
    BY <2>1, <2>2, <2>3, <2>4 DEF EachOnce
<1>10. OneOwner'
  BY <1>1, <1>3 DEF OneOwner
<1>11. Counted'
  <2>1. Cardinality(BytesOf(freeList')) = Cardinality(BytesOf(freeList)) + b.size
    <3>1. \A a \in Nat : Covers(b, a) => a < HeapSize
      BY <1>2 DEF EachOnce
    <3>2. \A a \in Nat : CoveredBy(freeList', a) <=> CoveredBy(freeList, a) \/ Covers(b, a)
      BY <1>6
    <3>3. \A a \in Nat : ~ (CoveredBy(freeList, a) /\ Covers(b, a))
      BY <1>2 DEF EachOnce, FreeAt
    <3>4. QED
      BY <1>2, <3>1, <3>2, <3>3, BytesMoved
  <2>2. FreeBytes = BytesOf(freeList) /\ FreeBytes' = BytesOf(freeList')
    <3>1. freeList \in Seq(Block) /\ freeList' \in Seq(Block)
      BY <1>6 DEF HeapTypeOK
    <3>2. FreeBytes = BytesOf(freeList)
      BY <3>1, FreeBytesListed
    <3>3. (freeList \in Seq(Block) => FreeBytes = BytesOf(freeList))'
      BY FreeBytesListed, PTL
    <3>4. QED
      BY <3>1, <3>2, <3>3
  <2>3. freeBytes' = Cardinality(FreeBytes')
    BY <1>1, <2>1, <2>2 DEF Counted
  <2>4. minimumEver' <= freeBytes'
    BY <1>1, <1>2 DEF Counted, HeapTypeOK
  <2>5. QED
    BY <2>3, <2>4 DEF Counted
<1>12. Handed' = Handed \ {b}
  BY <1>5
<1>13. QED
  BY <1>1, <1>2, <1>6, <1>7, <1>9, <1>10, <1>11, <1>12

(* The heap keeps its invariant, for every size and any number of threads.  *)
THEOREM HeapInvariant == HeapSpec => []HeapInv
<1>1. HeapInv /\ [HeapNext]_heapVars => HeapInv'
  <2> SUFFICES ASSUME HeapInv, [HeapNext]_heapVars PROVE HeapInv'
    OBVIOUS
  <2>1. CASE \E bytes \in Requests : Malloc(bytes)
    BY <2>1, AllocationKeeps
  <2>2. CASE \E t \in Tasks : \E b \in used : Wipe(t, b)
    BY <2>2, WipeKeeps
  <2>3. CASE \E t \in Tasks : Link(t)
    BY <2>3, LinkKeeps
  <2>4. CASE UNCHANGED heapVars
    BY <2>4 DEF HeapInv, heapVars, HeapTypeOK, Sorted, EachOnce, OneOwner, Counted, Handed,
                FreeAt, FreeBytes
  <2>5. QED
    BY <2>1, <2>2, <2>3, <2>4 DEF HeapNext
<1>2. QED
  BY <1>1, HeapInitially, PTL DEF HeapSpec

(* The free list is ordered and merged, every byte is free or in exactly    *)
(* one block, and the counters agree with the list.                         *)
THEOREM HeapAlwaysWellFormed == HeapSpec => []HeapWellFormed
<1>1. HeapInv => HeapWellFormed
  <2> SUFFICES ASSUME HeapInv PROVE HeapWellFormed
    OBVIOUS
  <2> USE DEF HeapInv
  <2>1. Ordered
    BY DEF Ordered, Sorted, Ahead
  <2>2. freeList \in Seq(Block) /\ HeapSize \in Nat
    BY HeapAssumption DEF HeapTypeOK
  <2>3. \A b : b \in ToSet(freeList) <=> \E i \in 1 .. Len(freeList) : b = freeList[i]
    BY DEF ToSet
  <2>4. ASSUME NEW a \in 0 .. HeapSize - 1
        PROVE  /\ \E b \in Handed \cup ToSet(freeList) : Covers(b, a)
               /\ \A b, c \in Handed \cup ToSet(freeList) :
                     Covers(b, a) /\ Covers(c, a) => b = c
    <3>1. a \in Nat /\ a < HeapSize
      BY <2>2
    <3>2. FreeAt(a) <=> \E b \in ToSet(freeList) : Covers(b, a)
      BY <2>3 DEF FreeAt, CoveredBy
    <3>3. \E b \in Handed \cup ToSet(freeList) : Covers(b, a)
      BY <3>1, <3>2 DEF EachOnce
    <3>4. ASSUME NEW b \in ToSet(freeList), NEW c \in ToSet(freeList), Covers(b, a), Covers(c, a)
          PROVE  b = c
      BY <2>2, <2>3, <3>1, <3>4, SortedApart
    <3>5. QED
      BY <3>1, <3>2, <3>3, <3>4 DEF EachOnce
  <2>5. Tiled
    BY <2>4 DEF Tiled
  <2>6. QED
    BY <2>1, <2>5 DEF HeapWellFormed
<1>2. QED
  BY <1>1, HeapInvariant, PTL

(* The heap is the allocator of Allocator.tla: what it hands out is in the  *)
(* heap, large enough and nobody else's.  To be freed a block is first      *)
(* wiped by its owner, which is no step of the promise, and then taken back. *)
THEOREM HeapIsAllocator == HeapSpec => ImplementsAllocator
<1>1. HeapInit => Promise!AllocatorInit
  BY DEF HeapInit, Promise!AllocatorInit, Handed
<1>2. HeapInv /\ [HeapNext]_heapVars => [Promise!AllocatorNext]_<<Handed, lastRequest>>
  <2> SUFFICES ASSUME HeapInv, [HeapNext]_heapVars
               PROVE  [Promise!AllocatorNext]_<<Handed, lastRequest>>
    OBVIOUS
  <2>1. ASSUME NEW bytes \in Requests, Malloc(bytes) PROVE Promise!AllocatorNext
    <3>1. PICK x \in Block : /\ Allocated(x, bytes) /\ Handed' = Handed \cup {x}
                             /\ x.at + x.size <= HeapSize
                             /\ \A c \in Handed : Promise!Disjoint(x, c)
      BY <2>1, AllocationKeeps
    <3>2. x.at \in Nat /\ x.size >= Header + bytes /\ lastRequest' = bytes
      BY <3>1, BlockType DEF Allocated
    <3>3. Promise!Give(x) /\ x \in Handed'
      BY <3>1, <3>2 DEF Promise!Give
    <3>4. QED
      BY <3>3 DEF Promise!AllocatorNext
  <2>2. ASSUME NEW t \in Tasks, NEW b \in used, Wipe(t, b) PROVE UNCHANGED <<Handed, lastRequest>>
    BY <2>2, WipeKeeps
  <2>3. ASSUME NEW t \in Tasks, Link(t) PROVE Promise!AllocatorNext
    BY <2>3, LinkKeeps DEF Promise!AllocatorNext, Promise!TakeBack
  <2>4. CASE UNCHANGED heapVars
    BY <2>4 DEF heapVars, Handed
  <2>5. QED
    BY <2>1, <2>2, <2>3, <2>4 DEF HeapNext
<1>3. QED
  BY <1>1, <1>2, HeapInvariant, PTL DEF HeapSpec, ImplementsAllocator, Promise!AllocatorSpec
=============================================================================
