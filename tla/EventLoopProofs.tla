-------------------------- MODULE EventLoopProofs ---------------------------
(***************************************************************************)
(* For any objects, capacities, subscriptions and puts: the loop uses no   *)
(* freed item, loses no event and does not sleep on work.                  *)
(***************************************************************************)
EXTENDS EventLoop, SequenceTheorems, TLAPS

Distinct(q) == \A m, n \in 1 .. Len(q) : q[m] = q[n] => m = n

(* What the waiting list holds after an item was linked, unlinked, popped.  *)
LEMMA LinkedMembers ==
    ASSUME waiting \in Seq(Items), Distinct(waiting), NEW i \in Items
    PROVE  /\ Queued(i) \in Seq(Items) /\ Distinct(Queued(i))
           /\ \A j : j \in ToSet(Queued(i)) <=> j \in ToSet(waiting) \/ j = i
<1>1. CASE i \in ToSet(waiting)
  BY <1>1 DEF Queued
<1>2. CASE i \notin ToSet(waiting)
  <2> DEFINE q == Append(waiting, i)
  <2>1. /\ q \in Seq(Items) /\ Len(q) = Len(waiting) + 1 /\ q[Len(waiting) + 1] = i
        /\ DOMAIN q = 1 .. Len(waiting) + 1 /\ DOMAIN waiting = 1 .. Len(waiting)
        /\ Len(waiting) \in Nat
        /\ \A n \in 1 .. Len(waiting) : q[n] = waiting[n]
    OBVIOUS
  <2>2. \A n \in 1 .. Len(waiting) : waiting[n] # i
    BY <1>2, <2>1 DEF ToSet
  <2> HIDE DEF q
  <2>3. Distinct(q)
    BY <2>1, <2>2 DEF Distinct
  <2>4. \A j : j \in ToSet(q) <=> j \in ToSet(waiting) \/ j = i
    BY <2>1 DEF ToSet
  <2>5. Queued(i) = q
    BY <1>2 DEF Queued, q
  <2>6. QED
    BY <2>1, <2>3, <2>4, <2>5
<1>3. QED
  BY <1>1, <1>2

(* A sequence without its element k.                                        *)
LEMMA RemovedAt ==
    ASSUME NEW S, NEW s \in Seq(S), NEW l \in Nat, Len(s) = l, NEW k \in 1 .. l
    PROVE  /\ RemoveAt(s, k) \in Seq(S) /\ Len(RemoveAt(s, k)) = l - 1
           /\ \A n \in 1 .. l - 1 : RemoveAt(s, k)[n] = IF n < k THEN s[n] ELSE s[n + 1]
<1> DEFINE a == SubSeq(s, 1, k - 1)
           b == SubSeq(s, k + 1, l)
           q == RemoveAt(s, k)
<1>1. \A n \in 1 .. l : s[n] \in S
  OBVIOUS
<1>2. a \in Seq(S) /\ Len(a) = k - 1 /\ \A n \in 1 .. k - 1 : a[n] = s[n]
  BY <1>1, SubSeqProperties
<1>3. b \in Seq(S) /\ Len(b) = l - k /\ \A n \in 1 .. l - k : b[n] = s[k + n]
  <2>1. k + 1 \in Int /\ l \in Int /\ \A n \in k + 1 .. l : s[n] \in S
    BY <1>1
  <2>2. /\ b \in Seq(S) /\ Len(b) = IF k + 1 <= l THEN l - (k + 1) + 1 ELSE 0
        /\ \A n \in 1 .. l - (k + 1) + 1 : b[n] = s[(k + 1) + n - 1]
    BY <2>1, SubSeqProperties
  <2> HIDE DEF b
  <2>3. Len(b) = l - k
    BY <2>2
  <2>4. ASSUME NEW n \in 1 .. l - k PROVE b[n] = s[k + n]
    <3>1. n \in 1 .. l - (k + 1) + 1 /\ (k + 1) + n - 1 = k + n
      OBVIOUS
    <3>2. QED
      BY <2>2, <3>1
  <2>5. QED
    BY <2>2, <2>3, <2>4
<1>4. q = a \o b
  BY DEF RemoveAt
<1> HIDE DEF a, b, q
<1>5. /\ q \in Seq(S) /\ Len(q) = Len(a) + Len(b)
      /\ \A n \in 1 .. Len(a) + Len(b) : q[n] = IF n <= Len(a) THEN a[n] ELSE b[n - Len(a)]
  BY <1>2, <1>3, <1>4, ConcatProperties
<1>6. Len(q) = l - 1
  BY <1>2, <1>3, <1>5
<1>7. ASSUME NEW n \in 1 .. l - 1 PROVE q[n] = IF n < k THEN s[n] ELSE s[n + 1]
  <2>1. CASE n < k
    BY <1>2, <1>3, <1>5, <2>1
  <2>2. CASE n >= k
    <3>1. n - (k - 1) \in 1 .. l - k /\ k + (n - (k - 1)) = n + 1
      BY <2>2
    <3>2. q[n] = b[n - (k - 1)]
      BY <1>2, <1>3, <1>5, <2>2
    <3>3. QED
      BY <1>3, <2>2, <3>1, <3>2
  <2>3. QED
    BY <2>1, <2>2
<1>8. QED
  BY <1>5, <1>6, <1>7 DEF q

LEMMA RemovedMembers ==
    ASSUME NEW S, NEW s \in Seq(S), NEW l \in Nat, Len(s) = l, NEW k \in 1 .. l, Distinct(s)
    PROVE  /\ RemoveAt(s, k) \in Seq(S) /\ Distinct(RemoveAt(s, k))
           /\ \A j : j \in ToSet(RemoveAt(s, k)) <=> j \in ToSet(s) /\ j # s[k]
<1> DEFINE q == RemoveAt(s, k)
<1> HIDE DEF q
<1>1. /\ q \in Seq(S) /\ Len(q) = l - 1
      /\ \A n \in 1 .. l - 1 : q[n] = IF n < k THEN s[n] ELSE s[n + 1]
  <2>1. Len(s) = l /\ k \in 1 .. l /\ l \in Nat
    OBVIOUS
  <2>2. /\ RemoveAt(s, k) \in Seq(S) /\ Len(RemoveAt(s, k)) = l - 1
        /\ \A n \in 1 .. l - 1 : RemoveAt(s, k)[n] = IF n < k THEN s[n] ELSE s[n + 1]
    BY <2>1, RemovedAt
  <2>3. QED
    BY <2>2 DEF q
<1>2. DOMAIN q = 1 .. l - 1 /\ DOMAIN s = 1 .. l
  BY <1>1
<1>3. \A m, n \in 1 .. l : s[m] = s[n] => m = n
  BY DEF Distinct
<1>4. ASSUME NEW m \in 1 .. l - 1, NEW n \in 1 .. l - 1, q[m] = q[n] PROVE m = n
  BY <1>1, <1>3, <1>4
<1>5. ASSUME NEW j, j \in ToSet(q) PROVE j \in ToSet(s) /\ j # s[k]
  <2>1. PICK n \in 1 .. l - 1 : q[n] = j
    BY <1>2, <1>5 DEF ToSet
  <2>2. PICK m \in 1 .. l : s[m] = j /\ m # k
    <3>1. CASE n < k
      BY <1>1, <2>1, <3>1
    <3>2. CASE n >= k
      <4>1. n + 1 \in 1 .. l /\ n + 1 # k /\ s[n + 1] = j
        BY <1>1, <2>1, <3>2
      <4>2. QED
        BY <4>1
    <3>3. QED
      BY <3>1, <3>2
  <2>3. QED
    BY <1>2, <1>3, <2>2 DEF ToSet
<1>6. ASSUME NEW j, j \in ToSet(s), j # s[k] PROVE j \in ToSet(q)
  <2>1. PICK m \in 1 .. l : s[m] = j /\ m # k
    BY <1>2, <1>6 DEF ToSet
  <2>2. PICK n \in 1 .. l - 1 : q[n] = j
    <3>1. CASE m < k
      BY <1>1, <2>1, <3>1
    <3>2. CASE m > k
      <4>1. m - 1 \in 1 .. l - 1 /\ ~ (m - 1 < k) /\ (m - 1) + 1 = m
        BY <3>2
      <4>2. q[m - 1] = j
        BY <1>1, <2>1, <4>1
      <4>3. QED
        BY <4>1, <4>2
    <3>3. QED
      BY <2>1, <3>1, <3>2
  <2>3. QED
    BY <1>2, <2>2 DEF ToSet
<1>7. Distinct(q)
  BY <1>1, <1>4 DEF Distinct
<1>8. QED
  BY <1>1, <1>5, <1>6, <1>7 DEF q

LEMMA UnlinkedMembers ==
    ASSUME waiting \in Seq(Items), Distinct(waiting), NEW i \in Items
    PROVE  /\ Unlinked(i) \in Seq(Items) /\ Distinct(Unlinked(i))
           /\ \A j : j \in ToSet(Unlinked(i)) <=> j \in ToSet(waiting) /\ j # i
<1>1. CASE i \notin ToSet(waiting)
  BY <1>1 DEF Unlinked
<1>2. CASE i \in ToSet(waiting)
  <2> DEFINE k == CHOOSE n \in 1 .. Len(waiting) : waiting[n] = i
  <2>1. \E n \in 1 .. Len(waiting) : waiting[n] = i
    BY <1>2 DEF ToSet
  <2>2. k \in 1 .. Len(waiting) /\ waiting[k] = i
    BY <2>1
  <2>3. Unlinked(i) = RemoveAt(waiting, k)
    BY <1>2 DEF Unlinked
  <2> HIDE DEF k
  <2>4. Len(waiting) \in Nat
    OBVIOUS
  <2>5. QED
    BY <2>2, <2>3, <2>4, RemovedMembers
<1>3. QED
  BY <1>1, <1>2

LEMMA PoppedMembers ==
    ASSUME waiting \in Seq(Items), Distinct(waiting), waiting # <<>>
    PROVE  /\ Head(waiting) \in Items /\ Head(waiting) \in ToSet(waiting)
           /\ Tail(waiting) \in Seq(Items) /\ Distinct(Tail(waiting))
           /\ \A j : j \in ToSet(waiting) <=> j \in ToSet(Tail(waiting)) \/ j = Head(waiting)
<1> DEFINE q == Tail(waiting)
<1>1. /\ q \in Seq(Items) /\ Len(waiting) \in Nat \ {0} /\ Len(q) = Len(waiting) - 1
      /\ Head(waiting) = waiting[1] /\ waiting[1] \in Items
      /\ DOMAIN q = 1 .. Len(waiting) - 1 /\ DOMAIN waiting = 1 .. Len(waiting)
      /\ \A n \in 1 .. Len(waiting) - 1 : q[n] = waiting[n + 1]
  OBVIOUS
<1> HIDE DEF q
<1>2. Distinct(q)
  BY <1>1 DEF Distinct
<1>3. Head(waiting) \in ToSet(waiting)
  BY <1>1 DEF ToSet
<1>4. ASSUME NEW j, j \in ToSet(waiting), j # Head(waiting) PROVE j \in ToSet(q)
  <2>1. PICK n \in 1 .. Len(waiting) : waiting[n] = j
    BY <1>1, <1>4 DEF ToSet
  <2>2. n - 1 \in 1 .. Len(waiting) - 1 /\ q[n - 1] = j
    BY <1>1, <1>4, <2>1
  <2>3. QED
    BY <1>1, <2>2 DEF ToSet
<1>5. ASSUME NEW j, j \in ToSet(q) PROVE j \in ToSet(waiting)
  <2>1. PICK n \in 1 .. Len(waiting) - 1 : q[n] = j
    BY <1>1, <1>5 DEF ToSet
  <2>2. n + 1 \in 1 .. Len(waiting) /\ waiting[n + 1] = j
    BY <1>1, <2>1
  <2>3. QED
    BY <1>1, <2>2 DEF ToSet
<1>6. QED
  BY <1>1, <1>2, <1>3, <1>4, <1>5 DEF q

(* What bit is handled: one of those that are set, and none before it.      *)
LEMMA ChosenFirst ==
    ASSUME notified \subseteq Flags, notified # {}
    PROVE  /\ Chosen \in notified
           /\ Chosen # "Stop" => "Stop" \notin notified
           /\ Chosen \in {"Timer", "Pending", "ThreadFlag"} => "Event" \notin notified
           /\ Chosen \in {"Pending", "ThreadFlag"} => "Timer" \notin notified
           /\ Chosen = "ThreadFlag" => "Pending" \notin notified
<1> DEFINE order == <<"Stop", "Event", "Timer", "Pending", "ThreadFlag">>
           First(n) == order[n] \in notified /\ \A m \in 1 .. n - 1 : order[m] \notin notified
           first == CHOOSE n \in 1 .. 5 : First(n)
<1>1. /\ order[1] = "Stop" /\ order[2] = "Event" /\ order[3] = "Timer"
      /\ order[4] = "Pending" /\ order[5] = "ThreadFlag"
  OBVIOUS
<1> HIDE DEF order
<1>2. \E n \in 1 .. 5 : First(n)
  <2>1. CASE "Stop" \in notified
    BY <1>1, <2>1
  <2>2. CASE "Stop" \notin notified /\ "Event" \in notified
    BY <1>1, <2>2
  <2>3. CASE notified \cap {"Stop", "Event"} = {} /\ "Timer" \in notified
    BY <1>1, <2>3
  <2>4. CASE notified \cap {"Stop", "Event", "Timer"} = {} /\ "Pending" \in notified
    BY <1>1, <2>4
  <2>5. CASE notified = {"ThreadFlag"}
    BY <1>1, <2>5
  <2>6. QED
    BY <2>1, <2>2, <2>3, <2>4, <2>5 DEF Flags
<1>3. PICK n \in 1 .. 5 : n = first /\ First(n)
  BY <1>2
<1>4. Chosen = order[n]
  BY <1>3 DEF Chosen, order
<1>5. QED
  BY <1>1, <1>3, <1>4

-----------------------------------------------------------------------------
(* The types in groups that actions leave alone together, and what is used: *)
(* an item that waits, is in the tree or is at hand was subscribed once.    *)
QueueTypes ==
    /\ level \in [Objects -> Nat] /\ \A o \in Objects : level[o] <= Capacity[o]
    /\ storing \in [Objects -> 0 .. Producers]
ItemTypes ==
    /\ item \in [Objects -> Items \cup {NoItem}] /\ object \in [Items -> Objects \cup {"none"}]
    /\ fate \in [Items -> {"unused", "owned", "orphan", "freed"}]
WaitingTypes == waiting \in Seq(Items) /\ Distinct(waiting) /\ notified \subseteq Flags
LoopTypes ==
    /\ pc \in {"stopped", "wait", "event", "check", "callback", "sync", "flag", "pending", "call",
               "crashed"}
    /\ flags \subseteq Flags /\ current \in Items \cup {NoItem} /\ runs \in 0 .. MaxRuns
CountTypes ==
    /\ pending \in 0 .. MaxPends /\ commands \in 0 .. MaxCommands
    /\ served \in 0 .. commands
SeenTypes == unseen \subseteq Objects
Used ==
    /\ \A i \in Items : fate[i] # "unused" => object[i] \in Objects
    /\ \A i \in ToSet(waiting) : fate[i] # "unused"
    /\ \A o \in Objects : item[o] # NoItem => fate[item[o]] # "unused"
    /\ pc \in {"check", "callback"} => current \in Items /\ fate[current] # "unused"
    /\ pc = "call" => pending > 0
TypeInv ==
    QueueTypes /\ ItemTypes /\ WaitingTypes /\ LoopTypes /\ CountTypes /\ SeenTypes /\ Used

LEMMA TypeInvImpliesTypeOK == TypeInv => TypeOK
BY DEF TypeInv, QueueTypes, ItemTypes, WaitingTypes, LoopTypes, CountTypes, SeenTypes, TypeOK

(* What a step does to the waiting list, in a form that is used by all the  *)
(* invariants: it is a sequence of different items again.                   *)
LEMMA WaitingMembers ==
    ASSUME WaitingTypes
    PROVE  /\ \A i \in ToSet(waiting) : i \in Items
           /\ \A i \in Items : /\ Queued(i) \in Seq(Items) /\ Distinct(Queued(i))
                               /\ \A j : j \in ToSet(Queued(i)) <=> j \in ToSet(waiting) \/ j = i
                               /\ Unlinked(i) \in Seq(Items) /\ Distinct(Unlinked(i))
                               /\ \A j : j \in ToSet(Unlinked(i)) <=> j \in ToSet(waiting) /\ j # i
<1>1. \A i \in ToSet(waiting) : i \in Items
  BY DEF WaitingTypes, ToSet
<1>2. QED
  BY <1>1, LinkedMembers, UnlinkedMembers DEF WaitingTypes

(* Forgetting an item takes nothing but itself out of the tree.             *)
LEMMA ForgetTypes ==
    ASSUME ItemTypes, Used, NEW o \in Objects, NEW c, Forget(o, c)
    PROVE  /\ item' \in [Objects -> Items \cup {NoItem}]
           /\ fate' \in [Items -> {"unused", "owned", "orphan", "freed"}]
           /\ \A j \in Items : fate'[j] = "unused" <=> fate[j] = "unused"
           /\ \A p \in Objects : item'[p] # NoItem => item'[p] = item[p]
<1>1. /\ item' \in [Objects -> Items \cup {NoItem}]
      /\ \A p \in Objects : item'[p] # NoItem => item'[p] = item[p]
  BY DEF Forget, ItemTypes
<1>2. /\ fate' \in [Items -> {"unused", "owned", "orphan", "freed"}]
      /\ \A j \in Items : fate'[j] = IF j = item[o]
                                   THEN IF item[o] = c THEN "orphan" ELSE "freed" ELSE fate[j]
  BY DEF Forget, ItemTypes
<1>3. 0 \notin Items
  BY EventLoopAssumption DEF Items, EventLoopAssumption
<1>4. QED
  BY <1>1, <1>2, <1>3 DEF Used, NoItem

(* Every variable keeps its type, for any constants.                        *)
THEOREM EventLoopTypeCorrect == Spec => []TypeInv
<1> USE EventLoopAssumption DEF EventLoopAssumption
<1>1. Init => TypeInv
  <2> SUFFICES ASSUME Init PROVE TypeInv
    OBVIOUS
  <2>1. \A o \in Objects : Capacity[o] \in Nat
    OBVIOUS
  <2>2. QueueTypes /\ ItemTypes /\ LoopTypes /\ CountTypes /\ SeenTypes
    BY <2>1 DEF Init, QueueTypes, ItemTypes, LoopTypes, CountTypes, SeenTypes, NoItem, Items
  <2>3. WaitingTypes /\ ToSet(waiting) = {}
    BY DEF Init, WaitingTypes, Distinct, ToSet
  <2>4. Used
    BY <2>3 DEF Init, Used
  <2>5. QED
    BY <2>2, <2>3, <2>4 DEF TypeInv
<1>2. TypeInv /\ [Next]_vars => TypeInv'
  <2> SUFFICES ASSUME TypeInv, [Next]_vars PROVE TypeInv'
    OBVIOUS
  <2> USE DEF TypeInv, queues, items, counts, loop
  <2>1. /\ UNCHANGED queues => QueueTypes'
        /\ UNCHANGED items => ItemTypes'
        /\ UNCHANGED <<waiting, notified>> => WaitingTypes'
        /\ UNCHANGED loop => LoopTypes'
        /\ UNCHANGED counts => CountTypes'
        /\ UNCHANGED unseen => SeenTypes'
        /\ UNCHANGED <<items, waiting, loop, counts>> => Used'
    BY DEF QueueTypes, ItemTypes, WaitingTypes, LoopTypes, CountTypes, SeenTypes, Used
  <2>2. /\ \A i \in ToSet(waiting) : i \in Items
        /\ \A i \in Items : /\ Queued(i) \in Seq(Items) /\ Distinct(Queued(i))
                            /\ \A j : j \in ToSet(Queued(i)) <=> j \in ToSet(waiting) \/ j = i
                            /\ Unlinked(i) \in Seq(Items) /\ Distinct(Unlinked(i))
                            /\ \A j : j \in ToSet(Unlinked(i)) <=> j \in ToSet(waiting) /\ j # i
    BY WaitingMembers
  <2>3. ASSUME UNCHANGED waiting, notified' \subseteq Flags PROVE WaitingTypes'
    BY <2>3 DEF WaitingTypes
  <2>4. ASSUME NEW i \in Items, ItemNotify(i) PROVE WaitingTypes'
    BY <2>2, <2>4 DEF ItemNotify, WaitingTypes, Flags
  <2>5. CASE Run
    <3>1. LoopTypes'
      BY <2>5, <2>2 DEF Run, LoopTypes
    <3>2. Used'
      BY <2>5, <2>2 DEF Run, Used
    <3>3. QED
      BY <2>1, <2>5, <3>1, <3>2 DEF Run
  <2>6. CASE Wait
    <3> DEFINE f == Chosen
    <3>a. f \in Flags /\ notified \subseteq Flags
      BY <2>6, ChosenFirst DEF Wait, WaitingTypes
    <3>b. /\ f = "Stop" => pc' = "stopped"
          /\ f = "Event" => pc' = "event"
          /\ f = "Timer" => pc' = "wait"
          /\ f = "Pending" => pc' = "pending"
          /\ f = "ThreadFlag" => pc' = "flag"
      BY <2>6 DEF Wait
    <3>c. flags' \subseteq Flags /\ notified' \subseteq Flags
      BY <2>6, <3>a DEF Wait, Restored
    <3>d. UNCHANGED <<queues, items, waiting, current, runs, pending, commands, unseen>>
      BY <2>6 DEF Wait
    <3>e. pc' \in {"stopped", "event", "wait", "pending", "flag"}
      BY <3>a, <3>b, Zenon DEF Flags
    <3>1. WaitingTypes'
      BY <2>3, <3>c, <3>d
    <3>2. LoopTypes'
      BY <3>c, <3>d, <3>e DEF LoopTypes
    <3>3. CountTypes'
      BY <2>6, <2>2 DEF Wait, CountTypes
    <3>4. SeenTypes'
      BY <2>6, <2>2 DEF Wait, SeenTypes
    <3>5. Used'
      BY <3>d, <3>e DEF Used
    <3>6. QED
      BY <2>1, <2>6, <3>1, <3>2, <3>3, <3>4, <3>5 DEF Wait
  <2>7. CASE PopWaiting
    <3>a. PICK i \in Items : /\ i = Head(waiting) /\ i \in ToSet(waiting)
                             /\ Tail(waiting) \in Seq(Items) /\ Distinct(Tail(waiting))
                             /\ \A j \in ToSet(Tail(waiting)) : j \in ToSet(waiting)
      BY <2>7, PoppedMembers DEF PopWaiting, WaitingTypes
    <3>b. PICK o \in Objects : o = object[i] /\ fate[i] # "unused"
      BY <3>a DEF Used
    <3>c. /\ current' = i /\ waiting' = Tail(waiting) /\ pc' = "check"
          /\ UNCHANGED <<queues, object, notified, flags, runs, counts, unseen>>
      BY <2>7, <3>a DEF PopWaiting
    <3>d. Forget(o, NoItem) \/ UNCHANGED <<item, fate>>
      BY <2>7, <3>a, <3>b DEF PopWaiting
    <3>e. /\ item' \in [Objects -> Items \cup {NoItem}]
          /\ fate' \in [Items -> {"unused", "owned", "orphan", "freed"}]
          /\ \A j \in Items : fate'[j] = "unused" <=> fate[j] = "unused"
          /\ \A p \in Objects : item'[p] # NoItem => item'[p] = item[p]
      BY <3>d, ForgetTypes DEF ItemTypes
    <3>1. ItemTypes'
      BY <3>c, <3>e DEF ItemTypes
    <3>2. WaitingTypes'
      BY <3>a, <3>c DEF WaitingTypes
    <3>3. LoopTypes'
      BY <3>c DEF LoopTypes
    <3>4. Used'
      <4>1. \A j \in Items : fate'[j] # "unused" => object'[j] \in Objects
        BY <3>c, <3>e, Zenon DEF Used
      <4>2. \A j \in ToSet(waiting') : fate'[j] # "unused"
        BY <2>2, <3>a, <3>c, <3>e DEF Used
      <4>3. \A p \in Objects : item'[p] # NoItem => fate'[item'[p]] # "unused"
        BY <3>e DEF Used, ItemTypes
      <4>4. pc' = "check" /\ current' \in Items /\ fate'[current'] # "unused"
        BY <3>a, <3>b, <3>c, <3>e
      <4>5. QED
        BY <4>1, <4>2, <4>3, <4>4 DEF Used
    <3>5. QED
      BY <2>1, <2>7, <3>1, <3>2, <3>3, <3>4 DEF PopWaiting
  <2>8. CASE NoneWaiting
    <3>1. WaitingTypes'
      BY <2>8, <2>2, <2>3, <2>4 DEF NoneWaiting, WaitingTypes, LoopTypes, ItemTypes, Used, Flags
    <3>2. LoopTypes'
      BY <2>8, <2>2 DEF NoneWaiting, LoopTypes
    <3>3. Used'
      BY <2>8, <2>2 DEF NoneWaiting, Used
    <3>4. QED
      BY <2>1, <2>8, <3>1, <3>2, <3>3 DEF NoneWaiting
  <2>9. CASE Check
    <3>1. QueueTypes'
      <4>1. PICK o \in Objects : o = object[current]
        BY <2>9 DEF Check, Used
      <4>2. \/ level' = level
            \/ level' = [level EXCEPT ![o] = 0]
            \/ level[o] > 0 /\ level' = [level EXCEPT ![o] = @ - 1]
        BY <2>9, <4>1 DEF Check
      <4>3. UNCHANGED storing
        BY <2>9 DEF Check
      <4>4. QED
        BY <4>2, <4>3 DEF QueueTypes
    <3>2. LoopTypes'
      BY <2>9, <2>2 DEF Check, LoopTypes
    <3>3. SeenTypes'
      BY <2>9, <2>2 DEF Check, SeenTypes
    <3>4. Used'
      BY <2>9, <2>2 DEF Check, Used
    <3>5. QED
      BY <2>1, <2>9, <3>1, <3>2, <3>3, <3>4 DEF Check
  <2>10. CASE Return
    <3>a. PICK i \in Items : current = i /\ fate[i] # "unused" /\ pc' = "sync"
      BY <2>10 DEF Return, Used
    <3>b. ItemNotify(i) \/ UNCHANGED <<waiting, notified>>
      BY <2>10, <3>a DEF Return, Back
    <3>c. /\ \A j \in Items : fate'[j] = "unused" <=> fate[j] = "unused"
          /\ UNCHANGED <<queues, item, object, flags, current, runs, counts, unseen>>
      BY <2>10, <3>a DEF Return, ItemTypes
    <3>1. ItemTypes'
      BY <2>10, <2>2 DEF Return, ItemTypes
    <3>2. WaitingTypes'
      BY <2>3, <2>4, <3>b DEF WaitingTypes
    <3>3. LoopTypes'
      BY <2>10, <2>2 DEF Return, LoopTypes
    <3>4. Used'
      <4>1. \A j : j \in ToSet(waiting') => j \in ToSet(waiting) \/ j = i
        BY <2>2, <3>b DEF ItemNotify
      <4>2. QED
        BY <2>2, <3>a, <3>c, <4>1 DEF Used, ItemTypes
    <3>5. QED
      BY <2>1, <2>10, <3>1, <3>2, <3>3, <3>4 DEF Return
  <2>11. CASE Sync
    <3>1. WaitingTypes'
      <4>1. notified' \subseteq Flags
        BY <2>11 DEF Sync, Synced, WaitingTypes, LoopTypes, Flags
      <4>2. QED
        BY <2>3, <2>11, <4>1 DEF Sync
    <3>2. LoopTypes'
      BY <2>11, <2>2 DEF Sync, LoopTypes
    <3>3. Used'
      BY <2>11, <2>2 DEF Sync, Used
    <3>4. QED
      BY <2>1, <2>11, <3>1, <3>2, <3>3 DEF Sync
  <2>12. CASE FlagReturn
    <3>1. LoopTypes'
      BY <2>12, <2>2 DEF FlagReturn, LoopTypes
    <3>2. Used'
      BY <2>12, <2>2 DEF FlagReturn, Used
    <3>3. QED
      BY <2>1, <2>12, <3>1, <3>2 DEF FlagReturn
  <2>13. CASE Call
    <3>1. LoopTypes'
      BY <2>13, <2>2 DEF Call, LoopTypes
    <3>2. Used'
      BY <2>13, <2>2 DEF Call, Used, CountTypes
    <3>3. QED
      BY <2>1, <2>13, <3>1, <3>2 DEF Call
  <2>14. CASE CallReturn
    <3>1. LoopTypes'
      BY <2>14, <2>2 DEF CallReturn, LoopTypes
    <3>2. CountTypes'
      <4>1. pending > 0
        BY <2>14 DEF CallReturn, Used
      <4>2. pending' \in 0 .. MaxPends
        BY <2>14, <4>1, EventLoopAssumption DEF CallReturn, CountTypes
      <4>3. QED
        BY <2>14, <4>2 DEF CallReturn, CountTypes
    <3>3. Used'
      BY <2>14, <2>2 DEF CallReturn, Used
    <3>4. QED
      BY <2>1, <2>14, <3>1, <3>2, <3>3 DEF CallReturn
  <2>15. CASE SetThreadFlag
    <3>1. WaitingTypes'
      BY <2>15, <2>2, <2>3, <2>4 DEF SetThreadFlag, WaitingTypes, LoopTypes, ItemTypes, Used, Flags
    <3>2. SeenTypes'
      BY <2>15, <2>2 DEF SetThreadFlag, SeenTypes
    <3>3. QED
      BY <2>1, <2>15, <3>1, <3>2 DEF SetThreadFlag
  <2>16. CASE RequestStop
    <3>1. WaitingTypes'
      BY <2>16, <2>2, <2>3, <2>4 DEF RequestStop, WaitingTypes, LoopTypes, ItemTypes, Used, Flags
    <3>2. QED
      BY <2>1, <2>16, <3>1 DEF RequestStop
  <2>17. CASE PendCallback
    <3>1. WaitingTypes'
      BY <2>17, <2>2, <2>3, <2>4 DEF PendCallback, WaitingTypes, LoopTypes, ItemTypes, Used, Flags
    <3>2. CountTypes'
      BY <2>17, <2>2, EventLoopAssumption DEF PendCallback, CountTypes
    <3>3. Used'
      BY <2>17, <2>2 DEF PendCallback, Used, CountTypes
    <3>4. QED
      BY <2>1, <2>17, <3>1, <3>2, <3>3 DEF PendCallback
  <2>18. CASE TimerCommand
    <3>1. WaitingTypes'
      BY <2>18, <2>2, <2>3, <2>4 DEF TimerCommand, WaitingTypes, LoopTypes, ItemTypes, Used, Flags
    <3>2. CountTypes'
      BY <2>18, <2>2 DEF TimerCommand, CountTypes
    <3>3. Used'
      BY <2>18, <2>2 DEF TimerCommand, Used
    <3>4. QED
      BY <2>1, <2>18, <3>1, <3>2, <3>3 DEF TimerCommand
  <2>19. ASSUME NEW o \in Objects, Subscribe(o) PROVE TypeInv'
    <3>1. ItemTypes'
      BY <2>19, <2>2 DEF Subscribe, ItemTypes
    <3>2. WaitingTypes'
      BY <2>19, <2>2, <2>3, <2>4 DEF Subscribe, WaitingTypes, LoopTypes, ItemTypes, Used, Flags
    <3>3. SeenTypes'
      BY <2>19, <2>2 DEF Subscribe, SeenTypes
    <3>4. Used'
      <4>1. PICK i \in Items :
               /\ fate[i] = "unused" /\ item' = [item EXCEPT ![o] = i]
               /\ object' = [object EXCEPT ![i] = o] /\ fate' = [fate EXCEPT ![i] = "owned"]
               /\ ItemNotify(i) \/ UNCHANGED <<waiting, notified>>
        BY <2>19 DEF Subscribe
      <4>2. \A j : j \in ToSet(waiting') => j \in ToSet(waiting) \/ j = i
        BY <2>2, <4>1 DEF ItemNotify
      <4>3. UNCHANGED <<pc, current, pending>>
        BY <2>19 DEF Subscribe
      <4>4. QED
        BY <2>2, <4>1, <4>2, <4>3 DEF Used, ItemTypes
    <3>5. QED
      BY <2>1, <2>19, <3>1, <3>2, <3>3, <3>4 DEF Subscribe
  <2>20. ASSUME NEW o \in Objects, Unsubscribe(o) PROVE TypeInv'
    <3>a. PICK i \in Items : i = item[o] /\ waiting' = Unlinked(i)
      BY <2>20 DEF Unsubscribe, ItemTypes
    <3>b. UNCHANGED <<object, queues, notified, loop, counts, unseen>>
      BY <2>20 DEF Unsubscribe
    <3>d. /\ waiting' \in Seq(Items) /\ Distinct(waiting')
          /\ \A j : j \in ToSet(waiting') <=> j \in ToSet(waiting) /\ j # i
      BY <3>a, UnlinkedMembers DEF WaitingTypes
    <3>c. /\ item' \in [Objects -> Items \cup {NoItem}]
          /\ fate' \in [Items -> {"unused", "owned", "orphan", "freed"}]
          /\ \A j \in Items : fate'[j] = "unused" <=> fate[j] = "unused"
          /\ \A p \in Objects : item'[p] # NoItem => item'[p] = item[p]
      BY <2>20, ForgetTypes DEF Unsubscribe
    <3>1. ItemTypes'
      BY <3>b, <3>c DEF ItemTypes
    <3>2. WaitingTypes'
      BY <3>b, <3>d DEF WaitingTypes
    <3>3. Used'
      <4>1. \A j \in Items : fate'[j] # "unused" => object'[j] \in Objects
        BY <3>b, <3>c, Zenon DEF Used
      <4>2. \A j \in ToSet(waiting') : fate'[j] # "unused"
        BY <2>2, <3>c, <3>d DEF Used
      <4>3. \A p \in Objects : item'[p] # NoItem => fate'[item'[p]] # "unused"
        BY <3>c DEF Used, ItemTypes
      <4>4. /\ pc' \in {"check", "callback"} => current' \in Items /\ fate'[current'] # "unused"
            /\ pc' = "call" => pending' > 0
        BY <3>b, <3>c, Zenon DEF Used
      <4>5. QED
        BY <4>1, <4>2, <4>3, <4>4 DEF Used
    <3>4. QED
      BY <2>1, <2>20, <3>1, <3>2, <3>3 DEF Unsubscribe
  <2>21. ASSUME NEW o \in Objects, Store(o) PROVE TypeInv'
    <3>1. QueueTypes'
      <4>1. /\ level[o] < Capacity[o] /\ storing[o] < Producers
            /\ level' = [level EXCEPT ![o] = @ + 1] /\ storing' = [storing EXCEPT ![o] = @ + 1]
        BY <2>21 DEF Store, Room
      <4>2. level[o] \in Nat /\ Capacity[o] \in Nat /\ storing[o] \in Nat /\ Producers \in Nat
        BY DEF QueueTypes
      <4>3. level[o] + 1 <= Capacity[o] /\ storing[o] + 1 \in 0 .. Producers
        BY <4>1, <4>2
      <4>4. level' \in [Objects -> Nat] /\ storing' \in [Objects -> 0 .. Producers]
        BY <4>1, <4>2, <4>3 DEF QueueTypes
      <4>5. \A p \in Objects : level'[p] <= Capacity[p]
        BY <4>1, <4>3 DEF QueueTypes
      <4>6. QED
        BY <4>4, <4>5 DEF QueueTypes
    <3>2. QED
      BY <2>1, <2>21, <3>1 DEF Store
  <2>22. ASSUME NEW o \in Objects, LinkNotify(o) PROVE TypeInv'
    <3>1. QueueTypes'
      BY <2>22, <2>2 DEF LinkNotify, QueueTypes
    <3>2. WaitingTypes'
      BY <2>22, <2>2, <2>3, <2>4 DEF LinkNotify, WaitingTypes, LoopTypes, ItemTypes, Used, Flags
    <3>3. SeenTypes'
      BY <2>22, <2>2 DEF LinkNotify, SeenTypes
    <3>4. Used'
      <4>1. CASE item[o] = NoItem
        BY <2>1, <2>22, <4>1 DEF LinkNotify
      <4>2. CASE item[o] # NoItem
        <5>1. item[o] \in Items /\ ItemNotify(item[o]) /\ UNCHANGED <<items, loop, counts>>
          BY <2>22, <4>2 DEF LinkNotify, ItemTypes
        <5>2. \A j : j \in ToSet(waiting') => j \in ToSet(waiting) \/ j = item[o]
          BY <2>2, <5>1 DEF ItemNotify
        <5>3. QED
          BY <4>2, <5>1, <5>2 DEF Used, ItemTypes
      <4>3. QED
        BY <4>1, <4>2
    <3>5. QED
      BY <2>1, <2>22, <3>1, <3>2, <3>3, <3>4 DEF LinkNotify
  <2>23. CASE UNCHANGED vars
    BY <2>1, <2>23 DEF vars
  <2>24. QED
    BY <2>5, <2>6, <2>7, <2>8, <2>9, <2>10, <2>11, <2>12, <2>13, <2>14, <2>15, <2>16, <2>17, <2>18, <2>19, <2>20, <2>21, <2>22, <2>23 DEF Next, User, Loop, Others
<1>3. QED
  BY <1>1, <1>2, PTL DEF Spec

-----------------------------------------------------------------------------
(* What is remembered, by where the loop is: bits that were taken are given *)
(* back before it waits again, and a stop, which drops them, ends the run.  *)
Runs == pc # "stopped" \/ runs = 0
WorkInv ==
    /\ flags # {} => pc \in {"event", "check", "callback", "sync", "crashed"}
    /\ pc # "stopped" => runs # 0
    /\ Runs /\ pc \in {"stopped", "wait", "flag", "pending", "call"} /\ waiting # <<>>
          => "Event" \in Remembered
    /\ Runs /\ served < commands => "Timer" \in Remembered
    /\ Runs /\ pc \notin {"pending", "call"} /\ pending > 0 => "Pending" \in Remembered

(* In a run the loop never sleeps on work, whatever bits were notified      *)
(* together: waiting items, timer commands, deferred calls.  A second run   *)
(* may: it has lost the bits that the stop of the first one dropped.        *)
THEOREM LoopRemembersWork == ASSUME MaxRuns = 1 PROVE Spec => []WorkRemembered
<1>1. Init => WorkInv
  BY DEF Init, WorkInv, Runs
<1>2. TypeInv /\ WorkInv /\ [Next]_vars => WorkInv'
  <2> SUFFICES ASSUME TypeInv, WorkInv, [Next]_vars PROVE WorkInv'
    OBVIOUS
  <2> USE DEF WorkInv, Runs, Remembered, queues, items, counts, loop
  <2>1. CASE Run
    <3>1. runs = 0 /\ runs' = 1
      BY <2>1 DEF Run, TypeInv, LoopTypes
    <3>2. QED
      BY <2>1, <3>1 DEF Run
  <2>2. CASE Wait
    <3> DEFINE f == Chosen
    <3>1. notified \subseteq Flags /\ notified # {} /\ pc = "wait" /\ flags = {} /\ runs # 0
      BY <2>2 DEF Wait, TypeInv, WaitingTypes
    <3>2. /\ f \in notified
          /\ f \in {"Timer", "Pending", "ThreadFlag"} => "Event" \notin notified
          /\ f \in {"Pending", "ThreadFlag"} => "Timer" \notin notified
          /\ f = "ThreadFlag" => "Pending" \notin notified
      BY <3>1, ChosenFirst
    <3>3. UNCHANGED <<queues, items, waiting, current, runs, pending, commands, unseen>>
      BY <2>2 DEF Wait
    <3>4. CASE f = "Stop"
      BY <2>2, <3>1, <3>3, <3>4 DEF Wait
    <3>5. CASE f = "Event"
      <4>1. /\ pc' = "event" /\ served' = served /\ notified' = {} /\ flags' = notified \ {"Event"}
        BY <2>2, <3>5 DEF Wait, Restored
      <4>2. QED
        BY <3>1, <3>3, <4>1
    <3>6. CASE f = "Timer"
      <4>1. /\ pc' = "wait" /\ served' = commands /\ notified' = notified \ {"Timer"} /\ flags' = {}
        BY <2>2, <3>6 DEF Wait, Restored
      <4>2. ~ (served' < commands')
        BY <3>3, <4>1 DEF TypeInv, CountTypes
      <4>3. QED
        BY <3>1, <3>2, <3>3, <3>6, <4>1, <4>2
    <3>7. CASE f = "Pending"
      <4>1. pc' = "pending" /\ served' = served /\ notified' = {} /\ flags' = {}
        BY <2>2, <3>7 DEF Wait
      <4>2. QED
        BY <3>1, <3>2, <3>3, <3>7, <4>1
    <3>8. CASE f = "ThreadFlag"
      <4>1. pc' = "flag" /\ served' = served /\ notified' = {} /\ flags' = {}
        BY <2>2, <3>8 DEF Wait
      <4>2. QED
        BY <3>1, <3>2, <3>3, <3>8, <4>1
    <3>9. QED
      BY <3>1, <3>2, <3>4, <3>5, <3>6, <3>7, <3>8 DEF Flags
  <2>3. CASE PopWaiting
    BY <2>3 DEF PopWaiting
  <2>4. CASE NoneWaiting
    BY <2>4 DEF NoneWaiting
  <2>5. CASE Check
    BY <2>5 DEF Check
  <2>6. CASE Return
    BY <2>6 DEF Return, Back, ItemNotify
  <2>7. CASE Sync
    BY <2>7 DEF Sync, Synced
  <2>8. CASE FlagReturn
    BY <2>8 DEF FlagReturn
  <2>9. CASE Call
    BY <2>9 DEF Call
  <2>10. CASE CallReturn
    BY <2>10 DEF CallReturn
  <2>11. CASE SetThreadFlag
    BY <2>11 DEF SetThreadFlag
  <2>12. CASE RequestStop
    BY <2>12 DEF RequestStop
  <2>13. CASE PendCallback
    BY <2>13 DEF PendCallback
  <2>14. CASE TimerCommand
    BY <2>14 DEF TimerCommand
  <2>15. ASSUME NEW o \in Objects, Subscribe(o) PROVE WorkInv'
    BY <2>15 DEF Subscribe, ItemNotify
  <2>16. ASSUME NEW o \in Objects, Unsubscribe(o) PROVE WorkInv'
    <3>1. waiting = <<>> => waiting' = <<>>
      BY <2>16 DEF Unsubscribe, Unlinked, ToSet
    <3>2. QED
      BY <2>16, <3>1 DEF Unsubscribe
  <2>17. ASSUME NEW o \in Objects, Store(o) PROVE WorkInv'
    BY <2>17 DEF Store
  <2>18. ASSUME NEW o \in Objects, LinkNotify(o) PROVE WorkInv'
    BY <2>18 DEF LinkNotify, ItemNotify
  <2>19. CASE UNCHANGED vars
    BY <2>19 DEF vars
  <2>20. QED
    BY <2>1, <2>2, <2>3, <2>4, <2>5, <2>6, <2>7, <2>8, <2>9, <2>10, <2>11, <2>12, <2>13, <2>14, <2>15, <2>16, <2>17, <2>18, <2>19 DEF Next, User, Loop, Others
<1>3. TypeInv /\ WorkInv => WorkRemembered
  BY TypeInvImpliesTypeOK DEF WorkInv, Runs, WorkRemembered
<1>4. QED
  BY <1>1, <1>2, <1>3, EventLoopTypeCorrect, PTL DEF Spec

-----------------------------------------------------------------------------
(* Items and events.  An owned item is the one in the tree for its object;  *)
(* only owned items wait; the one at hand is owned or an orphan.            *)
AliveInv ==
    /\ \A i \in Items : fate[i] = "owned" => item[object[i]] = i
    /\ \A i \in ToSet(waiting) : fate[i] = "owned"
    /\ \A o \in Objects : item[o] # NoItem => fate[item[o]] = "owned" /\ object[item[o]] = o
    /\ pc = "check" => fate[current] = "owned"
    /\ pc = "callback" => fate[current] \in {"owned", "orphan"}

(* What Forget does to the fates, and to the tree.                          *)
LEMMA ForgetFates ==
    ASSUME ItemTypes, NEW o \in Objects, Forget(o, current)
    PROVE  /\ item'[o] = NoItem /\ \A p \in Objects : p # o => item'[p] = item[p]
           /\ \A j \in Items : j # item[o] => fate'[j] = fate[j]
           /\ item[o] \in Items => fate'[item[o]] = IF item[o] = current THEN "orphan" ELSE "freed"
BY DEF Forget, ItemTypes

LEMMA AliveStep ==
    ASSUME Once = {}, TypeInv, AliveInv, [Next]_vars
    PROVE  AliveInv'
<1> USE DEF TypeInv, AliveInv, queues, items, counts, loop
<1>0. 0 \notin Items
  BY EventLoopAssumption DEF Items, EventLoopAssumption
<1>1. UNCHANGED <<items, waiting, pc, current>> => AliveInv'
  OBVIOUS
<1>2. ASSUME UNCHANGED <<items, waiting>>, pc' \notin {"check", "callback"} PROVE AliveInv'
  BY <1>2
<1>3. ASSUME NEW i \in Items, fate[i] = "owned", ItemNotify(i), UNCHANGED items,
             UNCHANGED <<pc, current>> \/ pc' \notin {"check", "callback"}
      PROVE  AliveInv'
  <2>1. \A j : j \in ToSet(waiting') => j \in ToSet(waiting) \/ j = i
    BY <1>3, WaitingMembers DEF ItemNotify
  <2>2. QED
    BY <1>3, <2>1
<1>4. CASE Run
  BY <1>1, <1>2, <1>4 DEF Run
<1>5. CASE Wait
  <2>1. Chosen \in Flags
    BY <1>5, ChosenFirst DEF Wait, WaitingTypes
  <2>2. pc' \notin {"check", "callback"}
    BY <1>5, <2>1 DEF Wait, Flags
  <2>3. QED
    BY <1>2, <1>5, <2>2 DEF Wait
<1>6. CASE PopWaiting
  <2>1. PICK i \in Items : /\ i = Head(waiting) /\ i \in ToSet(waiting)
                          /\ \A j \in ToSet(Tail(waiting)) : j \in ToSet(waiting)
    BY <1>6, PoppedMembers DEF PopWaiting, WaitingTypes
  <2>2. current' = i /\ waiting' = Tail(waiting) /\ pc' = "check" /\ UNCHANGED items
    BY <1>6, <2>1 DEF PopWaiting
  <2>3. QED
    BY <2>1, <2>2
<1>7. CASE NoneWaiting
  BY <1>1, <1>2, <1>7 DEF NoneWaiting
<1>8. CASE Check
  <2>1. UNCHANGED <<items, waiting, current>> /\ pc = "check" /\ pc' # "check"
    BY <1>8 DEF Check
  <2>2. QED
    BY <2>1
<1>9. CASE Return
  <2>1. PICK i \in Items : i = current
    BY <1>9 DEF Return, Used
  <2>2. /\ pc = "callback" /\ pc' = "sync" /\ UNCHANGED <<item, object, current>>
        /\ fate' = IF fate[i] = "orphan" THEN [fate EXCEPT ![i] = "freed"] ELSE fate
        /\ (fate[i] = "owned" /\ ItemNotify(i)) \/ UNCHANGED <<waiting, notified>>
    BY <1>9, <2>1 DEF Return, Back
  <2>3. CASE fate[i] = "orphan"
    BY <2>2, <2>3, WaitingMembers DEF ItemTypes
  <2>4. CASE fate[i] # "orphan"
    <3>1. UNCHANGED items
      BY <2>2, <2>4
    <3>2. QED
      BY <1>2, <1>3, <2>2, <3>1
  <2>5. QED
    BY <2>3, <2>4
<1>10. CASE Sync
  BY <1>1, <1>2, <1>10 DEF Sync
<1>11. CASE FlagReturn
  BY <1>1, <1>2, <1>11 DEF FlagReturn
<1>12. CASE Call
  BY <1>1, <1>2, <1>12 DEF Call
<1>13. CASE CallReturn
  BY <1>1, <1>2, <1>13 DEF CallReturn
<1>14. CASE SetThreadFlag
  BY <1>1, <1>2, <1>14 DEF SetThreadFlag
<1>15. CASE RequestStop
  BY <1>1, <1>2, <1>15 DEF RequestStop
<1>16. CASE PendCallback
  BY <1>1, <1>2, <1>16 DEF PendCallback
<1>17. CASE TimerCommand
  BY <1>1, <1>2, <1>17 DEF TimerCommand
<1>18. ASSUME NEW o \in Objects, Subscribe(o) PROVE AliveInv'
  <2>1. PICK i \in Items :
           /\ fate[i] = "unused" /\ item' = [item EXCEPT ![o] = i]
           /\ object' = [object EXCEPT ![i] = o] /\ fate' = [fate EXCEPT ![i] = "owned"]
           /\ ItemNotify(i) \/ UNCHANGED <<waiting, notified>>
    BY <1>18 DEF Subscribe
  <2>2. item[o] = NoItem /\ UserCode /\ UNCHANGED <<pc, current>>
    BY <1>18 DEF Subscribe
  <2>3. \A j : j \in ToSet(waiting') => j \in ToSet(waiting) \/ j = i
    BY <2>1, WaitingMembers DEF ItemNotify
  <2>4. \A j \in Items : /\ fate'[j] = IF j = i THEN "owned" ELSE fate[j]
                         /\ object'[j] = IF j = i THEN o ELSE object[j]
    BY <2>1 DEF ItemTypes
  <2>5. \A p \in Objects : item'[p] = IF p = o THEN i ELSE item[p]
    BY <2>1 DEF ItemTypes
  <2>6. \A j \in Items : fate'[j] = "owned" => item'[object'[j]] = j
    <3>1. ASSUME NEW j \in Items, fate'[j] = "owned", j # i PROVE item'[object'[j]] = j
      <4>1. fate[j] = "owned" /\ object'[j] = object[j] /\ object[j] \in Objects /\ item[object[j]] = j
        BY <2>4, <3>1 DEF Used
      <4>2. object[j] # o
        BY <1>0, <2>2, <4>1 DEF NoItem
      <4>3. QED
        BY <2>5, <4>1, <4>2
    <3>2. QED
      BY <2>4, <2>5, <3>1
  <2>7. \A j \in ToSet(waiting') : fate'[j] = "owned"
    BY <2>1, <2>3, <2>4, WaitingMembers
  <2>8. \A p \in Objects : item'[p] # NoItem => fate'[item'[p]] = "owned" /\ object'[item'[p]] = p
    BY <2>1, <2>4, <2>5 DEF ItemTypes
  <2>9. /\ pc' = "check" => fate'[current'] = "owned"
        /\ pc' = "callback" => fate'[current'] \in {"owned", "orphan"}
    BY <2>1, <2>2, <2>4 DEF Used, UserCode
  <2>10. QED
    BY <2>6, <2>7, <2>8, <2>9
<1>19. ASSUME NEW o \in Objects, Unsubscribe(o) PROVE AliveInv'
  <2>1. PICK i \in Items : i = item[o] /\ waiting' = Unlinked(i) /\ fate[i] = "owned" /\ object[i] = o
    BY <1>19 DEF Unsubscribe, ItemTypes
  <2>2. UserCode /\ UNCHANGED <<object, pc, current>>
    BY <1>19 DEF Unsubscribe
  <2>3. /\ item'[o] = NoItem /\ \A p \in Objects : p # o => item'[p] = item[p]
        /\ \A j \in Items : j # i => fate'[j] = fate[j]
        /\ fate'[i] = IF i = current THEN "orphan" ELSE "freed"
    BY <1>19, <2>1, ForgetFates DEF Unsubscribe
  <2>4. \A j : j \in ToSet(waiting') <=> j \in ToSet(waiting) /\ j # i
    BY <2>1, UnlinkedMembers DEF WaitingTypes
  <2>5. \A j \in Items : fate'[j] = "owned" => j # i /\ fate[j] = "owned"
    BY <2>3
  <2>6. \A j \in Items : fate'[j] = "owned" => item'[object'[j]] = j
    <3>1. ASSUME NEW j \in Items, fate'[j] = "owned" PROVE item'[object'[j]] = j
      <4>1. j # i /\ object'[j] = object[j] /\ object[j] \in Objects /\ item[object[j]] = j
        BY <2>2, <2>5, <3>1 DEF Used
      <4>2. object[j] # o
        BY <2>1, <4>1
      <4>3. QED
        BY <2>3, <4>1, <4>2
    <3>2. QED
      BY <3>1
  <2>7. \A j \in ToSet(waiting') : fate'[j] = "owned"
    BY <2>3, <2>4, WaitingMembers
  <2>8. \A p \in Objects : item'[p] # NoItem => fate'[item'[p]] = "owned" /\ object'[item'[p]] = p
    <3>1. ASSUME NEW p \in Objects, item'[p] # NoItem
          PROVE  fate'[item'[p]] = "owned" /\ object'[item'[p]] = p
      <4>1. p # o /\ item'[p] = item[p] /\ item[p] \in Items
        BY <2>3, <3>1 DEF ItemTypes
      <4>2. fate[item[p]] = "owned" /\ object[item[p]] = p /\ item[p] # i
        BY <2>1, <3>1, <4>1
      <4>3. QED
        BY <2>2, <2>3, <4>1, <4>2
    <3>2. QED
      BY <3>1
  <2>9. /\ pc' = "check" => fate'[current'] = "owned"
        /\ pc' = "callback" => fate'[current'] \in {"owned", "orphan"}
    BY <2>2, <2>3 DEF Used, UserCode
  <2>10. QED
    BY <2>6, <2>7, <2>8, <2>9
<1>20. ASSUME NEW o \in Objects, Store(o) PROVE AliveInv'
  BY <1>1, <1>2, <1>20 DEF Store
<1>21. ASSUME NEW o \in Objects, LinkNotify(o) PROVE AliveInv'
  <2>1. CASE item[o] = NoItem
    BY <1>1, <1>21, <2>1 DEF LinkNotify
  <2>2. CASE item[o] # NoItem
    <3>1. /\ item[o] \in Items /\ fate[item[o]] = "owned" /\ ItemNotify(item[o])
          /\ UNCHANGED items /\ UNCHANGED <<pc, current>>
      BY <1>21, <2>2 DEF LinkNotify, ItemTypes
    <3>2. QED
      BY <1>3, <3>1
  <2>3. QED
    BY <2>1, <2>2
<1>22. CASE UNCHANGED vars
  BY <1>1, <1>22 DEF vars
<1>23. QED
  BY <1>4, <1>5, <1>6, <1>7, <1>8, <1>9, <1>10, <1>11, <1>12, <1>13, <1>14, <1>15, <1>16, <1>17, <1>18, <1>19, <1>20, <1>21, <1>22 DEF Next, User, Loop, Others

(* With no one-time subscription, nothing that the loop holds or that waits *)
(* is freed, though callbacks unsubscribe what is being served.             *)
THEOREM LoopItemsAlive == ASSUME Once = {} PROVE Spec => []ItemsAlive
<1>1. Init => AliveInv
  <2> SUFFICES ASSUME Init PROVE AliveInv
    OBVIOUS
  <2>1. ToSet(waiting) = {}
    BY DEF Init, ToSet
  <2>2. QED
    BY <2>1 DEF Init, AliveInv
<1>2. TypeInv /\ AliveInv /\ [Next]_vars => AliveInv'
  BY AliveStep
<1>3. TypeInv /\ AliveInv => ItemsAlive
  <2> SUFFICES ASSUME TypeInv, AliveInv PROVE ItemsAlive
    OBVIOUS
  <2>1. \A i \in ToSet(waiting) : i \in Items
    BY WaitingMembers DEF TypeInv
  <2>2. QED
    BY <2>1 DEF AliveInv, ItemsAlive
<1>4. QED
  BY <1>1, <1>2, <1>3, EventLoopTypeCorrect, PTL DEF Spec

(* An object with something to report is reported: it stays so when neither *)
(* its item, its messages nor what is at hand change, and the list does not *)
(* shrink.                                                                  *)
ToReport(o) == item[o] # NoItem /\ (IF o \in Edge THEN o \in unseen ELSE level[o] > 0)

LEMMA EventStep ==
    ASSUME Once = {}, TypeInv, AliveInv, NoEventLost, [Next]_vars
    PROVE  NoEventLost'
<1> USE DEF TypeInv, NoEventLost, Reported, queues, items, counts, loop
<1>0. 0 \notin Items /\ \A i \in ToSet(waiting) : i \in Items
  BY EventLoopAssumption, WaitingMembers DEF Items, EventLoopAssumption
<1>1. ASSUME UNCHANGED <<queues, items, unseen>>, \A j \in ToSet(waiting) : j \in ToSet(waiting'),
             UNCHANGED <<pc, current>> \/ pc \notin {"check", "callback"}
      PROVE  NoEventLost'
  BY <1>1
<1>2. CASE Run
  BY <1>1, <1>2 DEF Run
<1>3. CASE Wait
  BY <1>1, <1>3 DEF Wait
<1>4. CASE PopWaiting
  <2>1. PICK i \in Items : /\ i = Head(waiting)
                          /\ \A j \in ToSet(waiting) : j \in ToSet(Tail(waiting)) \/ j = i
    BY <1>4, PoppedMembers DEF PopWaiting, WaitingTypes
  <2>2. /\ current' = i /\ waiting' = Tail(waiting) /\ pc = "event" /\ pc' = "check"
        /\ UNCHANGED <<items, queues, unseen>>
    BY <1>4, <2>1 DEF PopWaiting
  <2>3. QED
    BY <2>1, <2>2
<1>5. CASE NoneWaiting
  BY <1>1, <1>5 DEF NoneWaiting
<1>6. CASE Check
  <2>1. PICK o \in Objects : o = object[current] /\ fate[current] = "owned"
    BY <1>6 DEF Check, Used, AliveInv
  <2>2. UNCHANGED <<storing, items, waiting, current>> /\ pc = "check"
    BY <1>6 DEF Check
  <2>3. \A p \in Objects : p # o => item[p] = NoItem \/ item[p] # current
    BY <2>1 DEF AliveInv
  <2>4. CASE o \in Edge \/ level[o] > 0
    <3>1. /\ pc' = "callback" /\ unseen' = unseen \ {o}
          /\ level' = [level EXCEPT ![o] = IF o \in Edge THEN 0 ELSE level[o] - 1]
      BY <1>6, <2>1, <2>4 DEF Check
    <3>2. \A p \in Objects : p # o => level'[p] = level[p]
      BY <3>1 DEF QueueTypes
    <3>3. level'[o] > 0 /\ o \notin Edge => level[o] > 0
      BY <2>4
    <3>4. ASSUME NEW p \in Objects, p # o, ToReport(p)' PROVE Reported(p)'
      BY <2>2, <2>3, <3>1, <3>2, <3>4 DEF ToReport
    <3>5. ToReport(o)' => Reported(o)'
      BY <2>1, <2>2, <3>1, <3>3 DEF ToReport
    <3>6. QED
      BY <3>4, <3>5 DEF ToReport
  <2>5. CASE o \notin Edge /\ ~ (level[o] > 0)
    <3>1. pc' = "sync" /\ UNCHANGED <<level, unseen>>
      BY <1>6, <2>1, <2>5 DEF Check
    <3>2. ASSUME NEW p \in Objects, ToReport(p)' PROVE Reported(p)'
      BY <2>1, <2>2, <2>3, <2>5, <3>1, <3>2 DEF ToReport
    <3>3. QED
      BY <3>2 DEF ToReport
  <2>6. QED
    BY <2>4, <2>5
<1>7. CASE Return
  <2>1. PICK i \in Items : i = current
    BY <1>7 DEF Return, Used
  <2>2. /\ pc = "callback" /\ pc' = "sync" /\ UNCHANGED <<queues, item, object, current, unseen>>
        /\ IF fate[i] = "owned" /\ object[i] \notin Edge /\ level[object[i]] > 0
           THEN ItemNotify(i) ELSE UNCHANGED <<waiting, notified>>
    BY <1>7, <2>1 DEF Return, Back
  <2>3. \A j \in ToSet(waiting) : j \in ToSet(waiting')
    BY <2>2, WaitingMembers DEF ItemNotify
  <2>4. ASSUME NEW p \in Objects, ToReport(p) PROVE Reported(p)'
    <3>1. CASE p \notin Edge /\ item[p] = i
      <4>1. fate[i] = "owned" /\ object[i] = p /\ level[p] > 0
        BY <2>1, <2>4, <3>1, <1>0 DEF AliveInv, ToReport, NoItem
      <4>2. i \in ToSet(waiting')
        BY <2>1, <2>2, <3>1, <4>1, WaitingMembers DEF ItemNotify
      <4>3. QED
        BY <2>2, <3>1, <4>2
    <3>2. CASE p \in Edge \/ item[p] # i
      BY <2>1, <2>2, <2>3, <2>4, <3>2 DEF ToReport
    <3>3. QED
      BY <3>1, <3>2
  <2>5. QED
    BY <2>2, <2>4 DEF ToReport
<1>8. CASE Sync
  BY <1>1, <1>8 DEF Sync
<1>9. CASE FlagReturn
  BY <1>1, <1>9 DEF FlagReturn
<1>10. CASE Call
  BY <1>1, <1>10 DEF Call
<1>11. CASE CallReturn
  BY <1>1, <1>11 DEF CallReturn
<1>12. CASE SetThreadFlag
  BY <1>1, <1>12 DEF SetThreadFlag
<1>13. CASE RequestStop
  BY <1>1, <1>13 DEF RequestStop
<1>14. CASE PendCallback
  BY <1>1, <1>14 DEF PendCallback
<1>15. CASE TimerCommand
  BY <1>1, <1>15 DEF TimerCommand
<1>16. ASSUME NEW o \in Objects, Subscribe(o) PROVE NoEventLost'
  <2>1. PICK i \in Items :
           /\ item' = [item EXCEPT ![o] = i]
           /\ IF o \notin Edge /\ level[o] > 0 THEN ItemNotify(i) ELSE UNCHANGED <<waiting, notified>>
    BY <1>16 DEF Subscribe
  <2>2. unseen' = unseen \ {o} /\ UNCHANGED <<queues, pc, current>>
    BY <1>16 DEF Subscribe
  <2>3. \A j \in ToSet(waiting) : j \in ToSet(waiting')
    BY <2>1, WaitingMembers DEF ItemNotify
  <2>4. \A p \in Objects : item'[p] = IF p = o THEN i ELSE item[p]
    BY <2>1 DEF ItemTypes
  <2>5. ASSUME ToReport(o)' PROVE Reported(o)'
    <3>1. o \notin Edge /\ level[o] > 0
      BY <2>2, <2>5 DEF ToReport
    <3>2. i \in ToSet(waiting')
      BY <2>1, <3>1, WaitingMembers DEF ItemNotify
    <3>3. QED
      BY <2>4, <3>2
  <2>6. ASSUME NEW p \in Objects, p # o, ToReport(p)' PROVE Reported(p)'
    BY <2>2, <2>3, <2>4, <2>6 DEF ToReport
  <2>7. QED
    BY <2>5, <2>6 DEF ToReport
<1>17. ASSUME NEW o \in Objects, Unsubscribe(o) PROVE NoEventLost'
  <2>1. PICK i \in Items : i = item[o] /\ waiting' = Unlinked(i) /\ object[i] = o
    BY <1>17 DEF Unsubscribe, ItemTypes, AliveInv
  <2>2. UNCHANGED <<queues, pc, current, unseen>>
    BY <1>17 DEF Unsubscribe
  <2>3. item'[o] = NoItem /\ \A p \in Objects : p # o => item'[p] = item[p]
    BY <1>17, ForgetFates DEF Unsubscribe
  <2>4. \A j : j \in ToSet(waiting') <=> j \in ToSet(waiting) /\ j # i
    BY <2>1, UnlinkedMembers DEF WaitingTypes
  <2>5. ASSUME NEW p \in Objects, ToReport(p)' PROVE Reported(p)'
    <3>1. p # o /\ ToReport(p)
      BY <2>2, <2>3, <2>5 DEF ToReport
    <3>2. item[p] # i
      BY <2>1, <3>1 DEF AliveInv, ToReport
    <3>3. QED
      BY <2>2, <2>3, <2>4, <3>1, <3>2 DEF ToReport
  <2>6. QED
    BY <2>5 DEF ToReport
<1>18. ASSUME NEW o \in Objects, Store(o) PROVE NoEventLost'
  <2>1. UNCHANGED <<items, waiting, pc, current, unseen>>
    BY <1>18 DEF Store
  <2>2. \A p \in Objects : IF p = o THEN storing'[p] > 0
                           ELSE storing'[p] = storing[p] /\ level'[p] = level[p]
    <3>1. storing[o] \in Nat /\ storing' = [storing EXCEPT ![o] = storing[o] + 1]
          /\ level' = [level EXCEPT ![o] = level[o] + 1]
      BY <1>18 DEF Store, QueueTypes
    <3>2. QED
      BY <3>1 DEF QueueTypes
  <2>3. ASSUME NEW p \in Objects, ToReport(p)' PROVE Reported(p)'
    <3>1. CASE p = o
      BY <2>1, <2>2, <2>3, <3>1 DEF ToReport
    <3>2. CASE p # o
      BY <2>1, <2>2, <2>3, <3>2 DEF ToReport
    <3>3. QED
      BY <3>1, <3>2
  <2>4. QED
    BY <2>3 DEF ToReport
<1>19. ASSUME NEW o \in Objects, LinkNotify(o) PROVE NoEventLost'
  <2>1. /\ UNCHANGED <<level, items, pc, current>>
        /\ \A p \in Objects : p # o => storing'[p] = storing[p]
    BY <1>19 DEF LinkNotify, QueueTypes
  <2>2. CASE item[o] = NoItem
    <3>1. UNCHANGED <<waiting, unseen>>
      BY <1>19, <2>2 DEF LinkNotify
    <3>2. ASSUME NEW p \in Objects, ToReport(p)' PROVE Reported(p)'
      <4>1. p # o /\ ToReport(p)
        BY <2>1, <2>2, <3>1, <3>2 DEF ToReport
      <4>2. QED
        BY <2>1, <3>1, <4>1 DEF ToReport
    <3>3. QED
      BY <3>2 DEF ToReport
  <2>3. CASE item[o] # NoItem
    <3>1. item[o] \in Items /\ ItemNotify(item[o]) /\ unseen' = unseen \cup {o}
      BY <1>19, <2>3 DEF LinkNotify, ItemTypes
    <3>2. \A j : j \in ToSet(waiting') <=> j \in ToSet(waiting) \/ j = item[o]
      BY <3>1, WaitingMembers DEF ItemNotify
    <3>3. ASSUME NEW p \in Objects, ToReport(p)' PROVE Reported(p)'
      <4>1. CASE p = o
        BY <2>1, <3>2, <4>1
      <4>2. CASE p # o
        BY <2>1, <3>1, <3>2, <3>3, <4>2 DEF ToReport
      <4>3. QED
        BY <4>1, <4>2
    <3>4. QED
      BY <3>3 DEF ToReport
  <2>4. QED
    BY <2>2, <2>3
<1>20. CASE UNCHANGED vars
  BY <1>1, <1>20 DEF vars
<1>21. QED
  BY <1>2, <1>3, <1>4, <1>5, <1>6, <1>7, <1>8, <1>9, <1>10, <1>11, <1>12, <1>13, <1>14, <1>15, <1>16, <1>17, <1>18, <1>19, <1>20 DEF Next, User, Loop, Others

(* An event is never lost: an object with something to report waits for the *)
(* loop, is in its hands, or is about to be notified.                       *)
THEOREM LoopLosesNoEvent == ASSUME Once = {} PROVE Spec => []NoEventLost
<1>1. Init => AliveInv /\ NoEventLost
  <2> SUFFICES ASSUME Init PROVE AliveInv /\ NoEventLost
    OBVIOUS
  <2>1. ToSet(waiting) = {}
    BY DEF Init, ToSet
  <2>2. QED
    BY <2>1 DEF Init, AliveInv, NoEventLost
<1>2. TypeInv /\ AliveInv /\ NoEventLost /\ [Next]_vars => AliveInv' /\ NoEventLost'
  BY AliveStep, EventStep
<1>3. QED
  BY <1>1, <1>2, EventLoopTypeCorrect, PTL DEF Spec
=============================================================================
