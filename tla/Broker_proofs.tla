---------------------------- MODULE Broker_proofs ----------------------------
(***************************************************************************)
(* Proofs about the broker, for every set of messages: where a message is, *)
(* what a loss takes, and that the broker implements Handoff.              *)
(*                                                                         *)
(* Accounted is not inductive: which message arrives next, or is lost,     *)
(* hangs on the order of the line.  BrokerInv numbers the messages as they *)
(* are taken: the first Done of them are settled, those after them are on  *)
(* the wire, and the last may be in hand.                                  *)
(***************************************************************************)
EXTENDS Broker, TLAPS

-----------------------------------------------------------------------------
(* The inductive invariant *)

\* How many of the messages taken are settled: all but those on the wire and
\* the one in hand.
Done == Len(taken) - Len(wire) - (IF inHand = NoMessage THEN 0 ELSE 1)

\* A message is in one place of the line or was taken once, whatever fails.
Once ==
    /\ \A i, j \in 1..Len(taken) : taken[i] = taken[j] => i = j
    /\ \A i, j \in 1..Len(sendq) : sendq[i] = sendq[j] => i = j
    /\ \A i \in 1..Len(sendq), j \in 1..Len(taken) : sendq[i] # taken[j]

\* A dead process and a dead connection hold no messages.
NothingHeld ==
    /\ ~up => inHand = NoMessage
    /\ ~up \/ link \in {"broken", "closed"} => wire = <<>>

\* The last messages taken are on the wire, in order, and after them in hand.
Unsettled ==
    /\ Done \in Nat
    /\ \A i \in 1..Len(wire) : taken[Done + i] = wire[i]
    /\ inHand # NoMessage => taken[Len(taken)] = inHand

\* All before them are settled, one way or the other.
Settlement ==
    /\ \A i \in 1..Done :
          taken[i] \in lost \/ \E j \in 1..Len(delivered) : delivered[j] = taken[i]
    /\ \A m \in lost : \E i \in 1..Done : taken[i] = m
    /\ \A j \in 1..Len(delivered) : \E i \in 1..Done : taken[i] = delivered[j]
    /\ \A j \in 1..Len(delivered) : delivered[j] \notin lost

\* RabbitMQ got them in the order they were taken.
DeliveredInOrder ==
    \A i, j \in 1..Len(delivered), k, l \in 1..Done :
        i < j /\ taken[k] = delivered[i] /\ taken[l] = delivered[j] => k < l

BrokerInv ==
    TypeOK /\ Once /\ NothingHeld /\ Unsettled /\ Settlement /\ DeliveredInOrder

-----------------------------------------------------------------------------
\* A sequence found in another from position n + 1 on.
LEMMA Stretch ==
    ASSUME NEW s \in Seq(Messages), NEW t \in Seq(Messages), NEW n \in Nat,
           \A i \in 1..Len(s) : s[i] = t[n + i]
    PROVE  ToSet(s) = {t[i] : i \in (n + 1)..(n + Len(s))}
<1>1. DOMAIN s = 1..Len(s) /\ Len(s) \in Nat
    OBVIOUS
<1>2. \A i \in 1..Len(s) : n + i \in (n + 1)..(n + Len(s))
    BY <1>1
<1>3. ToSet(s) \subseteq {t[i] : i \in (n + 1)..(n + Len(s))}
    BY <1>1, <1>2 DEF ToSet
<1>4. ASSUME NEW i \in (n + 1)..(n + Len(s)) PROVE t[i] \in ToSet(s)
    <2>1. i - n \in 1..Len(s) /\ n + (i - n) = i
        BY <1>1
    <2>2. s[i - n] = t[i]
        BY <2>1
    <2> QED BY <1>1, <2>1, <2>2 DEF ToSet
<1> QED BY <1>3, <1>4

LEMMA Lines ==
    ASSUME BrokerInv
    PROVE  {sendq, wire, Hand, taken, delivered} \subseteq Seq(Messages)
BY DEF BrokerInv, TypeOK, Hand

LEMMA BrokerInit == Init => BrokerInv
BY DEF Init, BrokerInv, TypeOK, Links, Once, NothingHeld, Unsettled, Done, Settlement,
       DeliveredInOrder

\* What the invariant says of the lengths and of every position in them.
LEMMA Positions ==
    ASSUME BrokerInv
    PROVE  /\ Done \in Nat /\ Len(taken) \in Nat /\ Len(delivered) \in Nat
           /\ Done + Len(wire) + Len(Hand) = Len(taken)
           /\ \A i \in 1..Len(wire) : taken[Done + i] = wire[i]
           /\ inHand # NoMessage => Done + Len(wire) + 1 = Len(taken) /\ taken[Len(taken)] = inHand
           /\ \A i, j \in 1..Len(taken) : taken[i] = taken[j] => i = j
           /\ \A i \in 1..Len(taken) : taken[i] \in Messages
BY BrokerAssumption DEF BrokerInv, TypeOK, Unsettled, Done, Hand, Once

\* Nothing is settled by a step that leaves the settled ones alone.
LEMMA NoneSettled ==
    ASSUME BrokerInv, Done' = Done, \A i \in 1..Done : taken'[i] = taken[i],
           delivered' = delivered, lost' = lost
    PROVE  Settlement' /\ DeliveredInOrder'
BY DEF BrokerInv, Settlement, DeliveredInOrder

\* The next messages after the settled ones are lost together.
LEMMA NextLost ==
    ASSUME BrokerInv, UNCHANGED <<taken, delivered>>, Done' \in Done..Len(taken),
           lost' = lost \cup {taken[i] : i \in (Done + 1)..Done'}
    PROVE  Settlement' /\ DeliveredInOrder'
<1>1. Done \in Nat /\ Done' \in Nat /\ Done <= Done' /\ Done' <= Len(taken) /\ Len(taken) \in Nat
    BY Positions
<1>2. Settlement /\ DeliveredInOrder
    BY DEF BrokerInv
<1>3. \A i \in 1..Done' :
         taken[i] \in lost' \/ \E j \in 1..Len(delivered) : delivered[j] = taken[i]
    <2> TAKE i \in 1..Done'
    <2>1. CASE i <= Done
        BY <1>1, <1>2, <2>1 DEF Settlement
    <2>2. CASE i > Done
        BY <1>1, <2>2
    <2> QED BY <1>1, <2>1, <2>2
<1>4. \A m \in lost' : \E i \in 1..Done' : taken[i] = m
    BY <1>1, <1>2 DEF Settlement
<1>5. \A j \in 1..Len(delivered) : \E i \in 1..Done' : taken[i] = delivered[j]
    BY <1>1, <1>2 DEF Settlement
<1>6. \A j \in 1..Len(delivered) : delivered[j] \notin lost'
    <2> SUFFICES ASSUME NEW j \in 1..Len(delivered), delivered[j] \in lost' PROVE FALSE
        OBVIOUS
    <2>1. delivered[j] \notin lost
        BY <1>2 DEF Settlement
    <2>2. PICK i \in (Done + 1)..Done' : delivered[j] = taken[i]
        BY <2>1
    <2>3. PICK k \in 1..Done : taken[k] = delivered[j]
        BY <1>2 DEF Settlement
    <2>4. i \in 1..Len(taken) /\ k \in 1..Len(taken) /\ i # k
        BY <1>1
    <2> QED BY <2>2, <2>3, <2>4, Positions
<1>7. Settlement'
    BY <1>3, <1>4, <1>5, <1>6 DEF Settlement
<1>8. DeliveredInOrder'
    <2> SUFFICES ASSUME NEW i \in 1..Len(delivered), NEW j \in 1..Len(delivered),
                        NEW k \in 1..Done', NEW l \in 1..Done',
                        i < j, taken[k] = delivered[i], taken[l] = delivered[j]
                 PROVE  k < l
        BY DEF DeliveredInOrder
    <2>1. PICK m \in 1..Done, n \in 1..Done : taken[m] = delivered[i] /\ taken[n] = delivered[j]
        BY <1>2 DEF Settlement
    <2>2. k = m /\ l = n
        <3>1. {k, l, m, n} \subseteq 1..Len(taken)
            BY <1>1
        <3> QED BY <2>1, <3>1, Positions
    <2> QED BY <1>2, <2>1, <2>2 DEF DeliveredInOrder
<1> QED BY <1>7, <1>8

\* The next message after the settled ones is delivered.
LEMMA NextDelivered ==
    ASSUME BrokerInv, UNCHANGED <<taken, lost>>, Done < Len(taken), Done' = Done + 1,
           delivered' = Append(delivered, taken[Done + 1])
    PROVE  Settlement' /\ DeliveredInOrder'
<1> DEFINE n == Len(delivered)
<1>1. /\ Done \in Nat /\ Done + 1 \in 1..Len(taken) /\ Len(taken) \in Nat
      /\ \A i, j \in 1..Len(taken) : taken[i] = taken[j] => i = j
      /\ taken[Done + 1] \in Messages
    BY Positions
<1>2. Settlement /\ DeliveredInOrder
    BY DEF BrokerInv
<1>3. /\ n \in Nat /\ Len(delivered') = n + 1
      /\ \A j \in 1..n : delivered'[j] = delivered[j]
      /\ delivered'[n + 1] = taken[Done + 1]
    BY <1>1 DEF BrokerInv, TypeOK
<1>4. \A i \in 1..(Done + 1) :
         taken[i] \in lost \/ \E j \in 1..(n + 1) : delivered'[j] = taken[i]
    <2> TAKE i \in 1..(Done + 1)
    <2>1. CASE i = Done + 1
        BY <1>3, <2>1
    <2>2. CASE i \in 1..Done
        BY <1>2, <1>3, <2>2 DEF Settlement
    <2> QED BY <1>1, <2>1, <2>2
<1>5. \A m \in lost : \E i \in 1..(Done + 1) : taken[i] = m
    BY <1>1, <1>2 DEF Settlement
<1>6. \A j \in 1..(n + 1) : \E i \in 1..(Done + 1) : taken[i] = delivered'[j]
    BY <1>1, <1>2, <1>3 DEF Settlement
<1>7. \A j \in 1..(n + 1) : delivered'[j] \notin lost
    <2>1. taken[Done + 1] \notin lost
        <3> SUFFICES ASSUME taken[Done + 1] \in lost PROVE FALSE
            OBVIOUS
        <3>1. PICK i \in 1..Done : taken[i] = taken[Done + 1]
            BY <1>2 DEF Settlement
        <3>2. i \in 1..Len(taken) /\ i # Done + 1
            BY <1>1
        <3> QED BY <1>1, <3>1, <3>2
    <2> QED BY <1>2, <1>3, <2>1 DEF Settlement
<1>8. Settlement'
    BY <1>3, <1>4, <1>5, <1>6, <1>7 DEF Settlement
<1>9. DeliveredInOrder'
    <2> SUFFICES ASSUME NEW i \in 1..Len(delivered'), NEW j \in 1..Len(delivered'),
                        NEW k \in 1..Done', NEW l \in 1..Done', i < j,
                        taken[k] = delivered'[i], taken[l] = delivered'[j]
                 PROVE  k < l
        BY DEF DeliveredInOrder
    <2>1. /\ i \in 1..n /\ j \in 1..(n + 1)
          /\ k \in 1..(Done + 1) /\ k \in 1..Len(taken)
          /\ l \in 1..(Done + 1) /\ l \in 1..Len(taken)
        BY <1>1, <1>3
    <2>2. PICK m \in 1..Done : taken[m] = delivered[i]
        BY <1>2, <2>1 DEF Settlement
    <2>3. k = m
        <3>1. m \in 1..Len(taken)
            BY <1>1
        <3> QED BY <1>1, <1>3, <2>1, <2>2, <3>1
    <2>4. CASE j \in 1..n
        <3>1. PICK o \in 1..Done : taken[o] = delivered[j]
            BY <1>2, <2>4 DEF Settlement
        <3>2. o \in 1..Len(taken) /\ o = l
            BY <1>1, <1>3, <2>1, <2>4, <3>1
        <3> QED BY <1>2, <1>3, <2>1, <2>2, <2>3, <2>4, <3>1, <3>2 DEF DeliveredInOrder
    <2>5. CASE j = n + 1
        <3>1. l = Done + 1
            BY <1>1, <1>3, <2>1, <2>5
        <3> QED BY <1>1, <2>3, <3>1
    <2> QED BY <1>3, <2>1, <2>4, <2>5
<1> QED BY <1>8, <1>9

-----------------------------------------------------------------------------
(* The steps *)

LEMMA BrokerSend == ASSUME BrokerInv, NEW m \in Messages, Send(m) PROVE BrokerInv'
<1> USE DEF BrokerInv, Send, TypeOK
<1>1. TypeOK'
    OBVIOUS
<1>2. Once'
    BY DEF Once, ToSet
<1>3. NothingHeld' /\ Unsettled' /\ Settlement' /\ DeliveredInOrder'
    BY DEF NothingHeld, Unsettled, Settlement, DeliveredInOrder, Done
<1> QED BY <1>1, <1>2, <1>3

LEMMA BrokerReceive == ASSUME BrokerInv, Receive PROVE BrokerInv'
<1> USE BrokerAssumption DEF BrokerInv, Receive, TypeOK
<1>1. TypeOK'
    OBVIOUS
<1>2. Once'
    BY DEF Once
<1>3. NothingHeld'
    BY DEF NothingHeld
<1>4. Unsettled'
    BY DEF Unsettled, Done
<1>5. Done' = Done /\ \A i \in 1..Done : taken'[i] = taken[i]
    BY DEF Unsettled, Done
<1>6. Settlement' /\ DeliveredInOrder'
    BY <1>5, NoneSettled
<1> QED BY <1>1, <1>2, <1>3, <1>4, <1>6

\* The message in hand goes on the wire, or is lost on a connection that broke.
LEMMA BrokerPublish == ASSUME BrokerInv, Publish PROVE BrokerInv'
<1> USE DEF Publish
<1>1. /\ inHand \in Messages /\ wire \in Seq(Messages) /\ lost \subseteq Messages
      /\ Done + Len(wire) + 1 = Len(taken) /\ taken[Len(taken)] = inHand
    BY Positions DEF BrokerInv, TypeOK
<1>2. CASE link = "open"
    <2>1. TypeOK'
        <3>1. wire' = Append(wire, inHand) /\ wire' \in Seq(Messages)
            BY <1>1, <1>2
        <3>2. UNCHANGED <<up, sendq, link, taken, delivered, lost>> /\ inHand' = NoMessage
            BY <1>2
        <3> QED BY <3>1, <3>2 DEF BrokerInv, TypeOK
    <2>2. Done' = Done
        BY <1>1, <1>2, BrokerAssumption DEF Done
    <2>3. Unsettled'
        BY <1>1, <1>2, <2>2, Positions, BrokerAssumption DEF Unsettled
    <2>4. Settlement' /\ DeliveredInOrder'
        BY <1>2, <2>2, NoneSettled
    <2> QED BY <1>2, <2>1, <2>3, <2>4 DEF BrokerInv, Once, NothingHeld
<1>3. CASE link = "broken"
    <2>1. TypeOK'
        BY <1>1, <1>3 DEF BrokerInv, TypeOK
    <2>2. wire = <<>> /\ Done' = Len(taken) /\ Len(taken) = Done + 1
        BY <1>1, <1>3, BrokerAssumption, Positions DEF Done, BrokerInv, NothingHeld
    <2>3. lost' = lost \cup {taken[i] : i \in (Done + 1)..Done'}
        BY <1>1, <1>3, <2>2, Positions
    <2>4. Settlement' /\ DeliveredInOrder'
        BY <2>2, <2>3, Positions, NextLost
    <2>5. Unsettled'
        BY <1>3, <2>2, Positions DEF Unsettled
    <2> QED BY <1>3, <2>1, <2>2, <2>4, <2>5 DEF BrokerInv, Once, NothingHeld
<1> QED BY <1>2, <1>3

\* What is on the wire and in hand is what was taken after the settled ones.
LEMMA DieLoses ==
    ASSUME BrokerInv
    PROVE  ToSet(wire \o Hand) = {taken[i] : i \in (Done + 1)..Len(taken)}
<1>1. /\ wire \in Seq(Messages) /\ Hand \in Seq(Messages)
      /\ Done + Len(wire) + Len(Hand) = Len(taken)
    BY Lines, Positions
<1> DEFINE held == wire \o Hand
<1>2. /\ held \in Seq(Messages) /\ Len(held) = Len(wire) + Len(Hand)
      /\ \A i \in 1..Len(wire) : held[i] = wire[i]
      /\ Hand # <<>> => held[Len(wire) + 1] = inHand
    BY <1>1 DEF Hand
<1>3. \A i \in 1..Len(held) : held[i] = taken[Done + i]
    <2> TAKE i \in 1..Len(held)
    <2>1. CASE i \in 1..Len(wire)
        BY <1>2, <2>1, Positions
    <2>2. CASE i = Len(wire) + 1 /\ inHand # NoMessage
        BY <1>1, <1>2, <2>2, Positions DEF Hand
    <2>3. i \in 1..Len(wire) \/ (i = Len(wire) + 1 /\ inHand # NoMessage)
        BY <1>1, <1>2 DEF Hand
    <2> QED BY <2>1, <2>2, <2>3
<1> HIDE DEF held
<1>4. Done \in Nat /\ Done + Len(held) = Len(taken) /\ Len(held) \in Nat
    BY <1>1, <1>2, Positions
<1>5. ToSet(held) = {taken[i] : i \in (Done + 1)..(Done + Len(held))}
    <2>1. taken \in Seq(Messages)
        BY DEF BrokerInv, TypeOK
    <2> QED BY <1>2, <1>3, <1>4, <2>1, Stretch
<1> QED BY <1>4, <1>5 DEF held

\* All that was not settled is lost.
LEMMA BrokerDie == ASSUME BrokerInv, up, Die PROVE BrokerInv'
<1> USE DEF Die
<1>1. /\ wire \in Seq(Messages) /\ Hand \in Seq(Messages)
      /\ Done + Len(wire) + Len(Hand) = Len(taken)
    BY Positions DEF BrokerInv, TypeOK, Hand
<1>2. Done' = Len(taken)
    BY Positions DEF Done
<1>3. ToSet(wire \o Hand) = {taken[i] : i \in (Done + 1)..Len(taken)}
    BY DieLoses
<1>4. Settlement' /\ DeliveredInOrder'
    BY <1>2, <1>3, Positions, NextLost
<1>5. TypeOK'
    <2>1. lost' \subseteq Messages
        BY <1>3, Positions DEF BrokerInv, TypeOK
    <2>2. /\ sendq' = <<>> /\ wire' = <<>> /\ up' = FALSE /\ inHand' = NoMessage
          /\ UNCHANGED <<link, taken, delivered>>
        OBVIOUS
    <2> HIDE DEF Die
    <2>3. up' \in BOOLEAN /\ inHand' \in Messages \cup {NoMessage}
        BY <2>2
    <2>4. sendq' \in Seq(Messages) /\ wire' \in Seq(Messages)
        BY <2>2
    <2> QED BY <2>1, <2>2, <2>3, <2>4 DEF BrokerInv, TypeOK
<1>6. Once'
    BY DEF BrokerInv, Once
<1>7. NothingHeld' /\ Unsettled'
    BY <1>2, Positions DEF NothingHeld, Unsettled
<1> QED BY <1>4, <1>5, <1>6, <1>7 DEF BrokerInv

LEMMA BrokerRestart == ASSUME BrokerInv, Restart PROVE BrokerInv'
BY DEF BrokerInv, Restart, TypeOK, Links, Once, NothingHeld, Unsettled, Done, Settlement,
       DeliveredInOrder

LEMMA BrokerArrive == ASSUME BrokerInv, Arrive PROVE BrokerInv'
<1> USE DEF Arrive
<1>1. /\ wire \in Seq(Messages) /\ Len(wire) > 0 /\ Head(wire) = taken[Done + 1]
      /\ Done < Len(taken)
    <2>1. wire \in Seq(Messages) /\ wire # <<>>
        BY DEF BrokerInv, TypeOK
    <2>2. Len(wire) \in Nat /\ Len(wire) > 0 /\ Head(wire) = wire[1]
        BY <2>1
    <2>3. Len(Hand) \in Nat
        BY DEF Hand
    <2>4. Done \in Nat /\ taken[Done + 1] = wire[1] /\ Done + Len(wire) + Len(Hand) = Len(taken)
        BY <2>2, Positions
    <2> QED BY <2>1, <2>2, <2>3, <2>4
<1>2. Done' = Done + 1
    BY <1>1, Positions DEF Done
<1>3. Settlement' /\ DeliveredInOrder'
    BY <1>1, <1>2, NextDelivered
<1>4. TypeOK' /\ Once' /\ NothingHeld'
    BY <1>1 DEF BrokerInv, TypeOK, Once, NothingHeld
<1>5. Unsettled'
    <2>1. /\ Len(wire') = Len(wire) - 1 /\ Len(wire) \in Nat
          /\ \A i \in 1..Len(wire') : wire'[i] = wire[i + 1]
        BY <1>1
    <2>2. ASSUME NEW i \in 1..Len(wire') PROVE taken'[Done' + i] = wire'[i]
        <3>1. i + 1 \in 1..Len(wire) /\ Done' + i = Done + (i + 1)
            BY <1>2, <2>1, Positions
        <3>2. taken[Done + (i + 1)] = wire[i + 1]
            BY <3>1, Positions
        <3> QED BY <2>1, <3>1, <3>2
    <2>3. Done' \in Nat
        BY <1>2, Positions
    <2>4. (inHand # NoMessage => taken[Len(taken)] = inHand)'
        BY Positions
    <2> QED BY <2>2, <2>3, <2>4 DEF Unsettled
<1> QED BY <1>3, <1>4, <1>5 DEF BrokerInv

LEMMA BrokerBreak == ASSUME BrokerInv, Break PROVE BrokerInv'
<1> USE DEF Break
<1>1. wire \in Seq(Messages) /\ Done' = Done + Len(wire) /\ Done' \in Done..Len(taken)
    BY Positions DEF BrokerInv, TypeOK, Done, Hand
<1>2. ToSet(wire) = {taken[i] : i \in (Done + 1)..Done'}
    <2>1. ToSet(wire) = {taken[i] : i \in (Done + 1)..(Done + Len(wire))}
        <3>1. taken \in Seq(Messages)
            BY DEF BrokerInv, TypeOK
        <3>2. Done \in Nat /\ \A i \in 1..Len(wire) : wire[i] = taken[Done + i]
            BY Positions
        <3> QED BY <1>1, <3>1, <3>2, Stretch
    <2> QED BY <1>1, <2>1
<1>3. Settlement' /\ DeliveredInOrder'
    BY <1>1, <1>2, NextLost
<1>4. TypeOK' /\ Once' /\ NothingHeld'
    BY <1>1 DEF BrokerInv, TypeOK, Links, Once, NothingHeld, ToSet
<1>5. Unsettled'
    BY <1>1, Positions DEF Unsettled, Hand
<1> QED BY <1>3, <1>4, <1>5 DEF BrokerInv

\* What happens to the connection alone.
LEMMA BrokerLink == ASSUME BrokerInv, Block \/ Unblock \/ Notice PROVE BrokerInv'
<1>1. /\ UNCHANGED <<up, sendq, inHand, wire, taken, delivered, lost>>
      /\ link' \in Links
      /\ link' \in {"broken", "closed"} => link \in {"broken", "closed"}
    BY DEF Block, Unblock, Notice, Links
<1>2. Done' = Done
    BY <1>1 DEF Done
<1> QED
    BY <1>1, <1>2 DEF BrokerInv, TypeOK, Once, NothingHeld, Unsettled, Settlement,
                      DeliveredInOrder

LEMMA BrokerStep == BrokerInv /\ [Next]_vars => BrokerInv'
<1> SUFFICES ASSUME BrokerInv, [Next]_vars PROVE BrokerInv'
    OBVIOUS
<1>1. ASSUME NEW m \in Messages, Send(m) PROVE BrokerInv'
    BY <1>1, BrokerSend
<1>2. CASE Receive
    BY <1>2, BrokerReceive
<1>3. CASE Publish
    BY <1>3, BrokerPublish
<1>4. CASE PublishFails
    BY <1>4, BrokerDie DEF PublishFails
<1>5. CASE Crash
    BY <1>5, BrokerDie DEF Crash
<1>6. CASE Restart
    BY <1>6, BrokerRestart
<1>7. CASE Arrive
    BY <1>7, BrokerArrive
<1>8. CASE Break
    BY <1>8, BrokerBreak
<1>9. CASE Block \/ Unblock \/ Notice
    BY <1>9, BrokerLink
<1>10. CASE UNCHANGED vars
    BY <1>10 DEF vars, BrokerInv, TypeOK, Once, NothingHeld, Unsettled, Done, Settlement,
                 DeliveredInOrder
<1> QED
    BY <1>1, <1>2, <1>3, <1>4, <1>5, <1>6, <1>7, <1>8, <1>9, <1>10 DEF Next

LEMMA BrokerInvariant == Spec => []BrokerInv
BY BrokerInit, BrokerStep, PTL DEF Spec

-----------------------------------------------------------------------------
(* The theorems *)

\* Every variable has its type, for any set of messages and any faults.
THEOREM Types == Spec => []TypeOK
<1>1. BrokerInv => TypeOK
    BY DEF BrokerInv
<1> QED BY BrokerInvariant, <1>1, PTL

\* What is kept is what RabbitMQ has and, after it, the messages taken and not
\* settled.
LEMMA Kept ==
    ASSUME BrokerInv, NEW kept, kept = delivered \o wire \o Hand
    PROVE  /\ kept \in Seq(Messages)
           /\ Len(kept) = Len(delivered) + (Len(taken) - Done)
           /\ \A i \in 1..Len(delivered) : kept[i] = delivered[i]
           /\ \A i \in (Done + 1)..Len(taken) :
                 kept[Len(delivered) + (i - Done)] = taken[i]
<1>1. delivered \in Seq(Messages) /\ wire \in Seq(Messages) /\ Hand \in Seq(Messages)
    BY DEF BrokerInv, TypeOK, Hand
<1> DEFINE first == delivered \o wire
<1>2. /\ first \in Seq(Messages)
      /\ Len(first) = Len(delivered) + Len(wire)
      /\ \A i \in 1..Len(delivered) : first[i] = delivered[i]
      /\ \A i \in 1..Len(wire) : first[Len(delivered) + i] = wire[i]
    BY <1>1
<1> HIDE DEF first
<1>3. /\ kept = first \o Hand /\ kept \in Seq(Messages)
      /\ Len(kept) = Len(first) + Len(Hand)
      /\ \A i \in 1..Len(first) : kept[i] = first[i]
      /\ Hand # <<>> => kept[Len(first) + 1] = inHand
    <2>1. kept = first \o Hand
        BY DEF first
    <2>2. CASE inHand = NoMessage
        BY <1>1, <1>2, <2>1, <2>2 DEF Hand
    <2>3. CASE inHand # NoMessage
        <3>1. Hand = <<inHand>> /\ inHand \in Messages
            BY <2>3 DEF Hand, BrokerInv, TypeOK
        <3>2. /\ first \o <<inHand>> \in Seq(Messages)
              /\ Len(first \o <<inHand>>) = Len(first) + 1
              /\ \A i \in 1..Len(first) : (first \o <<inHand>>)[i] = first[i]
              /\ (first \o <<inHand>>)[Len(first) + 1] = inHand
            BY <1>2, <3>1
        <3>3. Len(Hand) = 1
            BY <3>1
        <3> QED BY <2>1, <3>1, <3>2, <3>3
    <2> QED BY <2>2, <2>3
<1>4. Len(delivered) \in Nat /\ Len(wire) \in Nat /\ Len(Hand) \in Nat /\ Len(first) \in Nat
    BY <1>1, <1>2
<1>5. Len(kept) = Len(delivered) + (Len(taken) - Done)
    BY <1>2, <1>3, <1>4, Positions
<1>6. \A i \in 1..Len(delivered) : kept[i] = delivered[i]
    BY <1>2, <1>3, <1>4
<1>7. ASSUME NEW i \in (Done + 1)..Len(taken)
      PROVE  kept[Len(delivered) + (i - Done)] = taken[i]
    <2> DEFINE w == i - Done
    <2>1. w \in 1..(Len(wire) + Len(Hand)) /\ i = Done + w
        BY <1>4, Positions
    <2> HIDE DEF w
    <2>2. CASE w \in 1..Len(wire)
        <3>1. taken[Done + w] = wire[w]
            BY <2>2, Positions
        <3>2. Len(delivered) + w \in 1..Len(first)
            BY <1>2, <1>4, <2>2
        <3>3. kept[Len(delivered) + w] = wire[w]
            BY <1>2, <1>3, <2>2, <3>2
        <3> QED BY <2>1, <3>1, <3>3 DEF w
    <2>3. CASE w = Len(wire) + 1 /\ inHand # NoMessage
        <3>1. taken[Done + w] = inHand
            BY <1>4, <2>3, Positions
        <3>2. Len(delivered) + w = Len(first) + 1 /\ Hand # <<>>
            BY <1>2, <1>4, <2>3 DEF Hand
        <3>3. kept[Len(delivered) + w] = inHand
            BY <1>3, <3>2
        <3> QED BY <2>1, <3>1, <3>3 DEF w
    <2>4. w \in 1..Len(wire) \/ (w = Len(wire) + 1 /\ inHand # NoMessage)
        BY <1>4, <2>1 DEF Hand
    <2> QED BY <2>2, <2>3, <2>4
<1> QED BY <1>3, <1>5, <1>6, <1>7

LEMMA InvAccounted == BrokerInv => Accounted
<1> SUFFICES ASSUME BrokerInv PROVE Accounted
    OBVIOUS
<1> DEFINE kept == delivered \o wire \o Hand
           d == Len(delivered)
<1>1. /\ kept \in Seq(Messages)
      /\ Len(kept) = d + (Len(taken) - Done)
      /\ \A i \in 1..d : kept[i] = delivered[i]
      /\ \A i \in (Done + 1)..Len(taken) : kept[d + (i - Done)] = taken[i]
    BY Kept
<1> HIDE DEF kept
<1>2. /\ d \in Nat /\ Done \in Nat /\ Len(taken) \in Nat /\ Done <= Len(taken)
      /\ DOMAIN taken = 1..Len(taken) /\ DOMAIN kept = 1..Len(kept)
    <2>1. taken \in Seq(Messages) /\ wire \in Seq(Messages) /\ Hand \in Seq(Messages)
        BY DEF BrokerInv, TypeOK, Hand
    <2> QED BY <1>1, <2>1, Positions
<1>3. Settlement /\ DeliveredInOrder
    BY DEF BrokerInv
\* Where a message that is kept was taken.
<1>4. ASSUME NEW i \in 1..Len(kept), i > d
      PROVE  /\ Done + (i - d) \in (Done + 1)..Len(taken)
             /\ kept[i] = taken[Done + (i - d)]
    <2>1. Done + (i - d) \in (Done + 1)..Len(taken) /\ d + ((Done + (i - d)) - Done) = i
        BY <1>1, <1>2, <1>4
    <2> QED BY <1>1, <2>1
<1>5. ASSUME NEW i \in 1..d
      PROVE  \E k \in 1..Done : taken[k] = kept[i]
    BY <1>1, <1>3 DEF Settlement
<1>6. ToSet(taken) \subseteq lost \cup ToSet(kept)
    <2> SUFFICES ASSUME NEW k \in 1..Len(taken), taken[k] \notin lost
                 PROVE  \E i \in 1..Len(kept) : kept[i] = taken[k]
        BY <1>2 DEF ToSet
    <2>1. CASE k \in 1..Done
        <3>1. PICK j \in 1..d : delivered[j] = taken[k]
            BY <1>3, <2>1 DEF Settlement
        <3>2. j \in 1..Len(kept)
            BY <1>1, <1>2
        <3> QED BY <1>1, <3>1, <3>2
    <2>2. CASE k \in (Done + 1)..Len(taken)
        <3>1. d + (k - Done) \in 1..Len(kept)
            BY <1>1, <1>2, <2>2
        <3> QED BY <1>1, <2>2, <3>1
    <2> QED BY <1>2, <2>1, <2>2
<1>7. lost \cup ToSet(kept) \subseteq ToSet(taken)
    <2>1. ASSUME NEW m \in lost PROVE m \in ToSet(taken)
        BY <1>2, <1>3 DEF Settlement, ToSet
    <2>2. ASSUME NEW i \in 1..Len(kept) PROVE kept[i] \in ToSet(taken)
        <3>1. CASE i > d
            BY <1>2, <1>4, <3>1 DEF ToSet
        <3>2. CASE i \in 1..d
            <4>1. PICK k \in 1..Done : taken[k] = kept[i]
                BY <1>5, <3>2
            <4>2. k \in DOMAIN taken
                BY <1>2
            <4> QED BY <4>1, <4>2 DEF ToSet
        <3> QED BY <1>1, <1>2, <3>1, <3>2
    <2> QED BY <1>2, <2>1, <2>2 DEF ToSet
<1>8. lost \cap ToSet(kept) = {}
    <2> SUFFICES ASSUME NEW i \in 1..Len(kept), kept[i] \in lost PROVE FALSE
        BY <1>2 DEF ToSet
    <2>1. CASE i \in 1..d
        BY <1>1, <1>3, <2>1 DEF Settlement
    <2>2. CASE i > d
        <3> DEFINE k == Done + (i - d)
        <3>1. k \in (Done + 1)..Len(taken) /\ kept[i] = taken[k]
            BY <1>4, <2>2
        <3>2. PICK l \in 1..Done : taken[l] = kept[i]
            BY <1>3 DEF Settlement
        <3>3. k \in 1..Len(taken) /\ l \in 1..Len(taken) /\ k # l
            BY <1>2, <3>1
        <3> HIDE DEF k
        <3> QED BY <3>1, <3>2, <3>3, Positions
    <2> QED BY <1>1, <1>2, <2>1, <2>2
<1>9. ASSUME NEW i \in 1..Len(kept), NEW j \in 1..Len(kept), i < j
      PROVE  \E k, l \in 1..Len(taken) : k < l /\ taken[k] = kept[i] /\ taken[l] = kept[j]
    <2>1. CASE j \in 1..d
        <3>1. i \in 1..d
            BY <1>2, <1>9, <2>1
        <3>2. PICK k \in 1..Done : taken[k] = kept[i]
            BY <1>5, <3>1
        <3>3. PICK l \in 1..Done : taken[l] = kept[j]
            BY <1>5, <2>1
        <3>4. k < l
            BY <1>1, <1>3, <1>9, <2>1, <3>1, <3>2, <3>3 DEF DeliveredInOrder
        <3>5. k \in 1..Len(taken) /\ l \in 1..Len(taken)
            BY <1>2
        <3> QED BY <3>2, <3>3, <3>4, <3>5
    <2>2. CASE i \in 1..d /\ j > d
        <3>1. PICK k \in 1..Done : taken[k] = kept[i]
            BY <1>5, <2>2
        <3>2. Done + (j - d) \in (Done + 1)..Len(taken) /\ kept[j] = taken[Done + (j - d)]
            BY <1>4, <2>2
        <3>3. k < Done + (j - d) /\ k \in 1..Len(taken) /\ Done + (j - d) \in 1..Len(taken)
            BY <1>2, <3>2
        <3> QED BY <3>1, <3>2, <3>3
    <2>3. CASE i > d /\ j > d
        <3>1. Done + (i - d) \in (Done + 1)..Len(taken) /\ kept[i] = taken[Done + (i - d)]
            BY <1>4, <2>3
        <3>2. Done + (j - d) \in (Done + 1)..Len(taken) /\ kept[j] = taken[Done + (j - d)]
            BY <1>4, <2>3
        <3>3. /\ Done + (i - d) < Done + (j - d)
              /\ Done + (i - d) \in 1..Len(taken) /\ Done + (j - d) \in 1..Len(taken)
            BY <1>2, <1>9, <3>1, <3>2
        <3> QED BY <3>1, <3>2, <3>3
    <2> QED BY <1>1, <1>2, <1>9, <2>1, <2>2, <2>3
<1>10. Accounted
    <2>1. \A i, j \in DOMAIN taken : taken[i] = taken[j] => i = j
        BY <1>2, Positions
    <2>2. \A i, j \in DOMAIN kept :
             i < j => \E k, l \in DOMAIN taken :
                          k < l /\ taken[k] = kept[i] /\ taken[l] = kept[j]
        <3> SUFFICES ASSUME NEW i \in 1..Len(kept), NEW j \in 1..Len(kept), i < j
                     PROVE  \E k, l \in 1..Len(taken) :
                                k < l /\ taken[k] = kept[i] /\ taken[l] = kept[j]
            BY <1>2
        <3> QED BY <1>9
    <2>3. ToSet(taken) = lost \cup ToSet(kept)
        BY <1>6, <1>7
    <2> QED BY <1>8, <2>1, <2>2, <2>3 DEF Accounted, kept
<1> QED BY <1>10

\* Every message a handler was let go on for is in one place or written off, and
\* those that are not written off are in the order in which they were taken.
THEOREM Accounting == Spec => []Accounted
BY BrokerInvariant, InvAccounted, PTL

\* Nothing is given up while the connection is healthy, and the death of the
\* process costs at most what the socket held and the message in hand.
THEOREM Losses == Spec => LossHasACause
<1> DEFINE Cause ==
        /\ lost' # lost => (link' \in {"broken", "closed"} \/ ~up')
        /\ (~up' /\ up) => lost' \subseteq lost \cup ToSet(wire) \cup {inHand}
<1>1. ASSUME BrokerInv, Next PROVE Cause
    <2>1. CASE Die
        <3>1. wire \in Seq(Messages) /\ Hand \in Seq(Messages)
            BY <1>1, Lines
        <3>2. ToSet(wire \o Hand) \subseteq ToSet(wire) \cup {inHand}
            <4> SUFFICES ASSUME NEW i \in 1..Len(wire \o Hand)
                         PROVE  (wire \o Hand)[i] \in ToSet(wire) \cup {inHand}
                BY <3>1 DEF ToSet
            <4>1. CASE i <= Len(wire)
                BY <3>1, <4>1 DEF ToSet
            <4>2. CASE i > Len(wire)
                BY <3>1, <4>2 DEF Hand
            <4> QED BY <3>1, <4>1, <4>2
        <3> QED BY <2>1, <3>2 DEF Die
    <2>2. CASE Publish
        BY <2>2 DEF Publish
    <2>3. CASE Break
        BY <2>3 DEF Break
    <2>4. CASE UNCHANGED lost /\ (up => up')
        BY <2>4
    <2> QED
        BY <1>1, <2>1, <2>2, <2>3, <2>4 DEF Next, Send, Receive, PublishFails, Crash, Restart,
            Arrive, Block, Unblock, Notice
<1>2. BrokerInv /\ [Next]_vars => [Cause]_vars
    BY <1>1
<1> QED BY BrokerInvariant, <1>2, PTL DEF Spec, LossHasACause

-----------------------------------------------------------------------------
(* The broker implements Handoff *)

LEMMA SameSets == \A s : Promise!ToSet(s) = ToSet(s)
BY DEF ToSet, Promise!ToSet

\* To be pending is to be on the wire or in hand: the messages taken after the
\* settled ones.
LEMMA PendingIsUnsettled ==
    ASSUME BrokerInv
    PROVE  /\ Promise!Pending = {taken[i] : i \in (Done + 1)..Len(taken)}
           /\ \A i, j \in (Done + 1)..Len(taken) :
                 taken[i] \in Promise!Before(taken[j]) <=> i < j
<1>1. /\ DOMAIN taken = 1..Len(taken) /\ DOMAIN delivered = 1..Len(delivered)
      /\ Done \in Nat /\ Len(taken) \in Nat /\ Done <= Len(taken)
    <2>1. taken \in Seq(Messages) /\ delivered \in Seq(Messages) /\ wire \in Seq(Messages)
             /\ Hand \in Seq(Messages)
        BY Lines
    <2> QED BY <2>1, Positions
<1>2. Settlement
    BY DEF BrokerInv
<1>3. ASSUME NEW i \in (Done + 1)..Len(taken)
      PROVE  taken[i] \in ToSet(taken) \ (lost \cup ToSet(delivered))
    <2>1. taken[i] \in ToSet(taken)
        BY <1>1 DEF ToSet
    <2>2. \A k \in 1..Done : taken[k] # taken[i]
        <3> SUFFICES ASSUME NEW k \in 1..Done, taken[k] = taken[i] PROVE FALSE
            OBVIOUS
        <3>1. k \in 1..Len(taken) /\ i \in 1..Len(taken) /\ k # i
            BY <1>1
        <3> QED BY <3>1, Positions
    <2>3. taken[i] \notin lost
        BY <1>2, <2>2 DEF Settlement
    <2>4. taken[i] \notin ToSet(delivered)
        BY <1>1, <1>2, <2>2 DEF Settlement, ToSet
    <2> QED BY <2>1, <2>3, <2>4
<1>4. ASSUME NEW i \in 1..Len(taken), taken[i] \notin lost \cup ToSet(delivered)
      PROVE  i \in (Done + 1)..Len(taken)
    <2>1. i \notin 1..Done
        BY <1>1, <1>2, <1>4 DEF Settlement, ToSet
    <2> QED BY <1>1, <2>1
<1>5. Promise!Pending = {taken[i] : i \in (Done + 1)..Len(taken)}
    <2> DEFINE open == {taken[i] : i \in (Done + 1)..Len(taken)}
    <2>1. open \subseteq Promise!Pending
        BY <1>3, SameSets DEF Promise!Pending
    <2>2. ASSUME NEW m \in Promise!Pending PROVE m \in open
        <3>1. m \in ToSet(taken) /\ m \notin lost \cup ToSet(delivered)
            BY <2>2, SameSets DEF Promise!Pending
        <3>2. PICK i \in 1..Len(taken) : m = taken[i]
            BY <1>1, <3>1 DEF ToSet
        <3>3. i \in (Done + 1)..Len(taken)
            BY <1>4, <3>1, <3>2
        <3> QED BY <3>2, <3>3
    <2> QED BY <2>1, <2>2
<1>6. ASSUME NEW i \in (Done + 1)..Len(taken), NEW j \in (Done + 1)..Len(taken)
      PROVE  taken[i] \in Promise!Before(taken[j]) <=> i < j
    <2>1. i \in 1..Len(taken) /\ j \in 1..Len(taken)
        BY <1>1
    <2>2. ASSUME i < j PROVE taken[i] \in Promise!Before(taken[j])
        <3>1. taken[i] \in ToSet(taken)
            BY <1>1, <2>1 DEF ToSet
        <3>2. \E k, l \in DOMAIN taken : k < l /\ taken[k] = taken[i] /\ taken[l] = taken[j]
            BY <1>1, <2>1, <2>2
        <3> QED BY <3>1, <3>2, SameSets DEF Promise!Before
    <2>3. ASSUME taken[i] \in Promise!Before(taken[j]) PROVE i < j
        <3>1. PICK k, l \in 1..Len(taken) : k < l /\ taken[k] = taken[i] /\ taken[l] = taken[j]
            BY <1>1, <2>3 DEF Promise!Before
        <3>2. k = i /\ l = j
            BY <2>1, <3>1, Positions
        <3> QED BY <3>1, <3>2
    <2> QED BY <2>2, <2>3
<1> QED BY <1>5, <1>6

\* Whatever is before a pending message and pending itself comes earlier after
\* the settled ones.
LEMMA BeforePending ==
    ASSUME BrokerInv, NEW j \in (Done + 1)..Len(taken), NEW m,
           m \in Promise!Before(taken[j]) \cap Promise!Pending
    PROVE  \E i \in (Done + 1)..Len(taken) : m = taken[i] /\ i < j
<1>1. PICK i \in (Done + 1)..Len(taken) : m = taken[i]
    BY PendingIsUnsettled
<1> QED BY <1>1, PendingIsUnsettled

\* The next messages after the settled ones are lost together.
LEMMA LossIsLose ==
    ASSUME BrokerInv, UNCHANGED <<taken, delivered>>, NEW n \in Nat, Done < n, n <= Len(taken),
           lost' = lost \cup {taken[i] : i \in (Done + 1)..n}
    PROVE  Promise!Lose
<1> DEFINE some == {taken[i] : i \in (Done + 1)..n}
<1>1. Done \in Nat /\ Len(taken) \in Nat
    BY Positions
<1>2. some \in (SUBSET Promise!Pending) \ {{}}
    <2>1. some \subseteq Promise!Pending
        BY <1>1, PendingIsUnsettled
    <2>2. taken[Done + 1] \in some
        BY <1>1
    <2> HIDE DEF some
    <2> QED BY <2>1, <2>2
<1>3. ASSUME NEW m \in some, NEW k \in Promise!Before(m) \cap Promise!Pending
      PROVE  k \in some
    <2>1. PICK j \in (Done + 1)..n : m = taken[j]
        OBVIOUS
    <2>2. j \in (Done + 1)..Len(taken)
        BY <1>1
    <2>3. PICK i \in (Done + 1)..Len(taken) : k = taken[i] /\ i < j
        BY <1>3, <2>1, <2>2, BeforePending
    <2>4. i \in (Done + 1)..n
        BY <1>1, <2>3
    <2> QED BY <2>3, <2>4
<1> HIDE DEF some
<1>4. lost' = lost \cup some
    BY DEF some
<1> QED BY <1>2, <1>3, <1>4 DEF Promise!Lose

\* A message that goes on the wire, a process that starts and the like change
\* nothing that Handoff speaks of.
LEMMA Stutter == UNCHANGED <<taken, delivered, lost>> => UNCHANGED Promise!vars
BY DEF Promise!vars

LEMMA ReceiveIsAccept == ASSUME BrokerInv, Receive PROVE Promise!Next
<1>1. sendq \in Seq(Messages) /\ taken \in Seq(Messages) /\ sendq # <<>>
    BY Lines DEF Receive
<1>2. Head(sendq) = sendq[1] /\ 1 \in 1..Len(sendq) /\ Head(sendq) \in Messages
    BY <1>1
<1>3. Head(sendq) \notin ToSet(taken)
    BY <1>1, <1>2 DEF BrokerInv, Once, ToSet
<1>4. taken' = Append(taken, Head(sendq)) /\ UNCHANGED <<delivered, lost>>
    BY DEF Receive
<1>5. Promise!Accept(Head(sendq))
    BY <1>3, <1>4, SameSets DEF Promise!Accept
<1> QED BY <1>2, <1>5 DEF Promise!Next

LEMMA ArriveIsDeliver == ASSUME BrokerInv, Arrive PROVE Promise!Deliver
<1>1. wire \in Seq(Messages) /\ Hand \in Seq(Messages) /\ wire # <<>>
    BY Lines DEF Arrive
<1>2. /\ Head(wire) = taken[Done + 1] /\ Done + 1 \in (Done + 1)..Len(taken)
      /\ Done \in Nat
    <2>1. Head(wire) = wire[1] /\ 1 \in 1..Len(wire) /\ Len(wire) \in Nat /\ Len(Hand) \in Nat
        BY <1>1
    <2> QED BY <2>1, Positions
<1>3. Head(wire) \in Promise!Pending
    BY <1>2, PendingIsUnsettled
<1>4. Promise!Before(Head(wire)) \cap Promise!Pending = {}
    <2> SUFFICES ASSUME NEW m \in Promise!Before(Head(wire)) \cap Promise!Pending PROVE FALSE
        OBVIOUS
    <2>1. PICK i \in (Done + 1)..Len(taken) : i < Done + 1
        BY <1>2, BeforePending
    <2> QED BY <1>2, <2>1
<1> QED BY <1>3, <1>4 DEF Arrive, Promise!Deliver

LEMMA DieIsLose == ASSUME BrokerInv, Die PROVE Promise!Lose \/ UNCHANGED Promise!vars
<1>1. /\ UNCHANGED <<taken, delivered>>
      /\ lost' = lost \cup {taken[i] : i \in (Done + 1)..Len(taken)}
    BY DieLoses DEF Die
<1>2. Done \in Nat /\ Len(taken) \in Nat /\ Done <= Len(taken)
    BY Lines, Positions
<1>3. CASE Done < Len(taken)
    BY <1>1, <1>2, <1>3, LossIsLose
<1>4. CASE Done = Len(taken)
    BY <1>1, <1>2, <1>4, Stutter
<1> QED BY <1>2, <1>3, <1>4

LEMMA PublishIsLose == ASSUME BrokerInv, Publish PROVE Promise!Lose \/ UNCHANGED Promise!vars
<1>1. UNCHANGED <<taken, delivered>>
    BY DEF Publish
<1>2. CASE link = "open"
    BY <1>1, <1>2, Stutter DEF Publish
<1>3. CASE link = "broken"
    <2>1. /\ Done \in Nat /\ Len(taken) = Done + 1 /\ taken[Len(taken)] = inHand
        BY <1>3, Positions DEF Publish, BrokerInv, NothingHeld
    <2>2. lost' = lost \cup {taken[i] : i \in (Done + 1)..Len(taken)}
        BY <1>3, <2>1 DEF Publish
    <2> QED BY <1>1, <2>1, <2>2, LossIsLose
<1> QED BY <1>2, <1>3 DEF Publish

LEMMA BreakIsLose == ASSUME BrokerInv, Break PROVE Promise!Lose \/ UNCHANGED Promise!vars
<1>1. wire \in Seq(Messages) /\ Hand \in Seq(Messages) /\ taken \in Seq(Messages)
    BY Lines
<1> DEFINE n == Done + Len(wire)
<1>2. Done \in Nat /\ n \in Nat /\ Done <= n /\ n <= Len(taken)
    BY <1>1, Positions
<1>3. /\ UNCHANGED <<taken, delivered>>
      /\ lost' = lost \cup {taken[i] : i \in (Done + 1)..n}
    <2>1. \A i \in 1..Len(wire) : wire[i] = taken[Done + i]
        BY Positions
    <2> QED BY <1>1, <1>2, <2>1, Stretch DEF Break
<1> HIDE DEF n
<1>4. CASE Done < n
    BY <1>2, <1>3, <1>4, LossIsLose
<1>5. CASE Done = n
    BY <1>2, <1>3, <1>5, Stutter
<1> QED BY <1>2, <1>4, <1>5

\* What the broker does is what Handoff allows: each step of it is one of Handoff
\* or none at all.
THEOREM Refinement == Spec => ImplementsHandoff
<1>1. Init => Promise!Init
    BY DEF Init, Promise!Init
<1>2. BrokerInv /\ [Next]_vars => [Promise!Next]_(Promise!vars)
    <2> SUFFICES ASSUME BrokerInv, [Next]_vars PROVE Promise!Next \/ UNCHANGED Promise!vars
        OBVIOUS
    <2>1. CASE Receive
        BY <2>1, ReceiveIsAccept
    <2>2. CASE Publish
        BY <2>2, PublishIsLose DEF Promise!Next
    <2>3. CASE PublishFails \/ Crash
        BY <2>3, DieIsLose DEF Promise!Next, PublishFails, Crash
    <2>4. CASE Arrive
        BY <2>4, ArriveIsDeliver DEF Promise!Next
    <2>5. CASE Break
        BY <2>5, BreakIsLose DEF Promise!Next
    <2>6. CASE UNCHANGED <<taken, delivered, lost>>
        BY <2>6, Stutter
    <2> QED
        BY <2>1, <2>2, <2>3, <2>4, <2>5, <2>6
           DEF Next, vars, Send, Restart, Block, Unblock, Notice
<1> QED BY BrokerInvariant, <1>1, <1>2, PTL DEF Spec, ImplementsHandoff, Promise!Spec
=============================================================================
