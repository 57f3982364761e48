-------------------------- MODULE Websocket_proofs --------------------------
(* Proofs about Websocket, for every set of connections and any number of *)
(* messages on each.                                                      *)
EXTENDS Websocket, DataLemmas, TLAPS

-----------------------------------------------------------------------------
(* What a goroutine is doing, and how a step changes it *)

IdlePcs == {"new", "upgrade", "read"}
BusyPcs == {"gate", "send", "write", "stuck"}
LeftPcs == {"leaving", "ended"}
Pcs == {"new", "upgrade", "read", "gate", "send", "write", "stuck", "leaving", "ended"}
Codes == {0, 200, Refusal}

Record == [pc : Pcs, read : Nat, code : Codes]

\* The loop is left.
Left(c) == conn[c].pc \in LeftPcs

\* Of connection c, and of no other, the goroutine is now as r says.
Now(c, r) == conn' = [conn EXCEPT ![c] = r]

LEMMA Elsewhere ==
    ASSUME conn \in [Conns -> Record], NEW c \in Conns, NEW r \in Record, Now(c, r)
    PROVE  /\ conn' \in [Conns -> Record]
           /\ conn'[c] = r /\ \A d \in Conns \ {c} : conn'[d] = conn[d]
BY DEF Now

\* The ways to go on: to the next step, out of the loop, with an answer to give,
\* with a message that was read, with an answer that was given.
LEMMA Goes ==
    ASSUME NEW c \in Conns, conn[c] \in Record, NEW p \in Pcs, GoTo(c, p)
    PROVE  \E r \in Record : /\ Now(c, r) /\ r.pc = p
                             /\ r.read = conn[c].read /\ r.code = conn[c].code
<1> DEFINE r == [conn[c] EXCEPT !.pc = p]
<1>1. r \in Record /\ r.pc = p /\ r.read = conn[c].read /\ r.code = conn[c].code
    BY DEF Record
<1>2. Now(c, r)
    BY DEF GoTo, Now
<1> QED BY <1>1, <1>2

LEMMA Lost ==
    ASSUME NEW c \in Conns, NEW p \in Pcs, Leaves(c, p)
    PROVE  \E r \in Record : Now(c, r) /\ r.pc = p /\ r.read = 0
<1> DEFINE r == [NewConn EXCEPT !.pc = p]
<1>1. r \in Record /\ r.pc = p /\ r.read = 0
    BY DEF Record, NewConn, Codes
<1>2. Now(c, r)
    BY DEF Leaves, Now
<1> QED BY <1>1, <1>2

LEMMA Answers ==
    ASSUME NEW c \in Conns, conn[c] \in Record, NEW k \in Codes, Answer(c, k)
    PROVE  \E r \in Record : /\ Now(c, r) /\ r.pc = "write"
                             /\ r.read = conn[c].read /\ r.code = k
<1> DEFINE r == [conn[c] EXCEPT !.pc = "write", !.code = k]
<1>1. r \in Record /\ r.pc = "write" /\ r.read = conn[c].read /\ r.code = k
    <2>1. "write" \in Pcs
        BY DEF Pcs
    <2> QED BY <2>1 DEF Record
<1>2. Now(c, r)
    BY DEF Answer, Now
<1> QED BY <1>1, <1>2

LEMMA Reads ==
    ASSUME NEW c \in Conns, conn[c] \in Record, Read(c)
    PROVE  \E r \in Record : Now(c, r) /\ r.pc = "gate" /\ r.read = conn[c].read + 1
<1> DEFINE n == conn[c].read + 1
           r == [conn[c] EXCEPT !.pc = "gate", !.read = n]
<1>1. n \in Nat /\ "gate" \in Pcs
    BY DEF Record, Pcs
<1>2. r \in Record /\ r.pc = "gate" /\ r.read = n
    <2> HIDE DEF n
    <2> QED BY <1>1 DEF Record
<1>3. Now(c, r)
    BY DEF Read, Now
<1> QED BY <1>2, <1>3

LEMMA Writes ==
    ASSUME NEW c \in Conns, conn[c] \in Record, Write(c)
    PROVE  \E r \in Record : Now(c, r) /\ r.pc = "read" /\ r.read = conn[c].read
<1> DEFINE r == [conn[c] EXCEPT !.pc = "read", !.code = 0]
<1>1. r \in Record /\ r.pc = "read" /\ r.read = conn[c].read
    <2>1. "read" \in Pcs /\ 0 \in Codes
        BY DEF Pcs, Codes
    <2> QED BY <2>1 DEF Record
<1>2. Now(c, r)
    BY DEF Write, Now
<1> QED BY <1>1, <1>2

\* The end of the process is the end of every goroutine.
LEMMA Ends ==
    ASSUME conn \in [Conns -> Record], Crash
    PROVE  /\ conn' \in [Conns -> Record]
           /\ \A d \in Conns : \/ conn'[d] = conn[d] /\ conn[d].pc = "new"
                               \/ conn'[d].pc = "ended" /\ conn'[d].read = 0
<1> DEFINE r == [NewConn EXCEPT !.pc = "ended"]
<1>1. r \in Record /\ r.pc = "ended" /\ r.read = 0
    BY DEF Record, NewConn, Codes, Pcs
<1>2. conn' = [d \in Conns |-> IF conn[d].pc = "new" THEN conn[d] ELSE r]
    BY DEF Crash, At
<1> HIDE DEF r
<1> QED BY <1>1, <1>2

-----------------------------------------------------------------------------
(* The inductive invariant of the ban *)

\* As much typing as the ban needs.
Typed ==
    /\ written \in [Conns -> Nat]
    /\ conn \in [Conns -> Record]
    /\ accepted \in Seq(Conns \X Nat)
    /\ barred \subseteq Conns \X Nat

\* Messages are read after they were written and accepted after they were read,
\* as the goroutine knows while it is in its loop.
InOrder ==
    /\ \A c \in Conns : conn[c].read <= written[c]
    /\ \A m \in ToSet(accepted) :
          /\ m[2] <= written[m[1]]
          /\ Left(m[1]) \/ m[2] <= conn[m[1]].read

\* Nothing is barred while nobody is blocked, and what waits for the broker is
\* not barred: it passed the gate, or was read, before the ban.
NotWaiting ==
    /\ barred # {} => blocked
    /\ \A c \in Conns : At(c, "send") => <<c, conn[c].read>> \notin barred

BanInv == Typed /\ InOrder /\ NotWaiting /\ BanReachesOpenConnections

LEMMA BanTypes ==
    ASSUME BanInv
    PROVE  /\ conn \in [Conns -> Record] /\ written \in [Conns -> Nat]
           /\ \A d \in Conns : /\ conn[d] \in Record /\ conn[d].pc \in Pcs
                               /\ conn[d].read \in Nat /\ written[d] \in Nat
           /\ \A m \in ToSet(accepted) : m \in Conns \X Nat /\ m[1] \in Conns /\ m[2] \in Nat
<1>1. conn \in [Conns -> Record] /\ written \in [Conns -> Nat]
    BY DEF BanInv, Typed
<1>2. \A d \in Conns : conn[d].pc \in Pcs /\ conn[d].read \in Nat
    BY <1>1 DEF Record
<1>3. ToSet(accepted) \subseteq Conns \X Nat
    <2> DEFINE S == Conns \X Nat
    <2>1. accepted \in Seq(S)
        BY DEF BanInv, Typed
    <2> HIDE DEF S
    <2>2. ToSet(accepted) \subseteq S
        BY <2>1, SetOfSeq
    <2> QED BY <2>2 DEF S
<1> QED BY <1>1, <1>2, <1>3

LEMMA BanInit == Init => BanInv
<1> SUFFICES ASSUME Init PROVE BanInv
    OBVIOUS
<1>1. accepted = <<>> /\ ToSet(accepted) = {}
    BY DEF Init, Queue!Init, ToSet
<1>2. Typed
    BY <1>1 DEF Init, Typed, NewConn, Pcs, Record, Codes
<1>3. InOrder
    BY <1>1 DEF Init, InOrder, NewConn
<1> QED BY <1>1, <1>2, <1>3 DEF BanInv, Init, NotWaiting, BanReachesOpenConnections

\* A step that reads, takes and bars nothing, and sends nothing to the broker's
\* channel: each goroutine stays where it is, leaves, or goes on in its loop.
LEMMA BanQuiet ==
    ASSUME BanInv, conn' \in [Conns -> Record],
           \A d \in Conns :
              \/ conn'[d] = conn[d]
              \/ conn'[d].pc \in LeftPcs /\ conn'[d].read = 0
              \/ conn'[d].read = conn[d].read /\ conn'[d].pc # "send" /\ ~Left(d),
           UNCHANGED <<written, accepted, barred, blocked>>
    PROVE  BanInv'
<1>1. Typed'
    BY DEF BanInv, Typed
<1>2. \A d \in Conns : conn'[d].read <= written[d]
    BY BanTypes DEF BanInv, InOrder
<1>3. ASSUME NEW m \in ToSet(accepted)
      PROVE  m[2] <= written[m[1]] /\ (conn'[m[1]].pc \in LeftPcs \/ m[2] <= conn'[m[1]].read)
    <2> DEFINE d == m[1]
    <2>1. d \in Conns
        BY BanTypes
    <2>2. m[2] <= written[d] /\ (Left(d) \/ m[2] <= conn[d].read)
        BY DEF BanInv, InOrder
    <2> HIDE DEF d
    <2>3. conn'[d].pc \in LeftPcs \/ m[2] <= conn'[d].read
        BY <2>1, <2>2 DEF Left
    <2> QED BY <2>2, <2>3 DEF d
<1>4. InOrder'
    BY <1>2, <1>3 DEF InOrder, Left
<1>5. NotWaiting'
    BY DEF BanInv, NotWaiting, At, LeftPcs
<1>6. BanReachesOpenConnections'
    BY DEF BanInv, BanReachesOpenConnections
<1> QED BY <1>1, <1>4, <1>5, <1>6 DEF BanInv

LEMMA BanMove ==
    ASSUME BanInv, NEW c \in Conns, NEW r \in Record, Now(c, r),
           \/ r.pc \in LeftPcs /\ r.read = 0
           \/ r.read = conn[c].read /\ r.pc # "send" /\ ~Left(c),
           UNCHANGED <<written, accepted, barred, blocked>>
    PROVE  BanInv'
<1>1. /\ conn' \in [Conns -> Record]
      /\ conn'[c] = r /\ \A d \in Conns \ {c} : conn'[d] = conn[d]
    BY BanTypes, Elsewhere
<1> QED BY <1>1, BanQuiet

\* The kinds of such steps.
LEMMA BanGoTo ==
    ASSUME BanInv, NEW c \in Conns, NEW p \in Pcs, p # "send", GoTo(c, p), ~Left(c),
           UNCHANGED <<written, accepted, barred, blocked>>
    PROVE  BanInv'
<1>1. PICK r \in Record : Now(c, r) /\ r.pc = p /\ r.read = conn[c].read
    BY BanTypes, Goes
<1> QED BY <1>1, BanMove

LEMMA BanLeaves ==
    ASSUME BanInv, NEW c \in Conns, NEW p \in LeftPcs, Leaves(c, p),
           UNCHANGED <<written, accepted, barred, blocked>>
    PROVE  BanInv'
<1>1. p \in Pcs
    BY DEF Pcs, LeftPcs
<1>2. PICK r \in Record : Now(c, r) /\ r.pc = p /\ r.read = 0
    BY <1>1, Lost
<1> QED BY <1>2, BanMove

LEMMA BanRefuse ==
    ASSUME BanInv, NEW c \in Conns, Answer(c, Refusal), At(c, "gate"),
           UNCHANGED <<written, accepted, barred, blocked>>
    PROVE  BanInv'
<1>1. PICK r \in Record : Now(c, r) /\ r.pc = "write" /\ r.read = conn[c].read
    BY BanTypes, Answers DEF Codes
<1>2. ~Left(c)
    BY DEF Left, LeftPcs, At
<1> QED BY <1>1, <1>2, BanMove

LEMMA BanWrite ==
    ASSUME BanInv, NEW c \in Conns, Write(c) PROVE BanInv'
<1>1. PICK r \in Record : Now(c, r) /\ r.pc = "read" /\ r.read = conn[c].read
    BY BanTypes, Writes
<1>2. ~Left(c) /\ UNCHANGED <<written, accepted, barred, blocked>>
    BY DEF Write, Writing, Left, LeftPcs, At, clients, broker
<1> QED BY <1>1, <1>2, BanMove

\* A client writes a message, which is newer than any that was read or taken.
LEMMA BanClientWrites ==
    ASSUME BanInv, NEW c \in Conns, ClientWrites(c)
    PROVE  BanInv'
<1> DEFINE n == written[c] + 1
<1>1. /\ written \in [Conns -> Nat] /\ n \in Nat
      /\ written' = [written EXCEPT ![c] = n]
      /\ UNCHANGED <<conn, accepted, blocked>>
      /\ barred' \in {barred, barred \cup {<<c, n>>}}
      /\ barred' # barred => blocked
    BY DEF ClientWrites, BanInv, Typed, broker
<1>2. \A d \in Conns : conn[d].read <= written[d] /\ written[d] <= written'[d]
    BY <1>1, BanTypes DEF BanInv, InOrder
<1>3. Typed'
    BY <1>1 DEF BanInv, Typed
<1>4. InOrder'
    <2>1. \A d \in Conns : conn[d].read <= written'[d]
        BY <1>1, <1>2, BanTypes
    <2>2. \A m \in ToSet(accepted) : m[2] <= written'[m[1]]
        <3>1. \A m \in ToSet(accepted) : m[2] <= written[m[1]]
            BY DEF BanInv, InOrder
        <3> QED BY <1>1, <1>2, <3>1, BanTypes
    <2> QED BY <1>1, <2>1, <2>2 DEF BanInv, InOrder, Left
<1>5. NotWaiting'
    <2>1. \A d \in Conns : <<d, conn[d].read>> # <<c, n>>
        BY <1>2, BanTypes
    <2> QED BY <1>1, <2>1 DEF BanInv, NotWaiting, At
<1>6. BanReachesOpenConnections'
    <2>1. <<c, n>> \notin ToSet(accepted)
        <3> SUFFICES ASSUME <<c, n>> \in ToSet(accepted) PROVE FALSE
            OBVIOUS
        <3>1. n <= written[c]
            BY DEF BanInv, InOrder
        <3> QED BY <3>1, BanTypes
    <2> QED BY <1>1, <2>1 DEF BanInv, BanReachesOpenConnections
<1> QED BY <1>3, <1>4, <1>5, <1>6 DEF BanInv

\* A message is read.
LEMMA BanRead ==
    ASSUME BanInv, NEW c \in Conns, Read(c)
    PROVE  BanInv'
<1>1. PICK r \in Record : Now(c, r) /\ r.pc = "gate" /\ r.read = conn[c].read + 1
    BY BanTypes, Reads
<1>2. /\ conn' \in [Conns -> Record]
      /\ conn'[c] = r /\ \A d \in Conns \ {c} : conn'[d] = conn[d]
    BY <1>1, BanTypes, Elsewhere
<1>3. /\ conn[c].read < written[c] /\ ~Left(c)
      /\ UNCHANGED <<written, blocked, accepted, barred>>
    BY DEF Read, Unread, At, Left, LeftPcs, clients, broker
<1>4. Typed'
    BY <1>2, <1>3 DEF BanInv, Typed
<1>5. \A d \in Conns : /\ conn[d].read <= conn'[d].read /\ conn'[d].read <= written[d]
                       /\ conn'[d].read \in Nat
    BY <1>1, <1>2, <1>3, BanTypes DEF BanInv, InOrder
<1>6. InOrder'
    <2>1. ASSUME NEW m \in ToSet(accepted)
          PROVE  m[2] <= written[m[1]] /\ (conn'[m[1]].pc \in LeftPcs \/ m[2] <= conn'[m[1]].read)
        <3> DEFINE d == m[1]
        <3>1. d \in Conns /\ m[2] \in Nat
            BY BanTypes
        <3>2. m[2] <= written[d] /\ (Left(d) \/ m[2] <= conn[d].read)
            BY DEF BanInv, InOrder
        <3> HIDE DEF d
        <3>3. conn'[d].pc \in LeftPcs \/ m[2] <= conn'[d].read
            <4>1. CASE d = c
                <5>1. m[2] <= conn[c].read
                    BY <1>3, <3>2, <4>1
                <5> QED BY <1>5, <3>1, <4>1, <5>1, BanTypes
            <4>2. CASE d # c
                BY <1>2, <3>1, <3>2, <4>2 DEF Left
            <4> QED BY <4>1, <4>2
        <3> QED BY <3>2, <3>3 DEF d
    <2> QED BY <1>3, <1>5, <2>1 DEF InOrder, Left
<1>7. NotWaiting'
    BY <1>1, <1>2, <1>3 DEF BanInv, NotWaiting, At
<1>8. BanReachesOpenConnections'
    BY <1>3 DEF BanInv, BanReachesOpenConnections
<1> QED BY <1>4, <1>6, <1>7, <1>8 DEF BanInv

\* A message passes the gates: nobody is blocked, so nothing is barred.
LEMMA BanGate ==
    ASSUME BanInv, NEW c \in Conns, ~blocked, GoTo(c, "send"), At(c, "gate"),
           UNCHANGED <<written, accepted, barred, blocked>>
    PROVE  BanInv'
<1>1. "send" \in Pcs /\ ~Left(c)
    BY DEF Pcs, At, Left, LeftPcs
<1>2. PICK r \in Record : Now(c, r) /\ r.pc = "send" /\ r.read = conn[c].read
    BY <1>1, BanTypes, Goes
<1>3. /\ conn' \in [Conns -> Record]
      /\ conn'[c] = r /\ \A d \in Conns \ {c} : conn'[d] = conn[d]
    BY <1>2, BanTypes, Elsewhere
<1>4. Typed'
    BY <1>3 DEF BanInv, Typed
<1>5. InOrder'
    BY <1>1, <1>2, <1>3, BanTypes DEF BanInv, InOrder, Left
<1>6. barred' = {}
    BY DEF BanInv, NotWaiting
<1> QED BY <1>4, <1>5, <1>6 DEF BanInv, NotWaiting, BanReachesOpenConnections

\* The broker takes a message, which is not barred.
LEMMA BanSend ==
    ASSUME BanInv, NEW c \in Conns, Send(c)
    PROVE  BanInv'
<1> DEFINE m == <<c, conn[c].read>>
<1>1. m \in Conns \X Nat /\ m[1] = c /\ m[2] = conn[c].read
    BY BanTypes
<1>2. accepted' = Append(accepted, m)
    BY DEF Send, Queue!Accept
<1>3. ToSet(accepted') = ToSet(accepted) \cup {m}
    <2> DEFINE S == Conns \X Nat
    <2>1. m \in S /\ accepted \in Seq(S)
        BY <1>1 DEF BanInv, Typed
    <2> HIDE DEF m, S
    <2>2. ToSet(Append(accepted, m)) = ToSet(accepted) \cup {m}
        BY <2>1, AppendedSet
    <2> QED BY <1>2, <2>2
<1>4. /\ UNCHANGED <<written, blocked, barred>>
      /\ At(c, "send") /\ Answer(c, 200) /\ ~Left(c)
    BY DEF Send, clients, At, Left, LeftPcs
<1>5. PICK r \in Record : Now(c, r) /\ r.pc = "write" /\ r.read = conn[c].read
    BY <1>4, BanTypes, Answers DEF Codes
<1>6. /\ conn' \in [Conns -> Record]
      /\ conn'[c] = r /\ \A d \in Conns \ {c} : conn'[d] = conn[d]
    BY <1>5, BanTypes, Elsewhere
<1>7. Typed'
    BY <1>1, <1>2, <1>4, <1>6 DEF BanInv, Typed
<1>8. \A d \in Conns : conn'[d].read = conn[d].read
                          /\ (conn'[d].pc \in LeftPcs <=> conn[d].pc \in LeftPcs)
    BY <1>4, <1>5, <1>6 DEF Left, LeftPcs
<1>9. InOrder'
    <2>1. m[2] <= conn'[m[1]].read /\ m[2] <= written[m[1]]
        BY <1>1, <1>5, <1>6, BanTypes DEF BanInv, InOrder
    <2>2. \A x \in ToSet(accepted) :
             x[2] <= written[x[1]] /\ (conn'[x[1]].pc \in LeftPcs \/ x[2] <= conn'[x[1]].read)
        BY <1>8, BanTypes DEF BanInv, InOrder, Left
    <2>3. \A d \in Conns : conn'[d].read <= written'[d]
        BY <1>4, <1>8 DEF BanInv, InOrder
    <2> HIDE DEF m
    <2> QED BY <1>3, <1>4, <2>1, <2>2, <2>3 DEF InOrder, Left
<1>10. NotWaiting'
    BY <1>4, <1>5, <1>6 DEF BanInv, NotWaiting, At
<1>11. BanReachesOpenConnections'
    BY <1>3, <1>4 DEF BanInv, NotWaiting, BanReachesOpenConnections
<1> QED BY <1>7, <1>9, <1>10, <1>11 DEF BanInv

\* Every step keeps the invariant.
LEMMA BanStep == BanInv /\ [Next]_vars => BanInv'
<1> SUFFICES ASSUME BanInv, [Next]_vars PROVE BanInv'
    OBVIOUS
<1> USE DEF clients, broker
<1>1. ASSUME UNCHANGED <<written, conn, accepted, barred, blocked>>
      PROVE  BanInv'
    BY <1>1 DEF BanInv, Typed, InOrder, NotWaiting, At, Left, BanReachesOpenConnections
<1>2. /\ {"upgrade", "read", "stuck"} \subseteq Pcs /\ {"leaving", "ended"} = LeftPcs
      /\ \A c \in Conns : At(c, "new") \/ At(c, "upgrade") \/ At(c, "write") => ~Left(c)
    BY DEF Pcs, LeftPcs, Left, At
<1>3. ASSUME NEW c \in Conns, ClientWrites(c) PROVE BanInv'
    BY <1>3, BanClientWrites
<1>4. ASSUME NEW c \in Conns, ClientCloses(c) \/ ClientLost(c) PROVE BanInv'
    BY <1>1, <1>4 DEF ClientCloses, ClientLost
<1>5. ASSUME NEW c \in Conns, Request(c) \/ Begin(c) \/ WriteWaits(c) PROVE BanInv'
    BY <1>2, <1>5, BanGoTo DEF Request, Begin, WriteWaits
<1>6. ASSUME NEW c \in Conns, UpgradeFails(c) \/ NeverCalled(c) \/ Leave(c) PROVE BanInv'
    BY <1>2, <1>6, BanLeaves DEF UpgradeFails, NeverCalled, Leave
<1>7. ASSUME NEW c \in Conns, Read(c) PROVE BanInv'
    BY <1>7, BanRead
<1>8. ASSUME NEW c \in Conns, ReadTooLarge(c) \/ ReadClose(c) \/ ReadFails(c) \/ WriteFails(c)
      PROVE  BanInv'
    BY <1>2, <1>8, BanLeaves DEF ReadTooLarge, ReadClose, ReadFails, WriteFails, Break
<1>9. ASSUME NEW c \in Conns, Gate(c) PROVE BanInv'
    <2>1. At(c, "gate") /\ UNCHANGED <<written, accepted, barred, blocked>>
        BY <1>9 DEF Gate
    <2>2. CASE Answer(c, Refusal)
        BY <2>1, <2>2, BanRefuse
    <2>3. CASE ~blocked /\ GoTo(c, "send")
        BY <2>1, <2>3, BanGate
    <2> QED BY <1>9, <2>2, <2>3 DEF Gate
<1>10. ASSUME NEW c \in Conns, Send(c) PROVE BanInv'
    BY <1>10, BanSend
<1>11. ASSUME NEW c \in Conns, Write(c) PROVE BanInv'
    BY <1>11, BanWrite
<1>12. CASE Stall \/ Resume
    BY <1>1, <1>12 DEF Stall, Resume
<1>13. CASE Block \/ Unblock
    BY <1>13 DEF Block, Unblock, BanInv, Typed, InOrder, NotWaiting, At, Left,
                 BanReachesOpenConnections
<1>14. CASE Crash
    <2>1. UNCHANGED <<written, accepted, barred, blocked>>
        BY <1>14 DEF Crash
    <2> QED BY <1>14, <2>1, BanTypes, Ends, BanQuiet DEF LeftPcs
<1>15. CASE UNCHANGED vars
    BY <1>1, <1>15 DEF vars
<1> QED
    BY <1>3, <1>4, <1>5, <1>6, <1>7, <1>8, <1>9, <1>10, <1>11, <1>12, <1>13, <1>14,
       <1>15 DEF Next, Serve, WriteEnds

\* A ban reaches connections that were open before it: on any number of
\* connections, with any number of messages, whatever clients do and however
\* often the list changes, no message written under a ban is accepted while the
\* ban lasts.
THEOREM Ban == Spec => []BanReachesOpenConnections
<1>1. BanInv => BanReachesOpenConnections
    BY DEF BanInv
<1> QED
    BY BanInit, BanStep, <1>1, PTL DEF Spec

-----------------------------------------------------------------------------
(* The inductive invariant of the answers *)

\* The types the ban did not need.
Bounds ==
    /\ client \in [Conns -> {"here", "closed", "lost"}]
    /\ \A c \in Conns : written[c] <= MaxMessages[c]
    /\ tooLarge \subseteq Conns
    /\ answers \in [Conns -> Seq({200, Refusal})]
    /\ blocked \in BOOLEAN
    /\ accepted \in Seq(Messages)
    /\ stalled \in BOOLEAN
    /\ barred \subseteq Messages

\* While a goroutine is in its loop: how many of the messages it has read are
\* answered, and what became of the last of them.  A client that is lost gets no
\* more answers.
Progress(c) ==
    LET n == Len(answers[c])
        k == conn[c].read
        x == conn[c]
    IN  /\ x.pc \in IdlePcs => n <= k /\ (client[c] # "lost" => k = n)
        /\ x.pc \in BusyPcs => n < k /\ (client[c] # "lost" => k = n + 1)
        /\ x.pc \in {"gate", "send"} => <<c, k>> \notin ToSet(accepted)
        /\ x.pc \in {"write", "stuck"} =>
              /\ x.code # 0
              /\ x.code = 200 <=> <<c, k>> \in ToSet(accepted)

Truthful(c) ==
    \A k \in 1..Len(answers[c]) : answers[c][k] = 200 <=> <<c, k>> \in ToSet(accepted)

\* What OneInDoubt says, of connections that are left too.
InDoubt(c) ==
    client[c] # "lost" =>
        \A k \in Nat : <<c, k>> \in ToSet(accepted) => k <= Len(answers[c]) + 1

Ordered ==
    \A i, j \in 1..Len(accepted) :
        i < j /\ accepted[i][1] = accepted[j][1] => accepted[i][2] < accepted[j][2]

FateInv ==
    /\ BanInv /\ Bounds /\ Ordered
    /\ \A c \in Conns : Progress(c) /\ Truthful(c) /\ InDoubt(c)

LEMMA FateTypes ==
    ASSUME FateInv
    PROVE  /\ conn \in [Conns -> Record] /\ written \in [Conns -> Nat]
           /\ answers \in [Conns -> Seq({200, Refusal})]
           /\ \A c \in Conns : /\ Len(answers[c]) \in Nat
                               /\ conn[c] \in Record /\ conn[c].read \in Nat
           /\ accepted \in Seq(Messages)
           /\ \A m \in ToSet(accepted) : /\ m \in Conns \X Nat
                                         /\ Left(m[1]) \/ m[2] <= conn[m[1]].read
BY BanTypes DEF FateInv, BanInv, InOrder, Bounds

LEMMA FateInit == Init => FateInv
<1> SUFFICES ASSUME Init PROVE FateInv
    OBVIOUS
<1>1. accepted = <<>> /\ ToSet(accepted) = {}
    BY DEF Init, Queue!Init, ToSet
<1>2. Bounds
    <2>1. \A c \in Conns : written[c] <= MaxMessages[c]
        BY WebsocketAssumption DEF Init
    <2>2. client \in [Conns -> {"here", "closed", "lost"}] /\ tooLarge = {} /\ barred = {}
        BY DEF Init
    <2>3. answers \in [Conns -> Seq({200, Refusal})]
        BY DEF Init
    <2>4. blocked \in BOOLEAN
        BY DEF Init
    <2>5. stalled \in BOOLEAN
        BY DEF Init
    <2>6. accepted \in Seq(Messages)
        BY <1>1
    <2> QED BY <2>1, <2>2, <2>3, <2>4, <2>5, <2>6 DEF Bounds
<1>3. Ordered
    BY <1>1 DEF Ordered
<1>4. \A c \in Conns : answers[c] = <<>> /\ Len(answers[c]) = 0 /\ conn[c] = NewConn
    BY DEF Init
<1>5. \A c \in Conns : Progress(c) /\ Truthful(c) /\ InDoubt(c)
    BY <1>1, <1>4 DEF Progress, Truthful, InDoubt, NewConn, IdlePcs, BusyPcs
<1> QED BY <1>2, <1>3, <1>5, BanInit DEF FateInv

\* A step that moves no goroutine, and brings no client back.
LEMMA FateElsewhere ==
    ASSUME FateInv, BanInv', Bounds', UNCHANGED <<conn, answers, accepted>>,
           \A d \in Conns : client'[d] # "lost" => client[d] # "lost"
    PROVE  FateInv'
BY DEF FateInv, Ordered, Progress, Truthful, InDoubt

\* Goroutines go on without reading, sending or answering: a goroutine leaves, or
\* does not have the message in hand yet, or has it through the gates or refused,
\* or waits to write its answer.
Onward(x, y) ==
    \/ y = x
    \/ y.pc \in LeftPcs
    \/ x.pc \in IdlePcs /\ y.pc \in IdlePcs /\ y.read = x.read
    \/ x.pc = "gate" /\ y.pc = "send" /\ y.read = x.read
    \/ x.pc = "gate" /\ y.pc = "write" /\ y.read = x.read /\ y.code = Refusal
    \/ x.pc = "write" /\ y.pc = "stuck" /\ y.read = x.read /\ y.code = x.code

LEMMA FateOnward ==
    ASSUME FateInv, BanInv', Bounds', UNCHANGED <<client, answers, accepted>>,
           \A d \in Conns : Onward(conn[d], conn'[d])
    PROVE  FateInv'
<1>1. Ordered'
    BY DEF FateInv, Ordered
<1>2. ASSUME NEW d \in Conns PROVE Progress(d)' /\ Truthful(d)' /\ InDoubt(d)'
    <2>1. Truthful(d)' /\ InDoubt(d)'
        BY DEF FateInv, Truthful, InDoubt
    <2>2. Progress(d)'
        <3>1. Progress(d) /\ Onward(conn[d], conn'[d])
            BY DEF FateInv
        <3>2. Refusal # 0 /\ Refusal # 200
            BY DEF Refusal
        <3> QED BY <3>1, <3>2 DEF Progress, Onward, LeftPcs, IdlePcs, BusyPcs
    <2> QED BY <2>1, <2>2
<1> QED BY <1>1, <1>2 DEF FateInv

LEMMA FateMove ==
    ASSUME FateInv, BanInv', NEW c \in Conns, NEW r \in Record, Now(c, r),
           UNCHANGED <<clients, answers, accepted, blocked, barred, stalled>>,
           Onward(conn[c], r)
    PROVE  FateInv'
<1>1. conn'[c] = r /\ \A d \in Conns \ {c} : conn'[d] = conn[d]
    BY FateTypes, Elsewhere
<1>2. Bounds'
    BY DEF FateInv, Bounds, clients
<1>3. \A d \in Conns : Onward(conn[d], conn'[d])
    BY <1>1 DEF Onward
<1> QED BY <1>2, <1>3, FateOnward DEF clients

LEMMA FateGoTo ==
    ASSUME FateInv, BanInv', NEW c \in Conns, NEW p \in Pcs, GoTo(c, p),
           UNCHANGED <<clients, answers, accepted, blocked, barred, stalled>>,
           \/ conn[c].pc \in IdlePcs /\ p \in IdlePcs
           \/ conn[c].pc = "gate" /\ p = "send"
           \/ conn[c].pc = "write" /\ p = "stuck"
    PROVE  FateInv'
<1>1. PICK r \in Record : /\ Now(c, r) /\ r.pc = p
                          /\ r.read = conn[c].read /\ r.code = conn[c].code
    BY FateTypes, Goes
<1> QED BY <1>1, FateMove DEF Onward

LEMMA FateLeaves ==
    ASSUME FateInv, BanInv', NEW c \in Conns, NEW p \in LeftPcs, Leaves(c, p),
           UNCHANGED <<clients, answers, accepted, blocked, barred, stalled>>
    PROVE  FateInv'
<1>1. p \in Pcs
    BY DEF Pcs, LeftPcs
<1>2. PICK r \in Record : Now(c, r) /\ r.pc = p
    BY <1>1, Lost
<1> QED BY <1>2, FateMove DEF Onward

\* A message in hand is newer than all the broker has of its connection.
LEMMA FateRead == ASSUME FateInv, BanInv', NEW c \in Conns, Read(c) PROVE FateInv'
<1>1. PICK r \in Record : Now(c, r) /\ r.pc = "gate" /\ r.read = conn[c].read + 1
    BY FateTypes, Reads
<1>2. /\ conn[c].pc = "read" /\ ~Left(c)
      /\ UNCHANGED <<clients, answers, accepted, blocked, barred, stalled>>
    BY DEF Read, At, Left, LeftPcs, broker
<1>3. conn'[c] = r /\ \A d \in Conns \ {c} : conn'[d] = conn[d]
    BY <1>1, FateTypes, Elsewhere
<1>4. Bounds' /\ Ordered'
    BY <1>2 DEF FateInv, Bounds, Ordered, clients
<1>5. <<c, r.read>> \notin ToSet(accepted)
    <2> SUFFICES ASSUME <<c, r.read>> \in ToSet(accepted) PROVE FALSE
        OBVIOUS
    <2>1. r.read <= conn[c].read
        BY <1>2, FateTypes
    <2> QED BY <1>1, <2>1, FateTypes
<1>6. /\ Len(answers[c]) < r.read
      /\ client[c] # "lost" => r.read = Len(answers[c]) + 1
    <2>1. Len(answers[c]) \in Nat /\ conn[c].read \in Nat
        BY FateTypes
    <2>2. Len(answers[c]) <= conn[c].read /\ (client[c] # "lost" => conn[c].read = Len(answers[c]))
        BY <1>2 DEF FateInv, Progress, IdlePcs
    <2> QED BY <1>1, <2>1, <2>2
<1>7. ASSUME NEW d \in Conns PROVE Progress(d)' /\ Truthful(d)' /\ InDoubt(d)'
    <2>1. Truthful(d)' /\ InDoubt(d)'
        BY <1>2 DEF FateInv, Truthful, InDoubt, clients
    <2>2. CASE d = c
        BY <1>1, <1>2, <1>3, <1>5, <1>6, <2>1, <2>2 DEF Progress, IdlePcs, clients
    <2>3. CASE d # c
        BY <1>2, <1>3, <2>1, <2>3 DEF FateInv, Progress, clients
    <2> QED BY <2>2, <2>3
<1> QED BY <1>4, <1>7 DEF FateInv

\* The message passes the gates or is refused.
LEMMA FateGate == ASSUME FateInv, BanInv', NEW c \in Conns, Gate(c) PROVE FateInv'
<1>1. /\ conn[c].pc = "gate"
      /\ UNCHANGED <<clients, answers, accepted, blocked, barred, stalled>>
    BY DEF Gate, At, broker
<1>2. ASSUME Answer(c, Refusal) PROVE FateInv'
    <2>1. PICK r \in Record : /\ Now(c, r) /\ r.pc = "write"
                              /\ r.read = conn[c].read /\ r.code = Refusal
        BY <1>2, FateTypes, Answers DEF Codes
    <2> QED BY <1>1, <2>1, FateMove DEF Onward
<1>3. ASSUME GoTo(c, "send") PROVE FateInv'
    <2>1. "send" \in Pcs
        BY DEF Pcs
    <2> QED BY <1>1, <1>3, <2>1, FateGoTo
<1> QED BY <1>2, <1>3 DEF Gate

\* The broker takes the message: it is newer than all it has of that connection.
LEMMA FateSend == ASSUME FateInv, BanInv', NEW c \in Conns, Send(c) PROVE FateInv'
<1> DEFINE m == <<c, conn[c].read>>
           n == Len(accepted)
<1>1. /\ conn[c].pc = "send" /\ ~Left(c) /\ Answer(c, 200)
      /\ accepted' = Append(accepted, m)
      /\ UNCHANGED <<clients, answers, blocked, barred, stalled>>
    BY DEF Send, At, Left, LeftPcs, Queue!Accept
<1>2. PICK r \in Record : Now(c, r) /\ r.pc = "write" /\ r.read = conn[c].read /\ r.code = 200
    BY <1>1, FateTypes, Answers DEF Codes
<1>3. conn'[c] = r /\ \A d \in Conns \ {c} : conn'[d] = conn[d]
    BY <1>2, FateTypes, Elsewhere
<1>4. /\ conn[c].read \in Nat /\ Len(answers[c]) \in Nat /\ Len(answers[c]) < conn[c].read
      /\ client[c] # "lost" => conn[c].read = Len(answers[c]) + 1
    BY <1>1, FateTypes DEF FateInv, Progress, BusyPcs
<1>5. m \in Messages /\ m[1] = c /\ m[2] = conn[c].read
    <2>1. conn[c].read <= written[c] /\ written[c] <= MaxMessages[c]
        BY DEF FateInv, BanInv, InOrder, Bounds
    <2>2. conn[c].read \in 1..MaxMessages[c]
        BY <1>4, <2>1, FateTypes, WebsocketAssumption
    <2> QED BY <2>2 DEF Messages
<1>6. \A i \in 1..n : accepted[i] \in ToSet(accepted)
    BY FateTypes DEF ToSet
<1>7. \A i \in 1..n : accepted[i][1] = c => accepted[i][2] < m[2]
    <2> SUFFICES ASSUME NEW i \in 1..n, accepted[i][1] = c PROVE accepted[i][2] < m[2]
        OBVIOUS
    <2>1. /\ accepted[i] \in Conns \X Nat /\ accepted[i] \in ToSet(accepted)
          /\ accepted[i][2] <= conn[c].read
        BY <1>1, <1>6, FateTypes
    <2>2. accepted[i] # m
        BY <1>1, <1>6 DEF FateInv, Progress
    <2>3. accepted[i] = <<c, accepted[i][2]>> /\ accepted[i][2] \in Nat
        BY <2>1
    <2>4. accepted[i][2] # conn[c].read
        BY <2>2, <2>3
    <2> QED BY <1>5, <2>1, <2>3, <2>4, FateTypes
<1> HIDE DEF m
<1>8. /\ accepted' \in Seq(Messages) /\ n \in Nat /\ Len(accepted') = n + 1
      /\ \A i \in 1..n : accepted'[i] = accepted[i]
      /\ accepted'[n + 1] = m
      /\ ToSet(accepted') = ToSet(accepted) \cup {m}
    <2>1. accepted \in Seq(Messages)
        BY FateTypes
    <2> QED BY <1>1, <1>5, <2>1, Appended, AppendedSet
<1>9. Bounds'
    BY <1>1, <1>8 DEF FateInv, Bounds, clients
<1>10. Ordered'
    <2> SUFFICES ASSUME NEW i \in 1..(n + 1), NEW j \in 1..(n + 1), i < j,
                        accepted'[i][1] = accepted'[j][1]
                 PROVE  accepted'[i][2] < accepted'[j][2]
        BY <1>8 DEF Ordered
    <2>1. i \in 1..n /\ (j \in 1..n \/ j = n + 1)
        BY <1>8
    <2>2. CASE j \in 1..n
        BY <1>8, <2>1, <2>2 DEF FateInv, Ordered
    <2>3. CASE j = n + 1
        BY <1>5, <1>7, <1>8, <2>1, <2>3
    <2> QED BY <2>1, <2>2, <2>3
<1>11. ASSUME NEW d, NEW k, d # c \/ k # conn[c].read PROVE <<d, k>> # m
    BY <1>11 DEF m
<1>12. Progress(c)'
    <2>1. <<c, r.read>> \in ToSet(accepted')
        BY <1>2, <1>8 DEF m
    <2> QED BY <1>1, <1>2, <1>3, <1>4, <2>1 DEF Progress, IdlePcs, BusyPcs, clients
<1>13. Truthful(c)'
    <2> SUFFICES ASSUME NEW k \in 1..Len(answers[c])
                 PROVE  answers[c][k] = 200 <=> <<c, k>> \in ToSet(accepted')
        BY <1>1 DEF Truthful
    <2>1. <<c, k>> # m
        BY <1>4, <1>11
    <2> QED BY <1>8, <2>1 DEF FateInv, Truthful
<1>14. InDoubt(c)'
    <2> SUFFICES ASSUME client[c] # "lost", NEW k \in Nat, <<c, k>> \in ToSet(accepted')
                 PROVE  k <= Len(answers[c]) + 1
        BY <1>1 DEF InDoubt, clients
    <2>1. CASE <<c, k>> \in ToSet(accepted)
        BY <2>1 DEF FateInv, InDoubt
    <2>2. CASE k = conn[c].read
        BY <1>4, <2>2
    <2> QED BY <1>8, <1>11, <2>1, <2>2
<1>15. ASSUME NEW d \in Conns, d # c PROVE Progress(d)' /\ Truthful(d)' /\ InDoubt(d)'
    <2>1. \A k : <<d, k>> \in ToSet(accepted') <=> <<d, k>> \in ToSet(accepted)
        BY <1>8, <1>11, <1>15
    <2>2. Progress(d)'
        BY <1>1, <1>3, <1>15, <2>1 DEF FateInv, Progress, clients
    <2>3. Truthful(d)' /\ InDoubt(d)'
        BY <1>1, <2>1 DEF FateInv, Truthful, InDoubt, clients
    <2> QED BY <2>2, <2>3
<1> QED BY <1>9, <1>10, <1>12, <1>13, <1>14, <1>15 DEF FateInv

\* An answer is the next, and tells what became of the last message read; one to
\* a lost client is none.
LEMMA FateWrite == ASSUME FateInv, BanInv', NEW c \in Conns, Write(c) PROVE FateInv'
<1> DEFINE n == Len(answers[c])
           k == conn[c].code
<1>1. PICK r \in Record : Now(c, r) /\ r.pc = "read" /\ r.read = conn[c].read
    BY FateTypes, Writes
<1>2. /\ conn[c].pc \in {"write", "stuck"}
      /\ answers' = IF client[c] = "lost" THEN answers
                    ELSE [answers EXCEPT ![c] = Append(answers[c], k)]
      /\ UNCHANGED <<clients, accepted, blocked, barred, stalled>>
    BY DEF Write, Writing, At, broker
<1>3. conn'[c] = r /\ \A d \in Conns \ {c} : conn'[d] = conn[d]
    BY <1>1, FateTypes, Elsewhere
<1>4. /\ n \in Nat /\ conn[c].read \in Nat /\ n < conn[c].read
      /\ client[c] # "lost" => conn[c].read = n + 1
      /\ k # 0 /\ (k = 200 <=> <<c, conn[c].read>> \in ToSet(accepted))
    BY <1>2, FateTypes DEF FateInv, Progress, BusyPcs
<1>5. Ordered'
    BY <1>2 DEF FateInv, Ordered
<1>6. CASE client[c] = "lost"
    <2>1. Bounds'
        BY <1>2, <1>6 DEF FateInv, Bounds, clients
    <2>2. ASSUME NEW d \in Conns PROVE Progress(d)' /\ Truthful(d)' /\ InDoubt(d)'
        <3>1. Truthful(d)' /\ InDoubt(d)'
            BY <1>2, <1>6 DEF FateInv, Truthful, InDoubt, clients
        <3>2. CASE d = c
            BY <1>1, <1>2, <1>3, <1>4, <1>6, <3>1, <3>2 DEF Progress, BusyPcs, clients
        <3>3. CASE d # c
            BY <1>2, <1>3, <1>6, <3>1, <3>3 DEF FateInv, Progress, clients
        <3> QED BY <3>2, <3>3
    <2> QED BY <1>5, <2>1, <2>2 DEF FateInv
<1>7. CASE client[c] # "lost"
    <2> DEFINE s == Append(answers[c], k)
    <2>1. k \in {200, Refusal} /\ answers[c] \in Seq({200, Refusal})
        BY <1>4, FateTypes DEF Record, Codes
    <2>2. /\ s \in Seq({200, Refusal}) /\ Len(s) = n + 1
          /\ \A i \in 1..n : s[i] = answers[c][i]
          /\ s[n + 1] = k
        BY <2>1
    <2> HIDE DEF s
    <2>3. answers' = [answers EXCEPT ![c] = s]
        BY <1>2, <1>7 DEF s
    <2>4. answers'[c] = s /\ \A d \in Conns \ {c} : answers'[d] = answers[d]
        BY <2>3, FateTypes
    <2>5. Bounds'
        BY <1>2, <2>2, <2>3, FateTypes DEF FateInv, Bounds, clients
    <2>6. Progress(c)'
        BY <1>1, <1>2, <1>3, <1>4, <1>7, <2>2, <2>4 DEF Progress, BusyPcs, clients
    <2>7. Truthful(c)'
        <3> SUFFICES ASSUME NEW i \in 1..(n + 1)
                     PROVE  s[i] = 200 <=> <<c, i>> \in ToSet(accepted)
            BY <1>2, <2>2, <2>4 DEF Truthful
        <3>1. CASE i \in 1..n
            BY <2>2, <3>1 DEF FateInv, Truthful
        <3>2. CASE i = n + 1
            BY <1>4, <1>7, <2>2, <3>2
        <3> QED BY <1>4, <3>1, <3>2
    <2>8. InDoubt(c)'
        <3>1. \A i \in Nat : <<c, i>> \in ToSet(accepted) => i <= n + 1
            BY <1>7 DEF FateInv, InDoubt
        <3>2. \A i \in Nat : i <= n + 1 => i <= (n + 1) + 1
            BY <1>4
        <3> QED BY <1>2, <2>2, <2>4, <3>1, <3>2 DEF InDoubt
    <2>9. ASSUME NEW d \in Conns, d # c PROVE Progress(d)' /\ Truthful(d)' /\ InDoubt(d)'
        BY <1>2, <1>3, <2>4, <2>9 DEF FateInv, Progress, Truthful, InDoubt, clients
    <2> QED BY <1>5, <2>5, <2>6, <2>7, <2>8, <2>9 DEF FateInv
<1> QED BY <1>6, <1>7

LEMMA FateStep == FateInv /\ [Next]_vars => FateInv'
<1> SUFFICES ASSUME FateInv, [Next]_vars PROVE FateInv'
    OBVIOUS
<1>1. BanInv' /\ Bounds
    BY BanStep DEF FateInv
<1>2. /\ {"upgrade", "read", "stuck"} \subseteq Pcs /\ {"leaving", "ended"} = LeftPcs
      /\ IdlePcs = {"new", "upgrade", "read"}
    BY DEF Pcs, LeftPcs, IdlePcs
<1>3. ASSUME NEW c \in Conns, ClientWrites(c) PROVE FateInv'
    <2>1. /\ UNCHANGED <<client, answers, conn, blocked, accepted, stalled>>
          /\ written' = [written EXCEPT ![c] = @ + 1]
          /\ written[c] < MaxMessages[c]
          /\ tooLarge' \in {tooLarge, tooLarge \cup {c}}
          /\ barred' \in {barred, barred \cup {<<c, written[c] + 1>>}}
        BY <1>3 DEF ClientWrites, broker
    <2>2. written[c] + 1 \in 1..MaxMessages[c]
        BY <2>1, FateTypes, WebsocketAssumption
    <2>3. <<c, written[c] + 1>> \in Messages
        BY <2>2 DEF Messages
    <2>4. \A d \in Conns : written'[d] <= MaxMessages[d]
        BY <1>1, <2>1, <2>2, FateTypes DEF Bounds
    <2>5. Bounds'
        BY <1>1, <2>1, <2>3, <2>4 DEF Bounds
    <2> QED BY <1>1, <2>1, <2>5, FateElsewhere
<1>4. ASSUME NEW c \in Conns, ClientCloses(c) \/ ClientLost(c) PROVE FateInv'
    <2>1. /\ UNCHANGED <<written, tooLarge, answers, conn, blocked, accepted, stalled, barred>>
          /\ client' \in [Conns -> {"here", "closed", "lost"}]
          /\ \A d \in Conns : client'[d] # "lost" => client[d] # "lost"
        BY <1>1, <1>4 DEF ClientCloses, ClientLost, Bounds, broker
    <2>2. Bounds'
        BY <1>1, <2>1 DEF Bounds
    <2> QED BY <1>1, <2>1, <2>2, FateElsewhere
<1>5. ASSUME NEW c \in Conns, Request(c) \/ Begin(c) \/ WriteWaits(c) PROVE FateInv'
    BY <1>1, <1>2, <1>5, FateGoTo DEF Request, Begin, WriteWaits, At, broker
<1>6. ASSUME NEW c \in Conns, UpgradeFails(c) \/ NeverCalled(c) \/ Leave(c) PROVE FateInv'
    BY <1>1, <1>2, <1>6, FateLeaves DEF UpgradeFails, NeverCalled, Leave, broker
<1>7. ASSUME NEW c \in Conns, ReadTooLarge(c) \/ ReadClose(c) \/ ReadFails(c) \/ WriteFails(c)
      PROVE  FateInv'
    BY <1>1, <1>2, <1>7, FateLeaves
       DEF ReadTooLarge, ReadClose, ReadFails, WriteFails, Break, broker
<1>8. ASSUME NEW c \in Conns, Read(c) \/ Gate(c) \/ Send(c) \/ Write(c) PROVE FateInv'
    BY <1>1, <1>8, FateRead, FateGate, FateSend, FateWrite
<1>9. CASE Block \/ Unblock \/ Stall \/ Resume
    <2>1. UNCHANGED <<clients, answers, conn, accepted>> /\ barred' \subseteq barred
             /\ blocked' \in BOOLEAN /\ stalled' \in BOOLEAN
        BY <1>1, <1>9 DEF Block, Unblock, Stall, Resume, Bounds, broker
    <2>2. Bounds'
        BY <1>1, <2>1 DEF Bounds, clients
    <2> QED BY <1>1, <2>1, <2>2, FateElsewhere DEF clients
<1>10. CASE Crash
    <2>1. UNCHANGED <<clients, answers, blocked, accepted, barred>> /\ stalled' = FALSE
        BY <1>10 DEF Crash
    <2>2. Bounds'
        BY <1>1, <2>1 DEF Bounds, clients
    <2>3. \A d \in Conns : Onward(conn[d], conn'[d])
        BY <1>10, FateTypes, Ends DEF Onward, LeftPcs
    <2> QED BY <1>1, <2>1, <2>2, <2>3, FateOnward DEF clients
<1>11. CASE UNCHANGED vars
    <2>1. Bounds'
        BY <1>1, <1>11 DEF Bounds, vars, clients, broker
    <2> QED BY <1>1, <1>11, <2>1, FateElsewhere DEF vars, clients, broker
<1> QED
    BY <1>3, <1>4, <1>5, <1>6, <1>7, <1>8, <1>9, <1>10, <1>11 DEF Next, Serve, WriteEnds

\* The k-th answer on a connection tells what became of its k-th message, and the
\* broker has the messages of a connection in the order they were written.
THEOREM Fate == Spec => []AnswersInOrder
<1>1. ASSUME FateInv, NEW c \in Conns
      PROVE  /\ \A k \in DOMAIN answers[c] : answers[c][k] = 200 <=> <<c, k>> \in ToSet(accepted)
             /\ \A i, j \in DOMAIN accepted :
                   (i < j /\ accepted[i][1] = c /\ accepted[j][1] = c)
                       => accepted[i][2] < accepted[j][2]
    <2>1. DOMAIN answers[c] = 1..Len(answers[c]) /\ DOMAIN accepted = 1..Len(accepted)
        <3>1. answers[c] \in Seq({200, Refusal}) /\ accepted \in Seq(Messages)
            BY <1>1, FateTypes
        <3> QED BY <3>1
    <2> QED BY <1>1, <2>1 DEF FateInv, Truthful, Ordered
<1>2. FateInv => AnswersInOrder
    BY <1>1 DEF AnswersInOrder
<1> QED BY FateInit, FateStep, <1>2, PTL DEF Spec

\* A client that is not lost to the network is in doubt about one message at most.
THEOREM Doubt == Spec => []OneInDoubt
<1>1. ASSUME FateInv, NEW c \in Conns, client[c] # "lost", NEW k \in 1..MaxMessages[c],
             <<c, k>> \in ToSet(accepted)
      PROVE  k <= Len(answers[c]) + 1
    BY <1>1, WebsocketAssumption DEF FateInv, InDoubt
<1>2. FateInv => OneInDoubt
    BY <1>1 DEF OneInDoubt
<1> QED BY FateInit, FateStep, <1>2, PTL DEF Spec

-----------------------------------------------------------------------------
(* The inductive invariant of the counters *)

OpenPcs == {"read", "gate", "send", "write", "stuck", "leaving"}

\* How many goroutines are at one of P.
Count(P) == Cardinality({c \in Conns : conn[c].pc \in P})

\* The counters against the goroutines.  A connection that waits for its upgrade
\* is counted in the total only, and one that is being left in an error and the gauge.
Balanced ==
    /\ counter \in [Counters -> Nat]
    /\ counter["active"] = Count(OpenPcs)
    /\ counter["received"] = counter["sent"] + counter["messageErrors"] + Count(BusyPcs)
    /\ counter["active"] + counter["connectionErrors"] + counter["messageErrors"]
          + Count({"upgrade"}) <= counter["total"] + Count({"leaving"})

BalanceInv == BanInv /\ Balanced

\* When one goroutine goes on, it is counted where it is and no longer where it was.
LEMMA Tally ==
    ASSUME NEW c \in Conns, \A d \in Conns \ {c} : conn'[d].pc = conn[d].pc, NEW P
    PROVE  /\ Count(P) \in Nat /\ Count(P)' \in Nat
           /\ Count(P)' = (Count(P) - IF conn[c].pc \in P THEN 1 ELSE 0)
                             + IF conn'[c].pc \in P THEN 1 ELSE 0
<1> DEFINE S == {d \in Conns : conn[d].pc \in P}
           T == {d \in Conns : conn'[d].pc \in P}
           R == {d \in Conns \ {c} : conn[d].pc \in P}
<1>1. IsFiniteSet(R) /\ Cardinality(R) \in Nat
    <2>1. R \subseteq Conns
        OBVIOUS
    <2> HIDE DEF R
    <2> QED BY <2>1, WebsocketAssumption, FS_Subset, FS_CardinalityType
<1>2. c \notin R
    OBVIOUS
<1>3. S = IF conn[c].pc \in P THEN R \cup {c} ELSE R
    OBVIOUS
<1>4. T = IF conn'[c].pc \in P THEN R \cup {c} ELSE R
    OBVIOUS
<1> HIDE DEF R, S, T
<1>5. Cardinality(R \cup {c}) = Cardinality(R) + 1
    BY <1>1, <1>2, FS_AddElement
<1>6. Cardinality(S) = Cardinality(R) + IF conn[c].pc \in P THEN 1 ELSE 0
    BY <1>1, <1>3, <1>5
<1>7. Cardinality(T) = Cardinality(R) + IF conn'[c].pc \in P THEN 1 ELSE 0
    BY <1>1, <1>4, <1>5
<1>8. Count(P) = Cardinality(S) /\ Count(P)' = Cardinality(T)
    BY DEF Count, S, T
<1> QED BY <1>1, <1>6, <1>7, <1>8

LEMMA BalanceInit == Init => BalanceInv
<1> SUFFICES ASSUME Init PROVE BalanceInv
    OBVIOUS
<1>1. ASSUME NEW P, "new" \notin P PROVE Count(P) = 0
    <2>1. {c \in Conns : conn[c].pc \in P} = {}
        BY <1>1 DEF Init, NewConn
    <2> QED BY <2>1, FS_EmptySet DEF Count
<1>2. Count(OpenPcs) = 0 /\ Count(BusyPcs) = 0 /\ Count({"upgrade"}) = 0
      /\ Count({"leaving"}) = 0
    BY <1>1 DEF OpenPcs, BusyPcs
<1>3. counter = [n \in Counters |-> 0]
    BY DEF Init
<1> QED BY <1>2, <1>3, BanInit DEF BalanceInv, Balanced, Counters

\* One goroutine goes from a to b.
LEMMA Tallies ==
    ASSUME BalanceInv, BanInv', NEW c \in Conns, NEW a \in Pcs, NEW b \in Pcs,
           conn[c].pc = a, conn'[c].pc = b, \A d \in Conns \ {c} : conn'[d].pc = conn[d].pc
    PROVE  /\ {Count(OpenPcs), Count(BusyPcs), Count({"upgrade"}), Count({"leaving"})} \subseteq Nat
           /\ {Count(OpenPcs)', Count(BusyPcs)', Count({"upgrade"})', Count({"leaving"})'}
                 \subseteq Nat
           /\ Count(OpenPcs)' = (Count(OpenPcs) - IF a \in OpenPcs THEN 1 ELSE 0)
                                   + IF b \in OpenPcs THEN 1 ELSE 0
           /\ Count(BusyPcs)' = (Count(BusyPcs) - IF a \in BusyPcs THEN 1 ELSE 0)
                                   + IF b \in BusyPcs THEN 1 ELSE 0
           /\ Count({"upgrade"})' = (Count({"upgrade"}) - IF a = "upgrade" THEN 1 ELSE 0)
                                   + IF b = "upgrade" THEN 1 ELSE 0
           /\ Count({"leaving"})' = (Count({"leaving"}) - IF a = "leaving" THEN 1 ELSE 0)
                                   + IF b = "leaving" THEN 1 ELSE 0
<1>1. /\ {Count(OpenPcs), Count(OpenPcs)'} \subseteq Nat
      /\ Count(OpenPcs)' = (Count(OpenPcs) - IF a \in OpenPcs THEN 1 ELSE 0)
                               + IF b \in OpenPcs THEN 1 ELSE 0
    BY Tally
<1>2. /\ {Count(BusyPcs), Count(BusyPcs)'} \subseteq Nat
      /\ Count(BusyPcs)' = (Count(BusyPcs) - IF a \in BusyPcs THEN 1 ELSE 0)
                               + IF b \in BusyPcs THEN 1 ELSE 0
    BY Tally
<1>3. /\ {Count({"upgrade"}), Count({"upgrade"})'} \subseteq Nat
      /\ Count({"upgrade"})' = (Count({"upgrade"}) - IF a \in {"upgrade"} THEN 1 ELSE 0)
                                  + IF b \in {"upgrade"} THEN 1 ELSE 0
    BY Tally
<1>4. /\ {Count({"leaving"}), Count({"leaving"})'} \subseteq Nat
      /\ Count({"leaving"})' = (Count({"leaving"}) - IF a \in {"leaving"} THEN 1 ELSE 0)
                                  + IF b \in {"leaving"} THEN 1 ELSE 0
    BY Tally
<1> QED BY <1>1, <1>2, <1>3, <1>4

\* From where to where a goroutine goes.
Pc(c, a, b) ==
    /\ conn[c].pc = a /\ conn'[c].pc = b
    /\ \A d \in Conns \ {c} : conn'[d].pc = conn[d].pc

LEMMA Moves ==
    ASSUME BanInv, NEW c \in Conns, NEW p \in Pcs,
           \/ GoTo(c, p) \/ Leaves(c, p)
           \/ p = "write" /\ (Answer(c, 200) \/ Answer(c, Refusal))
           \/ p = "gate" /\ Read(c)
           \/ p = "read" /\ Write(c)
    PROVE  Pc(c, conn[c].pc, p)
<1>1. \E r \in Record : Now(c, r) /\ r.pc = p
    BY BanTypes, Goes, Lost, Answers, Reads, Writes DEF Codes
<1> QED BY <1>1, BanTypes, Elsewhere DEF Pc

\* What Inc and Leave do: the counters that go up, and whether the gauge goes down.
Changed(names, down) ==
    counter' = [n \in Counters |-> counter[n]
                   + IF n \in names THEN 1 ELSE IF n = "active" THEN -down ELSE 0]

One(b) == IF b THEN 1 ELSE 0

\* Such a change goes with a goroutine's way from a to b.
Fits(names, down, a, b) ==
    /\ One("active" \in names) - down = One(b \in OpenPcs) - One(a \in OpenPcs)
    /\ One("received" \in names) - One("sent" \in names) - One("messageErrors" \in names)
          = One(b \in BusyPcs) - One(a \in BusyPcs)
    /\ One("active" \in names) - down + One("connectionErrors" \in names)
          + One("messageErrors" \in names) + One(b = "upgrade") - One(a = "upgrade")
             <= One("total" \in names) + One(b = "leaving") - One(a = "leaving")
    /\ down = 1 => "active" \notin names

\* A goroutine goes from a to b and the counters follow.
LEMMA BalanceMove ==
    ASSUME BalanceInv, BanInv', NEW c \in Conns, NEW a \in Pcs, NEW b \in Pcs, Pc(c, a, b),
           NEW names \in SUBSET Counters, NEW down \in {0, 1}, Changed(names, down),
           Fits(names, down, a, b)
    PROVE  BalanceInv'
<1> DEFINE total == One("total" \in names)
           active == One("active" \in names)
           received == One("received" \in names)
           sent == One("sent" \in names)
           failed == One("messageErrors" \in names)
           broken == One("connectionErrors" \in names)
<1>1. /\ counter \in [Counters -> Nat] /\ Balanced
      /\ {"total", "active", "received", "sent", "messageErrors", "connectionErrors"} = Counters
    BY DEF BalanceInv, Balanced, Counters
<1>2. {total, active, received, sent, failed, broken} \subseteq {0, 1}
    BY DEF One
<1>3. /\ counter'["total"] = counter["total"] + total
      /\ counter'["active"] = counter["active"] + active - down
      /\ counter'["received"] = counter["received"] + received
      /\ counter'["sent"] = counter["sent"] + sent
      /\ counter'["messageErrors"] = counter["messageErrors"] + failed
      /\ counter'["connectionErrors"] = counter["connectionErrors"] + broken
    <2>1. \A n \in Counters \ {"active"} : counter'[n] = counter[n] + One(n \in names)
        BY DEF Changed, One
    <2>2. counter'["active"] = counter["active"] + active - down
        <3>1. "active" \in Counters /\ counter["active"] \in Nat
            BY <1>1
        <3>2. "active" \in names => down = 0
            BY DEF Fits
        <3> QED BY <3>1, <3>2 DEF Changed, One
    <2> QED BY <1>1, <2>1, <2>2
<1>4. /\ {Count(OpenPcs), Count(BusyPcs), Count({"upgrade"}), Count({"leaving"})} \subseteq Nat
      /\ {Count(OpenPcs)', Count(BusyPcs)', Count({"upgrade"})', Count({"leaving"})'}
            \subseteq Nat
      /\ Count(OpenPcs)' = Count(OpenPcs) - One(a \in OpenPcs) + One(b \in OpenPcs)
      /\ Count(BusyPcs)' = Count(BusyPcs) - One(a \in BusyPcs) + One(b \in BusyPcs)
      /\ Count({"upgrade"})' = Count({"upgrade"}) - One(a = "upgrade") + One(b = "upgrade")
      /\ Count({"leaving"})' = Count({"leaving"}) - One(a = "leaving") + One(b = "leaving")
    BY Tallies DEF One, Pc
<1>5. {One(a \in OpenPcs), One(b \in OpenPcs), One(a \in BusyPcs), One(b \in BusyPcs),
       One(a = "upgrade"), One(b = "upgrade"), One(a = "leaving"), One(b = "leaving")}
          \subseteq {0, 1}
    BY DEF One
<1>6. /\ active - down = One(b \in OpenPcs) - One(a \in OpenPcs)
      /\ received - sent - failed = One(b \in BusyPcs) - One(a \in BusyPcs)
      /\ active - down + broken + failed + One(b = "upgrade") - One(a = "upgrade")
            <= total + One(b = "leaving") - One(a = "leaving")
    BY DEF Fits
<1> HIDE DEF total, active, received, sent, failed, broken
<1>7. /\ \A n \in Counters : counter[n] \in Nat
      /\ {counter["total"], counter["active"], counter["received"], counter["sent"],
          counter["messageErrors"], counter["connectionErrors"]} \subseteq Nat
      /\ counter["received"] = counter["sent"] + counter["messageErrors"] + Count(BusyPcs)
    BY <1>1 DEF Balanced
<1>8. counter'["active"] = Count(OpenPcs)'
    BY <1>1, <1>2, <1>3, <1>4, <1>5, <1>6, <1>7 DEF Balanced
<1>9. counter' \in [Counters -> Nat]
    <2>1. \A n \in Counters : counter'[n] \in Nat
        BY <1>1, <1>2, <1>3, <1>4, <1>7, <1>8
    <2>2. counter' = [n \in Counters |-> counter'[n]]
        BY DEF Changed
    <2> QED BY <2>1, <2>2
<1>10. counter'["received"] = counter'["sent"] + counter'["messageErrors"] + Count(BusyPcs)'
    <2>1. /\ {received, sent, failed} \subseteq Int
          /\ {One(a \in BusyPcs), One(b \in BusyPcs), Count(BusyPcs)} \subseteq Int
          /\ {counter["received"], counter["sent"], counter["messageErrors"]} \subseteq Int
        BY <1>2, <1>4, <1>5, <1>7
    <2>2. counter["received"] + received
             = (counter["sent"] + sent) + (counter["messageErrors"] + failed)
                  + (Count(BusyPcs) - One(a \in BusyPcs) + One(b \in BusyPcs))
        <3> DEFINE r == counter["received"]
                   s == counter["sent"]
                   f == counter["messageErrors"]
                   n == Count(BusyPcs)
                   before == One(a \in BusyPcs)
                   after == One(b \in BusyPcs)
        <3>1. {r, s, f, n, before, after, received, sent, failed} \subseteq Int
            BY <2>1
        <3>2. received - sent - failed = after - before
            BY <1>6
        <3>3. r = s + f + n
            BY <1>7
        <3> HIDE DEF r, s, f, n, before, after
        <3>4. r + received = (s + sent) + (f + failed) + (n - before + after)
            BY <3>1, <3>2, <3>3
        <3> QED BY <3>4 DEF r, s, f, n, before, after
    <2> QED BY <1>3, <1>4, <2>2
<1>11. counter'["active"] + counter'["connectionErrors"] + counter'["messageErrors"]
         + Count({"upgrade"})' <= counter'["total"] + Count({"leaving"})'
    <2>1. counter["active"] + counter["connectionErrors"] + counter["messageErrors"]
             + Count({"upgrade"}) <= counter["total"] + Count({"leaving"})
        BY <1>1 DEF Balanced
    <2>3. /\ {total, active, broken, failed, down} \subseteq Int
          /\ {One(a = "upgrade"), One(b = "upgrade"), Count({"upgrade"})} \subseteq Int
          /\ {One(a = "leaving"), One(b = "leaving"), Count({"leaving"})} \subseteq Int
        BY <1>2, <1>4, <1>5
    <2>4. (counter["active"] + active - down) + (counter["connectionErrors"] + broken)
             + (counter["messageErrors"] + failed)
             + (Count({"upgrade"}) - One(a = "upgrade") + One(b = "upgrade"))
             <= (counter["total"] + total)
                   + (Count({"leaving"}) - One(a = "leaving") + One(b = "leaving"))
        <3> DEFINE t == counter["total"]
                   x == counter["active"]
                   y == counter["connectionErrors"]
                   z == counter["messageErrors"]
                   u == Count({"upgrade"})
                   v == Count({"leaving"})
                   u1 == One(a = "upgrade")
                   u2 == One(b = "upgrade")
                   v1 == One(a = "leaving")
                   v2 == One(b = "leaving")
        <3>1. {t, x, y, z, u, v, u1, u2, v1, v2, total, active, broken, failed, down}
                  \subseteq Int
            BY <1>7, <2>3
        <3>2. x + y + z + u <= t + v
            BY <2>1
        <3>3. active - down + broken + failed + u2 - u1 <= total + v2 - v1
            BY <1>6
        <3> HIDE DEF t, x, y, z, u, v, u1, u2, v1, v2
        <3>4. (x + active - down) + (y + broken) + (z + failed) + (u - u1 + u2)
                 <= (t + total) + (v - v1 + v2)
            BY <3>1, <3>2, <3>3
        <3> QED BY <3>4 DEF t, x, y, z, u, v, u1, u2, v1, v2
    <2> QED BY <1>3, <1>4, <2>4
<1> QED BY <1>8, <1>9, <1>10, <1>11 DEF BalanceInv, Balanced

LEMMA IncChanged ==
    ASSUME counter \in [Counters -> Nat], NEW names, Inc(names)
    PROVE  Changed(names, 0)
BY DEF Inc, Changed

\* A step that counts nothing, and one that only counts.
LEMMA BalanceMoved ==
    ASSUME BalanceInv, BanInv', NEW c \in Conns, NEW a \in Pcs, NEW b \in Pcs, Pc(c, a, b),
           UNCHANGED counter, Fits({}, 0, a, b)
    PROVE  BalanceInv'
<1>1. counter \in [Counters -> Nat]
    BY DEF BalanceInv, Balanced
<1>2. Changed({}, 0)
    BY <1>1 DEF Changed
<1>3. {} \in SUBSET Counters
    OBVIOUS
<1> QED BY <1>2, <1>3, BalanceMove

LEMMA BalanceInc ==
    ASSUME BalanceInv, BanInv', NEW c \in Conns, NEW a \in Pcs, NEW b \in Pcs, Pc(c, a, b),
           NEW names \in SUBSET Counters, Inc(names), Fits(names, 0, a, b)
    PROVE  BalanceInv'
<1>1. Changed(names, 0)
    BY IncChanged DEF BalanceInv, Balanced
<1> QED BY <1>1, BalanceMove

LEMMA BalanceStep == BalanceInv /\ [Next]_vars => BalanceInv'
<1> SUFFICES ASSUME BalanceInv, [Next]_vars PROVE BalanceInv'
    OBVIOUS
<1>1. BanInv /\ BanInv' /\ counter \in [Counters -> Nat]
    BY BanStep DEF BalanceInv, Balanced
<1>2. /\ Counters = {"total", "active", "received", "sent", "messageErrors", "connectionErrors"}
      /\ {"new", "upgrade", "read", "gate", "send", "write", "stuck", "leaving", "ended"} = Pcs
    BY DEF Counters, Pcs
<1>3. ASSUME UNCHANGED <<conn, counter>> PROVE BalanceInv'
    <2>1. \A P : Count(P)' = Count(P)
        BY <1>3 DEF Count
    <2> QED BY <1>1, <1>3, <2>1 DEF BalanceInv, Balanced
<1>4. ASSUME NEW c \in Conns, Request(c) PROVE BalanceInv'
    <2>1. Pc(c, "new", "upgrade") /\ Inc({"total"})
        BY <1>1, <1>2, <1>4, Moves DEF Request, At
    <2>2. Fits({"total"}, 0, "new", "upgrade")
        BY DEF Fits, One, OpenPcs, BusyPcs
    <2> QED BY <1>1, <1>2, <2>1, <2>2, BalanceInc
<1>5. ASSUME NEW c \in Conns, UpgradeFails(c) PROVE BalanceInv'
    <2>1. Pc(c, "upgrade", "ended") /\ Inc({"connectionErrors"})
        BY <1>1, <1>2, <1>5, Moves DEF UpgradeFails, At
    <2>2. Fits({"connectionErrors"}, 0, "upgrade", "ended")
        BY DEF Fits, One, OpenPcs, BusyPcs
    <2> QED BY <1>1, <1>2, <2>1, <2>2, BalanceInc
<1>6. ASSUME NEW c \in Conns, NeverCalled(c) PROVE BalanceInv'
    <2>1. Pc(c, "upgrade", "ended") /\ UNCHANGED counter
        BY <1>1, <1>2, <1>6, Moves DEF NeverCalled, At
    <2>2. Fits({}, 0, "upgrade", "ended")
        BY DEF Fits, One, OpenPcs, BusyPcs
    <2> QED BY <1>1, <1>2, <2>1, <2>2, BalanceMoved
<1>7. ASSUME NEW c \in Conns, Begin(c) PROVE BalanceInv'
    <2>1. Pc(c, "upgrade", "read") /\ Inc({"active"})
        BY <1>1, <1>2, <1>7, Moves DEF Begin, At
    <2>2. Fits({"active"}, 0, "upgrade", "read")
        BY DEF Fits, One, OpenPcs, BusyPcs
    <2> QED BY <1>1, <1>2, <2>1, <2>2, BalanceInc
<1>8. ASSUME NEW c \in Conns, Read(c) PROVE BalanceInv'
    <2>1. Pc(c, "read", "gate") /\ Inc({"received"})
        BY <1>1, <1>2, <1>8, Moves DEF Read, At
    <2>2. Fits({"received"}, 0, "read", "gate")
        BY DEF Fits, One, OpenPcs, BusyPcs
    <2> QED BY <1>1, <1>2, <2>1, <2>2, BalanceInc
<1>9. ASSUME NEW c \in Conns, ReadTooLarge(c) \/ ReadClose(c) \/ ReadFails(c) PROVE BalanceInv'
    <2>1. Pc(c, "read", "leaving") /\ Inc({"connectionErrors"})
        BY <1>1, <1>2, <1>9, Moves DEF ReadTooLarge, ReadClose, ReadFails, Break, At
    <2>2. Fits({"connectionErrors"}, 0, "read", "leaving")
        BY DEF Fits, One, OpenPcs, BusyPcs
    <2> QED BY <1>1, <1>2, <2>1, <2>2, BalanceInc
<1>10. ASSUME NEW c \in Conns, Gate(c) \/ Send(c) \/ WriteWaits(c) PROVE BalanceInv'
    <2>1. /\ \/ Pc(c, "gate", "write") \/ Pc(c, "gate", "send") \/ Pc(c, "send", "write")
             \/ Pc(c, "write", "stuck")
          /\ UNCHANGED counter
        BY <1>1, <1>2, <1>10, Moves DEF Gate, Send, WriteWaits, At
    <2>2. /\ Fits({}, 0, "gate", "write") /\ Fits({}, 0, "gate", "send")
          /\ Fits({}, 0, "send", "write") /\ Fits({}, 0, "write", "stuck")
        BY DEF Fits, One, OpenPcs, BusyPcs
    <2> QED BY <1>1, <1>2, <2>1, <2>2, BalanceMoved
<1>11. ASSUME NEW c \in Conns, Write(c) PROVE BalanceInv'
    <2>1. (Pc(c, "write", "read") \/ Pc(c, "stuck", "read")) /\ Inc({"sent"})
        BY <1>1, <1>2, <1>11, Moves DEF Write, Writing, At
    <2>2. Fits({"sent"}, 0, "write", "read") /\ Fits({"sent"}, 0, "stuck", "read")
        BY DEF Fits, One, OpenPcs, BusyPcs
    <2> QED BY <1>1, <1>2, <2>1, <2>2, BalanceInc
<1>12. ASSUME NEW c \in Conns, WriteFails(c) PROVE BalanceInv'
    <2>1. (Pc(c, "write", "leaving") \/ Pc(c, "stuck", "leaving")) /\ Inc({"messageErrors"})
        BY <1>1, <1>2, <1>12, Moves DEF WriteFails, Writing, Break, At
    <2>2. /\ Fits({"messageErrors"}, 0, "write", "leaving")
          /\ Fits({"messageErrors"}, 0, "stuck", "leaving")
        BY DEF Fits, One, OpenPcs, BusyPcs
    <2> QED BY <1>1, <1>2, <2>1, <2>2, BalanceInc
<1>13. ASSUME NEW c \in Conns, Leave(c) PROVE BalanceInv'
    <2>1. Pc(c, "leaving", "ended")
        BY <1>1, <1>2, <1>13, Moves DEF Leave, At
    <2>2. Changed({}, 1)
        <3>1. counter' = [counter EXCEPT !["active"] = counter["active"] - 1]
            BY <1>13 DEF Leave
        <3>2. \A n \in Counters :
                 counter'[n] = counter[n] + IF n = "active" THEN -1 ELSE 0
            BY <1>1, <3>1
        <3>3. counter' = [n \in Counters |-> counter'[n]]
            BY <1>1, <3>1
        <3> QED BY <3>2, <3>3 DEF Changed
    <2>3. Fits({}, 1, "leaving", "ended")
        BY DEF Fits, One, OpenPcs, BusyPcs
    <2> QED BY <1>1, <1>2, <2>1, <2>2, <2>3, BalanceMove
<1>14. ASSUME NEW c \in Conns, ClientWrites(c) \/ ClientCloses(c) \/ ClientLost(c)
       PROVE  BalanceInv'
    BY <1>3, <1>14 DEF ClientWrites, ClientCloses, ClientLost
<1>15. CASE Block \/ Unblock \/ Stall \/ Resume
    BY <1>3, <1>15 DEF Block, Unblock, Stall, Resume
<1>16. CASE Crash
    <2>1. \A c \in Conns : conn'[c].pc \in {"new", "ended"}
        BY <1>1, <1>16, BanTypes, Ends
    <2>2. ASSUME NEW P, "new" \notin P, "ended" \notin P PROVE Count(P)' = 0
        <3>1. {c \in Conns : conn'[c].pc \in P} = {}
            BY <2>1, <2>2
        <3> QED BY <3>1, FS_EmptySet DEF Count
    <2>3. /\ Count(OpenPcs)' = 0 /\ Count(BusyPcs)' = 0
          /\ Count({"upgrade"})' = 0 /\ Count({"leaving"})' = 0
        BY <2>2 DEF OpenPcs, BusyPcs
    <2>4. counter' = [n \in Counters |-> 0]
        BY <1>16 DEF Crash
    <2> QED BY <1>1, <1>2, <2>3, <2>4 DEF BalanceInv, Balanced
<1>17. CASE UNCHANGED vars
    BY <1>3, <1>17 DEF vars
<1> QED
    BY <1>4, <1>5, <1>6, <1>7, <1>8, <1>9, <1>10, <1>11, <1>12, <1>13, <1>14, <1>15,
       <1>16, <1>17 DEF Next, Serve, WriteEnds

\* The gauge and the counters agree with each other and with the connections, on
\* every way a connection can end, while it ends, and across restarts.
THEOREM Balance == Spec => []CountersBalance
<1>1. ASSUME BalanceInv PROVE CountersBalance
    <2>1. Cardinality({c \in Conns : Open(c)}) = Count(OpenPcs)
        BY DEF Open, OpenPcs, Count
    <2>2. Cardinality({c \in Conns : conn[c].pc \in {"gate", "send", "write", "stuck"}})
             = Count(BusyPcs)
        BY DEF BusyPcs, Count
    <2>3. Cardinality({c \in Conns : At(c, "leaving")}) = Count({"leaving"})
        <3>1. {c \in Conns : At(c, "leaving")} = {c \in Conns : conn[c].pc \in {"leaving"}}
            BY DEF At
        <3> QED BY <3>1 DEF Count
    <2>4. Count({"upgrade"}) \in Nat /\ Count({"leaving"}) \in Nat
        <3>1. /\ {c \in Conns : conn[c].pc \in {"upgrade"}} \subseteq Conns
              /\ {c \in Conns : conn[c].pc \in {"leaving"}} \subseteq Conns
            OBVIOUS
        <3> QED BY <3>1, WebsocketAssumption, FS_Subset, FS_CardinalityType DEF Count
    <2>5. counter["active"] + counter["connectionErrors"] + counter["messageErrors"]
             <= counter["total"] + Count({"leaving"})
        <3>1. \A n \in {"active", "connectionErrors", "messageErrors", "total"} : counter[n] \in Nat
            BY <1>1 DEF BalanceInv, Balanced, Counters
        <3> QED BY <1>1, <2>4, <3>1 DEF BalanceInv, Balanced
    <2> QED BY <1>1, <2>1, <2>2, <2>3, <2>5 DEF BalanceInv, Balanced, CountersBalance
<1> QED BY BalanceInit, BalanceStep, <1>1, PTL DEF Spec

\* Every variable keeps its type; that the gauge is never negative follows from
\* the balance.
THEOREM Types == Spec => []TypeOK
<1>1. ASSUME FateInv, BalanceInv PROVE TypeOK
    <2>1. \A c \in Conns : written[c] <= MaxMessages[c] /\ conn[c].read <= written[c]
        BY <1>1 DEF FateInv, Bounds, BanInv, InOrder
    <2>2. conn \in [Conns -> [pc : {"new", "upgrade", "read", "gate", "send", "write", "stuck",
                                    "leaving", "ended"},
                              read : Nat, code : {0, 200, Refusal}]]
        BY <1>1, FateTypes DEF Record, Pcs, Codes
    <2>3. written \in [Conns -> Nat] /\ Bounds
        BY <1>1, FateTypes DEF FateInv
    <2>4. counter \in [Counters -> Nat]
        BY <1>1 DEF BalanceInv, Balanced
    <2> QED BY <2>1, <2>2, <2>3, <2>4 DEF Bounds, TypeOK
<1> QED BY FateInit, FateStep, BalanceInit, BalanceStep, <1>1, PTL DEF Spec
=============================================================================
