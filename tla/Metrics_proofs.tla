--------------------------- MODULE Metrics_proofs ---------------------------
(***************************************************************************)
(* Proofs about the time series of a project, for any number of handlers,  *)
(* granularities, events and faults.                                       *)
(*                                                                         *)
(* EventsCounted and BucketsNest compare sums and leave a margin for what  *)
(* is under way and for what was lost.  Neither is inductive: a step that  *)
(* uses some of the margin up must be known to be able to do so only once. *)
(* MetricsInv says which of the margin has been used: by a handler about   *)
(* to find that another created its series (Late), and by one that stamped *)
(* an event on either side of the end of a bucket (Old).                   *)
(***************************************************************************)
EXTENDS Metrics, DataLemmas

\* Handlers with an event of series g in hand, and those of them with a stamp
\* before t.
InHand(g) == {h \in Handlers : handler[h].g = g /\ handler[h].pc # "idle"}
Old(g, t) == {h \in InHand(g) : handler[h].pc # "stamp" /\ handler[h].bucket < t}

\* Those that will add it to a bucket before t.
Ahead(g, t) == {h \in InHand(g) : IF handler[h].pc = "stamp" THEN clock < t
                                  ELSE handler[h].bucket < t}

\* Those that have seen series g missing and are about to create it.
Late(g) == {h \in Handlers : handler[h].g = g /\ handler[h].pc = "create"}

\* Events the race for the creation of series g may have cost so far.
Lost(g) ==
    IF addCreates \/ ~series[g].exists THEN 0
    ELSE Cardinality(Handlers) - 1 - Cardinality(Late(g))

Yet(g) == {h \in Handlers : handler[h] # Idle /\ handler[h].g <= g}
Busy == {h \in Handlers : handler[h] # Idle}

Sane ==
    /\ \A h \in Handlers :
          /\ handler[h].pc = "idle" => handler[h] = Idle
          /\ handler[h].pc \notin {"idle", "stamp"} => handler[h].bucket <= clock
          /\ addCreates => handler[h].pc \notin {"exists", "create", "again"}
    /\ cut + Cardinality(Busy) <= accepted

Counted ==
    \A g \in Granularities :
        /\ Total(g) + Cardinality(Yet(g)) <= accepted + faults
        /\ accepted <= Total(g) + Cardinality(Yet(g)) + cut + faults + Lost(g)

\* Moments at which a bucket of series g begins.
Starts(g) == {t \in 0..MaxClock : t % Lengths[g] = 0}

FineFirst ==
    \A g \in Granularities \ {1} : \A t \in Starts(g) :
        Before(g, t) + Cardinality(Ahead(g, t)) <= Before(g - 1, t) + faults + Lost(g - 1)

CoarseFollows ==
    \A g \in Granularities \ {1} : \A t \in Starts(g) :
        Before(g - 1, t) + (IF clock < t THEN 0 ELSE Cardinality(Old(g - 1, t)))
            <= Before(g, t) + cut + faults + Lost(g)
                 + Cardinality(IF clock < t THEN InHand(g) ELSE Handlers)

MetricsInv == TypeOK /\ Sane /\ Counted /\ FineFirst /\ CoarseFollows

-----------------------------------------------------------------------------
(* Constants *)

LEMMA Constants ==
    /\ Len(Lengths) \in Nat \ {0} /\ Granularities = 1..Len(Lengths)
    /\ \A g \in Granularities : Lengths[g] \in Nat \ {0}
    /\ 1 \in Granularities
BY MetricsAssumption DEF Granularities

\* What divides a length divides what the length divides.
LEMMA Divides ==
    ASSUME NEW n \in Nat \ {0}, NEW m \in Nat \ {0}, NEW t \in Nat, m % n = 0, t % m = 0
    PROVE  t % n = 0
<1> DEFINE p == m \div n
           q == t \div m
<1>1. p \in Int /\ m = n * p
    OBVIOUS
<1>2. q \in Int /\ t = m * q
    OBVIOUS
<1> HIDE DEF p, q
<1>3. t = n * (p * q) /\ p * q \in Int
    BY <1>1, <1>2
<1>4. \A k \in Int : (n * k) % n = 0
    OBVIOUS
<1> QED  BY <1>3, <1>4

\* A bucket begins before a full bucket's start t just when its moment is before t.
LEMMA TruncateBefore ==
    ASSUME NEW c \in Nat, NEW n \in Nat \ {0}
    PROVE  /\ Truncate(c, n) \in Nat /\ Truncate(c, n) <= c
           /\ \A t \in Nat : t % n = 0 => (Truncate(c, n) < t <=> c < t)
<1> DEFINE q == c \div n
           r == c % n
<1>1. q \in Nat /\ r \in 0..(n - 1) /\ c = n * q + r
    OBVIOUS
<1>2. Truncate(c, n) = n * q
    BY <1>1 DEF Truncate
<1> HIDE DEF q, r
<1>3. n * q \in Nat /\ n * q <= c
    BY <1>1
<1>4. ASSUME NEW t \in Nat, t % n = 0
      PROVE  n * q < t <=> c < t
    <2> DEFINE k == t \div n
    <2>1. k \in Nat /\ t = n * k
        BY <1>4
    <2> HIDE DEF k
    <2>2. CASE q < k
        <3>1. q + 1 <= k
            BY <1>1, <2>1, <2>2
        <3>2. n * (q + 1) <= n * k
            BY <1>1, <2>1, <3>1
        <3>3. n * (q + 1) = n * q + n
            BY <1>1
        <3> QED  BY <1>1, <1>3, <2>1, <3>2, <3>3
    <2>3. CASE ~(q < k)
        <3>1. n * k <= n * q
            BY <1>1, <2>1, <2>3
        <3> QED  BY <1>1, <1>3, <2>1, <3>1
    <2> QED  BY <2>2, <2>3
<1> QED  BY <1>2, <1>3, <1>4

-----------------------------------------------------------------------------
(* Sums and members *)

Moments == 0..(MaxClock + 1)

LEMMA Indices ==
    ASSUME NEW g \in Granularities \ {1}, NEW t \in Starts(g)
    PROVE  /\ g \in Granularities /\ g - 1 \in Granularities /\ g \in Int
           /\ t \in Moments /\ t \in Nat
<1>1. g \in Granularities /\ g - 1 \in Granularities /\ g \in Int
    BY Constants
<1>2. t \in 0..MaxClock /\ MaxClock \in Nat
    BY MetricsAssumption DEF Starts
<1>3. t \in Moments /\ t \in Nat
    BY <1>2 DEF Moments
<1> QED  BY <1>1, <1>3

LEMMA BeforeType ==
    ASSUME TypeOK, NEW g \in Granularities, NEW t \in Moments
    PROVE  Before(g, t) \in Nat
<1> DEFINE S == {b \in 0..MaxClock : b < t}
           f == series[g].samples
<1>1. IsFiniteSet(S)
    <2>1. IsFiniteSet(0..MaxClock)
        BY MetricsAssumption, FS_Interval
    <2> QED  BY <2>1, FS_Subset
<1>2. \A x \in S : f[x] \in Nat
    BY DEF TypeOK
<1> HIDE DEF S, f
<1>3. SumFunctionOnSet(f, S) \in Nat
    BY <1>1, <1>2, SumNat
<1> QED  BY <1>3 DEF Before, S, f

\* One more sample is one more in every sum its moment belongs to.
LEMMA BeforeAdds ==
    ASSUME TypeOK, NEW h \in Handlers, Added(h),
           NEW g \in Granularities, NEW t \in Moments
    PROVE  Before(g, t)' = Before(g, t)
               + IF g = handler[h].g /\ handler[h].bucket < t THEN 1 ELSE 0
<1> DEFINE S == {b \in 0..MaxClock : b < t}
           f == series[g].samples
           f2 == series'[g].samples
           b == handler[h].bucket
           n == IF g = handler[h].g THEN 1 ELSE 0
<1>1. IsFiniteSet(S)
    <2>1. IsFiniteSet(0..MaxClock)
        BY MetricsAssumption, FS_Interval
    <2> QED  BY <2>1, FS_Subset
<1>2. /\ f \in [0..MaxClock -> Nat] /\ b \in 0..MaxClock /\ handler[h].g \in Granularities
      /\ series \in [Granularities -> [exists : BOOLEAN, samples : [0..MaxClock -> Nat]]]
    BY DEF TypeOK
<1>3. f2 = IF g = handler[h].g THEN [f EXCEPT ![b] = f[b] + 1] ELSE f
    <2>1. series' = [series EXCEPT ![handler[h].g] =
              [exists |-> TRUE, samples |-> [series[handler[h].g].samples EXCEPT
                  ![b] = series[handler[h].g].samples[b] + 1]]]
        BY DEF Added
    <2> QED  BY <1>2, <2>1
<1>4. Before(g, t) = SumFunctionOnSet(f, S) /\ Before(g, t)' = SumFunctionOnSet(f2, S)
    BY DEF Before
<1>5. b \in S <=> b < t
    BY <1>2
<1>6. n \in Nat /\ \A x \in S : x \in 0..MaxClock
    OBVIOUS
<1> HIDE DEF S, f, f2, b
<1>7. \A x \in S : f[x] \in Nat
    BY <1>2, <1>6
<1>8. \A x \in S : f2[x] = IF x = b THEN f[x] + n ELSE f[x]
    BY <1>2, <1>3, <1>6
<1> HIDE DEF n
<1>9. SumFunctionOnSet(f2, S) = SumFunctionOnSet(f, S) + IF b \in S THEN n ELSE 0
    BY <1>1, <1>6, <1>7, <1>8, SumAdd
<1>10. SumFunctionOnSet(f, S) \in Nat
    BY <1>1, <1>7, SumNat
<1> QED  BY <1>4, <1>5, <1>9, <1>10 DEF b, n

LEMMA BeforeStays ==
    ASSUME NEW g, series'[g].samples = series[g].samples, NEW t
    PROVE  Before(g, t)' = Before(g, t)
BY DEF Before

Others(h) == \A k \in Handlers \ {h} : handler'[k] = handler[k]

\* When h alone does something, each of the sets gains or loses h at most.
LEMMA Members ==
    ASSUME NEW h \in Handlers, Others(h), UNCHANGED clock,
           NEW g \in Granularities, NEW t \in Moments
    PROVE  /\ Cardinality(Yet(g)) \in Nat /\ Cardinality(Yet(g)') \in Nat
           /\ Cardinality(Yet(g)') + (IF h \in Yet(g) THEN 1 ELSE 0)
                 = Cardinality(Yet(g)) + (IF h \in Yet(g)' THEN 1 ELSE 0)
           /\ Cardinality(Busy) \in Nat /\ Cardinality(Busy') \in Nat
           /\ Cardinality(Busy') + (IF h \in Busy THEN 1 ELSE 0)
                 = Cardinality(Busy) + (IF h \in Busy' THEN 1 ELSE 0)
           /\ Cardinality(InHand(g)) \in Nat /\ Cardinality(InHand(g)') \in Nat
           /\ Cardinality(InHand(g)') + (IF h \in InHand(g) THEN 1 ELSE 0)
                 = Cardinality(InHand(g)) + (IF h \in InHand(g)' THEN 1 ELSE 0)
           /\ Cardinality(Old(g, t)) \in Nat /\ Cardinality(Old(g, t)') \in Nat
           /\ Cardinality(Old(g, t)') + (IF h \in Old(g, t) THEN 1 ELSE 0)
                 = Cardinality(Old(g, t)) + (IF h \in Old(g, t)' THEN 1 ELSE 0)
           /\ Cardinality(Ahead(g, t)) \in Nat /\ Cardinality(Ahead(g, t)') \in Nat
           /\ Cardinality(Ahead(g, t)') + (IF h \in Ahead(g, t) THEN 1 ELSE 0)
                 = Cardinality(Ahead(g, t)) + (IF h \in Ahead(g, t)' THEN 1 ELSE 0)
           /\ Cardinality(Late(g)) \in Nat /\ Cardinality(Late(g)') \in Nat
           /\ Cardinality(Late(g)') + (IF h \in Late(g) THEN 1 ELSE 0)
                 = Cardinality(Late(g)) + (IF h \in Late(g)' THEN 1 ELSE 0)
<1> DEFINE Differ(X, Y) == X \in SUBSET Handlers /\ Y \in SUBSET Handlers /\ X \ {h} = Y \ {h}
<1>1. Differ(Yet(g), Yet(g)') /\ Differ(Busy, Busy')
    BY DEF Others, Yet, Busy
<1>2. Differ(InHand(g), InHand(g)')
    BY DEF Others, InHand
<1>3. Differ(Old(g, t), Old(g, t)')
    BY <1>2 DEF Others, Old, InHand
<1>4. Differ(Ahead(g, t), Ahead(g, t)')
    BY <1>2 DEF Others, Ahead, InHand
<1>5. Differ(Late(g), Late(g)')
    BY DEF Others, Late
<1>6. IsFiniteSet(Handlers)
    BY MetricsAssumption
<1>7. ASSUME NEW X, NEW Y, Differ(X, Y)
      PROVE  /\ Cardinality(X) \in Nat /\ Cardinality(Y) \in Nat
             /\ Cardinality(Y) + (IF h \in X THEN 1 ELSE 0)
                   = Cardinality(X) + (IF h \in Y THEN 1 ELSE 0)
    BY <1>6, <1>7, OneMember
<1> HIDE DEF Differ
<1> QED  BY <1>1, <1>2, <1>3, <1>4, <1>5, <1>7

-----------------------------------------------------------------------------
(* The race to create a series *)

\* What a step of h may do to the events lost: only a handler that comes too late
\* uses the margin up, and one that creates the series is not too late.
LEMMA LostStep ==
    ASSUME TypeOK, TypeOK', NEW h \in Handlers, Others(h), UNCHANGED <<clock, addCreates>>,
           NEW g \in Granularities, series[g].exists => series'[g].exists
    PROVE  /\ Lost(g) \in Int /\ Lost(g)' \in Int
           /\ h \notin Late(g)' => Lost(g)' >= Lost(g)
           /\ h \notin Late(g)' /\ h \in Late(g) /\ series[g].exists /\ ~addCreates
                 => Lost(g)' = Lost(g) + 1
           /\ (h \in Late(g)' => h \in Late(g)) => Lost(g)' >= Lost(g) - 1
           /\ ~series'[g].exists => Lost(g)' = Lost(g)
           /\ (h \in Late(g)' <=> h \in Late(g)) /\ series'[g].exists = series[g].exists
                 => Lost(g)' = Lost(g)
<1>1. IsFiniteSet(Handlers) /\ Cardinality(Handlers) \in Nat
    BY MetricsAssumption, FS_CardinalityType
<1>2. /\ Cardinality(Late(g)) \in Nat /\ Cardinality(Late(g)') \in Nat
      /\ Cardinality(Late(g)') + (IF h \in Late(g) THEN 1 ELSE 0)
            = Cardinality(Late(g)) + (IF h \in Late(g)' THEN 1 ELSE 0)
    <2>1. 0 \in Moments
        BY MetricsAssumption DEF Moments
    <2> QED  BY <2>1, Members
<1>3. Late(g) \in SUBSET Handlers /\ Late(g)' \in SUBSET Handlers
    BY DEF Late
<1>4. Cardinality(Late(g)') <= Cardinality(Handlers)
    BY <1>1, <1>3, FS_Subset
<1>5. h \notin Late(g)' => Cardinality(Late(g)') <= Cardinality(Handlers) - 1
    <2>1. Cardinality({h}) = 1
        BY FS_Singleton
    <2>2. h \notin Late(g)' => Cardinality(Late(g)') + Cardinality({h}) <= Cardinality(Handlers)
        BY <1>1, <1>3, DisjointMembers
    <2> QED  BY <1>1, <1>2, <2>1, <2>2
<1> DEFINE H == Cardinality(Handlers)
           L == Cardinality(Late(g))
           L2 == Cardinality(Late(g)')
<1>6. /\ Lost(g) = IF addCreates \/ ~series[g].exists THEN 0 ELSE H - 1 - L
      /\ Lost(g)' = IF addCreates \/ ~series'[g].exists THEN 0 ELSE H - 1 - L2
    BY DEF Lost
<1> HIDE DEF H, L, L2
<1> QED  BY <1>1, <1>2, <1>4, <1>5, <1>6 DEF H, L, L2

-----------------------------------------------------------------------------
(* A handler records *)

Recording == {"add", "exists", "create", "again"}

\* h, which records series g, adds a sample or not, and goes on to the next series
\* or not.  What is lost on the way is made up for by faults and by Lost.
Step(h, add, move) ==
    LET g == handler[h].g
    IN  /\ handler[h].pc \in Recording
        /\ UNCHANGED <<clock, addCreates, accepted, cut>>
        /\ faults' >= faults
        /\ Others(h)
        /\ IF move THEN handler'[h] = IF g = Len(Lengths) THEN Idle
                                      ELSE [pc |-> "stamp", g |-> g + 1, bucket |-> 0]
           ELSE /\ handler'[h].pc \in Recording
                /\ handler'[h].g = g /\ handler'[h].bucket = handler[h].bucket
        /\ \A k \in Granularities : \A t \in Moments :
              Before(k, t)' = Before(k, t)
                  + IF add /\ k = g /\ handler[h].bucket < t THEN 1 ELSE 0
        /\ \A k \in Granularities :
              /\ Lost(k)' \in Int
              /\ k # g => Lost(k)' = Lost(k)
              /\ k = g => faults' + Lost(k)' >= faults + Lost(k) + IF move /\ ~add THEN 1 ELSE 0
        /\ faults' + (IF move THEN 1 ELSE 0) >= faults + (IF add THEN 1 ELSE 0)

\* Which of the sets h is in before and after.
LEMMA StepMembers ==
    ASSUME TypeOK, NEW h \in Handlers, NEW add \in BOOLEAN, NEW move \in BOOLEAN,
           Step(h, add, move), NEW g \in Granularities, NEW t \in Moments
    PROVE  LET here == g = handler[h].g
               next == g = handler[h].g + 1
           IN  /\ h \in Yet(g) <=> handler[h].g <= g
               /\ h \in Yet(g)' <=> IF move THEN handler[h].g + 1 <= g ELSE handler[h].g <= g
               /\ h \in InHand(g) <=> here
               /\ h \in InHand(g)' <=> IF move THEN next ELSE here
               /\ h \in Old(g, t) <=> here /\ handler[h].bucket < t
               /\ h \in Old(g, t)' <=> ~move /\ here /\ handler[h].bucket < t
               /\ h \in Ahead(g, t) <=> here /\ handler[h].bucket < t
               /\ h \in Ahead(g, t)' <=> IF move THEN next /\ clock < t
                                         ELSE here /\ handler[h].bucket < t
<1>1. handler[h].g \in 1..Len(Lengths) /\ g \in 1..Len(Lengths) /\ Len(Lengths) \in Nat
    BY Constants DEF TypeOK
<1>2. /\ handler[h].pc \in Recording
      /\ handler[h] # Idle
    BY DEF Step, Recording, Idle
<1>3. UNCHANGED clock
    BY DEF Step
<1>4. /\ h \in Yet(g) <=> handler[h].g <= g
      /\ h \in InHand(g) <=> g = handler[h].g
      /\ h \in Old(g, t) <=> g = handler[h].g /\ handler[h].bucket < t
      /\ h \in Ahead(g, t) <=> g = handler[h].g /\ handler[h].bucket < t
    BY <1>2 DEF Yet, InHand, Old, Ahead, Recording
<1>5. CASE ~move
    <2>1. /\ handler'[h].pc \in Recording
          /\ handler'[h].g = handler[h].g /\ handler'[h].bucket = handler[h].bucket
          /\ handler'[h] # Idle
        BY <1>5 DEF Step, Recording, Idle
    <2>2. /\ h \in Yet(g)' <=> handler[h].g <= g
          /\ h \in InHand(g)' <=> g = handler[h].g
          /\ h \in Old(g, t)' <=> g = handler[h].g /\ handler[h].bucket < t
          /\ h \in Ahead(g, t)' <=> g = handler[h].g /\ handler[h].bucket < t
        BY <2>1 DEF Yet, InHand, Old, Ahead, Recording
    <2> QED  BY <1>4, <1>5, <2>2
<1>6. CASE move /\ handler[h].g = Len(Lengths)
    <2>1. handler'[h] = Idle
        BY <1>6 DEF Step
    <2>2. h \notin Yet(g)' /\ h \notin InHand(g)' /\ h \notin Old(g, t)' /\ h \notin Ahead(g, t)'
        BY <2>1 DEF Yet, InHand, Old, Ahead, Idle
    <2> QED  BY <1>1, <1>4, <1>6, <2>2
<1>7. CASE move /\ handler[h].g # Len(Lengths)
    <2>1. handler'[h] = [pc |-> "stamp", g |-> handler[h].g + 1, bucket |-> 0]
        BY <1>7 DEF Step
    <2>2. handler'[h] # Idle
        BY <2>1 DEF Idle
    <2>3. /\ h \in Yet(g)' <=> handler[h].g + 1 <= g
          /\ h \in InHand(g)' <=> g = handler[h].g + 1
          /\ h \notin Old(g, t)'
          /\ h \in Ahead(g, t)' <=> g = handler[h].g + 1 /\ clock < t
        BY <1>3, <2>1, <2>2 DEF Yet, InHand, Old, Ahead
    <2> QED  BY <1>4, <1>7, <2>3
<1> QED  BY <1>5, <1>6, <1>7

LEMMA Numbers ==
    ASSUME TypeOK
    PROVE  /\ clock \in Nat /\ accepted \in Nat /\ faults \in Nat /\ cut \in Nat
           /\ MaxClock \in Nat /\ Cardinality(Handlers) \in Nat
           /\ \A h \in Handlers : /\ handler[h].g \in Granularities /\ handler[h].g \in Int
                                  /\ handler[h].bucket \in Nat
                                  /\ handler[h].bucket < MaxClock + 1
           /\ \A g \in Granularities : Lost(g) \in Int /\ Cardinality(Late(g)) \in Nat
<1>1. /\ clock \in Nat /\ accepted \in Nat /\ faults \in Nat /\ cut \in Nat
      /\ MaxClock \in Nat /\ Cardinality(Handlers) \in Nat
    BY MetricsAssumption, FS_CardinalityType DEF TypeOK
<1>2. ASSUME NEW g \in Granularities
      PROVE  Lost(g) \in Int /\ Cardinality(Late(g)) \in Nat
    <2>1. IsFiniteSet(Late(g))
        BY MetricsAssumption, FS_Subset DEF Late
    <2>2. Cardinality(Late(g)) \in Nat
        BY <2>1, FS_CardinalityType
    <2> QED  BY <1>1, <2>2 DEF Lost
<1>3. ASSUME NEW h \in Handlers
      PROVE  /\ handler[h].g \in Granularities /\ handler[h].bucket \in Nat
             /\ handler[h].bucket < MaxClock + 1
    <2>1. handler[h].g \in Granularities /\ handler[h].bucket \in 0..MaxClock
        BY DEF TypeOK
    <2> QED  BY <1>1, <2>1
<1>4. \A g \in Granularities : g \in Int
    BY Constants
<1> QED  BY <1>1, <1>2, <1>3, <1>4

LEMMA NumbersNext ==
    ASSUME TypeOK'
    PROVE  faults' \in Nat /\ cut' \in Nat /\ accepted' \in Nat
BY MetricsAssumption DEF TypeOK

\* What Step says of one series, in numbers.
LEMMA StepNumbers ==
    ASSUME TypeOK, TypeOK', NEW h \in Handlers, NEW add \in BOOLEAN, NEW move \in BOOLEAN,
           Step(h, add, move), NEW g \in Granularities
    PROVE  LET A == IF add /\ g = handler[h].g THEN 1 ELSE 0
               M == IF move /\ g = handler[h].g THEN 1 ELSE 0
           IN  /\ faults' >= faults /\ faults' + M >= faults + A
               /\ faults' + Lost(g)' >= faults + Lost(g)
               /\ faults' + Lost(g)' >= faults + Lost(g) + M - A
               /\ Lost(g) \in Int /\ Lost(g)' \in Int
               /\ \A t \in Moments :
                    Before(g, t)' = Before(g, t) + IF handler[h].bucket < t THEN A ELSE 0
<1> DEFINE g0 == handler[h].g
           L == Lost(g)
           L2 == Lost(g)'
           A == IF add /\ g = g0 THEN 1 ELSE 0
           M == IF move /\ g = g0 THEN 1 ELSE 0
<1> DEFINE a == IF add THEN 1 ELSE 0
           m == IF move THEN 1 ELSE 0
           x == IF move /\ ~add THEN 1 ELSE 0
           F == faults
           F2 == faults'
<1>1. L \in Int /\ F \in Nat /\ F2 \in Nat
    BY Numbers, NumbersNext
<1>2. /\ F2 >= F /\ L2 \in Int
      /\ g # g0 => L2 = L
      /\ g = g0 => F2 + L2 >= F + L + x
      /\ F2 + m >= F + a
    BY DEF Step
<1>3. \A t \in Moments :
          Before(g, t)' = Before(g, t) + IF handler[h].bucket < t THEN A ELSE 0
    BY DEF Step
<1>4. a \in Nat /\ m \in Nat /\ x \in Nat /\ a <= 1 /\ m <= 1 /\ x >= m - a
    OBVIOUS
<1>5. IF g = g0 THEN A = a /\ M = m ELSE A = 0 /\ M = 0
    OBVIOUS
<1> HIDE DEF L, L2, A, M, F, F2, a, m, x, g0
<1>6. F2 + M >= F + A /\ F2 + L2 >= F + L /\ F2 + L2 >= F + L + M - A
    BY <1>1, <1>2, <1>4, <1>5
<1> QED  BY <1>1, <1>2, <1>3, <1>6 DEF L, L2, A, M, F, F2, g0

\* A handler that records keeps the counts.
LEMMA StepCounted ==
    ASSUME TypeOK, TypeOK', Counted, NEW h \in Handlers,
           NEW add \in BOOLEAN, NEW move \in BOOLEAN, Step(h, add, move)
    PROVE  Counted'
<1> SUFFICES ASSUME NEW g \in Granularities
             PROVE  /\ Total(g)' + Cardinality(Yet(g)') <= accepted' + faults'
                    /\ accepted' <= Total(g)' + Cardinality(Yet(g)') + cut' + faults' + Lost(g)'
    BY DEF Counted
<1> DEFINE g0 == handler[h].g
           T == Total(g)
           T2 == Total(g)'
           Y == Cardinality(Yet(g))
           Y2 == Cardinality(Yet(g)')
           A == IF add /\ g = g0 THEN 1 ELSE 0
           M == IF move /\ g = g0 THEN 1 ELSE 0
           L == Lost(g)
           L2 == Lost(g)'
           F2 == faults'
<1>1. MaxClock + 1 \in Moments
    BY Numbers DEF Moments
<1>2. T + Y <= accepted + faults /\ accepted <= T + Y + cut + faults + L
    BY DEF Counted
<1>3. T \in Nat /\ T2 = T + A
    <2>1. handler[h].bucket < MaxClock + 1
        BY Numbers
    <2>2. T \in Nat
        BY <1>1, BeforeType DEF Total
    <2>3. T2 = T + IF handler[h].bucket < MaxClock + 1 THEN A ELSE 0
        BY <1>1, StepNumbers DEF Total
    <2> QED  BY <2>1, <2>2, <2>3
<1>4. Y \in Nat /\ Y2 \in Nat /\ Y2 = Y - M
    <2>1. Others(h) /\ UNCHANGED clock
        BY DEF Step
    <2>2. g0 \in Int /\ g \in Int
        BY Numbers, Constants
    <2>3. /\ h \in Yet(g) <=> g0 <= g
          /\ h \in Yet(g)' <=> IF move THEN g0 + 1 <= g ELSE g0 <= g
        BY <1>1, StepMembers
    <2>4. /\ Y \in Nat /\ Y2 \in Nat
          /\ Y2 + (IF h \in Yet(g) THEN 1 ELSE 0) = Y + (IF h \in Yet(g)' THEN 1 ELSE 0)
        BY <1>1, <2>1, Members
    <2> HIDE DEF g0, Y, Y2
    <2> QED  BY <2>2, <2>3, <2>4
<1>5. /\ F2 + M >= faults + A /\ F2 + L2 >= faults + L + M - A
      /\ L \in Int /\ L2 \in Int
    BY StepNumbers
<1>6. /\ accepted' = accepted /\ cut' = cut
      /\ accepted \in Nat /\ faults \in Nat /\ F2 \in Nat /\ cut \in Nat
    BY Numbers, NumbersNext DEF Step
<1>7. A \in {0, 1} /\ M \in {0, 1} /\ (g # g0 => A = 0 /\ M = 0)
    OBVIOUS
<1> HIDE DEF g0, T, T2, Y, Y2, A, M, L, L2, F2
<1>8. T2 + Y2 <= accepted + F2
    BY <1>2, <1>3, <1>4, <1>5, <1>6, <1>7
<1>9. accepted <= T2 + Y2 + cut + F2 + L2
    BY <1>2, <1>3, <1>4, <1>5, <1>6, <1>7
<1> QED  BY <1>6, <1>8, <1>9 DEF T2, Y2, L2, F2

\* A handler that records keeps the order of the series: it leaves an event that
\* has yet to come to the coarse series only when the fine one has it.
LEMMA StepFine ==
    ASSUME TypeOK, TypeOK', Sane, FineFirst, NEW h \in Handlers,
           NEW add \in BOOLEAN, NEW move \in BOOLEAN, Step(h, add, move)
    PROVE  FineFirst'
<1> SUFFICES ASSUME NEW g \in Granularities \ {1}, NEW t \in Starts(g)
             PROVE  Before(g, t)' + Cardinality(Ahead(g, t)')
                        <= Before(g - 1, t)' + faults' + Lost(g - 1)'
    BY DEF FineFirst, Starts
<1> DEFINE g0 == handler[h].g
           early == handler[h].bucket < t
           B == Before(g, t)
           B2 == Before(g, t)'
           P == Before(g - 1, t)
           P2 == Before(g - 1, t)'
           X == Cardinality(Ahead(g, t))
           X2 == Cardinality(Ahead(g, t)')
           A == IF add /\ g = g0 THEN 1 ELSE 0
           M == IF move /\ g = g0 THEN 1 ELSE 0
           PA == IF add /\ g - 1 = g0 THEN 1 ELSE 0
           PM == IF move /\ g - 1 = g0 THEN 1 ELSE 0
           L == Lost(g - 1)
           L2 == Lost(g - 1)'
           F == faults
           F2 == faults'
<1>1. g - 1 \in Granularities /\ g \in Int /\ t \in Moments /\ g0 \in Int
    BY Indices, Numbers
<1>2. B + X <= P + F + L
    BY DEF FineFirst
<1>3. B \in Nat /\ P \in Nat /\ F \in Nat /\ F2 \in Nat
    BY <1>1, BeforeType, Numbers, NumbersNext
<1>4. B2 = B + (IF early THEN A ELSE 0) /\ F2 + M >= F + A /\ F2 >= F
    BY <1>1, StepNumbers
<1>5. /\ P2 = P + IF early THEN PA ELSE 0
      /\ L \in Int /\ L2 \in Int /\ F2 + L2 >= F + L /\ F2 + L2 >= F + L + PM - PA
    BY <1>1, StepNumbers
<1>6. /\ X \in Nat /\ X2 \in Nat
      /\ X2 + (IF h \in Ahead(g, t) THEN 1 ELSE 0) = X + (IF h \in Ahead(g, t)' THEN 1 ELSE 0)
    <2>1. Others(h) /\ UNCHANGED clock
        BY DEF Step
    <2> QED  BY <1>1, <2>1, Members
<1>7. /\ h \in Ahead(g, t) <=> g = g0 /\ early
      /\ h \in Ahead(g, t)' <=> IF move THEN g = g0 + 1 /\ clock < t ELSE g = g0 /\ early
    BY <1>1, StepMembers
<1>8. clock < t => early
    <2>1. handler[h].bucket <= clock
        BY DEF Sane, Step, Recording
    <2>2. handler[h].bucket \in Nat /\ clock \in Nat /\ t \in Int
        BY <1>1, Numbers DEF Moments
    <2> QED  BY <2>1, <2>2
<1>9. X2 = X + (IF early THEN -M ELSE 0) + (IF clock < t THEN PM ELSE 0)
    <2>1. g = g0 => g # g0 + 1
        BY <1>1
    <2>2. g - 1 = g0 <=> g = g0 + 1
        BY <1>1
    <2> HIDE DEF g0, early, X, X2
    <2> QED  BY <1>6, <1>7, <2>1, <2>2
<1>10. /\ A \in Nat /\ M \in Nat /\ PA \in Nat /\ PM \in Nat
       /\ A <= 1 /\ M <= 1 /\ PA <= 1 /\ PM <= 1
    OBVIOUS
<1>11. (A = 0 /\ M = 0) \/ (PA = 0 /\ PM = 0 /\ L2 = L)
    <2>1. g # g - 1
        BY <1>1
    <2>2. g - 1 # g0 => L2 = L
        BY <1>1 DEF Step
    <2> QED  BY <2>1, <2>2
<1> DEFINE c == clock < t
<1> HIDE DEF early, c, B, B2, P, P2, X, X2, A, M, PA, PM, L, L2, F, F2
<1>12. B2 + X2 <= P2 + F2 + L2
    <2>1. CASE A = 0 /\ M = 0
        <3>1. B2 = B
            BY <1>3, <1>4, <2>1
        <3>2. X2 = X + (IF c THEN PM ELSE 0)
            BY <1>6, <1>9, <2>1 DEF c
        <3>3. CASE early
            BY <1>2, <1>3, <1>5, <1>6, <1>10, <3>1, <3>2, <3>3
        <3>4. CASE ~early
            <4>1. ~c
                BY <1>8, <3>4 DEF c
            <4> QED  BY <1>2, <1>3, <1>5, <1>6, <1>10, <3>1, <3>2, <3>4, <4>1
        <3> QED  BY <3>3, <3>4
    <2>2. CASE PA = 0 /\ PM = 0 /\ L2 = L
        <3>1. P2 = P
            BY <1>3, <1>5, <2>2
        <3>2. X2 = X + (IF early THEN -M ELSE 0)
            BY <1>6, <1>9, <1>10, <2>2
        <3> QED  BY <1>2, <1>3, <1>4, <1>5, <1>6, <1>10, <2>2, <3>1, <3>2
    <2> QED  BY <1>11, <2>1, <2>2
<1> QED  BY <1>12 DEF B2, X2, P2, F2, L2

\* And it adds to the fine series only what it has in hand for the coarse one
\* thereafter, or, once a bucket is over, what was old in the fine one.
LEMMA StepCoarse ==
    ASSUME TypeOK, TypeOK', Sane, CoarseFollows, NEW h \in Handlers,
           NEW add \in BOOLEAN, NEW move \in BOOLEAN, Step(h, add, move)
    PROVE  CoarseFollows'
<1> SUFFICES ASSUME NEW g \in Granularities \ {1}, NEW t \in Starts(g)
             PROVE  Before(g - 1, t)' + (IF clock' < t THEN 0 ELSE Cardinality(Old(g - 1, t)'))
                        <= Before(g, t)' + cut' + faults' + Lost(g)'
                             + Cardinality(IF clock' < t THEN InHand(g)' ELSE Handlers)
    BY DEF CoarseFollows, Starts
<1> DEFINE g0 == handler[h].g
           early == handler[h].bucket < t
           B == Before(g, t)
           B2 == Before(g, t)'
           P == Before(g - 1, t)
           P2 == Before(g - 1, t)'
           X == Cardinality(InHand(g))
           X2 == Cardinality(InHand(g)')
           O == Cardinality(Old(g - 1, t))
           O2 == Cardinality(Old(g - 1, t)')
           N == Cardinality(Handlers)
           A == IF add /\ g = g0 THEN 1 ELSE 0
           M == IF move /\ g = g0 THEN 1 ELSE 0
           PA == IF add /\ g - 1 = g0 THEN 1 ELSE 0
           PM == IF move /\ g - 1 = g0 THEN 1 ELSE 0
           L == Lost(g)
           L2 == Lost(g)'
           F == faults
           F2 == faults'
           C == cut
           c == clock < t
<1>1. g - 1 \in Granularities /\ g \in Int /\ t \in Moments /\ g0 \in Int
    BY Indices, Numbers
<1>2. IF c THEN P <= B + C + F + L + X ELSE P + O <= B + C + F + L + N
    <2>1. P + (IF c THEN 0 ELSE O) <= B + C + F + L + Cardinality(IF c THEN InHand(g) ELSE Handlers)
        BY DEF CoarseFollows
    <2>2. P \in Nat
        BY <1>1, BeforeType
    <2> HIDE DEF P, B, C, F, L
    <2>3. CASE c
        BY <2>1, <2>2, <2>3
    <2>4. CASE ~c
        BY <2>1, <2>4
    <2> QED  BY <2>3, <2>4
<1>3. /\ B \in Nat /\ P \in Nat /\ F \in Nat /\ F2 \in Nat /\ C \in Nat /\ N \in Nat
      /\ cut' = C /\ clock' = clock
    BY <1>1, BeforeType, Numbers, NumbersNext DEF Step
<1>4. /\ B2 = B + (IF early THEN A ELSE 0) /\ F2 >= F
      /\ L \in Int /\ L2 \in Int /\ F2 + L2 >= F + L /\ F2 + L2 >= F + L + M - A
    BY <1>1, StepNumbers
<1>5. P2 = P + (IF early THEN PA ELSE 0) /\ F2 + PM >= F + PA
    BY <1>1, StepNumbers
<1>6. /\ X \in Nat /\ X2 \in Nat /\ O \in Nat /\ O2 \in Nat
      /\ X2 + (IF h \in InHand(g) THEN 1 ELSE 0) = X + (IF h \in InHand(g)' THEN 1 ELSE 0)
      /\ O2 + (IF h \in Old(g - 1, t) THEN 1 ELSE 0)
            = O + (IF h \in Old(g - 1, t)' THEN 1 ELSE 0)
    <2>1. Others(h) /\ UNCHANGED clock
        BY DEF Step
    <2> QED  BY <1>1, <2>1, Members
<1>7. /\ h \in InHand(g) <=> g = g0
      /\ h \in InHand(g)' <=> IF move THEN g = g0 + 1 ELSE g = g0
      /\ h \in Old(g - 1, t) <=> g - 1 = g0 /\ early
      /\ h \in Old(g - 1, t)' <=> ~move /\ g - 1 = g0 /\ early
    BY <1>1, StepMembers
<1>8. c => early
    <2>1. handler[h].bucket <= clock
        BY DEF Sane, Step, Recording
    <2>2. handler[h].bucket \in Nat /\ clock \in Nat /\ t \in Int
        BY <1>1, Numbers DEF Moments
    <2> QED  BY <2>1, <2>2
<1>9. X2 = X - M + PM /\ O2 = O - (IF early THEN PM ELSE 0)
    <2>1. g = g0 => g # g0 + 1
        BY <1>1
    <2>2. g - 1 = g0 <=> g = g0 + 1
        BY <1>1
    <2> HIDE DEF g0, early, X, X2, O, O2
    <2> QED  BY <1>6, <1>7, <2>1, <2>2
<1>10. /\ A \in Nat /\ M \in Nat /\ PA \in Nat /\ PM \in Nat
       /\ A <= 1 /\ M <= 1 /\ PA <= 1 /\ PM <= 1
    OBVIOUS
<1>11. (A = 0 /\ M = 0 /\ L2 = L) \/ (PA = 0 /\ PM = 0)
    <2>1. g # g - 1
        BY <1>1
    <2>2. g # g0 => L2 = L
        BY <1>1 DEF Step
    <2> QED  BY <2>1, <2>2
<1> HIDE DEF early, c, B, B2, P, P2, X, X2, O, O2, N, A, M, PA, PM, L, L2, F, F2, C
<1>12. CASE c
    <2>1. P <= B + C + F + L + X /\ early
        BY <1>2, <1>8, <1>12
    <2>2. P2 <= B2 + C + F2 + L2 + X2
        BY <1>3, <1>4, <1>5, <1>6, <1>9, <1>10, <1>11, <2>1
    <2> QED  BY <1>3, <1>12, <1>5, <1>10, <2>2 DEF c, B2, X2, P2, F2, L2
<1>13. CASE ~c
    <2>1. P + O <= B + C + F + L + N
        BY <1>2, <1>13
    <2>2. P2 + O2 <= B2 + C + F2 + L2 + N
        <3>1. CASE early
            BY <1>3, <1>4, <1>5, <1>6, <1>9, <1>10, <1>11, <2>1, <3>1
        <3>2. CASE ~early
            BY <1>3, <1>4, <1>5, <1>6, <1>9, <1>10, <1>11, <2>1, <3>2
        <3> QED  BY <3>1, <3>2
    <2> QED  BY <1>3, <1>13, <2>2 DEF c, B2, O2, P2, F2, L2, N
<1> QED  BY <1>12, <1>13

-----------------------------------------------------------------------------
(* Types *)

Tables == [Granularities -> [exists : BOOLEAN, samples : [0..MaxClock -> Nat]]]
Doings == [pc : {"idle", "stamp", "add", "exists", "create", "again"},
           g : Granularities, bucket : 0..MaxClock]

LEMMA AddedTypes ==
    ASSUME TypeOK, NEW h \in Handlers, Added(h)
    PROVE  /\ series' \in Tables
           /\ \A g \in Granularities :
                 series'[g].exists = IF g = handler[h].g THEN TRUE ELSE series[g].exists
<1> DEFINE g0 == handler[h].g
           b == handler[h].bucket
<1>1. g0 \in Granularities /\ b \in 0..MaxClock /\ series \in Tables
    BY DEF TypeOK, Tables
<1>2. [series[g0].samples EXCEPT ![b] = series[g0].samples[b] + 1] \in [0..MaxClock -> Nat]
    <2> DEFINE f == series[g0].samples
    <2>1. f \in [0..MaxClock -> Nat]
        BY <1>1 DEF Tables
    <2> HIDE DEF f, b
    <2>2. f[b] + 1 \in Nat
        BY <1>1, <2>1
    <2>3. [f EXCEPT ![b] = f[b] + 1] \in [0..MaxClock -> Nat]
        BY <1>1, <2>1, <2>2
    <2> QED  BY <2>3 DEF f
<1>3. series' = [series EXCEPT ![g0] = [exists |-> TRUE, samples |->
                    [series[g0].samples EXCEPT ![b] = series[g0].samples[b] + 1]]]
    BY DEF Added
<1> HIDE DEF g0, b
<1>4. series' \in Tables
    BY <1>1, <1>2, <1>3 DEF Tables
<1> QED  BY <1>1, <1>3, <1>4 DEF Tables, g0

LEMMA CreatedTypes ==
    ASSUME TypeOK, NEW h \in Handlers, Created(h)
    PROVE  /\ series' \in Tables
           /\ \A g \in Granularities :
                 /\ series'[g].exists = IF g = handler[h].g THEN TRUE ELSE series[g].exists
                 /\ series'[g].samples = series[g].samples
BY DEF TypeOK, Tables, Created

LEMMA MoveOnTypes ==
    ASSUME TypeOK, NEW h \in Handlers, MoveOn(h)
    PROVE  /\ handler' \in [Handlers -> Doings]
           /\ Others(h)
           /\ handler'[h] = IF handler[h].g = Len(Lengths) THEN Idle
                            ELSE [pc |-> "stamp", g |-> handler[h].g + 1, bucket |-> 0]
<1> DEFINE D == IF handler[h].g = Len(Lengths) THEN Idle
                ELSE [pc |-> "stamp", g |-> handler[h].g + 1, bucket |-> 0]
<1>1. handler \in [Handlers -> Doings] /\ handler[h].g \in 1..Len(Lengths)
    BY Constants DEF TypeOK, Doings
<1>2. D \in Doings
    <2>1. handler[h].g # Len(Lengths) => handler[h].g + 1 \in Granularities
        BY <1>1, Constants
    <2>2. 0 \in 0..MaxClock
        BY MetricsAssumption
    <2> QED  BY <2>1, <2>2, Constants DEF Idle, Doings
<1>3. handler' = [handler EXCEPT ![h] = D]
    BY DEF MoveOn
<1> HIDE DEF D
<1>4. handler' \in [Handlers -> Doings] /\ handler'[h] = D /\ Others(h)
    BY <1>1, <1>2, <1>3 DEF Others
<1> QED  BY <1>4 DEF D

LEMMA GoToTypes ==
    ASSUME TypeOK, NEW h \in Handlers,
           NEW pc \in {"idle", "stamp", "add", "exists", "create", "again"}, GoTo(h, pc)
    PROVE  /\ handler' \in [Handlers -> Doings]
           /\ Others(h)
           /\ handler'[h] = [handler[h] EXCEPT !.pc = pc]
           /\ handler'[h].g = handler[h].g /\ handler'[h].bucket = handler[h].bucket
           /\ handler'[h].pc = pc
BY DEF TypeOK, Doings, GoTo, Others

LEMMA StampTypes ==
    ASSUME TypeOK, NEW h \in Handlers, Stamp(h)
    PROVE  /\ handler' \in [Handlers -> Doings]
           /\ Others(h)
           /\ handler'[h] = [pc |-> "add", g |-> handler[h].g,
                             bucket |-> Truncate(clock, Lengths[handler[h].g])]
<1> DEFINE b == Truncate(clock, Lengths[handler[h].g])
<1>1. handler \in [Handlers -> Doings] /\ handler[h].g \in Granularities
    BY DEF TypeOK, Doings
<1>2. b \in 0..MaxClock
    <2>1. clock \in Nat /\ clock <= MaxClock /\ MaxClock \in Nat
        BY MetricsAssumption DEF TypeOK
    <2>2. Lengths[handler[h].g] \in Nat \ {0}
        BY <1>1, Constants
    <2>3. b \in Nat /\ b <= clock
        BY <2>1, <2>2, TruncateBefore
    <2> HIDE DEF b
    <2> QED  BY <2>1, <2>3
<1>3. handler' = [handler EXCEPT ![h] = [pc |-> "add", g |-> handler[h].g, bucket |-> b]]
    BY DEF Stamp
<1> HIDE DEF b
<1>4. [pc |-> "add", g |-> handler[h].g, bucket |-> b] \in Doings
    BY <1>1, <1>2 DEF Doings
<1>5. /\ handler' \in [Handlers -> Doings] /\ Others(h)
      /\ handler'[h] = [pc |-> "add", g |-> handler[h].g, bucket |-> b]
    BY <1>1, <1>3, <1>4 DEF Others
<1>6. handler'[h] = [pc |-> "add", g |-> handler[h].g,
                    bucket |-> Truncate(clock, Lengths[handler[h].g])]
    BY <1>5, Zenon DEF b
<1> QED  BY <1>5, <1>6, Zenon

\* The variables that hold no table.
Counters ==
    /\ clock \in 0..MaxClock /\ addCreates \in BOOLEAN
    /\ accepted \in 0..MaxEvents /\ faults \in 0..MaxFaults /\ cut \in 0..MaxEvents

LEMMA TypeParts == TypeOK <=> /\ Counters /\ series \in Tables
                              /\ handler \in [Handlers -> Doings]
BY DEF TypeOK, Counters, Tables, Doings

LEMMA TypePartsNext == TypeOK' <=> /\ Counters' /\ series' \in Tables
                                   /\ handler' \in [Handlers -> Doings]
BY DEF TypeOK, Counters, Tables, Doings

LEMMA BusyCount ==
    /\ Cardinality(Busy) \in Nat
    /\ TypeOK /\ Sane => cut + Cardinality(Busy) <= accepted /\ accepted \in Nat
<1>1. IsFiniteSet(Busy)
    BY MetricsAssumption, FS_Subset DEF Busy
<1> QED  BY <1>1, FS_CardinalityType, Numbers DEF Sane

LEMMA TypeStep ==
    ASSUME TypeOK, Sane, [Next]_vars
    PROVE  TypeOK'
<1>1. Counters /\ series \in Tables /\ handler \in [Handlers -> Doings]
    BY TypeParts
<1>2. MaxClock \in Nat /\ MaxEvents \in Nat /\ MaxFaults \in Nat
    BY MetricsAssumption
<1>3. CASE UNCHANGED vars
    BY <1>1, <1>3, TypePartsNext DEF vars, Counters
<1>4. ASSUME NEW h \in Handlers, Accept(h)
      PROVE  TypeOK'
    <2>1. Counters'
        BY <1>1, <1>2, <1>4 DEF Counters, Accept
    <2>2. series' = series /\ handler' \in [Handlers -> Doings]
        BY <1>4, GoToTypes DEF Accept
    <2> QED  BY <1>1, <2>1, <2>2, TypePartsNext
<1>5. ASSUME NEW h \in Handlers, Record(h)
      PROVE  TypeOK'
    <2>1. Counters'
        BY <1>1, <1>5 DEF Counters, Record, Stamp, Add, Exists, Create, AddAgain
    <2>2. series' \in Tables
        <3>1. Added(h) \/ Created(h) \/ UNCHANGED series
            BY <1>5 DEF Record, Stamp, Add, Exists, Create, AddAgain
        <3> QED  BY <1>1, <3>1, AddedTypes, CreatedTypes
    <2>3. handler' \in [Handlers -> Doings]
        <3>1. \/ Stamp(h) \/ MoveOn(h)
              \/ GoTo(h, "exists") \/ GoTo(h, "again") \/ GoTo(h, "create")
            BY <1>5 DEF Record, Add, Exists, Create, AddAgain
        <3> QED  BY <3>1, StampTypes, MoveOnTypes, GoToTypes
    <2> QED  BY <2>1, <2>2, <2>3, TypePartsNext
<1>6. ASSUME NEW h \in Handlers, Fault(h)
      PROVE  TypeOK'
    <2>1. Counters'
        BY <1>1, <1>2, <1>6 DEF Counters, Fault
    <2>2. series' \in Tables
        BY <1>1, <1>6, AddedTypes, CreatedTypes DEF Fault
    <2>3. handler' \in [Handlers -> Doings]
        BY <1>1, <1>6, MoveOnTypes DEF Fault
    <2> QED  BY <2>1, <2>2, <2>3, TypePartsNext
<1>7. CASE Tick
    <2>1. Counters'
        BY <1>1, <1>2, <1>7 DEF Counters, Tick
    <2> QED  BY <1>1, <1>7, <2>1, TypePartsNext DEF Tick
<1>8. CASE Crash
    <2>1. cut' = cut + Cardinality(Busy)
        BY <1>8 DEF Crash, Busy
    <2>2. Counters'
        <3>1. accepted <= MaxEvents /\ cut \in Nat /\ accepted \in Nat
            BY <1>1, <1>2 DEF Counters
        <3>2. cut' \in 0..MaxEvents
            BY <1>2, <2>1, <3>1, BusyCount
        <3> QED  BY <1>1, <1>8, <3>2 DEF Counters, Crash
    <2>3. Idle \in Doings
        BY <1>2, Constants DEF Idle, Doings
    <2>4. handler' \in [Handlers -> Doings] /\ series' \in Tables
        BY <1>1, <1>8, <2>3 DEF Crash
    <2> QED  BY <2>2, <2>4, TypePartsNext
<1> QED  BY <1>3, <1>4, <1>5, <1>6, <1>7, <1>8 DEF Next

-----------------------------------------------------------------------------
(* The actions of a handler that records *)

LEMMA StepSane ==
    ASSUME TypeOK, TypeOK', Sane, NEW h \in Handlers,
           NEW add \in BOOLEAN, NEW move \in BOOLEAN, Step(h, add, move),
           addCreates => handler'[h].pc \notin {"exists", "create", "again"}
    PROVE  Sane'
<1>1. UNCHANGED <<clock, addCreates, accepted, cut>> /\ Others(h) /\ handler[h].pc \in Recording
    BY DEF Step
<1>2. /\ handler'[h].pc = "idle" => handler'[h] = Idle
      /\ handler'[h].pc \notin {"idle", "stamp"} => handler'[h].bucket <= clock
    <2>1. handler[h].bucket <= clock
        BY <1>1 DEF Sane, Recording
    <2>2. CASE move
        BY <2>2 DEF Step, Idle
    <2>3. CASE ~move
        BY <2>1, <2>3 DEF Step, Recording
    <2> QED  BY <2>2, <2>3
<1>3. \A k \in Handlers :
          /\ handler'[k].pc = "idle" => handler'[k] = Idle
          /\ handler'[k].pc \notin {"idle", "stamp"} => handler'[k].bucket <= clock'
          /\ addCreates' => handler'[k].pc \notin {"exists", "create", "again"}
    <2>1. \A k \in Handlers : k # h => handler'[k] = handler[k]
        BY <1>1 DEF Others
    <2> QED  BY <1>1, <1>2, <2>1 DEF Sane
<1>4. cut' + Cardinality(Busy') <= accepted'
    <2>1. h \in Busy
        BY <1>1 DEF Busy, Idle, Recording
    <2>2. Busy' \subseteq Busy
        BY <1>1, <2>1 DEF Busy, Others
    <2>3. IsFiniteSet(Busy)
        BY MetricsAssumption, FS_Subset DEF Busy
    <2>4. IsFiniteSet(Busy') /\ Cardinality(Busy') <= Cardinality(Busy)
        BY <2>2, <2>3, FS_Subset
    <2>5. Cardinality(Busy) \in Nat /\ Cardinality(Busy') \in Nat
        BY <2>3, <2>4, FS_CardinalityType
    <2>6. cut + Cardinality(Busy) <= accepted /\ cut \in Nat /\ accepted \in Nat
        BY Numbers DEF Sane
    <2> DEFINE b == Cardinality(Busy')
    <2> HIDE DEF b
    <2>7. cut + b <= accepted
        BY <2>4, <2>5, <2>6 DEF b
    <2> QED  BY <1>1, <2>7 DEF b
<1> QED  BY <1>3, <1>4 DEF Sane

LEMMA StepKeeps ==
    ASSUME MetricsInv, TypeOK', NEW h \in Handlers,
           NEW add \in BOOLEAN, NEW move \in BOOLEAN, Step(h, add, move),
           addCreates => handler'[h].pc \notin {"exists", "create", "again"}
    PROVE  MetricsInv'
BY StepSane, StepCounted, StepFine, StepCoarse DEF MetricsInv

\* The parts of Step that all its instances share: the samples, and the series of
\* other granularities.
LEMMA Samples ==
    ASSUME TypeOK, NEW h \in Handlers, NEW add \in BOOLEAN,
           IF add THEN Added(h) ELSE Created(h) \/ UNCHANGED series
    PROVE  \A k \in Granularities : \A t \in Moments :
              Before(k, t)' = Before(k, t)
                  + IF add /\ k = handler[h].g /\ handler[h].bucket < t THEN 1 ELSE 0
<1>1. CASE add
    BY <1>1, BeforeAdds
<1>2. CASE ~add
    <2>1. \A k \in Granularities : series'[k].samples = series[k].samples
        BY <1>2, CreatedTypes
    <2>2. \A k \in Granularities : \A t \in Moments : Before(k, t)' = Before(k, t)
        BY <2>1, BeforeStays
    <2>3. \A k \in Granularities : \A t \in Moments : Before(k, t) \in Nat
        BY BeforeType
    <2> QED  BY <1>2, <2>2, <2>3
<1> QED  BY <1>1, <1>2

LEMMA Elsewhere ==
    ASSUME TypeOK, TypeOK', NEW h \in Handlers, Others(h), UNCHANGED <<clock, addCreates>>,
           handler[h].pc \in Recording,
           handler'[h].pc = "create" => handler'[h].g = handler[h].g,
           Added(h) \/ Created(h) \/ UNCHANGED series
    PROVE  \A k \in Granularities : /\ Lost(k)' \in Int
                                    /\ k # handler[h].g => Lost(k)' = Lost(k)
<1> SUFFICES ASSUME NEW k \in Granularities
             PROVE  /\ Lost(k)' \in Int
                    /\ k # handler[h].g => Lost(k)' = Lost(k)
    OBVIOUS
<1>1. /\ series[k].exists => series'[k].exists
      /\ k # handler[h].g => series'[k].exists = series[k].exists
    BY AddedTypes, CreatedTypes
<1>2. k # handler[h].g => h \notin Late(k) /\ h \notin Late(k)'
    BY DEF Late
<1> QED  BY <1>1, <1>2, LostStep

\* So it is enough to see what an action costs the series at hand.
LEMMA Keeps ==
    ASSUME MetricsInv, TypeOK', NEW h \in Handlers, handler[h].pc \in Recording,
           NEW add \in BOOLEAN, NEW move \in BOOLEAN,
           UNCHANGED <<clock, addCreates, accepted, cut>>,
           faults' = faults \/ faults' = faults + 1,
           IF add THEN Added(h) ELSE Created(h) \/ UNCHANGED series,
           IF move THEN MoveOn(h)
           ELSE /\ Others(h) /\ handler'[h].pc \in Recording
                /\ handler'[h].g = handler[h].g /\ handler'[h].bucket = handler[h].bucket
                /\ addCreates => handler'[h].pc = "add",
           ASSUME NEW k \in Granularities, k = handler[h].g, Others(h),
                  series[k].exists => series'[k].exists,
                  move => h \notin Late(k)'
           PROVE  faults' + Lost(k)' >= faults + Lost(k) + IF move /\ ~add THEN 1 ELSE 0,
           faults' + (IF move THEN 1 ELSE 0) >= faults + (IF add THEN 1 ELSE 0)
    PROVE  MetricsInv'
<1> DEFINE g == handler[h].g
<1>1. TypeOK /\ Sane /\ g \in Granularities /\ faults \in Nat
    BY Numbers DEF MetricsInv
<1>2. Others(h)
    BY <1>1, MoveOnTypes
<1>3. IF move THEN handler'[h] = IF g = Len(Lengths) THEN Idle
                                 ELSE [pc |-> "stamp", g |-> g + 1, bucket |-> 0]
      ELSE /\ handler'[h].pc \in Recording
           /\ handler'[h].g = g /\ handler'[h].bucket = handler[h].bucket
    BY <1>1, MoveOnTypes
<1>4. move => handler'[h].pc \in {"idle", "stamp"}
    BY <1>3 DEF Idle
<1>5. /\ addCreates => handler'[h].pc \notin {"exists", "create", "again"}
      /\ handler'[h].pc = "create" => handler'[h].g = g
    BY <1>3, <1>4
<1>6. \A k \in Granularities : /\ Lost(k)' \in Int
                               /\ k # g => Lost(k)' = Lost(k)
    BY <1>1, <1>2, <1>5, Elsewhere
<1>7. ASSUME NEW k \in Granularities, k = g
      PROVE  faults' + Lost(k)' >= faults + Lost(k) + IF move /\ ~add THEN 1 ELSE 0
    <2>1. series[k].exists => series'[k].exists
        BY <1>1, <1>7, AddedTypes, CreatedTypes
    <2>2. move => h \notin Late(k)'
        BY <1>4 DEF Late
    <2> QED  BY <1>2, <1>7, <2>1, <2>2
<1>8. \A k \in Granularities : \A t \in Moments :
          Before(k, t)' = Before(k, t)
              + IF add /\ k = g /\ handler[h].bucket < t THEN 1 ELSE 0
    BY <1>1, Samples
<1>9. faults' >= faults
    <2> DEFINE F2 == faults'
    <2> HIDE DEF F2
    <2>1. F2 = faults \/ F2 = faults + 1
        BY DEF F2
    <2>2. F2 >= faults
        BY <1>1, <2>1
    <2> QED  BY <2>2 DEF F2
<1>10. Step(h, add, move)
    BY <1>2, <1>3, <1>6, <1>7, <1>8, <1>9 DEF Step
<1> QED  BY <1>5, <1>10, StepKeeps

\* SafeTSAdd finds the series, or does not.
LEMMA AddKeeps ==
    ASSUME MetricsInv, TypeOK', NEW h \in Handlers, Add(h)
    PROVE  MetricsInv'
<1>1. TypeOK /\ Sane /\ handler[h].g \in Granularities /\ faults \in Nat
    BY Numbers DEF MetricsInv
<1>2. /\ handler[h].pc = "add" /\ handler[h].pc \in Recording
      /\ UNCHANGED <<clock, addCreates, accepted, faults, cut>>
    BY DEF Add, At, Recording
<1>3. \A k : h \notin Late(k)
    BY <1>2 DEF Late
<1>4. CASE Here(h) \/ addCreates
    <2>1. Added(h) /\ MoveOn(h)
        BY <1>4 DEF Add
    <2>2. ASSUME NEW k \in Granularities, Others(h), series[k].exists => series'[k].exists,
                 h \notin Late(k)'
          PROVE  faults' + Lost(k)' >= faults + Lost(k) + IF TRUE /\ ~TRUE THEN 1 ELSE 0
        <3>1. Lost(k) \in Int /\ Lost(k)' \in Int /\ Lost(k)' >= Lost(k)
            BY <1>1, <1>2, <2>2, LostStep
        <3> QED  BY <1>1, <1>2, <3>1
    <2>3. faults' + (IF TRUE THEN 1 ELSE 0) >= faults + (IF TRUE THEN 1 ELSE 0)
        BY <1>1, <1>2
    <2> QED  BY <1>2, <2>1, <2>2, <2>3, Keeps
<1>5. CASE ~(Here(h) \/ addCreates)
    <2>1. GoTo(h, "exists") /\ UNCHANGED series
        BY <1>5 DEF Add
    <2>2. /\ Others(h) /\ handler'[h].pc = "exists"
          /\ handler'[h].g = handler[h].g /\ handler'[h].bucket = handler[h].bucket
        BY <1>1, <2>1, GoToTypes
    <2>3. ASSUME NEW k \in Granularities
          PROVE  faults' + Lost(k)' >= faults + Lost(k) + IF FALSE /\ ~FALSE THEN 1 ELSE 0
        <3>1. h \notin Late(k)'
            BY <2>2 DEF Late
        <3>2. Lost(k) \in Int /\ Lost(k)' \in Int /\ Lost(k)' >= Lost(k)
            BY <1>1, <1>2, <2>1, <2>2, <3>1, LostStep
        <3> QED  BY <1>1, <1>2, <3>2
    <2>4. faults' + (IF FALSE THEN 1 ELSE 0) >= faults + (IF FALSE THEN 1 ELSE 0)
        BY <1>1, <1>2
    <2>5. handler'[h].pc \in Recording /\ ~addCreates
        BY <1>5, <2>2 DEF Recording
    <2> QED  BY <1>2, <2>1, <2>2, <2>3, <2>4, <2>5, Keeps
<1> QED  BY <1>4, <1>5

\* EXISTS: whoever finds no series may come too late to create it, but as long as
\* there is none nobody has.
LEMMA ExistsKeeps ==
    ASSUME MetricsInv, TypeOK', NEW h \in Handlers, Exists(h)
    PROVE  MetricsInv'
<1>1. TypeOK /\ Sane /\ handler[h].g \in Granularities /\ faults \in Nat
    BY Numbers DEF MetricsInv
<1>2. /\ handler[h].pc = "exists" /\ handler[h].pc \in Recording /\ ~addCreates
      /\ UNCHANGED <<clock, addCreates, series, accepted, faults, cut>>
    BY <1>1 DEF Exists, At, Recording, Sane
<1>3. PICK pc \in {"again", "create"} :
          GoTo(h, pc) /\ (pc = "create" => ~series[handler[h].g].exists)
    BY DEF Exists, Here
<1>4. /\ Others(h) /\ handler'[h].pc = pc
      /\ handler'[h].g = handler[h].g /\ handler'[h].bucket = handler[h].bucket
    BY <1>1, <1>3, GoToTypes
<1>5. ASSUME NEW k \in Granularities
      PROVE  faults' + Lost(k)' >= faults + Lost(k) + IF FALSE /\ ~FALSE THEN 1 ELSE 0
    <2>1. h \in Late(k)' => ~series'[k].exists
        BY <1>2, <1>3, <1>4 DEF Late
    <2>2. Lost(k) \in Int /\ Lost(k)' \in Int /\ Lost(k)' >= Lost(k)
        BY <1>1, <1>2, <1>4, <2>1, LostStep
    <2> QED  BY <1>1, <1>2, <2>2
<1>6. faults' + (IF FALSE THEN 1 ELSE 0) >= faults + (IF FALSE THEN 1 ELSE 0)
    BY <1>1, <1>2
<1>7. handler'[h].pc \in Recording
    BY <1>3, <1>4 DEF Recording
<1> QED  BY <1>2, <1>4, <1>5, <1>6, <1>7, Keeps

\* TS.CREATE: a handler that comes too late loses its event, the one the margin
\* kept for it.
LEMMA CreateKeeps ==
    ASSUME MetricsInv, TypeOK', NEW h \in Handlers, Create(h)
    PROVE  MetricsInv'
<1>1. TypeOK /\ Sane /\ handler[h].g \in Granularities /\ faults \in Nat
    BY Numbers DEF MetricsInv
<1>2. /\ handler[h].pc = "create" /\ handler[h].pc \in Recording /\ ~addCreates
      /\ UNCHANGED <<clock, addCreates, accepted, faults, cut>>
    BY <1>1 DEF Create, At, Recording, Sane
<1>3. CASE Here(h)
    <2>1. MoveOn(h) /\ UNCHANGED series
        BY <1>3 DEF Create
    <2>2. ASSUME NEW k \in Granularities, k = handler[h].g, Others(h),
                 series[k].exists => series'[k].exists, h \notin Late(k)'
          PROVE  faults' + Lost(k)' >= faults + Lost(k) + IF TRUE /\ ~FALSE THEN 1 ELSE 0
        <3>1. h \in Late(k) /\ series[k].exists
            BY <1>2, <1>3, <2>2 DEF Late, Here
        <3>2. Lost(k) \in Int /\ Lost(k)' = Lost(k) + 1
            BY <1>1, <1>2, <2>2, <3>1, LostStep
        <3> QED  BY <1>1, <1>2, <3>2
    <2>3. faults' + (IF TRUE THEN 1 ELSE 0) >= faults + (IF FALSE THEN 1 ELSE 0)
        BY <1>1, <1>2
    <2> QED  BY <1>2, <2>1, <2>2, <2>3, Keeps
<1>4. CASE ~Here(h)
    <2>1. Created(h) /\ GoTo(h, "again")
        BY <1>4 DEF Create
    <2>2. /\ Others(h) /\ handler'[h].pc = "again" /\ handler'[h].pc \in Recording
          /\ handler'[h].g = handler[h].g /\ handler'[h].bucket = handler[h].bucket
        BY <1>1, <2>1, GoToTypes DEF Recording
    <2>3. ASSUME NEW k \in Granularities
          PROVE  faults' + Lost(k)' >= faults + Lost(k) + IF FALSE /\ ~FALSE THEN 1 ELSE 0
        <3>1. h \notin Late(k)' /\ (series[k].exists => series'[k].exists)
            BY <1>1, <2>1, <2>2, CreatedTypes DEF Late
        <3>2. Lost(k) \in Int /\ Lost(k)' \in Int /\ Lost(k)' >= Lost(k)
            BY <1>1, <1>2, <2>2, <3>1, LostStep
        <3> QED  BY <1>1, <1>2, <3>2
    <2>4. faults' + (IF FALSE THEN 1 ELSE 0) >= faults + (IF FALSE THEN 1 ELSE 0)
        BY <1>1, <1>2
    <2> QED  BY <1>2, <2>1, <2>2, <2>3, <2>4, Keeps
<1> QED  BY <1>3, <1>4

\* The second add finds the series.
LEMMA AddAgainKeeps ==
    ASSUME MetricsInv, TypeOK', NEW h \in Handlers, AddAgain(h)
    PROVE  MetricsInv'
<1>1. TypeOK /\ Sane /\ handler[h].g \in Granularities /\ faults \in Nat
    BY Numbers DEF MetricsInv
<1>2. /\ handler[h].pc = "again" /\ handler[h].pc \in Recording
      /\ Added(h) /\ MoveOn(h)
      /\ UNCHANGED <<clock, addCreates, accepted, faults, cut>>
    BY DEF AddAgain, At, Recording
<1>3. ASSUME NEW k \in Granularities, Others(h), series[k].exists => series'[k].exists,
             h \notin Late(k)'
      PROVE  faults' + Lost(k)' >= faults + Lost(k) + IF TRUE /\ ~TRUE THEN 1 ELSE 0
    <2>1. Lost(k) \in Int /\ Lost(k)' \in Int /\ Lost(k)' >= Lost(k)
        BY <1>1, <1>2, <1>3, LostStep
    <2> QED  BY <1>1, <1>2, <2>1
<1>4. faults' + (IF TRUE THEN 1 ELSE 0) >= faults + (IF TRUE THEN 1 ELSE 0)
    BY <1>1, <1>2
<1> QED  BY <1>2, <1>3, <1>4, Keeps

\* A fault pays for what it costs: for a sample more, for an event less, or for the
\* creation of a series by a handler that will be too late for it.
LEMMA FaultKeeps ==
    ASSUME MetricsInv, TypeOK', NEW h \in Handlers, Fault(h)
    PROVE  MetricsInv'
<1>1. TypeOK /\ Sane /\ handler[h].g \in Granularities /\ faults \in Nat
    BY Numbers DEF MetricsInv
<1>2. /\ handler[h].pc \in Recording /\ faults' = faults + 1
      /\ UNCHANGED <<clock, addCreates, accepted, cut>>
      /\ Added(h) \/ Created(h) \/ UNCHANGED series
      /\ MoveOn(h) \/ UNCHANGED handler
    BY DEF Fault, Recording
<1>3. PICK add \in BOOLEAN : IF add THEN Added(h) ELSE Created(h) \/ UNCHANGED series
    BY <1>2
<1>4. faults + 1 \in Nat /\ faults + 1 >= faults
    BY <1>1
<1>5. CASE MoveOn(h)
    <2>1. ASSUME NEW k \in Granularities, Others(h), series[k].exists => series'[k].exists,
                 h \notin Late(k)'
          PROVE  faults' + Lost(k)' >= faults + Lost(k) + IF TRUE /\ ~add THEN 1 ELSE 0
        <3>1. Lost(k) \in Int /\ Lost(k)' \in Int /\ Lost(k)' >= Lost(k)
            BY <1>1, <1>2, <2>1, LostStep
        <3> QED  BY <1>1, <1>2, <3>1
    <2>2. faults' + (IF TRUE THEN 1 ELSE 0) >= faults + (IF add THEN 1 ELSE 0)
        BY <1>1, <1>2
    <2> QED  BY <1>2, <1>3, <1>5, <2>1, <2>2, Keeps
<1>6. CASE UNCHANGED handler
    <2>1. Others(h) /\ handler'[h] = handler[h] /\ (addCreates => handler[h].pc = "add")
        BY <1>1, <1>2, <1>6 DEF Others, Sane, Recording
    <2>2. ASSUME NEW k \in Granularities, series[k].exists => series'[k].exists
          PROVE  faults' + Lost(k)' >= faults + Lost(k) + IF FALSE /\ ~add THEN 1 ELSE 0
        <3>1. h \in Late(k)' => h \in Late(k)
            BY <2>1 DEF Late
        <3>2. Lost(k) \in Int /\ Lost(k)' \in Int /\ Lost(k)' >= Lost(k) - 1
            BY <1>1, <1>2, <2>1, <2>2, <3>1, LostStep
        <3> QED  BY <1>1, <1>2, <3>2
    <2>3. faults' + (IF FALSE THEN 1 ELSE 0) >= faults + (IF add THEN 1 ELSE 0)
        BY <1>1, <1>2
    <2> QED  BY <1>2, <1>3, <2>1, <2>2, <2>3, Keeps
<1> QED  BY <1>2, <1>5, <1>6

-----------------------------------------------------------------------------
(* The other actions *)

LEMMA SameLost ==
    ASSUME UNCHANGED <<addCreates, series>>, NEW g, Late(g)' = Late(g)
    PROVE  Lost(g)' = Lost(g)
BY DEF Lost

\* An event more is an event more to record in every series.
LEMMA AcceptKeeps ==
    ASSUME MetricsInv, TypeOK', NEW h \in Handlers, Accept(h)
    PROVE  MetricsInv'
<1>1. /\ TypeOK /\ Sane
      /\ accepted \in Nat /\ faults \in Nat /\ cut \in Nat
      /\ \A g \in Granularities : Lost(g) \in Int
    BY Numbers DEF MetricsInv
<1>2. /\ accepted' = accepted + 1 /\ handler[h] = Idle
      /\ UNCHANGED <<clock, addCreates, series, faults, cut>>
    BY <1>1 DEF Accept, At, Sane
<1>3. Others(h) /\ handler'[h].pc = "stamp" /\ handler'[h].g = 1
    <2>1. GoTo(h, "stamp")
        BY DEF Accept
    <2>2. Others(h) /\ handler'[h].pc = "stamp" /\ handler'[h].g = handler[h].g
        BY <1>1, <2>1, GoToTypes
    <2> QED  BY <1>2, <2>2 DEF Idle
<1>4. \A k \in Handlers : k # h => handler'[k] = handler[k]
    BY <1>3 DEF Others
<1>5. handler'[h] # Idle
    BY <1>3 DEF Idle
<1>6. \A g : /\ Late(g)' = Late(g) /\ Lost(g)' = Lost(g)
             /\ \A t : Before(g, t)' = Before(g, t) /\ Old(g, t)' = Old(g, t)
    <2>1. \A g : Late(g)' = Late(g)
        BY <1>2, <1>3, <1>4 DEF Late, Idle
    <2>2. \A g : Lost(g)' = Lost(g)
        BY <1>2, <2>1, SameLost
    <2>3. \A g, t : Before(g, t)' = Before(g, t)
        BY <1>2, BeforeStays
    <2>4. \A g, t : Old(g, t)' = Old(g, t)
        BY <1>2, <1>3, <1>4 DEF Old, InHand, Idle
    <2> QED  BY <2>1, <2>2, <2>3, <2>4
<1>7. \A g \in Granularities \ {1} :
          InHand(g)' = InHand(g) /\ \A t : Ahead(g, t)' = Ahead(g, t)
    BY <1>2, <1>3, <1>4 DEF InHand, Ahead, Idle
<1>8. ASSUME NEW g \in Granularities
      PROVE  /\ Cardinality(Yet(g)) \in Nat /\ Cardinality(Yet(g)') = Cardinality(Yet(g)) + 1
             /\ Cardinality(Busy) \in Nat /\ Cardinality(Busy') = Cardinality(Busy) + 1
    <2>1. h \notin Yet(g) /\ h \in Yet(g)' /\ h \notin Busy /\ h \in Busy'
        BY <1>2, <1>3, <1>5, Constants DEF Yet, Busy
    <2>2. 0 \in Moments
        BY MetricsAssumption DEF Moments
    <2> QED  BY <1>2, <1>3, <2>1, <2>2, Members
<1>9. Sane'
    <2>1. cut' + Cardinality(Busy') <= accepted'
        BY <1>1, <1>2, <1>8, Constants DEF Sane
    <2>2. \A k \in Handlers :
              /\ handler'[k].pc = "idle" => handler'[k] = Idle
              /\ handler'[k].pc \notin {"idle", "stamp"} => handler'[k].bucket <= clock
              /\ addCreates => handler'[k].pc \notin {"exists", "create", "again"}
        BY <1>1, <1>3, <1>4 DEF Sane
    <2> QED  BY <1>2, <2>1, <2>2 DEF Sane
<1>10. Counted'
    <2>1. ASSUME NEW g \in Granularities
          PROVE  /\ Total(g)' + Cardinality(Yet(g)') <= accepted' + faults'
                 /\ accepted' <= Total(g)' + Cardinality(Yet(g)') + cut' + faults' + Lost(g)'
        <3> DEFINE T == Total(g)
                   Y == Cardinality(Yet(g))
                   L == Lost(g)
        <3>1. T \in Nat
            <4>1. MaxClock + 1 \in Moments
                BY MetricsAssumption DEF Moments
            <4> QED  BY <1>1, <4>1, BeforeType DEF Total
        <3>2. Total(g)' = T /\ Lost(g)' = L
            BY <1>6 DEF Total
        <3>3. T + Y <= accepted + faults /\ accepted <= T + Y + cut + faults + L
            BY DEF MetricsInv, Counted
        <3>4. Y \in Nat /\ Cardinality(Yet(g)') = Y + 1 /\ L \in Int
            BY <1>1, <1>8
        <3> HIDE DEF T, Y, L
        <3>5. /\ T + (Y + 1) <= (accepted + 1) + faults
              /\ accepted + 1 <= T + (Y + 1) + cut + faults + L
            BY <1>1, <3>1, <3>3, <3>4
        <3> QED  BY <1>2, <3>2, <3>4, <3>5
    <2> QED  BY <2>1 DEF Counted
<1>11. FineFirst'
    BY <1>2, <1>6, <1>7 DEF MetricsInv, FineFirst, Starts
<1>12. CoarseFollows'
    BY <1>2, <1>6, <1>7 DEF MetricsInv, CoarseFollows, Starts
<1> QED  BY <1>9, <1>10, <1>11, <1>12 DEF MetricsInv

\* The bucket of a moment begins before the end of a longer one just when the
\* moment is before it: a stamp changes nothing for the bounds.
LEMMA StampKeeps ==
    ASSUME MetricsInv, TypeOK', NEW h \in Handlers, Stamp(h)
    PROVE  MetricsInv'
<1> DEFINE g0 == handler[h].g
           b == Truncate(clock, Lengths[g0])
<1>1. /\ TypeOK /\ Sane /\ clock \in Nat /\ g0 \in Granularities
    BY Numbers DEF MetricsInv
<1>2. /\ handler[h].pc = "stamp"
      /\ UNCHANGED <<clock, addCreates, series, accepted, faults, cut>>
    BY DEF Stamp, At
<1>3. /\ Others(h) /\ handler'[h].pc = "add"
      /\ handler'[h].g = g0 /\ handler'[h].bucket = b
    <2>1. Others(h) /\ handler'[h] = [pc |-> "add", g |-> g0, bucket |-> b]
        BY <1>1, StampTypes, Zenon
    <2> HIDE DEF g0, b
    <2> QED  BY <2>1
<1>4. \A k \in Handlers : k # h => handler'[k] = handler[k]
    BY <1>3 DEF Others
<1>5. handler[h] # Idle /\ handler'[h] # Idle
    BY <1>2, <1>3 DEF Idle
<1>6. /\ b <= clock
      /\ \A t \in Nat : t % Lengths[g0] = 0 => (b < t <=> clock < t)
    BY <1>1, Constants, TruncateBefore
<1>7. \A g : /\ Late(g)' = Late(g) /\ Lost(g)' = Lost(g)
             /\ InHand(g)' = InHand(g) /\ Yet(g)' = Yet(g)
             /\ \A t : Before(g, t)' = Before(g, t)
    <2>1. \A g : Late(g)' = Late(g)
        BY <1>2, <1>3, <1>4 DEF Late
    <2>2. \A g : Lost(g)' = Lost(g)
        BY <1>2, <2>1, SameLost
    <2>3. \A g, t : Before(g, t)' = Before(g, t)
        BY <1>2, BeforeStays
    <2>4. \A g : InHand(g)' = InHand(g)
        BY <1>2, <1>3, <1>4 DEF InHand
    <2>5. \A g : Yet(g)' = Yet(g)
        BY <1>2, <1>3, <1>4, <1>5 DEF Yet
    <2> QED  BY <2>1, <2>2, <2>3, <2>4, <2>5
<1>8. Busy' = Busy
    BY <1>4, <1>5 DEF Busy
<1>9. ASSUME NEW g \in Granularities \ {1}, NEW t \in Starts(g)
      PROVE  /\ Ahead(g, t)' = Ahead(g, t)
             /\ ~(clock < t) => Old(g - 1, t)' = Old(g - 1, t)
    <2>1. t \in Nat /\ t % Lengths[g] = 0 /\ g \in Granularities /\ g - 1 \in Granularities
        BY Indices DEF Starts
    <2>2. t % Lengths[g - 1] = 0
        <3>1. Lengths[g] % Lengths[g - 1] = 0
            BY <2>1, Constants, MetricsAssumption
        <3> QED  BY <2>1, <3>1, Constants, Divides
    <2>3. g = g0 => (b < t <=> clock < t)
        BY <1>6, <2>1
    <2>4. g - 1 = g0 => (b < t <=> clock < t)
        BY <1>6, <2>1, <2>2
    <2> HIDE DEF b
    <2>5. Ahead(g, t)' = Ahead(g, t)
        BY <1>2, <1>3, <1>4, <2>3 DEF Ahead, InHand
    <2>6. ~(clock < t) => Old(g - 1, t)' = Old(g - 1, t)
        BY <1>2, <1>3, <1>4, <2>4 DEF Old, InHand
    <2> QED  BY <2>5, <2>6
<1>10. Sane'
    <2>1. \A k \in Handlers :
              /\ handler'[k].pc = "idle" => handler'[k] = Idle
              /\ handler'[k].pc \notin {"idle", "stamp"} => handler'[k].bucket <= clock
              /\ addCreates => handler'[k].pc \notin {"exists", "create", "again"}
        <3> HIDE DEF b
        <3> QED  BY <1>1, <1>3, <1>4, <1>6 DEF Sane
    <2> QED  BY <1>1, <1>2, <1>8, <2>1 DEF Sane
<1>11. Counted'
    BY <1>2, <1>7 DEF MetricsInv, Counted, Total
<1>12. FineFirst'
    BY <1>2, <1>7, <1>9 DEF MetricsInv, FineFirst, Starts
<1>13. CoarseFollows'
    <2>1. ASSUME NEW g \in Granularities \ {1}, NEW t \in Starts(g)
          PROVE  Before(g - 1, t)' + (IF clock' < t THEN 0 ELSE Cardinality(Old(g - 1, t)'))
                     <= Before(g, t)' + cut' + faults' + Lost(g)'
                          + Cardinality(IF clock' < t THEN InHand(g)' ELSE Handlers)
        <3>1. (IF clock' < t THEN 0 ELSE Cardinality(Old(g - 1, t)'))
                 = (IF clock < t THEN 0 ELSE Cardinality(Old(g - 1, t)))
            BY <1>2, <1>9
        <3>2. Before(g - 1, t) + (IF clock < t THEN 0 ELSE Cardinality(Old(g - 1, t)))
                  <= Before(g, t) + cut + faults + Lost(g)
                       + Cardinality(IF clock < t THEN InHand(g) ELSE Handlers)
            BY DEF MetricsInv, CoarseFollows
        <3> QED  BY <1>2, <1>7, <3>1, <3>2
    <2> QED  BY <2>1 DEF CoarseFollows, Starts
<1> QED  BY <1>10, <1>11, <1>12, <1>13 DEF MetricsInv

\* When a bucket ends, what is old in the fine series is in the hands of other
\* handlers than what the coarse series has yet to get: there are no more of them
\* than handlers.
LEMMA TickKeeps ==
    ASSUME MetricsInv, TypeOK', Tick
    PROVE  MetricsInv'
<1>1. /\ TypeOK /\ Sane /\ clock \in Nat /\ clock' = clock + 1
      /\ UNCHANGED <<addCreates, series, handler, accepted, faults, cut>>
      /\ accepted \in Nat /\ faults \in Nat /\ cut \in Nat
      /\ \A g \in Granularities : Lost(g) \in Int
    BY Numbers DEF MetricsInv, Tick
<1>2. \A g : /\ Lost(g)' = Lost(g) /\ Yet(g)' = Yet(g) /\ InHand(g)' = InHand(g)
             /\ \A t : Before(g, t)' = Before(g, t) /\ Old(g, t)' = Old(g, t)
    <2>1. \A g : Late(g)' = Late(g)
        BY <1>1 DEF Late
    <2>2. \A g : Lost(g)' = Lost(g)
        BY <1>1, <2>1, SameLost
    <2>3. \A g, t : Before(g, t)' = Before(g, t)
        BY <1>1, BeforeStays
    <2>4. \A g : Yet(g)' = Yet(g) /\ InHand(g)' = InHand(g)
        BY <1>1 DEF Yet, InHand
    <2>5. \A g, t : Old(g, t)' = Old(g, t)
        BY <1>1 DEF Old, InHand
    <2> QED  BY <2>2, <2>3, <2>4, <2>5
<1>3. Sane'
    <2>1. Busy' = Busy
        BY <1>1 DEF Busy
    <2>2. \A k \in Handlers :
              handler[k].pc \notin {"idle", "stamp"} => handler[k].bucket <= clock + 1
        <3>1. \A k \in Handlers : handler[k].bucket \in Nat
            BY <1>1, Numbers
        <3> QED  BY <1>1, <3>1 DEF Sane
    <2> QED  BY <1>1, <2>1, <2>2 DEF Sane
<1>4. Counted'
    BY <1>1, <1>2 DEF MetricsInv, Counted, Total
<1>5. FineFirst'
    <2>1. ASSUME NEW g \in Granularities \ {1}, NEW t \in Starts(g)
          PROVE  Before(g, t)' + Cardinality(Ahead(g, t)')
                     <= Before(g - 1, t)' + faults' + Lost(g - 1)'
        <3> DEFINE B == Before(g, t)
                   P == Before(g - 1, t)
                   X == Cardinality(Ahead(g, t))
                   X2 == Cardinality(Ahead(g, t)')
                   L == Lost(g - 1)
        <3>1. t \in Moments /\ t \in Nat /\ g - 1 \in Granularities
            BY Indices
        <3>2. B + X <= P + faults + L
            BY DEF MetricsInv, FineFirst
        <3>3. X \in Nat /\ X2 \in Nat /\ X2 <= X
            <4>1. Ahead(g, t)' \subseteq Ahead(g, t)
                BY <1>1, <3>1 DEF Ahead, InHand
            <4>2. IsFiniteSet(Ahead(g, t))
                BY MetricsAssumption, FS_Subset DEF Ahead, InHand
            <4>3. IsFiniteSet(Ahead(g, t)') /\ X2 <= X
                BY <4>1, <4>2, FS_Subset
            <4> QED  BY <4>2, <4>3, FS_CardinalityType
        <3>4. B \in Nat /\ P \in Nat /\ L \in Int
            BY <1>1, <3>1, BeforeType
        <3> HIDE DEF B, P, X, X2, L
        <3>5. B + X2 <= P + faults + L
            BY <1>1, <3>2, <3>3, <3>4
        <3> QED  BY <1>1, <1>2, <3>5 DEF B, P, X2, L
    <2> QED  BY <2>1 DEF FineFirst, Starts
<1>6. CoarseFollows'
    <2>1. ASSUME NEW g \in Granularities \ {1}, NEW t \in Starts(g)
          PROVE  Before(g - 1, t)' + (IF clock' < t THEN 0 ELSE Cardinality(Old(g - 1, t)'))
                     <= Before(g, t)' + cut' + faults' + Lost(g)'
                          + Cardinality(IF clock' < t THEN InHand(g)' ELSE Handlers)
        <3>1. t \in Moments /\ t \in Nat /\ g - 1 \in Granularities /\ g \in Int
            BY Indices
        <3>2. Before(g - 1, t) + (IF clock < t THEN 0 ELSE Cardinality(Old(g - 1, t)))
                  <= Before(g, t) + cut + faults + Lost(g)
                       + Cardinality(IF clock < t THEN InHand(g) ELSE Handlers)
            BY DEF MetricsInv, CoarseFollows
        <3>3. CASE clock + 1 < t \/ ~(clock < t)
            <4>1. clock + 1 < t <=> clock < t
                BY <1>1, <3>1, <3>3
            <4> QED  BY <1>1, <1>2, <3>2, <4>1
        <3>4. CASE ~(clock + 1 < t) /\ clock < t
            <4> DEFINE B == Before(g, t)
                       P == Before(g - 1, t)
                       O == Cardinality(Old(g - 1, t))
                       X == Cardinality(InHand(g))
                       N == Cardinality(Handlers)
                       L == Lost(g)
            <4>1. B \in Nat /\ P \in Nat /\ L \in Int /\ N \in Nat
                BY <1>1, <3>1, BeforeType, Numbers
            <4>2. P + 0 <= B + cut + faults + L + X
                BY <3>2, <3>4
            <4>3. O + X <= N /\ O \in Nat /\ X \in Nat
                <5>1. Old(g - 1, t) \in SUBSET Handlers /\ InHand(g) \in SUBSET Handlers
                    BY DEF Old, InHand
                <5>2. Old(g - 1, t) \cap InHand(g) = {}
                    BY <3>1 DEF Old, InHand
                <5>3. IsFiniteSet(Handlers)
                    BY MetricsAssumption
                <5> QED  BY <5>1, <5>2, <5>3, DisjointMembers, FS_Subset, FS_CardinalityType
            <4> HIDE DEF B, P, O, X, N, L
            <4>4. P + O <= B + cut + faults + L + N
                BY <1>1, <4>1, <4>2, <4>3
            <4>5. ~(clock' < t)
                BY <1>1, <3>4
            <4> QED  BY <1>1, <1>2, <4>4, <4>5 DEF B, P, O, N, L
        <3> QED  BY <3>3, <3>4
    <2> QED  BY <2>1 DEF CoarseFollows, Starts
<1> QED  BY <1>3, <1>4, <1>5, <1>6 DEF MetricsInv

\* What a dead process had in hand is cut off.
LEMMA CrashKeeps ==
    ASSUME MetricsInv, TypeOK', Crash
    PROVE  MetricsInv'
<1> DEFINE K == Cardinality(Busy)
           C == cut
           N == Cardinality(Handlers)
<1>1. /\ TypeOK /\ Sane /\ clock \in Nat
      /\ UNCHANGED <<clock, addCreates, series, accepted, faults>>
      /\ handler' = [h \in Handlers |-> Idle]
      /\ accepted \in Nat /\ faults \in Nat /\ C \in Nat /\ N \in Nat
      /\ \A g \in Granularities : Lost(g) \in Int
    BY Numbers DEF MetricsInv, Crash
<1>2. cut' = C + K /\ K \in Nat
    BY BusyCount DEF Crash, Busy
<1>3. \A X \in SUBSET Busy : Cardinality(X) \in Nat /\ Cardinality(X) <= K
    <2>1. IsFiniteSet(Busy)
        BY MetricsAssumption, FS_Subset DEF Busy
    <2> QED  BY <2>1, FS_Subset, FS_CardinalityType
<1>4. \A h \in Handlers : handler'[h] = Idle /\ handler'[h].pc = "idle"
    BY <1>1 DEF Idle
<1>5. \A g : /\ Yet(g)' = {} /\ Late(g)' = {}
             /\ \A t : Before(g, t)' = Before(g, t) /\ Ahead(g, t)' = {} /\ Old(g, t)' = {}
    <2>1. \A g : InHand(g)' = {}
        BY <1>4 DEF InHand
    <2>2. \A g : Yet(g)' = {} /\ Late(g)' = {}
        BY <1>4 DEF Yet, Late
    <2>3. \A g, t : Ahead(g, t)' = {} /\ Old(g, t)' = {}
        BY <2>1 DEF Ahead, Old
    <2>4. \A g, t : Before(g, t)' = Before(g, t)
        BY <1>1, BeforeStays
    <2> QED  BY <2>2, <2>3, <2>4
<1>6. Cardinality({}) = 0
    BY FS_EmptySet
<1>7. \A g \in Granularities : Lost(g)' \in Int /\ Lost(g)' >= Lost(g)
    <2>1. ASSUME NEW g \in Granularities
          PROVE  Lost(g)' \in Int /\ Lost(g)' >= Lost(g)
        <3> DEFINE D == Cardinality(Late(g))
        <3>1. D \in Nat
            BY <1>1, Numbers
        <3>2. Cardinality(Late(g)') = 0
            BY <1>5, <1>6
        <3>3. Lost(g) = IF addCreates \/ ~series[g].exists THEN 0 ELSE N - 1 - D
            BY DEF Lost
        <3>4. Lost(g)' = IF addCreates \/ ~series[g].exists THEN 0 ELSE N - 1 - 0
            BY <1>1, <3>2 DEF Lost
        <3> HIDE DEF D, N
        <3> QED  BY <1>1, <3>1, <3>3, <3>4
    <2> QED  BY <2>1
<1>8. Sane'
    <2>1. Busy' = {}
        BY <1>4 DEF Busy
    <2>2. C + K <= accepted
        BY <1>1 DEF Sane
    <2> HIDE DEF K, C
    <2>3. cut' + Cardinality(Busy') <= accepted'
        BY <1>1, <1>2, <1>6, <2>1, <2>2
    <2> QED  BY <1>4, <2>3 DEF Sane
<1>9. Counted'
    <2>1. ASSUME NEW g \in Granularities
          PROVE  /\ Total(g)' + Cardinality(Yet(g)') <= accepted' + faults'
                 /\ accepted' <= Total(g)' + Cardinality(Yet(g)') + cut' + faults' + Lost(g)'
        <3> DEFINE T == Total(g)
                   Y == Cardinality(Yet(g))
                   L == Lost(g)
                   L2 == Lost(g)'
        <3>1. T \in Nat /\ Total(g)' = T
            <4>1. MaxClock + 1 \in Moments
                BY MetricsAssumption DEF Moments
            <4> QED  BY <1>1, <1>5, <4>1, BeforeType DEF Total
        <3>2. T + Y <= accepted + faults /\ accepted <= T + Y + C + faults + L
            BY DEF MetricsInv, Counted
        <3>3. Y \in Nat /\ Y <= K
            BY <1>3 DEF Yet, Busy
        <3>4. L \in Int /\ L2 \in Int /\ L2 >= L
            BY <1>1, <1>7
        <3> HIDE DEF T, Y, L, L2, K, C
        <3>5. T + 0 <= accepted + faults /\ accepted <= T + 0 + (C + K) + faults + L2
            BY <1>1, <1>2, <3>1, <3>2, <3>3, <3>4
        <3> QED  BY <1>1, <1>2, <1>5, <1>6, <3>1, <3>5 DEF L2
    <2> QED  BY <2>1 DEF Counted
<1>10. FineFirst'
    <2>1. ASSUME NEW g \in Granularities \ {1}, NEW t \in Starts(g)
          PROVE  Before(g, t)' + Cardinality(Ahead(g, t)')
                     <= Before(g - 1, t)' + faults' + Lost(g - 1)'
        <3> DEFINE B == Before(g, t)
                   P == Before(g - 1, t)
                   X == Cardinality(Ahead(g, t))
                   L == Lost(g - 1)
                   L2 == Lost(g - 1)'
        <3>1. t \in Moments /\ g - 1 \in Granularities
            BY Indices
        <3>2. B + X <= P + faults + L
            BY DEF MetricsInv, FineFirst
        <3>3. B \in Nat /\ P \in Nat
            BY <1>1, <3>1, BeforeType
        <3>4. X \in Nat
            <4>1. Ahead(g, t) \subseteq Busy
                BY DEF Ahead, InHand, Busy, Idle
            <4> QED  BY <1>3, <4>1
        <3>5. L \in Int /\ L2 \in Int /\ L2 >= L
            BY <1>1, <1>7, <3>1
        <3> HIDE DEF B, P, X, L, L2
        <3>6. B + 0 <= P + faults + L2
            BY <1>1, <3>2, <3>3, <3>4, <3>5
        <3> QED  BY <1>1, <1>5, <1>6, <3>6 DEF B, P, L2
    <2> QED  BY <2>1 DEF FineFirst, Starts
<1>11. CoarseFollows'
    <2>1. ASSUME NEW g \in Granularities \ {1}, NEW t \in Starts(g)
          PROVE  Before(g - 1, t)' + (IF clock' < t THEN 0 ELSE Cardinality(Old(g - 1, t)'))
                     <= Before(g, t)' + cut' + faults' + Lost(g)'
                          + Cardinality(IF clock' < t THEN InHand(g)' ELSE Handlers)
        <3> DEFINE B == Before(g, t)
                   P == Before(g - 1, t)
                   X == Cardinality(InHand(g))
                   L == Lost(g)
                   L2 == Lost(g)'
                   O == IF clock < t THEN 0 ELSE Cardinality(Old(g - 1, t))
                   M == Cardinality(IF clock < t THEN InHand(g) ELSE Handlers)
                   M2 == Cardinality(IF clock < t THEN InHand(g)' ELSE Handlers)
        <3>1. t \in Moments /\ g - 1 \in Granularities
            BY Indices
        <3>2. P + O <= B + C + faults + L + M
            BY DEF MetricsInv, CoarseFollows
        <3>3. B \in Nat /\ P \in Nat
            BY <1>1, <3>1, BeforeType
        <3>4. O \in Nat
            <4>1. Old(g - 1, t) \subseteq Busy
                BY DEF Old, InHand, Busy, Idle
            <4> QED  BY <1>3, <4>1
        <3>5. M \in Nat /\ M2 \in Nat /\ M <= M2 + K
            <4>1. InHand(g) \subseteq Busy
                BY DEF InHand, Busy, Idle
            <4>2. InHand(g)' = {}
                BY <1>4 DEF InHand
            <4>3. CASE clock < t
                <5>1. M = X /\ M2 = 0
                    BY <1>6, <4>2, <4>3
                <5> QED  BY <1>2, <1>3, <4>1, <5>1
            <4>4. CASE ~(clock < t)
                <5>1. M = N /\ M2 = N
                    BY <4>4
                <5> HIDE DEF M, M2, N, K
                <5> QED  BY <1>1, <1>2, <5>1
            <4> QED  BY <4>3, <4>4
        <3>6. L \in Int /\ L2 \in Int /\ L2 >= L
            BY <1>1, <1>7, <3>1
        <3> HIDE DEF B, P, X, L, L2, O, M, M2, C, K
        <3>7. P + 0 <= B + (C + K) + faults + L2 + M2
            BY <1>1, <1>2, <3>2, <3>3, <3>4, <3>5, <3>6
        <3>8. (IF clock' < t THEN 0 ELSE Cardinality(Old(g - 1, t)')) = 0
            BY <1>5, <1>6
        <3> QED  BY <1>1, <1>2, <1>5, <3>7, <3>8 DEF B, P, L2, M2
    <2> QED  BY <2>1 DEF CoarseFollows, Starts
<1> QED  BY <1>8, <1>9, <1>10, <1>11 DEF MetricsInv

-----------------------------------------------------------------------------
(* The theorems *)

LEMMA MetricsInit == ASSUME Init PROVE MetricsInv
<1>1. /\ MaxClock \in Nat /\ MaxEvents \in Nat /\ MaxFaults \in Nat
      /\ clock = 0 /\ accepted = 0 /\ faults = 0 /\ cut = 0
      /\ \A h \in Handlers : handler[h] = Idle /\ handler[h].pc = "idle"
    BY MetricsAssumption DEF Init, Idle
<1>2. /\ \A g : Yet(g) = {} /\ Late(g) = {} /\ InHand(g) = {}
      /\ Busy = {}
      /\ \A g, t : Ahead(g, t) = {} /\ Old(g, t) = {}
    <2>1. \A g : InHand(g) = {}
        BY <1>1 DEF InHand
    <2>2. Busy = {} /\ \A g : Yet(g) = {} /\ Late(g) = {}
        BY <1>1 DEF Busy, Yet, Late
    <2> QED  BY <2>1, <2>2 DEF Ahead, Old
<1>3. Cardinality({}) = 0 /\ Cardinality(Handlers) \in Nat
    BY MetricsAssumption, FS_EmptySet, FS_CardinalityType
<1>4. TypeOK
    <2>1. series \in Tables
        BY DEF Init, Tables
    <2>2. Idle \in Doings
        BY <1>1, Constants DEF Idle, Doings
    <2>3. handler \in [Handlers -> Doings]
        BY <2>2 DEF Init
    <2>4. Counters
        BY <1>1 DEF Counters, Init
    <2> QED  BY <2>1, <2>3, <2>4, TypeParts
<1>5. \A g \in Granularities : Lost(g) = 0
    BY DEF Init, Lost
<1>6. ASSUME NEW g \in Granularities, NEW t \in Moments
      PROVE  Before(g, t) = 0
    <2> DEFINE S == {b \in 0..MaxClock : b < t}
               f == series[g].samples
    <2>1. IsFiniteSet(S)
        <3>1. IsFiniteSet(0..MaxClock)
            BY <1>1, FS_Interval
        <3> QED  BY <3>1, FS_Subset
    <2>2. \A x \in S : f[x] = 0
        BY <1>6 DEF Init
    <2> HIDE DEF S, f
    <2>3. SumFunctionOnSet(f, S) = 0
        BY <2>1, <2>2, SumZero
    <2> QED  BY <2>3 DEF Before, S, f
<1>7. Sane
    BY <1>1, <1>2, <1>3 DEF Sane
<1>8. Counted
    <2>1. ASSUME NEW g \in Granularities
          PROVE  Total(g) = 0 /\ Cardinality(Yet(g)) = 0 /\ Lost(g) = 0
        <3>1. MaxClock + 1 \in Moments
            BY <1>1 DEF Moments
        <3> QED  BY <1>2, <1>3, <1>5, <1>6, <3>1 DEF Total
    <2> QED  BY <1>1, <2>1 DEF Counted
<1>9. ASSUME NEW g \in Granularities \ {1}, NEW t \in Starts(g)
      PROVE  /\ Before(g, t) = 0 /\ Before(g - 1, t) = 0 /\ Lost(g) = 0 /\ Lost(g - 1) = 0
             /\ Cardinality(Ahead(g, t)) = 0 /\ Cardinality(Old(g - 1, t)) = 0
             /\ Cardinality(InHand(g)) = 0
    <2>1. g \in Granularities /\ g - 1 \in Granularities /\ t \in Moments
        BY Indices
    <2> QED  BY <1>2, <1>3, <1>5, <1>6, <2>1
<1>10. FineFirst
    BY <1>1, <1>9 DEF FineFirst
<1>11. CoarseFollows
    <2>1. ASSUME NEW g \in Granularities \ {1}, NEW t \in Starts(g)
          PROVE  Before(g - 1, t) + (IF clock < t THEN 0 ELSE Cardinality(Old(g - 1, t)))
                     <= Before(g, t) + cut + faults + Lost(g)
                          + Cardinality(IF clock < t THEN InHand(g) ELSE Handlers)
        <3> DEFINE K == Cardinality(IF clock < t THEN InHand(g) ELSE Handlers)
        <3>1. K \in Nat
            BY <1>3, <1>9
        <3> HIDE DEF K
        <3>2. 0 + 0 <= 0 + 0 + 0 + 0 + K
            BY <3>1
        <3>3. (IF clock < t THEN 0 ELSE Cardinality(Old(g - 1, t))) = 0
            BY <1>9
        <3> QED  BY <1>1, <1>9, <3>2, <3>3 DEF K
    <2> QED  BY <2>1 DEF CoarseFollows
<1> QED  BY <1>4, <1>7, <1>8, <1>10, <1>11 DEF MetricsInv

LEMMA MetricsStep == ASSUME MetricsInv, [Next]_vars PROVE MetricsInv'
<1>1. TypeOK'
    BY TypeStep DEF MetricsInv
<1>2. CASE UNCHANGED vars
    <2>1. \A g : /\ Yet(g)' = Yet(g) /\ Late(g)' = Late(g) /\ InHand(g)' = InHand(g)
                 /\ \A t : Before(g, t)' = Before(g, t)
        BY <1>2 DEF vars, Yet, Late, InHand, Before
    <2>2. \A g, t : Ahead(g, t)' = Ahead(g, t) /\ Old(g, t)' = Old(g, t)
        BY <1>2, <2>1 DEF vars, Ahead, Old
    <2>3. \A g : Lost(g)' = Lost(g)
        BY <1>2, <2>1, SameLost DEF vars
    <2>4. Busy' = Busy
        BY <1>2 DEF vars, Busy
    <2>5. Sane'
        BY <1>2, <2>4 DEF vars, MetricsInv, Sane
    <2>6. Counted' /\ FineFirst' /\ CoarseFollows'
        BY <1>2, <2>1, <2>2, <2>3
           DEF vars, MetricsInv, Counted, Total, FineFirst, CoarseFollows, Starts
    <2> QED  BY <1>1, <2>5, <2>6 DEF MetricsInv
<1>3. ASSUME NEW h \in Handlers, Accept(h) \/ Record(h) \/ Fault(h)
      PROVE  MetricsInv'
    BY <1>1, <1>3, AcceptKeeps, StampKeeps, AddKeeps, ExistsKeeps, CreateKeeps,
       AddAgainKeeps, FaultKeeps DEF Record
<1>4. CASE Tick
    BY <1>1, <1>4, TickKeeps
<1>5. CASE Crash
    BY <1>1, <1>5, CrashKeeps
<1> QED  BY <1>2, <1>3, <1>4, <1>5 DEF Next

\* Every variable keeps its type; that a crash cuts off no more events than were
\* accepted is part of the invariant.
THEOREM Types == Spec => []TypeOK
<1>1. MetricsInv => TypeOK
    BY DEF MetricsInv
<1> QED  BY MetricsInit, MetricsStep, <1>1, PTL DEF Spec

\* What may be lost is within what the properties allow.
LEMMA LostIsMissed ==
    ASSUME TypeOK, NEW g \in Granularities
    PROVE  Missed \in Nat /\ faults + Lost(g) <= Missed
<1> DEFINE N == Cardinality(Handlers)
           D == Cardinality(Late(g))
<1>1. N \in Nat /\ N # 0 /\ D \in Nat /\ faults \in Nat
    BY MetricsAssumption, Numbers, FS_EmptySet
<1>2. /\ Missed = faults + IF addCreates THEN 0 ELSE N - 1
      /\ Lost(g) = IF addCreates \/ ~series[g].exists THEN 0 ELSE N - 1 - D
    BY DEF Missed, Lost
<1> HIDE DEF N, D
<1> QED  BY <1>1, <1>2

\* Each series counts every accepted event once: for any number of handlers that
\* race to create it, of faults, crashes and events.
THEOREM Counts == Spec => []EventsCounted
<1>1. ASSUME MetricsInv, NEW g \in Granularities
      PROVE  /\ Total(g) <= accepted + faults
             /\ Total(g) + Pending(g) + cut + Missed >= accepted
    <2> DEFINE T == Total(g)
               Y == Cardinality(Yet(g))
               L == Lost(g)
               M == Missed
    <2>1. T \in Nat
        <3>1. MaxClock + 1 \in Moments
            BY MetricsAssumption DEF Moments
        <3> QED  BY <1>1, <3>1, BeforeType DEF Total, MetricsInv
    <2>2. Pending(g) = Y
        BY DEF Pending, Yet
    <2>3. Y \in Nat
        <3>1. IsFiniteSet(Yet(g))
            BY MetricsAssumption, FS_Subset DEF Yet
        <3> QED  BY <3>1, FS_CardinalityType
    <2>4. T + Y <= accepted + faults /\ accepted <= T + Y + cut + faults + L
        BY <1>1 DEF MetricsInv, Counted
    <2>5. /\ accepted \in Nat /\ faults \in Nat /\ cut \in Nat /\ L \in Int
          /\ M \in Nat /\ faults + L <= M
        BY <1>1, Numbers, LostIsMissed DEF MetricsInv
    <2> HIDE DEF T, Y, L, M
    <2>6. T <= accepted + faults /\ T + Y + cut + M >= accepted
        BY <2>1, <2>3, <2>4, <2>5
    <2> QED  BY <2>2, <2>6 DEF T, M
<1>2. MetricsInv => EventsCounted
    BY <1>1 DEF EventsCounted
<1> QED  BY MetricsInit, MetricsStep, <1>2, PTL DEF Spec

\* The three series tell one story: at the end of each of its buckets the coarser
\* of two series is ahead of the finer by faults alone, and behind it by one event
\* of each handler besides.
THEOREM Nesting == Spec => []BucketsNest
<1>1. ASSUME MetricsInv, NEW g \in Granularities \ {1}, NEW t \in 0..MaxClock,
             t % Lengths[g] = 0
      PROVE  /\ Before(g, t) <= Before(g - 1, t) + Missed
             /\ Before(g - 1, t) <= Before(g, t) + Cardinality(Handlers) + cut + Missed
    <2> DEFINE B == Before(g, t)
               P == Before(g - 1, t)
               L == Lost(g)
               LP == Lost(g - 1)
               N == Cardinality(Handlers)
               X == Cardinality(Ahead(g, t))
               O == IF clock < t THEN 0 ELSE Cardinality(Old(g - 1, t))
               K == Cardinality(IF clock < t THEN InHand(g) ELSE Handlers)
               M == Missed
    <2>1. t \in Moments /\ g \in Granularities /\ g - 1 \in Granularities /\ t \in Starts(g)
        BY <1>1, Indices DEF Starts
    <2>2. B \in Nat /\ P \in Nat
        BY <1>1, <2>1, BeforeType DEF MetricsInv
    <2>3. B + X <= P + faults + LP /\ P + O <= B + cut + faults + L + K
        BY <1>1, <2>1 DEF MetricsInv, FineFirst, CoarseFollows
    <2>4. \A S \in SUBSET Handlers : Cardinality(S) \in Nat /\ Cardinality(S) <= N
        BY MetricsAssumption, FS_Subset, FS_CardinalityType
    <2>5. X \in Nat /\ O \in Nat /\ K \in Nat /\ K <= N
        <3>1. /\ Ahead(g, t) \in SUBSET Handlers /\ Old(g - 1, t) \in SUBSET Handlers
              /\ InHand(g) \in SUBSET Handlers /\ Handlers \in SUBSET Handlers
            BY DEF Ahead, Old, InHand
        <3> QED  BY <2>4, <3>1
    <2>6. /\ faults \in Nat /\ cut \in Nat /\ N \in Nat /\ L \in Int /\ LP \in Int
          /\ M \in Nat /\ faults + L <= M /\ faults + LP <= M
        BY <1>1, <2>1, Numbers, LostIsMissed DEF MetricsInv
    <2> HIDE DEF B, P, L, LP, N, X, O, K, M
    <2>7. B <= P + M /\ P <= B + N + cut + M
        BY <2>2, <2>3, <2>5, <2>6
    <2> QED  BY <2>7 DEF B, P, N, M
<1>2. MetricsInv => BucketsNest
    BY <1>1 DEF BucketsNest
<1> QED  BY MetricsInit, MetricsStep, <1>2, PTL DEF Spec
=============================================================================
