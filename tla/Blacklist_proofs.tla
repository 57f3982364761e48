-------------------------- MODULE Blacklist_proofs --------------------------
(***************************************************************************)
(* Proofs about the counting of requests by address and the update of the  *)
(* blacklist, for any addresses, threshold and number of requests, edits   *)
(* and repeated commands.                                                  *)
(*                                                                         *)
(* What is reported depends on two reads of a hash that goes on growing.   *)
(* BlacklistInv says what the first read still has to do with the hash     *)
(* until the second one, and that neither the hash nor what was read of it *)
(* holds more requests than have arrived and are in no report yet.         *)
(***************************************************************************)
EXTENDS Blacklist, TLAPS

\* HKEYS answers with distinct addresses, and HVALS with a value for each.
Unique ==
    /\ IsInjective(Fields(currentPeriod))
    /\ IsInjective(owners)
    /\ update = "values" => Len(owners) = Len(requests)

\* Until the values are read, there are no fewer fields in the hash than were
\* read.  While Redis keeps its order, those at its start are the addresses read,
\* and an address that was at the threshold still is.
StartOfHash ==
    update \in {"keys", "set"} =>
        /\ Len(ipAddrs) <= Len(currentPeriod)
        /\ ~scattered =>
              /\ \A i \in DOMAIN ipAddrs : ipAddrs[i] = currentPeriod[i].ip
              /\ \A ip \in due : \E i \in DOMAIN ipAddrs :
                     ipAddrs[i] = ip /\ currentPeriod[i].count >= BlacklistThreshold

\* Nothing that could still be reported has been reported.
Unreported ==
    \A ip \in IPs :
        /\ reported[ip] + Count(currentPeriod, ip) <= arrived[ip] + repeats
        /\ update = "values" =>
               reported[ip] + ValueOf(ip, owners, requests) <= arrived[ip] + repeats

BlacklistInv == TypeOK /\ Unique /\ StartOfHash /\ ReportMatches /\ Unreported

-----------------------------------------------------------------------------
(* The hash of a period *)

\* HKEYS and HVALS give the fields and the values in one order.
LEMMA HashColumns ==
    ASSUME NEW hash \in Hash
    PROVE  /\ Len(hash) \in Nat /\ DOMAIN hash = 1..Len(hash)
           /\ Fields(hash) \in Seq(IPs) /\ Values(hash) \in Seq(Nat)
           /\ Len(Fields(hash)) = Len(hash) /\ Len(Values(hash)) = Len(hash)
           /\ DOMAIN Fields(hash) = 1..Len(hash) /\ DOMAIN Values(hash) = 1..Len(hash)
           /\ \A i \in 1..Len(hash) :
                  /\ Fields(hash)[i] = hash[i].ip /\ Values(hash)[i] = hash[i].count
                  /\ hash[i].ip \in IPs /\ hash[i].count \in Nat
<1>1. Len(hash) \in Nat /\ DOMAIN hash = 1..Len(hash)
    BY DEF Hash
<1>2. \A i \in 1..Len(hash) : hash[i] \in [ip : IPs, count : Nat]
    <2> DEFINE Entry == [ip : IPs, count : Nat]
    <2>1. hash \in Seq(Entry)
        BY DEF Hash
    <2> HIDE DEF Entry
    <2>2. \A i \in 1..Len(hash) : hash[i] \in Entry
        BY <2>1
    <2> QED  BY <2>2 DEF Entry
<1>3. \A i \in 1..Len(hash) : hash[i].ip \in IPs /\ hash[i].count \in Nat
    BY <1>2
<1>4. /\ Fields(hash) = [i \in 1..Len(hash) |-> hash[i].ip]
      /\ Values(hash) = [i \in 1..Len(hash) |-> hash[i].count]
    BY <1>1 DEF Fields, Values
<1>5. Fields(hash) \in Seq(IPs) /\ Len(Fields(hash)) = Len(hash)
    BY <1>1, <1>3, <1>4
<1>6. Values(hash) \in Seq(Nat) /\ Len(Values(hash)) = Len(hash)
    BY <1>1, <1>3, <1>4
<1> QED  BY <1>1, <1>3, <1>4, <1>5, <1>6

\* Where addresses are distinct, the value beside an address is the one at its
\* place.
LEMMA ValueThere ==
    ASSUME NEW fields, NEW values, IsInjective(fields), NEW i \in DOMAIN fields
    PROVE  ValueOf(fields[i], fields, values) = values[i]
<1> DEFINE at == {j \in DOMAIN fields : fields[j] = fields[i]}
<1>1. at = {i}
    BY DEF IsInjective
<1> QED  BY <1>1 DEF ValueOf

LEMMA ValueNowhere ==
    ASSUME NEW fields, NEW values, NEW ip, \A i \in DOMAIN fields : fields[i] # ip
    PROVE  ValueOf(ip, fields, values) = 0
BY DEF ValueOf

LEMMA ValueType ==
    ASSUME NEW fields \in Seq(IPs), NEW values \in Seq(Nat), Len(fields) <= Len(values),
           IsInjective(fields), NEW ip
    PROVE  ValueOf(ip, fields, values) \in Nat
<1>1. CASE \A i \in DOMAIN fields : fields[i] # ip
    BY <1>1, ValueNowhere
<1>2. ASSUME NEW i \in DOMAIN fields, fields[i] = ip
      PROVE  ValueOf(ip, fields, values) \in Nat
    <2>1. ValueOf(ip, fields, values) = values[i]
        BY <1>2, ValueThere
    <2>2. values[i] \in Nat
        OBVIOUS
    <2> QED  BY <2>1, <2>2
<1> QED  BY <1>1, <1>2

\* The same for a hash.
LEMMA CountThere ==
    ASSUME NEW hash \in Hash, IsInjective(Fields(hash)), NEW i \in DOMAIN hash
    PROVE  Count(hash, hash[i].ip) = hash[i].count
<1>1. /\ i \in DOMAIN Fields(hash)
      /\ Fields(hash)[i] = hash[i].ip /\ Values(hash)[i] = hash[i].count
    BY HashColumns
<1> QED  BY <1>1, ValueThere DEF Count

LEMMA CountNowhere ==
    ASSUME NEW hash \in Hash, NEW ip, \A i \in DOMAIN hash : hash[i].ip # ip
    PROVE  Count(hash, ip) = 0
<1>1. \A i \in DOMAIN Fields(hash) : Fields(hash)[i] # ip
    BY HashColumns
<1> QED  BY <1>1, ValueNowhere DEF Count

LEMMA CountType ==
    ASSUME NEW hash \in Hash, IsInjective(Fields(hash)), NEW ip
    PROVE  Count(hash, ip) \in Nat
BY HashColumns, ValueType DEF Count

\* Nothing is counted in an empty hash.
LEMMA EmptyHash ==
    /\ <<>> \in Hash
    /\ IsInjective(Fields(<<>>))
    /\ \A ip : Count(<<>>, ip) = 0
<1>1. <<>> \in Hash /\ DOMAIN Fields(<<>>) = {} /\ DOMAIN <<>> = {}
    BY DEF Hash, Fields
<1>2. \A ip : Count(<<>>, ip) = 0
    BY <1>1, CountNowhere
<1> QED  BY <1>1, <1>2 DEF IsInjective

\* HINCRBY where the field exists.
LEMMA IncrementedThere ==
    ASSUME NEW hash \in Hash, IsInjective(Fields(hash)),
           NEW k \in DOMAIN hash,
           NEW inc, inc = Incremented(hash, hash[k].ip)
    PROVE  /\ inc \in Hash /\ DOMAIN inc = DOMAIN hash /\ Len(inc) = Len(hash)
           /\ \A i \in DOMAIN hash :
                  /\ inc[i].ip = hash[i].ip
                  /\ inc[i].count = IF i = k THEN hash[i].count + 1 ELSE hash[i].count
<1> DEFINE Entry == [ip : IPs, count : Nat]
<1>1. /\ Len(hash) \in Nat /\ DOMAIN hash = 1..Len(hash)
      /\ \A i \in DOMAIN hash : hash[i] \in Entry
    <2>1. hash \in Seq(Entry)
        BY DEF Hash
    <2> HIDE DEF Entry
    <2> QED  BY <2>1
<1>2. inc = [i \in DOMAIN hash |-> IF hash[i].ip = hash[k].ip THEN [hash[i] EXCEPT !.count = @ + 1]
                                   ELSE hash[i]]
    BY DEF Incremented
<1>3. ASSUME NEW i \in DOMAIN hash
      PROVE  /\ inc[i] \in Entry
             /\ inc[i].ip = hash[i].ip
             /\ inc[i].count = IF i = k THEN hash[i].count + 1 ELSE hash[i].count
    <2>1. hash[i].ip = hash[k].ip <=> i = k
        BY HashColumns DEF IsInjective
    <2>2. hash[i] \in Entry
        BY <1>1
    <2>3. inc[i] = IF i = k THEN [hash[i] EXCEPT !.count = @ + 1] ELSE hash[i]
        BY <1>2, <2>1
    <2> QED  BY <2>2, <2>3
<1> HIDE DEF Entry
<1>4. DOMAIN inc = 1..Len(hash)
    BY <1>1, <1>2
<1>5. inc \in [1..Len(hash) -> Entry]
    BY <1>1, <1>2, <1>3, <1>4
<1>6. inc \in Seq(Entry) /\ Len(inc) = Len(hash)
    BY <1>1, <1>4, <1>5
<1> QED  BY <1>1, <1>3, <1>4, <1>6 DEF Hash, Entry

\* HINCRBY where it does not.
LEMMA IncrementedNew ==
    ASSUME NEW hash \in Hash, NEW ip \in IPs, \A i \in DOMAIN hash : hash[i].ip # ip,
           NEW inc, inc = Incremented(hash, ip)
    PROVE  /\ inc \in Hash /\ Len(inc) = Len(hash) + 1
           /\ DOMAIN inc = 1..(Len(hash) + 1) /\ DOMAIN hash = 1..Len(hash) /\ Len(hash) \in Nat
           /\ \A i \in DOMAIN hash : inc[i] = hash[i]
           /\ inc[Len(hash) + 1].ip = ip /\ inc[Len(hash) + 1].count = 1
<1> DEFINE Entry == [ip : IPs, count : Nat]
           new == [ip |-> ip, count |-> 1]
<1>1. inc = Append(hash, new)
    BY DEF Incremented
<1>2. new \in Entry /\ new.ip = ip /\ new.count = 1
    OBVIOUS
<1>3. hash \in Seq(Entry)
    BY DEF Hash
<1> HIDE DEF Entry, new
<1>4. /\ inc \in Seq(Entry) /\ Len(inc) = Len(hash) + 1 /\ Len(hash) \in Nat
      /\ DOMAIN inc = 1..(Len(hash) + 1) /\ DOMAIN hash = 1..Len(hash)
      /\ \A i \in 1..Len(hash) : inc[i] = hash[i]
      /\ inc[Len(hash) + 1] = new
    BY <1>1, <1>2, <1>3
<1> QED  BY <1>2, <1>4 DEF Hash, Entry

\* HINCRBY adds one to the count of its address and to no other, keeps the places
\* of the addresses that were there, and never lowers a count.
LEMMA IncrementedHash ==
    ASSUME NEW hash \in Hash, IsInjective(Fields(hash)), NEW ip \in IPs
    PROVE  LET inc == Incremented(hash, ip)
           IN  /\ inc \in Hash /\ IsInjective(Fields(inc)) /\ Len(hash) <= Len(inc)
               /\ \A i \in DOMAIN hash :
                      /\ i \in DOMAIN inc
                      /\ inc[i].ip = hash[i].ip /\ hash[i].count <= inc[i].count
               /\ Count(inc, ip) = Count(hash, ip) + 1
               /\ \A q \in IPs \ {ip} : Count(inc, q) = Count(hash, q)
<1> DEFINE inc == Incremented(hash, ip)
<1>1. ASSUME NEW k \in DOMAIN hash, hash[k].ip = ip
      PROVE  /\ inc \in Hash /\ IsInjective(Fields(inc)) /\ Len(hash) <= Len(inc)
             /\ \A i \in DOMAIN hash :
                    /\ i \in DOMAIN inc
                    /\ inc[i].ip = hash[i].ip /\ hash[i].count <= inc[i].count
             /\ Count(inc, ip) = Count(hash, ip) + 1
             /\ \A q \in IPs \ {ip} : Count(inc, q) = Count(hash, q)
    <2>1. /\ inc \in Hash /\ DOMAIN inc = DOMAIN hash /\ Len(inc) = Len(hash)
          /\ \A i \in DOMAIN hash :
                 /\ inc[i].ip = hash[i].ip
                 /\ inc[i].count = IF i = k THEN hash[i].count + 1 ELSE hash[i].count
        BY <1>1, IncrementedThere
    <2> HIDE DEF inc
    <2>2. \A i \in DOMAIN hash : hash[i].count \in Nat
        BY HashColumns
    <2>3. Fields(inc) = Fields(hash)
        BY <2>1 DEF Fields
    <2>4. IsInjective(Fields(inc))
        BY <2>3
    <2>5. Count(inc, ip) = hash[k].count + 1 /\ Count(hash, ip) = hash[k].count
        BY <1>1, <2>1, <2>4, CountThere
    <2>6. ASSUME NEW q \in IPs \ {ip}
          PROVE  Count(inc, q) = Count(hash, q)
        <3>1. ASSUME NEW i \in DOMAIN hash, hash[i].ip = q
              PROVE  Count(inc, q) = Count(hash, q)
            BY <1>1, <2>1, <2>4, <3>1, CountThere
        <3>2. CASE \A i \in DOMAIN hash : hash[i].ip # q
            BY <2>1, <3>2, CountNowhere
        <3> QED  BY <3>1, <3>2
    <2>7. \A i \in DOMAIN hash : hash[i].count <= inc[i].count
        BY <2>1, <2>2
    <2>8. Len(hash) <= Len(inc)
        BY <2>1, HashColumns
    <2> QED  BY <2>1, <2>4, <2>5, <2>6, <2>7, <2>8
<1>2. CASE \A i \in DOMAIN hash : hash[i].ip # ip
    <2>1. /\ inc \in Hash /\ Len(inc) = Len(hash) + 1
          /\ DOMAIN inc = 1..(Len(hash) + 1) /\ DOMAIN hash = 1..Len(hash) /\ Len(hash) \in Nat
          /\ \A i \in DOMAIN hash : inc[i] = hash[i]
          /\ inc[Len(hash) + 1].ip = ip /\ inc[Len(hash) + 1].count = 1
        BY <1>2, IncrementedNew
    <2> HIDE DEF inc
    <2>2. \A i \in DOMAIN hash : hash[i].count \in Nat
        BY HashColumns
    <2>3. IsInjective(Fields(inc))
        <3>1. \A i, j \in DOMAIN hash : hash[i].ip = hash[j].ip => i = j
            BY HashColumns DEF IsInjective
        <3>2. \A i \in DOMAIN inc : i \in DOMAIN hash \/ i = Len(hash) + 1
            BY <2>1
        <3>3. \A i, j \in DOMAIN inc : inc[i].ip = inc[j].ip => i = j
            BY <1>2, <2>1, <3>1, <3>2
        <3> QED  BY <3>3 DEF IsInjective, Fields
    <2>4. Count(inc, ip) = 1 /\ Count(hash, ip) = 0
        <3>1. Len(hash) + 1 \in DOMAIN inc
            BY <2>1
        <3> QED  BY <1>2, <2>1, <2>3, <3>1, CountThere, CountNowhere
    <2>5. ASSUME NEW q \in IPs \ {ip}
          PROVE  Count(inc, q) = Count(hash, q)
        <3>1. ASSUME NEW i \in DOMAIN hash, hash[i].ip = q
              PROVE  Count(inc, q) = Count(hash, q)
            <4>1. i \in DOMAIN inc /\ inc[i] = hash[i]
                BY <2>1
            <4> QED  BY <2>1, <2>3, <3>1, <4>1, CountThere
        <3>2. CASE \A i \in DOMAIN hash : hash[i].ip # q
            <4>1. \A i \in DOMAIN inc : inc[i].ip # q
                BY <2>1, <3>2
            <4> QED  BY <2>1, <3>2, <4>1, CountNowhere
        <3> QED  BY <3>1, <3>2
    <2>6. /\ Len(hash) <= Len(inc)
          /\ \A i \in DOMAIN hash :
                 /\ i \in DOMAIN inc
                 /\ inc[i].ip = hash[i].ip /\ hash[i].count <= inc[i].count
        BY <2>1, <2>2
    <2>7. inc \in Hash
        BY <2>1
    <2> QED  BY <2>3, <2>4, <2>5, <2>6, <2>7 DEF inc
<1> QED  BY <1>1, <1>2

\* HKEYS and HVALS give the whole hash, in whatever order.
LEMMA AnyOrder ==
    ASSUME currentPeriod \in Hash, IsInjective(Fields(currentPeriod)), NEW read \in Orders
    PROVE  /\ read \in Hash /\ Len(read) = Len(currentPeriod)
           /\ IsInjective(Fields(read))
           /\ \A ip : Count(read, ip) = Count(currentPeriod, ip)
           /\ ~scattered => read = currentPeriod
<1> DEFINE D == 1..Len(currentPeriod)
           Entry == [ip : IPs, count : Nat]
<1>1. Len(currentPeriod) \in Nat /\ DOMAIN currentPeriod = D
    BY HashColumns
<1>2. PICK place \in Bijection(D, D) : read = [i \in D |-> currentPeriod[place[i]]]
    BY <1>1 DEF Orders, Rearrangements
<1>3. /\ place \in [D -> D]
      /\ \A i, j \in D : place[i] = place[j] => i = j
      /\ \A j \in D : \E i \in D : place[i] = j
    BY <1>2 DEF Bijection, Injection, Surjection, IsInjective
<1>4. read \in Hash /\ Len(read) = Len(currentPeriod)
    <2>1. \A i \in D : currentPeriod[i] \in Entry
        <3>1. currentPeriod \in Seq(Entry)
            BY DEF Hash
        <3> HIDE DEF Entry
        <3> QED  BY <3>1
    <2> HIDE DEF Entry
    <2>2. read \in [D -> Entry]
        BY <1>2, <1>3, <2>1
    <2>3. read \in Seq(Entry) /\ Len(read) = Len(currentPeriod)
        BY <1>1, <2>2
    <2> QED  BY <2>3 DEF Hash, Entry
<1>5. DOMAIN read = D /\ \A i \in D : read[i] = currentPeriod[place[i]]
    BY <1>2
<1>6. \A i, j \in D : currentPeriod[i].ip = currentPeriod[j].ip => i = j
    BY <1>1, HashColumns DEF IsInjective
<1>7. IsInjective(Fields(read))
    <2>1. ASSUME NEW i \in D, NEW j \in D, read[i].ip = read[j].ip
          PROVE  i = j
        <3>1. place[i] \in D /\ place[j] \in D
            BY <1>3
        <3>2. currentPeriod[place[i]].ip = currentPeriod[place[j]].ip
            BY <1>5, <2>1
        <3>3. place[i] = place[j]
            BY <1>6, <3>1, <3>2
        <3> QED  BY <1>3, <3>3
    <2> QED  BY <1>5, <2>1 DEF IsInjective, Fields
<1>8. ASSUME NEW ip
      PROVE  Count(read, ip) = Count(currentPeriod, ip)
    <2>1. ASSUME NEW j \in D, currentPeriod[j].ip = ip
          PROVE  Count(read, ip) = Count(currentPeriod, ip)
        <3>1. PICK i \in D : place[i] = j
            BY <1>3
        <3>2. read[i] = currentPeriod[j]
            BY <1>5, <3>1
        <3>3. Count(read, read[i].ip) = read[i].count
            BY <1>4, <1>5, <1>7, CountThere
        <3>4. Count(currentPeriod, currentPeriod[j].ip) = currentPeriod[j].count
            BY <1>1, CountThere
        <3> QED  BY <2>1, <3>2, <3>3, <3>4
    <2>2. CASE \A j \in D : currentPeriod[j].ip # ip
        <3>1. ASSUME NEW i \in DOMAIN read
              PROVE  read[i].ip # ip
            <4>1. place[i] \in D /\ read[i] = currentPeriod[place[i]]
                BY <1>3, <1>5
            <4> QED  BY <2>2, <4>1
        <3>2. \A i \in DOMAIN currentPeriod : currentPeriod[i].ip # ip
            BY <1>1, <2>2
        <3> QED  BY <1>4, <3>1, <3>2, CountNowhere
    <2> QED  BY <2>1, <2>2
<1>9. ~scattered => read = currentPeriod
    BY DEF Orders
<1> QED  BY <1>4, <1>7, <1>8, <1>9

-----------------------------------------------------------------------------
(* Requests *)

\* Steps that leave alone the hash of the period, what was read of it and what
\* was reported, and count no request away.
LEMMA QuietKeeps ==
    ASSUME BlacklistInv, TypeOK',
           UNCHANGED <<period, locals, readings, reported, update>>,
           \A ip \in IPs : arrived[ip] + repeats <= arrived'[ip] + repeats'
    PROVE  BlacklistInv'
<1>1. UNCHANGED <<currentPeriod, scattered, ipAddrs, requests, due, owners, inOrder, reported,
                  update>>
    BY DEF period, locals, readings
<1>2. Unique'
    BY <1>1 DEF BlacklistInv, Unique
<1>3. StartOfHash'
    BY <1>1 DEF BlacklistInv, StartOfHash
<1>4. ReportMatches'
    BY <1>1 DEF BlacklistInv, ReportMatches
<1>5. ASSUME NEW ip \in IPs
      PROVE  /\ reported'[ip] + Count(currentPeriod', ip) <= arrived'[ip] + repeats'
             /\ update' = "values" =>
                    reported'[ip] + ValueOf(ip, owners', requests') <= arrived'[ip] + repeats'
    <2>1. /\ reported[ip] \in Nat /\ repeats \in Nat /\ repeats' \in Nat
          /\ arrived[ip] \in Nat /\ arrived'[ip] \in Nat
        BY BlacklistAssumption DEF BlacklistInv, TypeOK
    <2>2. Count(currentPeriod, ip) \in Nat
        BY CountType DEF BlacklistInv, TypeOK, Unique
    <2>3. update = "values" => ValueOf(ip, owners, requests) \in Nat
        <3>1. update = "values" => Len(owners) <= Len(requests)
            BY DEF BlacklistInv, TypeOK, Unique
        <3> QED  BY <3>1, ValueType DEF BlacklistInv, TypeOK, Unique
    <2>4. arrived[ip] + repeats <= arrived'[ip] + repeats'
        OBVIOUS
    <2> QED  BY <1>1, <2>1, <2>2, <2>3, <2>4 DEF BlacklistInv, Unreported
<1>6. Unreported'
    BY <1>5 DEF Unreported
<1> QED  BY <1>2, <1>3, <1>4, <1>6 DEF BlacklistInv

\* A request, or a command sent again, that is counted in the hash.
LEMMA CountingKeeps ==
    ASSUME BlacklistInv, TypeOK', NEW ip \in IPs,
           CountInPeriod(ip),
           UNCHANGED <<locals, update, readings, reported>>,
           arrived[ip] + repeats + 1 <= arrived'[ip] + repeats',
           \A q \in IPs : arrived[q] + repeats <= arrived'[q] + repeats'
    PROVE  BlacklistInv'
<1>0. /\ currentPeriod' = Incremented(currentPeriod, ip)
      /\ scattered' = scattered \/ scattered' = TRUE
      /\ UNCHANGED <<ipAddrs, requests, update, due, owners, inOrder, reported>>
    BY DEF CountInPeriod, locals, readings
<1>1. /\ IsInjective(Fields(currentPeriod')) /\ Len(currentPeriod) <= Len(currentPeriod')
      /\ \A i \in DOMAIN currentPeriod :
             /\ currentPeriod'[i].ip = currentPeriod[i].ip
             /\ currentPeriod[i].count <= currentPeriod'[i].count
      /\ Count(currentPeriod', ip) = Count(currentPeriod, ip) + 1
      /\ \A q \in IPs \ {ip} : Count(currentPeriod', q) = Count(currentPeriod, q)
    BY <1>0, IncrementedHash DEF BlacklistInv, TypeOK, Unique
<1>2. Unique'
    BY <1>0, <1>1 DEF BlacklistInv, Unique
<1>3. StartOfHash'
    <2>1. SUFFICES ASSUME update \in {"keys", "set"}
                   PROVE  /\ Len(ipAddrs) <= Len(currentPeriod')
                          /\ ~scattered' =>
                                /\ \A i \in DOMAIN ipAddrs : ipAddrs[i] = currentPeriod'[i].ip
                                /\ \A q \in due : \E i \in DOMAIN ipAddrs :
                                       /\ ipAddrs[i] = q
                                       /\ currentPeriod'[i].count >= BlacklistThreshold
        BY <1>0 DEF StartOfHash
    <2>2. /\ Len(ipAddrs) <= Len(currentPeriod)
          /\ ~scattered =>
                /\ \A i \in DOMAIN ipAddrs : ipAddrs[i] = currentPeriod[i].ip
                /\ \A q \in due : \E i \in DOMAIN ipAddrs :
                       ipAddrs[i] = q /\ currentPeriod[i].count >= BlacklistThreshold
        BY <2>1 DEF BlacklistInv, StartOfHash
    <2>3. /\ Len(ipAddrs) \in Nat /\ DOMAIN ipAddrs = 1..Len(ipAddrs)
          /\ Len(currentPeriod) \in Nat /\ DOMAIN currentPeriod = 1..Len(currentPeriod)
          /\ Len(currentPeriod') \in Nat /\ DOMAIN currentPeriod' = 1..Len(currentPeriod')
        <3>1. /\ ipAddrs \in Seq(IPs)
              /\ currentPeriod \in Hash /\ currentPeriod' \in Hash
            BY DEF BlacklistInv, TypeOK
        <3> QED  BY <3>1, HashColumns
    <2>4. DOMAIN ipAddrs \subseteq DOMAIN currentPeriod
        BY <2>2, <2>3
    <2>5. \A i \in DOMAIN currentPeriod :
              currentPeriod[i].count \in Nat /\ currentPeriod'[i].count \in Nat
        <3>1. currentPeriod \in Hash /\ currentPeriod' \in Hash
            BY DEF BlacklistInv, TypeOK
        <3>2. DOMAIN currentPeriod \subseteq DOMAIN currentPeriod'
            BY <1>1, <2>3
        <3> QED  BY <3>1, <3>2, <2>3, HashColumns
    <2>6. \A n, m \in Nat : n <= m /\ n >= BlacklistThreshold => m >= BlacklistThreshold
        BY BlacklistAssumption
    <2>7. ASSUME NEW q \in due, ~scattered
          PROVE  \E i \in DOMAIN ipAddrs :
                     ipAddrs[i] = q /\ currentPeriod'[i].count >= BlacklistThreshold
        <3>1. PICK i \in DOMAIN ipAddrs :
                  ipAddrs[i] = q /\ currentPeriod[i].count >= BlacklistThreshold
            BY <2>2, <2>7
        <3>2. currentPeriod'[i].count >= BlacklistThreshold
            BY <1>1, <2>4, <2>5, <2>6, <3>1
        <3> QED  BY <3>1, <3>2
    <2>8. Len(ipAddrs) <= Len(currentPeriod')
        BY <1>1, <2>2, <2>3
    <2>9. ~scattered' => ~scattered
        BY <1>0
    <2>10. ~scattered => \A i \in DOMAIN ipAddrs : ipAddrs[i] = currentPeriod'[i].ip
        BY <1>1, <2>2, <2>4
    <2> QED  BY <2>7, <2>8, <2>9, <2>10
<1>4. ReportMatches'
    BY <1>0 DEF BlacklistInv, ReportMatches
<1>5. ASSUME NEW q \in IPs
      PROVE  /\ reported[q] + Count(currentPeriod', q) <= arrived'[q] + repeats'
             /\ update = "values" =>
                    reported[q] + ValueOf(q, owners, requests) <= arrived'[q] + repeats'
    <2>1. /\ reported[q] \in Nat /\ repeats \in Nat /\ repeats' \in Nat
          /\ arrived[q] \in Nat /\ arrived'[q] \in Nat
        BY BlacklistAssumption DEF BlacklistInv, TypeOK
    <2>2. Count(currentPeriod, q) \in Nat
        BY CountType DEF BlacklistInv, TypeOK, Unique
    <2>3. update = "values" => ValueOf(q, owners, requests) \in Nat
        <3>1. update = "values" => Len(owners) <= Len(requests)
            BY DEF BlacklistInv, TypeOK, Unique
        <3> QED  BY <3>1, ValueType DEF BlacklistInv, TypeOK, Unique
    <2>4. /\ reported[q] + Count(currentPeriod, q) <= arrived[q] + repeats
          /\ update = "values" =>
                 reported[q] + ValueOf(q, owners, requests) <= arrived[q] + repeats
        BY DEF BlacklistInv, Unreported
    <2>5. reported[q] + Count(currentPeriod', q) <= arrived'[q] + repeats'
        <3>1. CASE q = ip
            <4>1. Count(currentPeriod', q) = Count(currentPeriod, q) + 1
                BY <1>1, <3>1
            <4>2. arrived[q] + repeats + 1 <= arrived'[q] + repeats'
                BY <3>1
            <4> QED  BY <2>1, <2>2, <2>4, <4>1, <4>2
        <3>2. CASE q # ip
            <4>1. Count(currentPeriod', q) = Count(currentPeriod, q)
                BY <1>1, <3>2
            <4>2. arrived[q] + repeats <= arrived'[q] + repeats'
                OBVIOUS
            <4> QED  BY <2>1, <2>2, <2>4, <4>1, <4>2
        <3> QED  BY <3>1, <3>2
    <2>6. arrived[q] + repeats <= arrived'[q] + repeats'
        OBVIOUS
    <2>7. update = "values" =>
              reported[q] + ValueOf(q, owners, requests) <= arrived'[q] + repeats'
        BY <2>1, <2>3, <2>4, <2>6
    <2> QED  BY <2>5, <2>7
<1>6. Unreported'
    BY <1>0, <1>5 DEF Unreported
<1> QED  BY <1>2, <1>3, <1>4, <1>6 DEF BlacklistInv

-----------------------------------------------------------------------------
(* The update *)

\* The update returns.
LEMMA ReturnKeeps ==
    ASSUME BlacklistInv, TypeOK', Return, UNCHANGED reported,
           IsInjective(Fields(currentPeriod')),
           \A ip \in IPs : reported[ip] + Count(currentPeriod', ip) <= arrived'[ip] + repeats'
    PROVE  BlacklistInv'
<1>1. /\ update' = "idle" /\ ipAddrs' = <<>> /\ requests' = <<>> /\ owners' = <<>>
    BY DEF Return, Forget
<1>2. Unique'
    BY <1>1 DEF Unique, IsInjective
<1>3. StartOfHash' /\ ReportMatches'
    BY <1>1 DEF StartOfHash, ReportMatches
<1>4. Unreported'
    BY <1>1 DEF Unreported
<1> QED  BY <1>2, <1>3, <1>4 DEF BlacklistInv

LEMMA ReturnType ==
    Return => /\ update' = "idle"
              /\ ipAddrs' \in Seq(IPs) /\ requests' \in Seq(Nat) /\ owners' \in Seq(IPs)
              /\ inOrder' \in BOOLEAN /\ due' \subseteq IPs
BY DEF Return, Forget

\* It returns and has only read.
LEMMA ReturnQuietly ==
    ASSUME BlacklistInv, Return, blacklistIPs' \subseteq IPs, alerted' \subseteq IPs,
           UNCHANGED <<redis, arrived, between, repeats, reported>>
    PROVE  BlacklistInv'
<1>1. UNCHANGED <<blacklist, edits, currentPeriod, scattered, allIPs, arrived, between, repeats,
                  reported>>
    BY DEF redis, period
<1>2. TypeOK'
    BY <1>1, ReturnType DEF BlacklistInv, TypeOK
<1>3. IsInjective(Fields(currentPeriod'))
    BY <1>1 DEF BlacklistInv, Unique
<1>4. \A ip \in IPs : reported[ip] + Count(currentPeriod', ip) <= arrived'[ip] + repeats'
    BY <1>1 DEF BlacklistInv, Unreported
<1> QED  BY <1>1, <1>2, <1>3, <1>4, ReturnKeeps

LEMMA ReadKeysKeeps ==
    ASSUME BlacklistInv, ReadKeys
    PROVE  BlacklistInv'
<1>0. PICK read \in Orders : ipAddrs' = Fields(read)
    BY DEF ReadKeys
<1>1. /\ currentPeriod \in Hash /\ update' = "keys"
      /\ UNCHANGED <<currentPeriod, scattered, owners, requests, reported, arrived, repeats>>
    BY DEF BlacklistInv, TypeOK, ReadKeys, redis, period
<1>2. due' = {ip \in IPs : Count(currentPeriod, ip) >= BlacklistThreshold}
    BY DEF ReadKeys
<1>a. /\ read \in Hash /\ Len(read) = Len(currentPeriod)
      /\ ~scattered => read = currentPeriod
    BY <1>1, AnyOrder DEF BlacklistInv, Unique
<1>b. /\ ipAddrs' \in Seq(IPs) /\ Len(ipAddrs') = Len(currentPeriod)
      /\ Len(currentPeriod) \in Nat
    BY <1>0, <1>1, <1>a, HashColumns
<1>3. TypeOK'
    BY <1>2, <1>b DEF BlacklistInv, TypeOK, ReadKeys, redis, period
<1>4. Unique'
    BY <1>1 DEF BlacklistInv, Unique
<1>5. StartOfHash'
    <2>1. Len(ipAddrs') <= Len(currentPeriod')
        BY <1>1, <1>b
    <2>2. ASSUME ~scattered
          PROVE  \A i \in DOMAIN ipAddrs' : ipAddrs'[i] = currentPeriod'[i].ip
        BY <1>0, <1>1, <1>a, <2>2, HashColumns
    <2>3. ASSUME ~scattered, NEW ip \in due'
          PROVE  \E i \in DOMAIN ipAddrs' :
                     ipAddrs'[i] = ip /\ currentPeriod'[i].count >= BlacklistThreshold
        <3>1. Count(currentPeriod, ip) >= BlacklistThreshold
            BY <1>2, <2>3
        <3>2. Count(currentPeriod, ip) # 0
            BY <3>1, BlacklistAssumption
        <3>3. PICK i \in DOMAIN currentPeriod : currentPeriod[i].ip = ip
            BY <1>1, <3>2, CountNowhere
        <3>4. Count(currentPeriod, ip) = currentPeriod[i].count
            BY <1>1, <3>3, CountThere DEF BlacklistInv, Unique
        <3>5. i \in DOMAIN ipAddrs' /\ ipAddrs'[i] = ip
            BY <1>0, <1>1, <1>a, <2>3, <3>3, HashColumns
        <3> QED  BY <1>1, <3>1, <3>4, <3>5
    <2> QED  BY <1>1, <2>1, <2>2, <2>3 DEF StartOfHash
<1>6. ReportMatches'
    BY <1>1 DEF ReportMatches
<1>7. Unreported'
    BY <1>1 DEF BlacklistInv, Unreported
<1> QED  BY <1>3, <1>4, <1>5, <1>6, <1>7 DEF BlacklistInv

LEMMA ReadSetKeeps ==
    ASSUME BlacklistInv, ReadSet
    PROVE  BlacklistInv'
<1>1. CASE Return
    <2>1. blacklistIPs' \subseteq IPs
        BY DEF ReadSet, BlacklistInv, TypeOK
    <2>2. alerted' \subseteq IPs /\ UNCHANGED <<redis, arrived, between, repeats, reported>>
        BY DEF ReadSet, BlacklistInv, TypeOK
    <2> QED  BY <1>1, <2>1, <2>2, ReturnQuietly
<1>2. CASE update' = "set" /\ UNCHANGED <<locals, readings>>
    <2>1. /\ update = "keys"
          /\ UNCHANGED <<currentPeriod, scattered, ipAddrs, requests, due, owners, reported,
                         arrived, repeats>>
        BY <1>2 DEF ReadSet, redis, period, locals, readings
    <2>2. TypeOK'
        BY <1>2 DEF BlacklistInv, TypeOK, ReadSet, redis, period, locals, readings
    <2>3. Unique' /\ StartOfHash'
        BY <1>2, <2>1 DEF BlacklistInv, Unique, StartOfHash
    <2>4. ReportMatches'
        BY <1>2 DEF ReportMatches
    <2>5. Unreported'
        BY <1>2, <2>1 DEF BlacklistInv, Unreported
    <2> QED  BY <2>2, <2>3, <2>4, <2>5 DEF BlacklistInv
<1> QED  BY <1>1, <1>2 DEF ReadSet

\* There is a value for every address; and where Redis has kept its order, they
\* belong to the addresses read before, for the hash has only grown at its end.
LEMMA ReadValuesKeeps ==
    ASSUME BlacklistInv, ReadValues
    PROVE  BlacklistInv'
<1>0. PICK read \in Orders : requests' = Values(read) /\ owners' = Fields(read)
    BY DEF ReadValues
<1>1. /\ update = "set" /\ update' = "values" /\ currentPeriod \in Hash
      /\ inOrder' = ~scattered /\ inOrder' \in BOOLEAN
      /\ UNCHANGED <<currentPeriod, scattered, ipAddrs, due, reported, arrived, repeats>>
    BY DEF BlacklistInv, TypeOK, ReadValues, redis, period
<1>a. /\ read \in Hash /\ Len(read) = Len(currentPeriod) /\ IsInjective(Fields(read))
      /\ \A ip : Count(read, ip) = Count(currentPeriod, ip)
      /\ ~scattered => read = currentPeriod
    BY <1>1, AnyOrder DEF BlacklistInv, Unique
<1>2. /\ Len(currentPeriod) \in Nat /\ DOMAIN currentPeriod = 1..Len(currentPeriod)
      /\ Len(requests') = Len(currentPeriod) /\ requests' \in Seq(Nat)
      /\ Len(owners') = Len(currentPeriod) /\ owners' \in Seq(IPs)
    BY <1>0, <1>1, <1>a, HashColumns
<1>3. TypeOK'
    BY <1>1, <1>2 DEF BlacklistInv, TypeOK, ReadValues, redis, period
<1>4. Unique' /\ StartOfHash'
    BY <1>0, <1>1, <1>2, <1>a DEF BlacklistInv, Unique, StartOfHash
<1>5. /\ Len(ipAddrs) <= Len(currentPeriod)
      /\ ~scattered =>
            /\ \A i \in DOMAIN ipAddrs : ipAddrs[i] = currentPeriod[i].ip
            /\ \A ip \in due : \E i \in DOMAIN ipAddrs :
                   ipAddrs[i] = ip /\ currentPeriod[i].count >= BlacklistThreshold
    BY <1>1 DEF BlacklistInv, StartOfHash
<1>6. DOMAIN ipAddrs \subseteq DOMAIN currentPeriod
    <2>1. ipAddrs \in Seq(IPs)
        BY DEF BlacklistInv, TypeOK
    <2> QED  BY <2>1, <1>2, <1>5
<1>7. ReportMatches'
    <2>1. Len(ipAddrs') <= Len(requests')
        BY <1>1, <1>2, <1>5
    <2>2. ASSUME ~scattered
          PROVE  \A ip \in due' : \E i \in DOMAIN ipAddrs' :
                     ipAddrs'[i] = ip /\ requests'[i] >= BlacklistThreshold
        <3>1. \A i \in DOMAIN currentPeriod : requests'[i] = currentPeriod[i].count
            BY <1>0, <1>1, <1>a, <2>2, HashColumns
        <3> QED  BY <1>1, <1>5, <1>6, <2>2, <3>1
    <2> QED  BY <1>1, <2>1, <2>2 DEF ReportMatches
<1>8. ASSUME NEW ip \in IPs
      PROVE  reported[ip] + ValueOf(ip, owners', requests') <= arrived[ip] + repeats
    <2>1. reported[ip] + Count(currentPeriod, ip) <= arrived[ip] + repeats
        BY DEF BlacklistInv, Unreported
    <2>2. ValueOf(ip, owners', requests') = Count(currentPeriod, ip)
        BY <1>0, <1>a DEF Count
    <2> QED  BY <2>1, <2>2
<1>9. Unreported'
    BY <1>1, <1>8 DEF BlacklistInv, Unreported
<1> QED  BY <1>3, <1>4, <1>7, <1>9 DEF BlacklistInv

LEMMA DeleteKeeps ==
    ASSUME BlacklistInv, Delete
    PROVE  BlacklistInv'
<1>1. /\ update = "values" /\ currentPeriod' = <<>> /\ scattered' \in BOOLEAN
      /\ UNCHANGED <<blacklist, edits, allIPs, blacklistIPs, arrived, between, alerted>>
    BY DEF Delete, Drop
<1>2. repeats \in Nat /\ repeats' \in 0..MaxRepeats /\ repeats <= repeats'
    <2>1. repeats \in 0..MaxRepeats
        BY DEF BlacklistInv, TypeOK
    <2> QED  BY <2>1, BlacklistAssumption DEF Delete, Repeated
<1>a. repeats' \in Nat
    BY <1>2, BlacklistAssumption
<1>3. ASSUME NEW ip \in IPs
      PROVE  /\ ValueOf(ip, owners, requests) \in Nat
             /\ reported[ip] \in Nat /\ arrived[ip] \in Nat
             /\ reported[ip] + ValueOf(ip, owners, requests) <= arrived[ip] + repeats
             /\ Count(currentPeriod', ip) = 0
             /\ allIPs[ip] \in 0..(arrived[ip] - between[ip] + repeats')
    <2>1. Len(owners) <= Len(requests)
        BY <1>1 DEF BlacklistInv, TypeOK, Unique
    <2>2. ValueOf(ip, owners, requests) \in Nat
        BY <2>1, ValueType DEF BlacklistInv, TypeOK, Unique
    <2>3. reported[ip] + ValueOf(ip, owners, requests) <= arrived[ip] + repeats
        BY <1>1 DEF BlacklistInv, Unreported
    <2>4. /\ arrived[ip] \in Nat /\ between[ip] \in Nat /\ allIPs[ip] \in Nat
          /\ allIPs[ip] \in 0..(arrived[ip] - between[ip] + repeats)
          /\ reported[ip] \in Nat
        BY DEF BlacklistInv, TypeOK
    <2>5. allIPs[ip] \in 0..(arrived[ip] - between[ip] + repeats')
        BY <1>2, <1>a, <2>4
    <2>6. Count(currentPeriod', ip) = 0
        BY <1>1, EmptyHash
    <2> QED  BY <2>2, <2>3, <2>4, <2>5, <2>6
<1>4. currentPeriod' \in Hash /\ IsInjective(Fields(currentPeriod'))
    BY <1>1, EmptyHash
<1>5. CASE update' = "notify" /\ Report /\ UNCHANGED <<repeats, locals>>
    <2>1. /\ reported' = [ip \in IPs |-> reported[ip] + ValueOf(ip, owners, requests)]
          /\ UNCHANGED <<repeats, ipAddrs, requests>>
          /\ due' = {} /\ owners' = <<>> /\ inOrder' = TRUE
        BY <1>5 DEF Report, Forget, locals
    <2>2. reported' \in [IPs -> Nat]
        <3>1. \A ip \in IPs : reported[ip] + ValueOf(ip, owners, requests) \in Nat
            BY <1>3
        <3> QED  BY <2>1, <3>1
    <2>3. owners' \in Seq(IPs) /\ due' \subseteq IPs /\ inOrder' \in BOOLEAN
        BY <2>1
    <2>4. TypeOK'
        BY <1>1, <1>2, <1>3, <1>4, <1>5, <2>1, <2>2, <2>3 DEF BlacklistInv, TypeOK
    <2>5. Unique'
        BY <1>4, <1>5, <2>1 DEF Unique, IsInjective
    <2>6. StartOfHash' /\ ReportMatches'
        BY <1>1, <1>5, <2>1 DEF BlacklistInv, StartOfHash, ReportMatches
    <2>7. ASSUME NEW ip \in IPs
          PROVE  reported'[ip] + Count(currentPeriod', ip) <= arrived'[ip] + repeats'
        <3>1. reported'[ip] = reported[ip] + ValueOf(ip, owners, requests)
            BY <2>1
        <3> QED  BY <1>1, <1>2, <1>3, <2>1, <3>1
    <2>8. Unreported'
        BY <1>5, <2>7 DEF Unreported
    <2> QED  BY <2>4, <2>5, <2>6, <2>8 DEF BlacklistInv
<1>6. CASE Return /\ UNCHANGED <<repeats, reported>>
    <2>1. TypeOK'
        BY <1>1, <1>2, <1>3, <1>4, <1>6, ReturnType DEF BlacklistInv, TypeOK
    <2>2. \A ip \in IPs : reported[ip] + Count(currentPeriod', ip) <= arrived'[ip] + repeats'
        BY <1>1, <1>2, <1>3, <1>6
    <2> QED  BY <1>4, <1>6, <2>1, <2>2, ReturnKeeps
<1>7. CASE UNCHANGED <<update, locals, readings, reported>>
    <2>1. UNCHANGED <<update, ipAddrs, requests, due, owners, inOrder, reported>>
        BY <1>7 DEF locals, readings
    <2>2. TypeOK'
        BY <1>1, <1>2, <1>3, <1>4, <2>1 DEF BlacklistInv, TypeOK
    <2>3. Unique'
        BY <1>4, <2>1 DEF BlacklistInv, Unique
    <2>4. StartOfHash' /\ ReportMatches'
        BY <1>1, <2>1 DEF BlacklistInv, StartOfHash, ReportMatches
    <2>5. ASSUME NEW ip \in IPs
          PROVE  /\ reported'[ip] + Count(currentPeriod', ip) <= arrived'[ip] + repeats'
                 /\ reported'[ip] + ValueOf(ip, owners', requests') <= arrived'[ip] + repeats'
        BY <1>1, <1>2, <1>a, <1>3, <2>1
    <2>6. Unreported'
        BY <2>5 DEF Unreported
    <2> QED  BY <2>2, <2>3, <2>4, <2>6 DEF BlacklistInv
<1> QED  BY <1>5, <1>6, <1>7 DEF Delete

LEMMA TailShorter ==
    ASSUME NEW S, NEW s \in Seq(S), s # <<>>
    PROVE  /\ Tail(s) \in Seq(S) /\ Len(s) \in Nat /\ Len(Tail(s)) = Len(s) - 1
           /\ Head(s) \in S
OBVIOUS

\* A turn of the loop takes one address and one value.
LEMMA NextAddressKeeps ==
    ASSUME BlacklistInv, update = "notify", ipAddrs # <<>>, NextAddress,
           alerted' \in {alerted, alerted \cup {Head(ipAddrs)}},
           UNCHANGED <<redis, blacklistIPs, arrived, between, repeats, reported>>
    PROVE  BlacklistInv'
<1>1. /\ ipAddrs' = Tail(ipAddrs) /\ requests' = Tail(requests)
      /\ UNCHANGED <<update, due, owners, inOrder, currentPeriod, scattered>>
    BY DEF NextAddress, readings, redis, period
<1>2. /\ ipAddrs \in Seq(IPs) /\ requests \in Seq(Nat) /\ Len(ipAddrs) <= Len(requests)
    BY DEF BlacklistInv, TypeOK, ReportMatches
<1>3. requests # <<>>
    BY <1>2
<1>4. /\ Tail(ipAddrs) \in Seq(IPs) /\ Head(ipAddrs) \in IPs
      /\ Tail(requests) \in Seq(Nat)
      /\ Len(Tail(ipAddrs)) <= Len(Tail(requests))
    <2>1. /\ Tail(ipAddrs) \in Seq(IPs) /\ Head(ipAddrs) \in IPs
          /\ Len(ipAddrs) \in Nat /\ Len(Tail(ipAddrs)) = Len(ipAddrs) - 1
        BY <1>2, TailShorter
    <2>2. /\ Tail(requests) \in Seq(Nat)
          /\ Len(requests) \in Nat /\ Len(Tail(requests)) = Len(requests) - 1
        BY <1>2, <1>3, TailShorter
    <2> QED  BY <1>2, <2>1, <2>2
<1>5. TypeOK'
    BY <1>1, <1>4 DEF BlacklistInv, TypeOK, redis, period
<1>6. Unique'
    BY <1>1 DEF BlacklistInv, Unique
<1>7. StartOfHash'
    BY <1>1 DEF StartOfHash
<1>8. ReportMatches'
    BY <1>1, <1>4 DEF ReportMatches
<1>9. Unreported'
    BY <1>1 DEF BlacklistInv, Unreported
<1> QED  BY <1>5, <1>6, <1>7, <1>8, <1>9 DEF BlacklistInv

LEMMA NotifyKeeps ==
    ASSUME BlacklistInv, Skip \/ Notify
    PROVE  BlacklistInv'
<1>1. /\ update = "notify" /\ ipAddrs # <<>>
      /\ UNCHANGED <<redis, blacklistIPs, arrived, between, repeats, reported>>
    BY DEF Skip, Notify, Alerting
<1>2. CASE NextAddress /\ alerted' \in {alerted, alerted \cup {Head(ipAddrs)}}
    BY <1>1, <1>2, NextAddressKeeps
<1>3. CASE Return /\ UNCHANGED alerted
    <2>1. blacklistIPs' \subseteq IPs /\ alerted' \subseteq IPs
        BY <1>1, <1>3 DEF BlacklistInv, TypeOK
    <2> QED  BY <1>1, <1>3, <2>1, ReturnQuietly
<1> QED  BY <1>2, <1>3 DEF Skip, Notify

-----------------------------------------------------------------------------
LEMMA BlacklistInvInit == Init => BlacklistInv
<1> SUFFICES ASSUME Init PROVE BlacklistInv
    OBVIOUS
<1>1. TypeOK
    <2>1. <<>> \in Seq(IPs) /\ <<>> \in Seq(Nat)
        OBVIOUS
    <2>2. \A ip \in IPs : 0 \in 0..MaxRequests[ip] /\ 0 \in 0..0 /\ 0 \in 0..(0 - 0 + 0)
        BY BlacklistAssumption
    <2>3. 0 \in 0..MaxRepeats /\ 0 \in 0..MaxEdits
        BY BlacklistAssumption
    <2> QED  BY <2>1, <2>2, <2>3, EmptyHash DEF Init, TypeOK
<1>2. Unique
    BY EmptyHash DEF Init, Unique, IsInjective
<1>3. StartOfHash /\ ReportMatches
    BY DEF Init, StartOfHash, ReportMatches
<1>4. Unreported
    BY EmptyHash DEF Init, Unreported
<1> QED  BY <1>1, <1>2, <1>3, <1>4 DEF BlacklistInv

\* The counters of requests, in the form arithmetic wants; and the other types.
Counters ==
    /\ arrived \in [IPs -> Nat] /\ between \in [IPs -> Nat] /\ allIPs \in [IPs -> Nat]
    /\ repeats \in Nat /\ repeats <= MaxRepeats
    /\ \A q \in IPs : /\ arrived[q] <= MaxRequests[q]
                      /\ between[q] <= arrived[q]
                      /\ allIPs[q] + between[q] <= arrived[q] + repeats

Rest ==
    /\ blacklist \subseteq IPs /\ blacklistIPs \subseteq IPs
    /\ edits \in 0..MaxEdits
    /\ currentPeriod \in Hash /\ scattered \in BOOLEAN
    /\ update \in {"idle", "keys", "set", "values", "notify"}
    /\ ipAddrs \in Seq(IPs) /\ requests \in Seq(Nat) /\ owners \in Seq(IPs)
    /\ inOrder \in BOOLEAN /\ reported \in [IPs -> Nat]
    /\ due \subseteq IPs /\ alerted \subseteq IPs

LEMMA RangesAreBounds ==
    ASSUME NEW a \in Nat, NEW b \in Nat, NEW c \in Nat, NEW r \in Nat, NEW m \in Nat
    PROVE  (a \in 0..m /\ b \in 0..a /\ c \in 0..(a - b + r))
               <=> (a <= m /\ b <= a /\ c + b <= a + r)
OBVIOUS

LEMMA CountersType == TypeOK <=> Counters /\ Rest
<1>1. repeats \in 0..MaxRepeats <=> repeats \in Nat /\ repeats <= MaxRepeats
    BY BlacklistAssumption
<1>2. ASSUME arrived \in [IPs -> Nat], between \in [IPs -> Nat], allIPs \in [IPs -> Nat],
             repeats \in Nat, NEW q \in IPs
      PROVE  (/\ arrived[q] \in 0..MaxRequests[q]
              /\ between[q] \in 0..arrived[q]
              /\ allIPs[q] \in 0..(arrived[q] - between[q] + repeats))
             <=> (/\ arrived[q] <= MaxRequests[q]
                  /\ between[q] <= arrived[q]
                  /\ allIPs[q] + between[q] <= arrived[q] + repeats)
    <2>1. /\ arrived[q] \in Nat /\ between[q] \in Nat /\ allIPs[q] \in Nat
          /\ MaxRequests[q] \in Nat
        BY <1>2, BlacklistAssumption
    <2> QED  BY <1>2, <2>1, RangesAreBounds
<1> QED  BY <1>1, <1>2, ZenonT(60) DEF TypeOK, Counters, Rest

LEMMA CountersTypeNext == TypeOK' <=> Counters' /\ Rest'
BY CountersType, PTL

\* One more request.
LEMMA ArriveCounts ==
    ASSUME Counters, NEW ip \in IPs, Arrive(ip)
    PROVE  /\ arrived' \in [IPs -> Nat]
           /\ arrived'[ip] = arrived[ip] + 1
           /\ \A q \in IPs \ {ip} : arrived'[q] = arrived[q]
           /\ \A q \in IPs : arrived[q] <= arrived'[q] /\ arrived'[q] <= MaxRequests[q]
<1>1. /\ arrived \in [IPs -> Nat] /\ MaxRequests \in [IPs -> Nat]
      /\ \A q \in IPs : arrived[q] <= MaxRequests[q]
      /\ arrived[ip] < MaxRequests[ip]
      /\ arrived' = [arrived EXCEPT ![ip] = arrived[ip] + 1]
    BY BlacklistAssumption DEF Counters, Arrive
<1> QED  BY <1>1

LEMMA BlacklistInvNext == BlacklistInv /\ [Next]_vars => BlacklistInv'
<1> SUFFICES ASSUME BlacklistInv, [Next]_vars PROVE BlacklistInv'
    OBVIOUS
<1> USE BlacklistAssumption
<1>a. Counters /\ Rest
    BY CountersType DEF BlacklistInv
<1>b. \A q \in IPs : arrived[q] \in Nat /\ between[q] \in Nat /\ allIPs[q] \in Nat
    BY <1>a DEF Counters
<1>1. ASSUME NEW ip \in IPs, Edit(ip)
      PROVE  BlacklistInv'
    <2>1. UNCHANGED <<period, allIPs, blacklistIPs, arrived, between, repeats, update, locals,
                      history>>
        BY <1>1 DEF Edit
    <2>2. Rest'
        BY <1>1, <1>a, <2>1 DEF Rest, Edit, period, locals, readings, history
    <2>3. Counters'
        BY <1>a, <2>1 DEF Counters
    <2>4. \A q \in IPs : arrived[q] + repeats <= arrived'[q] + repeats'
        BY <1>a, <1>b, <2>1 DEF Counters
    <2> QED  BY <2>1, <2>2, <2>3, <2>4, CountersTypeNext, QuietKeeps DEF history
<1>2. ASSUME NEW ip \in IPs, TurnedAway(ip) \/ NotCounted(ip)
      PROVE  BlacklistInv'
    <2>1. /\ Arrive(ip)
          /\ UNCHANGED <<redis, blacklistIPs, between, repeats, update, locals, history>>
        BY <1>2 DEF TurnedAway, NotCounted
    <2>2. /\ arrived' \in [IPs -> Nat]
          /\ \A q \in IPs : arrived[q] <= arrived'[q] /\ arrived'[q] <= MaxRequests[q]
        BY <1>a, <2>1, ArriveCounts
    <2>3. Rest'
        BY <1>a, <2>1 DEF Rest, redis, period, locals, readings, history
    <2>4. \A q \in IPs : arrived'[q] \in Nat /\ repeats \in Nat
        BY <1>a, <2>2 DEF Counters
    <2>5. Counters'
        BY <1>a, <1>b, <2>1, <2>2, <2>4 DEF Counters, redis
    <2>6. \A q \in IPs : arrived[q] + repeats <= arrived'[q] + repeats'
        BY <1>b, <2>1, <2>2, <2>4
    <2> QED  BY <2>1, <2>3, <2>5, <2>6, CountersTypeNext, QuietKeeps DEF redis, history
<1>3. ASSUME NEW ip \in IPs, Counted(ip)
      PROVE  BlacklistInv'
    <2>1. /\ Arrive(ip)
          /\ CountInPeriod(ip)
          /\ between' = [between EXCEPT ![ip] = between[ip] + 1]
          /\ UNCHANGED <<blacklist, edits, allIPs, blacklistIPs, repeats, update, locals, history>>
        BY <1>3 DEF Counted
    <2>2. /\ arrived' \in [IPs -> Nat]
          /\ arrived'[ip] = arrived[ip] + 1
          /\ \A q \in IPs \ {ip} : arrived'[q] = arrived[q]
          /\ \A q \in IPs : arrived[q] <= arrived'[q] /\ arrived'[q] <= MaxRequests[q]
        BY <1>a, <2>1, ArriveCounts
    <2>3. /\ between' \in [IPs -> Nat]
          /\ between'[ip] = between[ip] + 1
          /\ \A q \in IPs \ {ip} : between'[q] = between[q]
        BY <1>a, <2>1 DEF Counters
    <2>4. Rest'
        <3>1. currentPeriod' \in Hash /\ scattered' \in BOOLEAN
            BY <1>a, <2>1, IncrementedHash DEF Rest, BlacklistInv, Unique, CountInPeriod
        <3> QED  BY <1>a, <2>1, <3>1 DEF Rest, period, locals, readings, history
    <2>5. repeats \in Nat /\ repeats' = repeats
        BY <1>a, <2>1 DEF Counters
    <2>6. ASSUME NEW q \in IPs
          PROVE  /\ between'[q] <= arrived'[q]
                 /\ allIPs[q] + between'[q] <= arrived'[q] + repeats
        <3>1. between[q] <= arrived[q] /\ allIPs[q] + between[q] <= arrived[q] + repeats
            BY <1>a DEF Counters
        <3>2. CASE q = ip
            BY <1>b, <2>2, <2>3, <2>5, <3>1, <3>2
        <3>3. CASE q # ip
            BY <2>2, <2>3, <3>1, <3>3
        <3> QED  BY <3>2, <3>3
    <2>7. Counters'
        BY <1>a, <2>1, <2>2, <2>3, <2>6 DEF Counters
    <2>8. /\ arrived[ip] + repeats + 1 <= arrived'[ip] + repeats'
          /\ \A q \in IPs : arrived[q] + repeats <= arrived'[q] + repeats'
        <3>1. \A q \in IPs : arrived'[q] \in Nat
            BY <2>2
        <3> QED  BY <1>b, <2>2, <2>5, <3>1
    <2> QED  BY <2>1, <2>4, <2>7, <2>8, CountersTypeNext, CountingKeeps DEF history
<1>4. ASSUME NEW ip \in IPs, CountedInAll(ip)
      PROVE  BlacklistInv'
    <2>1. /\ between[ip] > 0
          /\ between' = [between EXCEPT ![ip] = between[ip] - 1]
          /\ allIPs' = [allIPs EXCEPT ![ip] = allIPs[ip] + 1] \/ allIPs' = allIPs
          /\ UNCHANGED <<blacklist, edits, period, blacklistIPs, arrived, repeats, update,
                         locals, history>>
        BY <1>4 DEF CountedInAll
    <2>2. /\ between' \in [IPs -> Nat]
          /\ between'[ip] = between[ip] - 1
          /\ \A q \in IPs \ {ip} : between'[q] = between[q]
        BY <1>a, <1>b, <2>1 DEF Counters
    <2>3. /\ allIPs' \in [IPs -> Nat]
          /\ allIPs'[ip] \in {allIPs[ip], allIPs[ip] + 1}
          /\ \A q \in IPs \ {ip} : allIPs'[q] = allIPs[q]
        BY <1>a, <1>b, <2>1 DEF Counters
    <2>4. ASSUME NEW q \in IPs
          PROVE  between'[q] <= arrived[q] /\ allIPs'[q] + between'[q] <= arrived[q] + repeats
        <3>1. between[q] <= arrived[q] /\ allIPs[q] + between[q] <= arrived[q] + repeats
            BY <1>a DEF Counters
        <3>2. repeats \in Nat
            BY <1>a DEF Counters
        <3>3. CASE q = ip
            BY <1>b, <2>2, <2>3, <3>1, <3>2, <3>3
        <3>4. CASE q # ip
            BY <2>2, <2>3, <3>1, <3>4
        <3> QED  BY <3>3, <3>4
    <2>5. Counters'
        BY <1>a, <2>1, <2>2, <2>3, <2>4 DEF Counters
    <2>6. Rest'
        BY <1>a, <2>1 DEF Rest, period, locals, readings, history
    <2>7. \A q \in IPs : arrived[q] + repeats <= arrived'[q] + repeats'
        BY <1>a, <1>b, <2>1 DEF Counters
    <2> QED  BY <2>1, <2>5, <2>6, <2>7, CountersTypeNext, QuietKeeps DEF history
<1>5. ASSUME NEW ip \in IPs, CountedAgain(ip)
      PROVE  BlacklistInv'
    <2>1. /\ repeats' = repeats + 1 /\ repeats < MaxRepeats
          /\ UNCHANGED <<blacklist, edits, blacklistIPs, arrived, between, update, locals, history>>
        BY <1>5 DEF CountedAgain, Repeated
    <2>2. repeats \in Nat /\ repeats' \in Nat /\ repeats' <= MaxRepeats
        BY <1>a, <2>1 DEF Counters
    <2>3. \A q \in IPs : /\ arrived[q] + repeats + 1 <= arrived'[q] + repeats'
                         /\ arrived[q] + repeats <= arrived'[q] + repeats'
        BY <1>b, <2>1, <2>2
    <2>4. CASE CountInPeriod(ip) /\ UNCHANGED allIPs
        <3>1. currentPeriod' \in Hash /\ scattered' \in BOOLEAN
            BY <1>a, <2>4, IncrementedHash DEF Rest, BlacklistInv, Unique, CountInPeriod
        <3>2. \A q \in IPs : allIPs[q] + between[q] <= arrived[q] + repeats'
            BY <1>a, <1>b, <2>1, <2>2 DEF Counters
        <3>3. Counters'
            BY <1>a, <2>1, <2>2, <2>4, <3>2 DEF Counters
        <3>4. Rest'
            BY <1>a, <2>1, <3>1 DEF Rest, period, locals, readings, history
        <3> QED  BY <2>1, <2>3, <2>4, <3>3, <3>4, CountersTypeNext, CountingKeeps DEF history
    <2>5. CASE allIPs' = [allIPs EXCEPT ![ip] = allIPs[ip] + 1] /\ UNCHANGED period
        <3>1. /\ allIPs' \in [IPs -> Nat]
              /\ allIPs'[ip] = allIPs[ip] + 1
              /\ \A q \in IPs \ {ip} : allIPs'[q] = allIPs[q]
            BY <1>a, <1>b, <2>5 DEF Counters
        <3>2. ASSUME NEW q \in IPs
              PROVE  allIPs'[q] + between[q] <= arrived[q] + repeats'
            <4>1. allIPs[q] + between[q] <= arrived[q] + repeats
                BY <1>a DEF Counters
            <4>2. allIPs'[q] \in {allIPs[q], allIPs[q] + 1}
                BY <3>1
            <4> QED  BY <1>b, <2>1, <2>2, <4>1, <4>2
        <3>3. Counters'
            BY <1>a, <2>1, <2>2, <3>1, <3>2 DEF Counters
        <3>4. Rest'
            BY <1>a, <2>1, <2>5 DEF Rest, period, locals, readings, history
        <3> QED  BY <2>1, <2>3, <2>5, <3>3, <3>4, CountersTypeNext, QuietKeeps DEF history
    <2> QED  BY <1>5, <2>4, <2>5 DEF CountedAgain
<1>6. CASE ReadKeys
    BY <1>6, ReadKeysKeeps
<1>7. CASE ReadSet
    BY <1>7, ReadSetKeeps
<1>8. CASE ReadValues
    BY <1>8, ReadValuesKeeps
<1>9. CASE Delete
    BY <1>9, DeleteKeeps
<1>10. CASE Skip \/ Notify
    BY <1>10, NotifyKeeps
<1>11. CASE Finish \/ Retry
    <2>1. Return /\ UNCHANGED <<redis, blacklistIPs, arrived, between, repeats, reported, alerted>>
        BY <1>11 DEF Finish, Retry
    <2>2. blacklistIPs' \subseteq IPs /\ alerted' \subseteq IPs
        BY <2>1 DEF BlacklistInv, TypeOK
    <2> QED  BY <2>1, <2>2, ReturnQuietly
<1>12. CASE UNCHANGED vars
    <2>1. UNCHANGED <<redis, blacklistIPs, arrived, between, repeats, update, locals, history>>
        BY <1>12 DEF vars
    <2>2. Rest'
        BY <1>a, <2>1 DEF Rest, redis, period, locals, readings, history
    <2>3. Counters'
        BY <1>a, <2>1 DEF Counters, redis
    <2>4. \A q \in IPs : arrived[q] + repeats <= arrived'[q] + repeats'
        BY <1>a, <1>b, <2>1 DEF Counters
    <2> QED  BY <2>1, <2>2, <2>3, <2>4, CountersTypeNext, QuietKeeps DEF redis, history
<1> QED  BY <1>1, <1>2, <1>3, <1>4, <1>5, <1>6, <1>7, <1>8, <1>9, <1>10, <1>11, <1>12
         DEF Next, UpdateBlacklist

\* BlacklistInv holds in every reachable state.
LEMMA BlacklistInvariant == Spec => []BlacklistInv
BY BlacklistInvInit, BlacklistInvNext, PTL DEF Spec

\* However many requests are counted while the update runs, and however often
\* commands fail or are repeated, the counts of handlers balance: an address is
\* counted for good once for each of its requests, and once for each command that
\* the client library sent again.
THEOREM Types == Spec => []TypeOK
<1>1. BlacklistInv => TypeOK
    BY DEF BlacklistInv
<1> QED  BY <1>1, BlacklistInvariant, PTL

\* The values and the fields are read by two commands, with handlers between
\* them, and in any order once the hash is large.  UpdateBlacklist never runs
\* past the end of the values; and where Redis has kept the order, an address at
\* the threshold when the fields were read has a count at the threshold beside
\* it.
THEOREM Matching == Spec => []ReportMatches
<1>1. BlacklistInv => ReportMatches
    BY DEF BlacklistInv
<1> QED  BY <1>1, BlacklistInvariant, PTL

\* Whatever fails between reading the counts and deleting them, and is tried
\* again, and in whatever order Redis answers, no request is in two reports.
THEOREM Once == Spec => []ReportedOnce
<1>1. BlacklistInv => ReportedOnce
    <2> SUFFICES ASSUME BlacklistInv, NEW ip \in IPs
                 PROVE  reported[ip] <= arrived[ip] + repeats
        BY DEF ReportedOnce
    <2>1. /\ reported[ip] \in Nat /\ arrived[ip] \in Nat /\ repeats \in Nat
          /\ reported[ip] + Count(currentPeriod, ip) <= arrived[ip] + repeats
        BY BlacklistAssumption DEF BlacklistInv, TypeOK, Unreported
    <2>2. Count(currentPeriod, ip) \in Nat
        BY CountType DEF BlacklistInv, TypeOK, Unique
    <2> QED  BY <2>1, <2>2
<1> QED  BY <1>1, BlacklistInvariant, PTL
=============================================================================
