----------------------------- MODULE GuardProofs ----------------------------
(***************************************************************************)
(* The two guards of the server.  FrontDoor: how many guesses an address   *)
(* has and what it takes to be banned, proved for every number of          *)
(* addresses and connections and every choice of the limiter's three       *)
(* parameters that does not let a ban end before the window does.          *)
(* PacketFilter: what a client that is in can reach, proved for every set  *)
(* of Services, addresses, DNS answers and policies.                       *)
(***************************************************************************)
EXTENDS FrontDoor, PacketFilter, FiniteSetTheorems, TLAPS

\* Where a connection may stand.
DoorPCs == {"free", "tunnel", "reading", "failing", "passing", "in", "ssh", "sshFailing",
            "sshPassing", "sshKeyFound", "sshSigning"}

\* A connection that is open has an address.
ConnTypes ==
    /\ conn \in [Conns -> [pc : DoorPCs, ip : IPs \union {Free.ip}]]
    /\ \A c \in Conns : conn[c].pc # "free" => conn[c].ip \in IPs

\* Types of the limiter's and the connections' variables and of the history.
DoorTypes ==
    /\ attempts \in [IPs -> [0..Window -> Nat]]
    /\ bans \in [IPs -> 0..BanDuration]
    /\ ConnTypes
    /\ wrong \in [IPs -> [Ages -> Nat]]
    /\ failed \in [IPs -> [Ages -> Nat]]

\* The failures of address i that are still in the window.
Kept(i) == [a \in Ages |-> attempts[i][a]]

\* RecordFailure bans and forgets when there are MaxAttempts of them.
FewKept == \A i \in IPs : Total(Kept(i)) < MaxAttempts

\* What the limiter has kept did happen.
KeptHappened == \A i \in IPs : \A a \in Ages : attempts[i][a] <= failed[i][a]

\* Ages of what happened since the tick in which the ban of i began, if there is one.
SinceBan(i) == {a \in Ages : bans[i] = 0 \/ a < BanDuration - bans[i]}

\* The limiter forgets wrong tokens only with a ban, so that it has those since.  When the
\* ban ends, that is all of them, as no ban is shorter than the window.
WrongKept == \A i \in IPs : \A a \in SinceBan(i) : wrong[i][a] <= attempts[i][a]

\* Connections from i that have passed the ban check and may bring a wrong token yet.
Past(i) == {c \in Conns : conn[c].pc \in {"reading", "failing"} /\ conn[c].ip = i}

\* While i is banned each of these connections has one wrong token at most.
BanBounds ==
    \A i \in IPs : bans[i] > 0 =>
      Total(wrong[i]) + Cardinality(Past(i)) < MaxAttempts + Cardinality(Conns)

\* The inductive invariant of the front door.
DoorInv == DoorTypes /\ FewKept /\ KeptHappened /\ WrongKept /\ BanBounds

-----------------------------------------------------------------------------
(* Counts by age.                                                          *)

\* The members of Units.
LEMMA UnitsMembers ==
  ASSUME NEW D, NEW count \in [D -> Nat], NEW p
  PROVE  p \in Units(count) <=>
           \E a \in D, n \in Nat : n \in 1..count[a] /\ p = <<a, n>>
  BY DEF Units

\* There are finitely many ages.
LEMMA AgesFinite == IsFiniteSet(Ages) /\ IsFiniteSet(0..Window) /\ 0 \in Ages
  BY WindowAssumption, FS_Interval DEF Ages

\* A count over finitely many ages adds up to a number.
LEMMA TotalType ==
  ASSUME NEW D, IsFiniteSet(D), NEW count \in [D -> Nat]
  PROVE  IsFiniteSet(Units(count)) /\ Total(count) \in Nat
<1> DEFINE Part(a) == {a} \X (1..count[a])
           Parts == {Part(a) : a \in D}
           f == [a \in D |-> Part(a)]
<1>1. f \in Surjection(D, Parts)
  BY DEF Surjection
<1>2. IsFiniteSet(Parts)
  BY <1>1, FS_Surjection
<1>3. ASSUME NEW a \in D PROVE IsFiniteSet(Part(a))
  <2>1. IsFiniteSet(1..count[a])
    BY FS_Interval
  <2>2. IsFiniteSet({a})
    BY FS_Singleton
  <2>3. QED
    BY <2>1, <2>2, FS_Product
<1>4. \A P \in Parts : IsFiniteSet(P)
  BY <1>3
<1>5. IsFiniteSet(UNION Parts)
  BY <1>2, <1>4, FS_UNION
<1>6. Units(count) = UNION Parts
  BY DEF Units
<1>7. QED
  BY <1>5, <1>6, FS_CardinalityType DEF Total

\* A count that is nowhere larger adds up to no more.
LEMMA TotalMonotone ==
  ASSUME NEW C, NEW D, IsFiniteSet(D), NEW small \in [C -> Nat], NEW large \in [D -> Nat],
         \A a \in C : small[a] = 0 \/ (a \in D /\ small[a] <= large[a])
  PROVE  Total(small) <= Total(large)
<1>1. Units(small) \subseteq Units(large)
  <2> SUFFICES ASSUME NEW p \in Units(small) PROVE p \in Units(large)
    OBVIOUS
  <2>1. PICK a \in C, n \in Nat : n \in 1..small[a] /\ p = <<a, n>>
    BY UnitsMembers
  <2>2. n \in 1..large[a] /\ a \in D
    BY <2>1
  <2>3. QED
    BY <2>1, <2>2, UnitsMembers
<1>2. QED
  BY <1>1, TotalType, FS_Subset DEF Total

\* One more of an age is one more in all.
LEMMA TotalAdds ==
  ASSUME NEW D, IsFiniteSet(D), NEW count \in [D -> Nat], NEW e \in D,
         NEW more \in [D -> Nat],
         more[e] = count[e] + 1, \A a \in D \ {e} : more[a] = count[a]
  PROVE  Total(more) = Total(count) + 1
<1>1. Units(more) = Units(count) \union {<<e, count[e] + 1>>}
  <2>1. ASSUME NEW p \in Units(more) PROVE p \in Units(count) \union {<<e, count[e] + 1>>}
    <3>1. PICK a \in D, n \in Nat : n \in 1..more[a] /\ p = <<a, n>>
      BY <2>1, UnitsMembers
    <3>2. n \in 1..count[a] \/ (a = e /\ n = count[e] + 1)
      BY <3>1
    <3>3. QED
      BY <3>1, <3>2, UnitsMembers
  <2>2. ASSUME NEW p \in Units(count) \union {<<e, count[e] + 1>>} PROVE p \in Units(more)
    <3>1. PICK a \in D, n \in Nat : n \in 1..more[a] /\ p = <<a, n>>
      <4>1. CASE p \in Units(count)
        <5>1. PICK a \in D, n \in Nat : n \in 1..count[a] /\ p = <<a, n>>
          BY <4>1, UnitsMembers
        <5>2. n \in 1..more[a]
          BY <5>1
        <5>3. QED
          BY <5>1, <5>2
      <4>2. CASE p = <<e, count[e] + 1>>
        <5>1. count[e] + 1 \in 1..more[e]
          OBVIOUS
        <5>2. QED
          BY <4>2, <5>1
      <4>3. QED
        BY <2>2, <4>1, <4>2
    <3>2. QED
      BY <3>1, UnitsMembers
  <2>3. QED
    BY <2>1, <2>2
<1>2. <<e, count[e] + 1>> \notin Units(count)
  <2> SUFFICES ASSUME <<e, count[e] + 1>> \in Units(count) PROVE FALSE
    OBVIOUS
  <2>1. PICK a \in D, n \in Nat : n \in 1..count[a] /\ <<e, count[e] + 1>> = <<a, n>>
    BY UnitsMembers
  <2>2. QED
    BY <2>1
<1>3. QED
  BY <1>1, <1>2, TotalType, FS_AddElement DEF Total

\* No part is larger than the whole.
LEMMA PartOfTotal ==
  ASSUME NEW D, IsFiniteSet(D), NEW count \in [D -> Nat], NEW e \in D
  PROVE  count[e] <= Total(count)
<1> DEFINE f == [n \in 1..count[e] |-> <<e, n>>]
<1>1. f \in Injection(1..count[e], Units(count))
  <2>1. \A n \in 1..count[e] : f[n] \in Units(count)
    BY UnitsMembers
  <2>2. QED
    BY <2>1 DEF Injection, IsInjective
<1>2. Cardinality(1..count[e]) = count[e]
  BY FS_Interval
<1>3. QED
  BY <1>1, <1>2, TotalType, FS_Injection DEF Total

\* A tick adds nothing: what grows too old drops out.
LEMMA TotalOlder ==
  ASSUME NEW count \in [Ages -> Nat]
  PROVE  Older(count) \in [Ages -> Nat] /\ Total(Older(count)) <= Total(count)
<1>0. Older(count) \in [Ages -> Nat]
  BY WindowAssumption DEF Older, Ages
<1> DEFINE f == [p \in Units(Older(count)) |-> <<p[1] - 1, p[2]>>]
<1>1. ASSUME NEW p \in Units(Older(count))
      PROVE  f[p] \in Units(count) /\ p = <<f[p][1] + 1, f[p][2]>>
  <2>1. PICK a \in Ages, n \in Nat : n \in 1..Older(count)[a] /\ p = <<a, n>>
    BY <1>0, UnitsMembers
  <2>2. Older(count)[a] = IF a = 0 THEN 0 ELSE count[a - 1]
    BY DEF Older
  <2>3. a \in Int /\ a - 1 \in Ages /\ n \in 1..count[a - 1]
    BY <2>1, <2>2, WindowAssumption DEF Ages
  <2>4. f[p] = <<a - 1, n>> /\ <<a - 1, n>> \in Units(count)
    BY <2>1, <2>3, UnitsMembers
  <2>5. QED
    BY <2>1, <2>3, <2>4
<1>2. f \in Injection(Units(Older(count)), Units(count))
  BY <1>1 DEF Injection, IsInjective
<1>3. QED
  BY <1>0, <1>2, AgesFinite, TotalType, FS_Injection DEF Total
-----------------------------------------------------------------------------
(* The limiter.                                                            *)

\* The counts that the actions assign are counts.
LEMMA CountTypes ==
  ASSUME DoorTypes, NEW i \in IPs
  PROVE  /\ NoneYet \in [Ages -> Nat] /\ NoAttempts \in [0..Window -> Nat]
         /\ Recent(i) \in [0..Window -> Nat] /\ Aged(attempts[i]) \in [0..Window -> Nat]
         /\ Kept(i) \in [Ages -> Nat]
         /\ \A a \in Ages : a \in 0..Window /\ a # Window
<1>1. /\ attempts[i] \in [0..Window -> Nat] /\ 0 \in 0..Window
      /\ \A a \in Ages : a \in 0..Window /\ a # Window
  BY WindowAssumption DEF DoorTypes, Ages
<1>2. NoneYet \in [Ages -> Nat] /\ NoAttempts \in [0..Window -> Nat]
  BY DEF NoneYet, NoAttempts
<1>3. Kept(i) \in [Ages -> Nat]
  BY <1>1 DEF Kept
<1>4. Recent(i) \in [0..Window -> Nat]
  <2>1. attempts[i][0] + 1 \in Nat /\ Window \in 0..Window
    BY <1>1, WindowAssumption
  <2>2. [attempts[i] EXCEPT ![0] = @ + 1] \in [0..Window -> Nat]
    BY <1>1, <2>1
  <2>3. QED
    BY <2>1, <2>2 DEF Recent
<1>5. Aged(attempts[i]) \in [0..Window -> Nat]
  BY <1>1, WindowAssumption DEF Aged
<1>6. QED
  BY <1>1, <1>2, <1>3, <1>4, <1>5

\* A success forgets everything about its address and nothing about others; so does a
\* ban, for the failures kept.
LEMMA NothingKept ==
  ASSUME DoorTypes, FewKept, NEW i \in IPs
  PROVE  Total([a \in Ages |-> NoAttempts[a]]) < MaxAttempts
<1> DEFINE zero == [a \in Ages |-> NoAttempts[a]]
<1>1. zero \in [Ages -> Nat] /\ \A a \in Ages : zero[a] = 0
  BY CountTypes DEF NoAttempts
<1>2. Kept(i) \in [Ages -> Nat]
  BY CountTypes
<1> HIDE DEF zero
<1>3. Total(zero) <= Total(Kept(i))
  BY <1>1, <1>2, AgesFinite, TotalMonotone
<1>4. Total(zero) \in Nat /\ Total(Kept(i)) \in Nat
  BY <1>1, <1>2, AgesFinite, TotalType
<1>5. Total(zero) < MaxAttempts
  BY <1>3, <1>4, MaxAttemptsAssumption DEF FewKept
<1>6. QED
  BY <1>5 DEF zero

\* What RecordFailure counts is what happened: the failures of the window, one more.
LEMMA RecentHappened ==
  ASSUME DoorTypes, FewKept, KeptHappened, NEW i \in IPs, Failed(i)
  PROVE  /\ failed' \in [IPs -> [Ages -> Nat]]
         /\ \A j \in IPs \ {i} : failed'[j] = failed[j]
         /\ \A a \in Ages : Recent(i)[a] <= failed'[i][a]
         /\ Total(Recent(i)) <= Total(failed'[i])
<1> USE MaxAttemptsAssumption
<1>1. Kept(i) \in [Ages -> Nat] /\ Recent(i) \in [0..Window -> Nat]
      /\ \A a \in Ages : a \in 0..Window /\ a # Window
  BY CountTypes
<1>2. failed' \in [IPs -> [Ages -> Nat]] /\ (\A j \in IPs \ {i} : failed'[j] = failed[j])
  BY AgesFinite DEF DoorTypes, Failed
<1>3. Kept(i)[0] < MaxAttempts
  <2>1. Kept(i)[0] <= Total(Kept(i)) /\ Total(Kept(i)) \in Nat
    BY <1>1, AgesFinite, PartOfTotal, TotalType
  <2>2. QED
    BY <1>1, <2>1, AgesFinite DEF FewKept
<1>4. ASSUME NEW a \in Ages PROVE Recent(i)[a] <= failed'[i][a]
  <2>1. CASE a = 0
    <3>1. Recent(i)[0] = attempts[i][0] + 1 /\ attempts[i][0] \in Nat
      BY <1>1, AgesFinite DEF Recent, DoorTypes
    <3>2. attempts[i][0] < MaxAttempts /\ attempts[i][0] <= failed[i][0]
      BY <1>3, AgesFinite DEF Kept, KeptHappened
    <3>3. failed'[i][0] = IF failed[i][0] < MaxAttempts THEN failed[i][0] + 1
                                                        ELSE failed[i][0]
      BY AgesFinite DEF Failed, DoorTypes
    <3>4. failed[i][0] \in Nat
      BY AgesFinite DEF DoorTypes
    <3>5. QED
      BY <2>1, <3>1, <3>2, <3>3, <3>4
  <2>2. CASE a # 0
    <3>1. Recent(i)[a] = attempts[i][a]
      BY <1>1, <2>2 DEF Recent, DoorTypes
    <3>2. failed'[i][a] = failed[i][a]
      BY <2>2, AgesFinite DEF Failed, DoorTypes
    <3>3. QED
      BY <3>1, <3>2 DEF KeptHappened
  <2>3. QED
    BY <2>1, <2>2
<1>5. \A a \in 0..Window : Recent(i)[a] = 0 \/ (a \in Ages /\ Recent(i)[a] <= failed'[i][a])
  <2>1. Recent(i)[Window] = 0
    BY WindowAssumption DEF Recent, DoorTypes
  <2>2. \A a \in 0..Window : a = Window \/ a \in Ages
    BY WindowAssumption DEF Ages
  <2>3. QED
    BY <1>4, <2>1, <2>2
<1>6. Total(Recent(i)) <= Total(failed'[i])
  <2>1. failed'[i] \in [Ages -> Nat]
    BY <1>2
  <2>2. QED
    BY <1>1, <1>5, <2>1, AgesFinite, TotalMonotone
<1>7. QED
  BY <1>2, <1>4, <1>6

\* RecordFailure either bans and forgets, on enough failures, or keeps one more.
LEMMA Recorded ==
  ASSUME DoorTypes, FewKept, KeptHappened, NEW i \in IPs, RecordFailure(i), Failed(i)
  PROVE  /\ attempts' \in [IPs -> [0..Window -> Nat]] /\ bans' \in [IPs -> 0..BanDuration]
         /\ \A j \in IPs \ {i} : attempts'[j] = attempts[j] /\ bans'[j] = bans[j]
         /\ \/ bans'[i] = BanDuration /\ Total(failed'[i]) >= MaxAttempts
            \/ bans'[i] = bans[i] /\ attempts'[i] = Recent(i)
         /\ FewKept' /\ KeptHappened'
<1>1. /\ Recent(i) \in [0..Window -> Nat] /\ NoAttempts \in [0..Window -> Nat]
      /\ \A a \in Ages : a \in 0..Window /\ a # Window
  BY CountTypes
<1>2. /\ failed' \in [IPs -> [Ages -> Nat]]
      /\ \A j \in IPs \ {i} : failed'[j] = failed[j]
      /\ \A a \in Ages : Recent(i)[a] <= failed'[i][a]
      /\ Total(Recent(i)) <= Total(failed'[i])
  BY RecentHappened
<1>3. Total(Recent(i)) \in Nat /\ Total(failed'[i]) \in Nat
  <2>1. failed'[i] \in [Ages -> Nat]
    BY <1>2
  <2>2. QED
    BY <1>1, <2>1, AgesFinite, TotalType
<1>5. CASE Total(Recent(i)) >= MaxAttempts
  <2>1. /\ attempts' = [attempts EXCEPT ![i] = NoAttempts]
        /\ bans' = [bans EXCEPT ![i] = BanDuration]
    BY <1>5 DEF RecordFailure
  <2>2. /\ attempts' \in [IPs -> [0..Window -> Nat]] /\ bans' \in [IPs -> 0..BanDuration]
        /\ \A j \in IPs \ {i} : attempts'[j] = attempts[j] /\ bans'[j] = bans[j]
        /\ bans'[i] = BanDuration /\ attempts'[i] = NoAttempts
    BY <1>1, <2>1, BanAssumption DEF DoorTypes
  <2>3. Total(failed'[i]) >= MaxAttempts
    BY <1>2, <1>3, <1>5, MaxAttemptsAssumption
  <2>4. FewKept'
    <3> SUFFICES ASSUME NEW j \in IPs PROVE Total(Kept(j)') < MaxAttempts
      BY DEF FewKept
    <3>1. CASE j = i
      <4>1. Kept(j)' = [a \in Ages |-> NoAttempts[a]]
        BY <2>2, <3>1 DEF Kept
      <4>2. QED
        BY <4>1, NothingKept
    <3>2. CASE j # i
      <4>1. Kept(j)' = Kept(j)
        BY <2>2, <3>2 DEF Kept
      <4>2. QED
        BY <4>1 DEF FewKept
    <3>3. QED
      BY <3>1, <3>2
  <2>5. KeptHappened'
    <3> SUFFICES ASSUME NEW j \in IPs, NEW a \in Ages PROVE attempts'[j][a] <= failed'[j][a]
      BY DEF KeptHappened
    <3>1. CASE j = i
      <4>1. attempts'[j][a] = 0 /\ failed'[j][a] \in Nat
        BY <1>1, <1>2, <2>2, <3>1 DEF NoAttempts
      <4>2. QED
        BY <4>1
    <3>2. CASE j # i
      BY <1>2, <2>2, <3>2 DEF KeptHappened
    <3>3. QED
      BY <3>1, <3>2
  <2>6. QED
    BY <2>2, <2>3, <2>4, <2>5
<1>6. CASE ~(Total(Recent(i)) >= MaxAttempts)
  <2>1. attempts' = [attempts EXCEPT ![i] = Recent(i)] /\ bans' = bans
    BY <1>6 DEF RecordFailure
  <2>2. /\ attempts' \in [IPs -> [0..Window -> Nat]] /\ bans' \in [IPs -> 0..BanDuration]
        /\ \A j \in IPs \ {i} : attempts'[j] = attempts[j] /\ bans'[j] = bans[j]
        /\ bans'[i] = bans[i] /\ attempts'[i] = Recent(i)
    BY <1>1, <2>1 DEF DoorTypes
  <2>3. FewKept'
    <3> SUFFICES ASSUME NEW j \in IPs PROVE Total(Kept(j)') < MaxAttempts
      BY DEF FewKept
    <3>1. CASE j = i
      <4> DEFINE kept == [a \in Ages |-> Recent(i)[a]]
      <4>1. Kept(j)' = kept
        BY <2>2, <3>1 DEF Kept
      <4>2. kept \in [Ages -> Nat] /\ \A a \in Ages : kept[a] <= Recent(i)[a]
        BY <1>1
      <4> HIDE DEF kept
      <4>3. Total(kept) \in Nat
        BY <4>2, AgesFinite, TotalType
      <4>4. Total(kept) <= Total(Recent(i))
        BY <1>1, <4>2, AgesFinite, TotalMonotone
      <4>5. QED
        BY <1>3, <1>6, <4>1, <4>3, <4>4, MaxAttemptsAssumption
    <3>2. CASE j # i
      <4>1. Kept(j)' = Kept(j)
        BY <2>2, <3>2 DEF Kept
      <4>2. QED
        BY <4>1 DEF FewKept
    <3>3. QED
      BY <3>1, <3>2
  <2>4. KeptHappened'
    BY <1>2, <2>2 DEF KeptHappened
  <2>5. QED
    BY <2>2, <2>3, <2>4
<1>7. QED
  BY <1>5, <1>6

\* Wrong tokens of an address that is not banned are all among the failures kept.
LEMMA FewWrong ==
  ASSUME DoorTypes, FewKept, WrongKept, NEW i \in IPs
  PROVE  Total(wrong[i]) \in Nat /\ (bans[i] = 0 => Total(wrong[i]) < MaxAttempts)
<1>1. wrong[i] \in [Ages -> Nat] /\ Kept(i) \in [Ages -> Nat]
  BY CountTypes DEF DoorTypes
<1>2. Total(wrong[i]) \in Nat /\ Total(Kept(i)) \in Nat
  BY <1>1, AgesFinite, TotalType
<1>3. ASSUME bans[i] = 0 PROVE Total(wrong[i]) < MaxAttempts
  <2>1. \A a \in Ages : wrong[i][a] <= Kept(i)[a]
    BY <1>3 DEF WrongKept, SinceBan, Kept
  <2>2. Total(wrong[i]) <= Total(Kept(i))
    BY <1>1, <2>1, AgesFinite, TotalMonotone
  <2>3. QED
    BY <1>2, <2>2, MaxAttemptsAssumption DEF FewKept
<1>4. QED
  BY <1>2, <1>3

-----------------------------------------------------------------------------
(* The connections.                                                        *)

\* One connection moves, and with it at most one that is past the ban check.
LEMMA PastMoves ==
  ASSUME DoorTypes, NEW c \in Conns, NEW i, \A d \in Conns \ {c} : conn'[d] = conn[d]
  PROVE  /\ Cardinality(Past(i)) \in Nat /\ Cardinality(Past(i)') \in Nat
         /\ Cardinality(Conns) \in Nat
         /\ c \notin Past(i)' =>
              /\ Cardinality(Past(i)') <= Cardinality(Past(i))
              /\ Cardinality(Past(i)') < Cardinality(Conns)
         /\ (c \in Past(i)' => c \in Past(i)) => Cardinality(Past(i)') <= Cardinality(Past(i))
         /\ c \in Past(i) /\ c \notin Past(i)' =>
              Cardinality(Past(i)') = Cardinality(Past(i)) - 1
<1> DEFINE P == Past(i)
           Q == Past(i)'
<1>1. /\ P \subseteq Conns /\ Q \subseteq Conns
      /\ \A d \in Conns \ {c} : d \in Q <=> d \in P
  BY DEF Past
<1> HIDE DEF P, Q
<1>2. /\ IsFiniteSet(P) /\ IsFiniteSet(Q)
      /\ Cardinality(P) \in Nat /\ Cardinality(Q) \in Nat /\ Cardinality(Conns) \in Nat
  BY <1>1, ConnsFinite, FS_Subset, FS_CardinalityType
<1>3. (c \in Q => c \in P) => Cardinality(Q) <= Cardinality(P)
  <2> HAVE c \in Q => c \in P
  <2>1. Q \subseteq P
    BY <1>1
  <2>2. QED
    BY <1>2, <2>1, FS_Subset
<1>4. c \notin Q => Cardinality(Q) < Cardinality(Conns)
  <2> HAVE c \notin Q
  <2>1. Q \subseteq Conns \ {c}
    BY <1>1
  <2>2. IsFiniteSet(Conns \ {c}) /\ Cardinality(Conns \ {c}) = Cardinality(Conns) - 1
    BY ConnsFinite, FS_RemoveElement
  <2>3. Cardinality(Q) <= Cardinality(Conns \ {c})
    BY <2>1, <2>2, FS_Subset
  <2>4. QED
    BY <1>2, <2>2, <2>3
<1>5. c \in P /\ c \notin Q => Cardinality(Q) = Cardinality(P) - 1
  <2> HAVE c \in P /\ c \notin Q
  <2>1. Q = P \ {c}
    BY <1>1
  <2>2. QED
    BY <1>2, <2>1, FS_RemoveElement
<1>6. QED
  BY <1>2, <1>3, <1>4, <1>5 DEF P, Q

\* A connection that goes on keeps its address,
LEMMA GoesOn ==
  ASSUME DoorTypes, NEW c \in Conns, NEW from, NEW to \in DoorPCs, from # "free",
         Goto(c, from, to)
  PROVE  /\ ConnTypes'
         /\ \A d \in Conns \ {c} : conn'[d] = conn[d]
         /\ conn[c].pc = from /\ conn'[c].pc = to /\ conn'[c].ip = conn[c].ip
         /\ conn[c].ip \in IPs
  BY DEF DoorTypes, ConnTypes, Goto

\* and one that leaves is free for another.
LEMMA Leaves ==
  ASSUME DoorTypes, NEW c \in Conns, NEW from, from # "free", Leave(c, from)
  PROVE  /\ ConnTypes'
         /\ \A d \in Conns \ {c} : conn'[d] = conn[d]
         /\ conn[c].pc = from /\ conn'[c].pc = "free"
         /\ conn[c].ip \in IPs
<1>1. Free \in [pc : DoorPCs, ip : IPs \union {Free.ip}] /\ Free.pc = "free"
  BY DEF Free, DoorPCs
<1>2. QED
  BY <1>1 DEF DoorTypes, ConnTypes, Leave

\* A step that leaves the limiter alone keeps the invariant when no connection of a banned
\* address gets past the ban check.
LEMMA QuietStep ==
  ASSUME DoorInv, UNCHANGED <<limiterVars, history>>,
         ConnTypes',
         NEW c \in Conns, \A d \in Conns \ {c} : conn'[d] = conn[d],
         \A i \in IPs : bans[i] > 0 /\ c \in Past(i)' => c \in Past(i)
  PROVE  DoorInv'
<1>1. UNCHANGED <<attempts, bans, wrong, failed>>
  BY DEF limiterVars, history
<1>2. DoorTypes'
  BY <1>1 DEF DoorInv, DoorTypes
<1>3. FewKept' /\ KeptHappened' /\ WrongKept'
  <2>1. \A i : Kept(i)' = Kept(i) /\ SinceBan(i)' = SinceBan(i)
    BY <1>1 DEF Kept, SinceBan
  <2>2. QED
    BY <1>1, <2>1 DEF DoorInv, FewKept, KeptHappened, WrongKept
<1>4. ASSUME NEW i \in IPs, bans'[i] > 0
      PROVE  Total(wrong'[i]) + Cardinality(Past(i)') < MaxAttempts + Cardinality(Conns)
  <2>1. Total(wrong[i]) + Cardinality(Past(i)) < MaxAttempts + Cardinality(Conns)
    BY <1>1, <1>4 DEF DoorInv, BanBounds
  <2>2. /\ Cardinality(Past(i)) \in Nat /\ Cardinality(Past(i)') \in Nat
        /\ Cardinality(Conns) \in Nat
        /\ Cardinality(Past(i)') <= Cardinality(Past(i))
    BY <1>1, <1>4, PastMoves DEF DoorInv
  <2>3. Total(wrong[i]) \in Nat
    BY FewWrong DEF DoorInv
  <2>4. QED
    BY <1>1, <2>1, <2>2, <2>3, MaxAttemptsAssumption
<1>5. BanBounds'
  BY <1>4 DEF BanBounds
<1>6. QED
  BY <1>2, <1>3, <1>5 DEF DoorInv

\* A token or key is refused, at either port.
LEMMA FailStep ==
  ASSUME DoorInv, NEW c \in Conns, NEW i \in IPs, conn[c].ip = i,
         RecordFailure(i), Failed(i),
         ConnTypes',
         \A d \in Conns \ {c} : conn'[d] = conn[d],
         \A j \in IPs : c \notin Past(j)',
         \/ wrong' = wrong
         \/ wrong' = [wrong EXCEPT ![i][0] = @ + 1] /\ c \in Past(i)
  PROVE  DoorInv' /\ (\A j \in IPs : bans'[j] > bans[j] => Total(failed'[j]) >= MaxAttempts)
<1> USE DEF DoorInv
<1>1. /\ attempts' \in [IPs -> [0..Window -> Nat]] /\ bans' \in [IPs -> 0..BanDuration]
      /\ \A j \in IPs \ {i} : attempts'[j] = attempts[j] /\ bans'[j] = bans[j]
      /\ \/ bans'[i] = BanDuration /\ Total(failed'[i]) >= MaxAttempts
         \/ bans'[i] = bans[i] /\ attempts'[i] = Recent(i)
      /\ FewKept' /\ KeptHappened'
  BY Recorded
<1>2. failed' \in [IPs -> [Ages -> Nat]]
  BY RecentHappened
<1>3. /\ wrong' \in [IPs -> [Ages -> Nat]]
      /\ \A j \in IPs \ {i} : wrong'[j] = wrong[j]
      /\ \A a \in Ages \ {0} : wrong'[i][a] = wrong[i][a]
      /\ wrong'[i][0] \in {wrong[i][0], wrong[i][0] + 1}
      /\ c \in Past(i) \/ wrong'[i] = wrong[i]
  <2>1. wrong \in [IPs -> [Ages -> Nat]] /\ 0 \in Ages
    BY AgesFinite DEF DoorTypes
  <2>2. CASE wrong' = wrong
    BY <2>1, <2>2
  <2>3. CASE wrong' = [wrong EXCEPT ![i][0] = @ + 1] /\ c \in Past(i)
    <3>1. wrong[i] \in [Ages -> Nat] /\ wrong[i][0] + 1 \in Nat
      BY <2>1
    <3>2. [wrong[i] EXCEPT ![0] = @ + 1] \in [Ages -> Nat]
      BY <2>1, <3>1
    <3>3. wrong' = [wrong EXCEPT ![i] = [wrong[i] EXCEPT ![0] = @ + 1]]
      BY <2>3
    <3>4. QED
      BY <2>1, <2>3, <3>1, <3>2, <3>3
  <2>4. QED
    BY <2>2, <2>3
<1>4. DoorTypes'
  BY <1>1, <1>2, <1>3 DEF DoorTypes
<1>5. WrongKept'
  <2> SUFFICES ASSUME NEW j \in IPs, NEW a \in SinceBan(j)' PROVE wrong'[j][a] <= attempts'[j][a]
    BY DEF WrongKept
  <2>1. a \in Ages /\ bans'[j] # BanDuration
    BY BanAssumption, WindowAssumption DEF SinceBan, Ages
  <2>2. a \in SinceBan(j) /\ bans'[j] = bans[j]
    BY <1>1, <2>1 DEF SinceBan
  <2>3. wrong[j][a] <= attempts[j][a]
    BY <2>2 DEF WrongKept
  <2>4. CASE j = i
    <3>1. attempts'[i] = Recent(i)
      BY <1>1, <2>1, <2>4
    <3>0. a \in 0..Window /\ a # Window /\ attempts[i] \in [0..Window -> Nat]
      <4>1. a \in 0..Window /\ a # Window
        BY <2>1, CountTypes
      <4>2. attempts[i] \in [0..Window -> Nat]
        BY DEF DoorTypes
      <4>3. QED
        BY <4>1, <4>2
    <3>2. Recent(i)[a] = IF a = 0 THEN attempts[i][0] + 1 ELSE attempts[i][a]
      BY <3>0, WindowAssumption DEF Recent
    <3>3. attempts[i][a] \in Nat /\ wrong[i][a] \in Nat
      BY <2>1, <3>0 DEF DoorTypes
    <3>4. QED
      BY <1>3, <2>1, <2>3, <2>4, <3>1, <3>2, <3>3
  <2>5. CASE j # i
    BY <1>1, <1>3, <2>3, <2>5
  <2>6. QED
    BY <2>4, <2>5
<1>6. BanBounds'
  <2> SUFFICES ASSUME NEW j \in IPs, bans'[j] > 0
               PROVE  Total(wrong'[j]) + Cardinality(Past(j)') < MaxAttempts + Cardinality(Conns)
    BY DEF BanBounds
  <2>1. /\ Cardinality(Past(j)) \in Nat /\ Cardinality(Past(j)') \in Nat
        /\ Cardinality(Conns) \in Nat
        /\ Cardinality(Past(j)') <= Cardinality(Past(j))
        /\ Cardinality(Past(j)') < Cardinality(Conns)
        /\ c \in Past(j) => Cardinality(Past(j)') = Cardinality(Past(j)) - 1
    BY PastMoves
  <2>2. /\ Total(wrong[j]) \in Nat
        /\ bans[j] = 0 => Total(wrong[j]) < MaxAttempts
        /\ bans[j] > 0 =>
             Total(wrong[j]) + Cardinality(Past(j)) < MaxAttempts + Cardinality(Conns)
    BY FewWrong DEF BanBounds
  <2>3. \/ wrong'[j] = wrong[j]
        \/ c \in Past(j) /\ Total(wrong'[j]) = Total(wrong[j]) + 1
    <3>1. CASE wrong'[j] # wrong[j]
      <4>1. j = i /\ c \in Past(i)
        BY <1>3, <3>1
      <4>2. wrong[i] \in [Ages -> Nat] /\ wrong'[i] \in [Ages -> Nat]
        BY <1>3 DEF DoorTypes
      <4>3. wrong'[i][0] = wrong[i][0] + 1
        BY <1>3, <3>1, <4>1, <4>2, AgesFinite
      <4>4. Total(wrong'[i]) = Total(wrong[i]) + 1
        <5>1. \A a \in Ages \ {0} : wrong'[i][a] = wrong[i][a]
          BY <1>3
        <5>2. QED
          BY ONLY <4>2, <4>3, <5>1, AgesFinite, TotalAdds
      <4>5. QED
        BY <4>1, <4>4
    <3>2. QED
      BY <3>1
  <2>4. bans[j] = 0 \/ bans[j] > 0
    BY DEF DoorTypes
  <2>5. QED
    BY <2>1, <2>2, <2>3, <2>4, MaxAttemptsAssumption
<1>7. ASSUME NEW j \in IPs, bans'[j] > bans[j] PROVE Total(failed'[j]) >= MaxAttempts
  <2>1. bans[j] \in Nat
    BY DEF DoorTypes
  <2>2. QED
    BY <1>1, <1>7, <2>1
<1>8. QED
  BY <1>1, <1>4, <1>5, <1>6, <1>7

\* A token or key is accepted, at either port: the address starts anew.
LEMMA PassStep ==
  ASSUME DoorInv, NEW c \in Conns, NEW i \in IPs, Reset(i), Forgiven(i), ConnTypes',
         \A d \in Conns \ {c} : conn'[d] = conn[d], \A j \in IPs : c \notin Past(j)'
  PROVE  DoorInv'
<1> USE DEF DoorInv
<1>1. /\ attempts' \in [IPs -> [0..Window -> Nat]] /\ bans' \in [IPs -> 0..BanDuration]
      /\ wrong' \in [IPs -> [Ages -> Nat]] /\ failed' \in [IPs -> [Ages -> Nat]]
      /\ attempts'[i] = NoAttempts /\ bans'[i] = 0
      /\ wrong'[i] = NoneYet /\ failed'[i] = NoneYet
      /\ \A j \in IPs \ {i} : /\ attempts'[j] = attempts[j] /\ bans'[j] = bans[j]
                              /\ wrong'[j] = wrong[j] /\ failed'[j] = failed[j]
  <2>1. /\ NoneYet \in [Ages -> Nat] /\ NoAttempts \in [0..Window -> Nat]
        /\ 0 \in 0..BanDuration
    BY CountTypes, BanAssumption
  <2>2. QED
    BY <2>1 DEF DoorTypes, Reset, Forgiven
<1>2. DoorTypes'
  BY <1>1 DEF DoorTypes
<1>3. \A a \in Ages : NoneYet[a] = 0 /\ NoAttempts[a] = 0
  BY CountTypes DEF NoneYet, NoAttempts
<1>4. FewKept'
  <2> SUFFICES ASSUME NEW j \in IPs PROVE Total(Kept(j)') < MaxAttempts
    BY DEF FewKept
  <2>1. CASE j = i
    <3>1. Kept(j)' = [a \in Ages |-> NoAttempts[a]]
      BY <1>1, <2>1 DEF Kept
    <3>2. QED
      BY <3>1, NothingKept
  <2>2. CASE j # i
    <3>1. Kept(j)' = Kept(j)
      BY <1>1, <2>2 DEF Kept
    <3>2. QED
      BY <3>1 DEF FewKept
  <2>3. QED
    BY <2>1, <2>2
<1>5. KeptHappened'
  <2> SUFFICES ASSUME NEW j \in IPs, NEW a \in Ages PROVE attempts'[j][a] <= failed'[j][a]
    BY DEF KeptHappened
  <2>1. CASE j = i
    BY <1>1, <1>3, <2>1
  <2>2. CASE j # i
    BY <1>1, <2>2 DEF KeptHappened
  <2>3. QED
    BY <2>1, <2>2
<1>6. WrongKept'
  <2> SUFFICES ASSUME NEW j \in IPs, NEW a \in SinceBan(j)'
               PROVE  wrong'[j][a] <= attempts'[j][a]
    BY DEF WrongKept
  <2>1. a \in Ages
    BY DEF SinceBan
  <2>2. CASE j = i
    BY <1>1, <1>3, <2>1, <2>2
  <2>3. CASE j # i
    BY <1>1, <2>3 DEF WrongKept, SinceBan
  <2>4. QED
    BY <2>2, <2>3
<1>7. BanBounds'
  <2> SUFFICES ASSUME NEW j \in IPs, bans'[j] > 0
               PROVE  Total(wrong'[j]) + Cardinality(Past(j)') < MaxAttempts + Cardinality(Conns)
    BY DEF BanBounds
  <2>1. j # i
    BY <1>1
  <2>2. /\ Cardinality(Past(j)) \in Nat /\ Cardinality(Past(j)') \in Nat
        /\ Cardinality(Conns) \in Nat
        /\ Cardinality(Past(j)') <= Cardinality(Past(j))
    BY PastMoves
  <2>3. /\ Total(wrong[j]) \in Nat
        /\ Total(wrong[j]) + Cardinality(Past(j)) < MaxAttempts + Cardinality(Conns)
    BY <1>1, <2>1, FewWrong DEF BanBounds
  <2>4. QED
    BY <1>1, <2>1, <2>2, <2>3, MaxAttemptsAssumption
<1>8. QED
  BY <1>2, <1>4, <1>5, <1>6, <1>7

\* The clock ticks: everything is one tick older, and a ban that ends has outlasted what
\* was counted before it.
LEMMA TickStep == ASSUME DoorInv, Tick PROVE DoorInv'
<1> USE DEF DoorInv
<1>1. ASSUME NEW i \in IPs
      PROVE  /\ attempts'[i] = Aged(attempts[i]) /\ attempts'[i] \in [0..Window -> Nat]
             /\ wrong'[i] = Older(wrong[i]) /\ wrong'[i] \in [Ages -> Nat]
             /\ failed'[i] = Older(failed[i]) /\ failed'[i] \in [Ages -> Nat]
             /\ bans[i] \in 0..BanDuration
             /\ bans'[i] = IF bans[i] > 0 THEN bans[i] - 1 ELSE 0
             /\ bans'[i] \in 0..BanDuration
  <2>1. wrong[i] \in [Ages -> Nat] /\ failed[i] \in [Ages -> Nat]
        /\ bans[i] \in 0..BanDuration
    BY DEF DoorTypes
  <2>2. Older(wrong[i]) \in [Ages -> Nat] /\ Older(failed[i]) \in [Ages -> Nat]
    BY <2>1, TotalOlder
  <2>3. Aged(attempts[i]) \in [0..Window -> Nat]
    BY CountTypes
  <2>4. bans'[i] = IF bans[i] > 0 THEN bans[i] - 1 ELSE 0
    BY DEF Tick
  <2>5. bans'[i] \in 0..BanDuration
    BY <2>1, <2>4, BanAssumption
  <2>6. QED
    BY <2>1, <2>2, <2>3, <2>4, <2>5 DEF Tick
<1>2. DoorTypes'
  <2>1. /\ attempts' \in [IPs -> [0..Window -> Nat]] /\ bans' \in [IPs -> 0..BanDuration]
        /\ wrong' \in [IPs -> [Ages -> Nat]] /\ failed' \in [IPs -> [Ages -> Nat]]
    BY <1>1 DEF Tick
  <2>2. ConnTypes'
    BY DEF DoorTypes, ConnTypes, Tick
  <2>3. QED
    BY <2>1, <2>2 DEF DoorTypes
<1>3. ASSUME NEW i \in IPs, NEW a \in Ages
      PROVE  \/ a = 0 /\ attempts'[i][a] = 0 /\ wrong'[i][a] = 0
             \/ /\ a - 1 \in Ages
                /\ attempts'[i][a] = attempts[i][a - 1]
                /\ wrong'[i][a] = wrong[i][a - 1] /\ failed'[i][a] = failed[i][a - 1]
  <2>1. a \in 0..Window /\ a # Window
    BY CountTypes
  <2>2. (a = 0 \/ a - 1 \in Ages) /\ a - 1 # Window /\ a \in Int
    BY WindowAssumption DEF Ages
  <2>3. attempts[i] \in [0..Window -> Nat]
    BY DEF DoorTypes
  <2>4. Aged(attempts[i])[a] = IF a = 0 THEN 0 ELSE attempts[i][a - 1]
    <3>1. Aged(attempts[i])[a] = (IF a = 0 THEN 0 ELSE attempts[i][a - 1]) + 0
      BY <2>1 DEF Aged
    <3>2. a # 0 => a - 1 \in 0..Window
      BY <2>2, CountTypes
    <3>3. (IF a = 0 THEN 0 ELSE attempts[i][a - 1]) \in Nat
      BY <2>3, <3>2
    <3>4. QED
      BY <3>1, <3>3
  <2>5. /\ Older(wrong[i])[a] = IF a = 0 THEN 0 ELSE wrong[i][a - 1]
        /\ Older(failed[i])[a] = IF a = 0 THEN 0 ELSE failed[i][a - 1]
    BY DEF Older
  <2>6. QED
    BY <1>1, <2>2, <2>4, <2>5
<1>4. FewKept'
  <2> SUFFICES ASSUME NEW i \in IPs PROVE Total(Kept(i)') < MaxAttempts
    BY DEF FewKept
  <2>1. Kept(i) \in [Ages -> Nat]
    BY CountTypes
  <2>2. Kept(i)' = Older(Kept(i))
    <3>1. 0 - 1 \notin Ages
      BY WindowAssumption DEF Ages
    <3>2. ASSUME NEW a \in Ages
          PROVE  attempts'[i][a] = IF a = 0 THEN 0 ELSE Kept(i)[a - 1]
      BY <1>3, <3>1 DEF Kept
    <3>3. Kept(i)' = [a \in Ages |-> attempts'[i][a]]
      BY DEF Kept
    <3>4. QED
      BY <3>2, <3>3 DEF Older
  <2>3. /\ Total(Older(Kept(i))) <= Total(Kept(i))
        /\ Total(Older(Kept(i))) \in Nat /\ Total(Kept(i)) \in Nat
    BY <2>1, AgesFinite, TotalOlder, TotalType
  <2>4. QED
    BY <2>2, <2>3, MaxAttemptsAssumption DEF FewKept
<1>5. KeptHappened'
  <2> SUFFICES ASSUME NEW i \in IPs, NEW a \in Ages PROVE attempts'[i][a] <= failed'[i][a]
    BY DEF KeptHappened
  <2>1. failed'[i][a] \in Nat
    BY <1>1
  <2>2. QED
    BY <1>3, <2>1 DEF KeptHappened
<1>6. WrongKept'
  <2> SUFFICES ASSUME NEW i \in IPs, NEW a \in SinceBan(i)'
               PROVE  wrong'[i][a] <= attempts'[i][a]
    BY DEF WrongKept
  <2>1. a \in Ages /\ (bans'[i] = 0 \/ a < BanDuration - bans'[i])
    BY DEF SinceBan
  <2>2. CASE a # 0
    <3>1. a - 1 \in Ages /\ a \in Int /\ a < Window
      BY <1>3, <2>1, <2>2, WindowAssumption DEF Ages
    <3>2. bans[i] = 0 \/ a - 1 < BanDuration - bans[i]
      BY <1>1, <2>1, <3>1, BanAssumption, WindowAssumption
    <3>3. a - 1 \in SinceBan(i)
      BY <3>1, <3>2 DEF SinceBan
    <3>4. QED
      BY <1>3, <2>1, <2>2, <3>3 DEF WrongKept
  <2>3. CASE a = 0
    <3>1. 0 - 1 \notin Ages
      BY WindowAssumption DEF Ages
    <3>2. QED
      BY <1>3, <2>1, <2>3, <3>1
  <2>4. QED
    BY <2>2, <2>3
<1>7. BanBounds'
  <2> SUFFICES ASSUME NEW i \in IPs, bans'[i] > 0
               PROVE  Total(wrong'[i]) + Cardinality(Past(i)') < MaxAttempts + Cardinality(Conns)
    BY DEF BanBounds
  <2>1. bans[i] > 0
    BY <1>1
  <2>2. Past(i)' = Past(i)
    BY DEF Past, Tick
  <2>3. wrong[i] \in [Ages -> Nat]
    BY DEF DoorTypes
  <2>4. /\ Total(wrong'[i]) <= Total(wrong[i])
        /\ Total(wrong'[i]) \in Nat /\ Total(wrong[i]) \in Nat
    BY <1>1, <2>3, AgesFinite, TotalOlder, TotalType
  <2>5. Total(wrong[i]) + Cardinality(Past(i)) < MaxAttempts + Cardinality(Conns)
    BY <2>1 DEF BanBounds
  <2>6. Past(i) \subseteq Conns
    BY DEF Past
  <2>7. Cardinality(Past(i)) \in Nat /\ Cardinality(Conns) \in Nat
    BY <2>6, ConnsFinite, FS_Subset, FS_CardinalityType
  <2>8. QED
    BY <2>2, <2>4, <2>5, <2>7, MaxAttemptsAssumption
<1>8. QED
  BY <1>2, <1>4, <1>5, <1>6, <1>7

\* Every action keeps the invariant, and bans only who has failed often enough.
LEMMA DoorStep ==
  ASSUME DoorInv, [DoorNext]_doorVars
  PROVE  DoorInv' /\ (\A i \in IPs : bans'[i] > bans[i] => Total(failed'[i]) >= MaxAttempts)
<1>a. DoorTypes
  BY DEF DoorInv
<1>b. ASSUME bans' = bans
      PROVE  \A i \in IPs : bans'[i] > bans[i] => Total(failed'[i]) >= MaxAttempts
  <2>1. \A i \in IPs : bans[i] \in Nat
    BY <1>a DEF DoorTypes
  <2>2. QED
    BY <1>b, <2>1
<1>1. ASSUME NEW c \in Conns, NEW i \in IPs, NEW port \in {"tunnel", "ssh"},
             Accept(c, i, port)
      PROVE  DoorInv' /\ bans' = bans
  <2>1. ConnTypes' /\ \A d \in Conns \ {c} : conn'[d] = conn[d]
    BY <1>1, <1>a DEF Accept, DoorTypes, ConnTypes, DoorPCs
  <2>2. conn'[c].pc \notin {"reading", "failing"}
    BY <1>1, <1>a DEF Accept, DoorTypes, ConnTypes
  <2>3. UNCHANGED <<limiterVars, history>>
    BY <1>1 DEF Accept
  <2>4. \A j \in IPs : c \notin Past(j)'
    BY <2>2 DEF Past
  <2>5. QED
    BY <2>1, <2>3, <2>4, QuietStep DEF limiterVars
<1>2. ASSUME NEW c \in Conns, CheckBan(c) PROVE DoorInv' /\ bans' = bans
  <2>1. UNCHANGED <<limiterVars, history>>
    BY <1>2 DEF CheckBan
  <2>2. CASE IsBanned(conn[c].ip)
    <3>1. Leave(c, "tunnel")
      BY <1>2, <2>2 DEF CheckBan
    <3>2. ConnTypes' /\ (\A d \in Conns \ {c} : conn'[d] = conn[d]) /\ conn'[c].pc = "free"
      BY <1>a, <3>1, Leaves
    <3>3. \A j \in IPs : c \notin Past(j)'
      BY <3>2 DEF Past
    <3>4. QED
      BY <2>1, <3>2, <3>3, QuietStep DEF limiterVars
  <2>3. CASE ~IsBanned(conn[c].ip)
    <3>1. Goto(c, "tunnel", "reading") /\ "reading" \in DoorPCs
      BY <1>2, <2>3 DEF CheckBan, DoorPCs
    <3>2. ConnTypes' /\ (\A d \in Conns \ {c} : conn'[d] = conn[d]) /\ conn'[c].ip = conn[c].ip
      BY <1>a, <3>1, GoesOn
    <3>3. \A j \in IPs : bans[j] > 0 /\ c \in Past(j)' => c \in Past(j)
      BY <2>3, <3>2 DEF Past, IsBanned
    <3>4. QED
      BY <2>1, <3>2, <3>3, QuietStep DEF limiterVars
  <2>4. QED
    BY <2>2, <2>3
<1>3. ASSUME NEW c \in Conns, NoAuth(c) \/ SessionEnds(c) \/ SSHEnds(c)
      PROVE  DoorInv' /\ bans' = bans
  <2>1. UNCHANGED <<limiterVars, history>>
    BY <1>3 DEF NoAuth, SessionEnds, SSHEnds
  <2>2. PICK from \in {"reading", "in", "ssh", "sshSigning"} : Leave(c, from)
    BY <1>3 DEF NoAuth, SessionEnds, SSHEnds
  <2>3. ConnTypes' /\ (\A d \in Conns \ {c} : conn'[d] = conn[d]) /\ conn'[c].pc = "free"
    BY <1>a, <2>2, Leaves
  <2>4. \A j \in IPs : c \notin Past(j)'
    BY <2>3 DEF Past
  <2>5. QED
    BY <2>1, <2>3, <2>4, QuietStep DEF limiterVars
<1>4. ASSUME NEW c \in Conns, Auth(c) \/ SSHOffer(c) \/ SSHSigned(c)
      PROVE  DoorInv' /\ bans' = bans
  <2>1. UNCHANGED <<limiterVars, history>>
    BY <1>4 DEF Auth, SSHOffer, SSHSigned
  <2>2. PICK from \in {"reading", "ssh", "sshSigning"},
             to \in {"in", "failing", "passing", "sshFailing", "sshPassing", "sshKeyFound"} :
               Goto(c, from, to) /\ (to = "failing" => from = "reading")
    BY <1>4 DEF Auth, SSHOffer, SSHSigned
  <2>3. to \in DoorPCs
    BY DEF DoorPCs
  <2>4. /\ ConnTypes' /\ \A d \in Conns \ {c} : conn'[d] = conn[d]
        /\ conn[c].pc = from /\ conn'[c].pc = to /\ conn'[c].ip = conn[c].ip
    BY <1>a, <2>2, <2>3, GoesOn
  <2>5. \A j \in IPs : c \in Past(j)' => c \in Past(j)
    BY <2>2, <2>4 DEF Past
  <2>6. QED
    BY <2>1, <2>4, <2>5, QuietStep DEF limiterVars
<1>5. ASSUME NEW c \in Conns, Fail(c)
      PROVE  /\ DoorInv'
             /\ \A i \in IPs : bans'[i] > bans[i] => Total(failed'[i]) >= MaxAttempts
  <2>1. Leave(c, "failing") /\ RecordFailure(conn[c].ip) /\ Failed(conn[c].ip)
        /\ wrong' = [wrong EXCEPT ![conn[c].ip][0] = @ + 1]
    BY <1>5 DEF Fail
  <2>2. /\ ConnTypes' /\ \A d \in Conns \ {c} : conn'[d] = conn[d]
        /\ conn[c].pc = "failing" /\ conn'[c].pc = "free" /\ conn[c].ip \in IPs
    BY <1>a, <2>1, Leaves
  <2>3. c \in Past(conn[c].ip) /\ \A j \in IPs : c \notin Past(j)'
    BY <2>2 DEF Past
  <2>4. QED
    BY <2>1, <2>2, <2>3, FailStep
<1>6. ASSUME NEW c \in Conns, SSHFail(c)
      PROVE  /\ DoorInv'
             /\ \A i \in IPs : bans'[i] > bans[i] => Total(failed'[i]) >= MaxAttempts
  <2>1. Goto(c, "sshFailing", "ssh") /\ "ssh" \in DoorPCs
        /\ RecordFailure(conn[c].ip) /\ Failed(conn[c].ip) /\ wrong' = wrong
    BY <1>6 DEF SSHFail, DoorPCs
  <2>2. /\ ConnTypes' /\ \A d \in Conns \ {c} : conn'[d] = conn[d]
        /\ conn'[c].pc = "ssh" /\ conn[c].ip \in IPs
    BY <1>a, <2>1, GoesOn
  <2>3. \A j \in IPs : c \notin Past(j)'
    BY <2>2 DEF Past
  <2>4. QED
    BY <2>1, <2>2, <2>3, FailStep
<1>7. ASSUME NEW c \in Conns, Pass(c) \/ SSHPass(c) \/ SSHKeyFound(c)
      PROVE  /\ DoorInv'
             /\ \A i \in IPs : bans'[i] > bans[i] => Total(failed'[i]) >= MaxAttempts
  <2>1. Reset(conn[c].ip) /\ Forgiven(conn[c].ip)
    BY <1>7 DEF Pass, SSHPass, SSHKeyFound
  <2>2. PICK from \in {"passing", "sshPassing", "sshKeyFound"}, to \in {"in", "sshSigning"} :
          Goto(c, from, to)
    BY <1>7 DEF Pass, SSHPass, SSHKeyFound
  <2>3. to \in DoorPCs
    BY DEF DoorPCs
  <2>4. /\ ConnTypes' /\ \A d \in Conns \ {c} : conn'[d] = conn[d]
        /\ conn'[c].pc = to /\ conn[c].ip \in IPs
    BY <1>a, <2>2, <2>3, GoesOn
  <2>5. \A j \in IPs : c \notin Past(j)'
    BY <2>4 DEF Past
  <2>6. DoorInv'
    BY <2>1, <2>4, <2>5, PassStep
  <2>7. \A i \in IPs : ~(bans'[i] > bans[i])
    BY <1>a, <2>1 DEF Reset, DoorTypes
  <2>8. QED
    BY <2>6, <2>7
<1>8. CASE Tick
  <2>1. DoorInv'
    BY <1>8, TickStep
  <2>2. ASSUME NEW i \in IPs PROVE ~(bans'[i] > bans[i])
    <3>1. bans[i] \in Nat /\ bans'[i] = IF bans[i] > 0 THEN bans[i] - 1 ELSE 0
      BY <1>8, <1>a DEF Tick, DoorTypes
    <3>2. QED
      BY <3>1
  <2>3. QED
    BY <2>1, <2>2
<1>9. ASSUME UNCHANGED <<limiterVars, conn, history>> PROVE DoorInv' /\ bans' = bans
  <2>1. UNCHANGED <<attempts, bans, conn, wrong, failed>>
    BY <1>9 DEF limiterVars, history
  <2>2. DoorTypes' /\ FewKept' /\ KeptHappened' /\ WrongKept' /\ BanBounds'
    BY <2>1 DEF DoorInv, DoorTypes, ConnTypes, FewKept, Kept, KeptHappened, WrongKept,
                SinceBan, BanBounds, Past
  <2>3. QED
    BY <2>1, <2>2 DEF DoorInv
<1>10. (\E i \in IPs : EditWhitelist(i)) \/ UNCHANGED doorVars =>
         UNCHANGED <<limiterVars, conn, history>>
  BY DEF EditWhitelist, doorVars, limiterVars, history
<1>11. QED
  BY <1>b, <1>1, <1>2, <1>3, <1>4, <1>5, <1>6, <1>7, <1>8, <1>9, <1>10 DEF DoorNext, ConnStep

\* The invariant holds in every reachable state.
LEMMA DoorInvAlways == DoorSpec => []DoorInv
<1>1. DoorInit => DoorInv
  <2> SUFFICES ASSUME DoorInit PROVE DoorInv
    OBVIOUS
  <2>1. /\ NoneYet \in [Ages -> Nat] /\ NoAttempts \in [0..Window -> Nat]
        /\ \A a \in Ages : NoneYet[a] = 0 /\ NoAttempts[a] = 0
    BY WindowAssumption DEF NoneYet, NoAttempts, Ages
  <2>2. DoorTypes
    <3>1. Free \in [pc : DoorPCs, ip : IPs \union {Free.ip}] /\ Free.pc = "free"
      BY DEF Free, DoorPCs
    <3>2. ConnTypes
      BY <3>1 DEF DoorInit, ConnTypes
    <3>3. QED
      BY <2>1, <3>2, BanAssumption DEF DoorInit, DoorTypes
  <2>3. FewKept
    <3> SUFFICES ASSUME NEW i \in IPs PROVE Total(Kept(i)) < MaxAttempts
      BY DEF FewKept
    <3>1. Kept(i) \in [Ages -> Nat] /\ \A a \in Ages : Kept(i)[a] = 0
      BY <2>1 DEF DoorInit, Kept
    <3>2. Units(Kept(i)) = {}
      <4>1. ASSUME NEW p \in Units(Kept(i)) PROVE FALSE
        <5>1. PICK a \in Ages, n \in Nat : n \in 1..Kept(i)[a] /\ p = <<a, n>>
          BY <3>1, UnitsMembers
        <5>2. QED
          BY <3>1, <5>1
      <4>2. QED
        BY <4>1
    <3>3. QED
      BY <3>2, FS_EmptySet, MaxAttemptsAssumption DEF Total
  <2>4. KeptHappened /\ WrongKept
    BY <2>1 DEF DoorInit, KeptHappened, WrongKept, SinceBan
  <2>5. BanBounds
    BY DEF DoorInit, BanBounds
  <2>6. QED
    BY <2>2, <2>3, <2>4, <2>5 DEF DoorInv
<1>2. DoorInv /\ [DoorNext]_doorVars => DoorInv'
  BY DoorStep
<1>3. QED
  BY <1>1, <1>2, PTL DEF DoorSpec

\* "RateLimiter blocks IPs that fail authentication too many times" (ratelimit.go): however
\* many connections an address has open when the ban comes, and however often it is banned
\* again, its wrong tokens within a window stay below the bound, counted since the limiter
\* was last reset for it by a valid token or by the name of an authorised SSH key.
THEOREM RateBoundAlways == DoorSpec => []RateBound
<1>1. DoorInv => RateBound
  <2> SUFFICES ASSUME DoorInv, NEW i \in IPs
               PROVE  Total(wrong[i]) <= MaxAttempts + Cardinality(Conns) - 1
    BY DEF RateBound
  <2>1. Total(wrong[i]) \in Nat /\ (bans[i] = 0 => Total(wrong[i]) < MaxAttempts)
    BY FewWrong DEF DoorInv
  <2>2. bans[i] > 0 =>
          Total(wrong[i]) + Cardinality(Past(i)) < MaxAttempts + Cardinality(Conns)
    BY DEF DoorInv, BanBounds
  <2>3. Past(i) \subseteq Conns
    BY DEF Past
  <2>4. Cardinality(Past(i)) \in Nat /\ Cardinality(Conns) \in Nat
    BY <2>3, ConnsFinite, FS_Subset, FS_CardinalityType
  <2>5. bans[i] = 0 \/ bans[i] > 0
    BY DEF DoorInv, DoorTypes
  <2>6. QED
    BY <2>1, <2>2, <2>4, <2>5, MaxAttemptsAssumption
<1>2. QED
  BY <1>1, DoorInvAlways, PTL

\* RecordFailure "bans if threshold exceeded": no step of any connection, at the tunnel
\* port or at the SSH port, begins or prolongs a ban that the failures of the window since
\* the last reset do not deserve.
THEOREM BanJustifiedAlways == DoorSpec => BanJustified
<1>1. DoorInv /\ [DoorNext]_doorVars =>
        [\A i \in IPs : bans'[i] > bans[i] => Total(failed'[i]) >= MaxAttempts]_doorVars
  BY DoorStep
<1>2. QED
  BY <1>1, DoorInvAlways, PTL DEF DoorSpec, BanJustified

-----------------------------------------------------------------------------
(* PacketFilter: what a client can reach.                                  *)

\* What OnlyLabelledReached says of an address, a protocol and a port.
Reachable(ip, proto, port) ==
    \/ [ip |-> ip, proto |-> proto, port |-> port] \in Pairs(labelled)
    \/ ip = DNS /\ port = 53
    \/ ip = Self /\ proto = "tcp" /\ port = APIPort

\* client stays a record with the fields of Off.
ClientShape ==
    client = [pc |-> client.pc, routes |-> client.routes, proto |-> client.proto,
              ip |-> client.ip, port |-> client.port]

\* A list that watchExposed has been given, and the one in force, name only Services that
\* have been labelled, even if they no longer are.
ListsLabelled ==
    /\ cluster \subseteq labelled
    /\ watch.list \subseteq Pairs(labelled)
    /\ allow \subseteq Pairs(labelled)

\* The inductive invariant: besides the lists, what a proxy stream has checked and not
\* dialled yet is reachable.
ReachInv ==
    /\ ClientShape
    /\ ListsLabelled
    /\ client.pc \in {"awaiting", "answered", "checked", "dialled"} =>
         Reachable(client.ip, client.proto, client.port)

\* parseServices of more Services lists no pair less.
LEMMA PairsMonotone ==
  ASSUME NEW S, NEW T, S \subseteq T
  PROVE  Pairs(S) \subseteq Pairs(T)
  BY DEF Pairs

\* What the allow-list lets through is reachable while the list is labelled.
LEMMA AllowedReachable ==
  ASSUME NEW ip, NEW proto, NEW port, ListsLabelled, Allowed(ip, proto, port)
  PROVE  Reachable(ip, proto, port)
  BY DEF Allowed, Reachable, ListsLabelled

\* A step of the client keeps the invariant when what it holds is reachable afterwards.
LEMMA ClientStep ==
  ASSUME ReachInv, UNCHANGED exposeVars, ClientShape',
         client'.pc \in {"awaiting", "answered", "checked", "dialled"} =>
           Reachable(client'.ip, client'.proto, client'.port)
  PROVE  ReachInv'
  BY DEF ReachInv, ListsLabelled, Reachable, exposeVars

\* Every action keeps the invariant.
LEMMA ReachStep == ReachInv /\ [Next]_vars => ReachInv'
<1> SUFFICES ASSUME ReachInv, [Next]_vars PROVE ReachInv'
  OBVIOUS
<1>1. CASE RefreshAsks \/ RefreshAnswered \/ RefreshFails \/ RefreshSets
  <2>1. UNCHANGED <<cluster, labelled, client>>
    BY <1>1 DEF RefreshAsks, RefreshAnswered, RefreshFails, RefreshSets
  <2>2. Pairs(cluster) \subseteq Pairs(labelled)
    BY PairsMonotone DEF ReachInv, ListsLabelled
  <2>3. watch'.list \in {{}, Pairs(cluster)} /\ allow' \in {allow, watch.list}
    BY <1>1 DEF RefreshAsks, RefreshAnswered, RefreshFails, RefreshSets
  <2>4. Pairs(labelled)' = Pairs(labelled)
    BY <2>1 DEF Pairs
  <2>5. QED
    BY <2>1, <2>2, <2>3, <2>4 DEF ReachInv, ListsLabelled, ClientShape, Reachable
<1>2. ASSUME NEW s \in Services, ClusterChanges(s) PROVE ReachInv'
  <2>1. cluster' \subseteq labelled' /\ labelled \subseteq labelled'
    BY <1>2 DEF ClusterChanges, ReachInv, ListsLabelled
  <2>2. Pairs(labelled) \subseteq Pairs(labelled')
    BY <2>1, PairsMonotone
  <2>3. QED
    BY <1>2, <2>1, <2>2
       DEF ClusterChanges, ReachInv, ListsLabelled, ClientShape, Reachable
<1>3. CASE Connect \/ ConnectProxy \/ Disconnect \/ Done \/ StreamEnds
  <2>1. UNCHANGED exposeVars
    BY <1>3 DEF Connect, ConnectProxy, Disconnect, Done, StreamEnds
  <2>2. client'.pc \in {"up", "idle", "off"} /\ ClientShape'
    <3>1. CASE Connect
      BY <3>1 DEF Connect, Off, ClientShape
    <3>2. CASE ConnectProxy \/ StreamEnds
      BY <3>2 DEF ConnectProxy, StreamEnds, Off, ClientShape
    <3>3. CASE Disconnect
      BY <3>3 DEF Disconnect, Off, ClientShape
    <3>4. CASE Done
      BY <3>4 DEF Done, Off, ClientShape
    <3>5. QED
      BY <1>3, <3>1, <3>2, <3>3, <3>4
  <2>3. QED
    BY <2>1, <2>2, ClientStep
<1>4. ASSUME NEW ip \in IPv4, NEW proto \in Protos, NEW port \in DialPorts,
             NEW first \in BOOLEAN, Request(ip, proto, port, first)
      PROVE ReachInv'
  <2>1. Allowed(ip, proto, port)
    BY <1>4 DEF Request, AllowPacket
  <2>2. Reachable(ip, proto, port)
    BY <2>1, AllowedReachable DEF ReachInv
  <2>3. QED
    BY <1>4, <2>2, ClientStep DEF Request, ReachInv, ClientShape
<1>5. ASSUME NEW hosts, NEW port \in DialPorts, ResolveTarget(hosts, port) PROVE ReachInv'
  <2> PICK ip \in hosts \intersect IPv4 :
         /\ Allowed(ip, "tcp", port)
         /\ client' = [client EXCEPT !.pc = "checked", !.proto = "tcp", !.ip = ip, !.port = port]
    BY <1>5 DEF ResolveTarget
  <2>1. Reachable(ip, "tcp", port)
    BY AllowedReachable DEF ReachInv
  <2>2. QED
    BY <1>5, <2>1, ClientStep DEF ResolveTarget, ReachInv, ClientShape
<1>6. CASE Reply \/ DialTarget
  BY <1>6, ClientStep DEF Reply, DialTarget, ReachInv, ClientShape
<1>7. CASE UNCHANGED <<exposeVars, client>>
  BY <1>7, ClientStep DEF ReachInv, ClientShape
<1>8. QED
  BY <1>1, <1>2, <1>3, <1>4, <1>5, <1>6, <1>7
     DEF Next, Refresh, Reload, Tunnel, Proxy, Environment, Edit, Sighup, ReloadReads,
         ReloadStores, vars

\* "only Services labelled ... are reachable": whatever the DNS answers between check and
\* dial, and however the labels change while a list is being read, a packet or stream of a
\* client goes to a Service that has been labelled, the cluster DNS or the server's API.
THEOREM OnlyLabelledReachedAlways == Spec => []OnlyLabelledReached
<1>1. Init => ReachInv
  BY DEF Init, ReachInv, ClientShape, ListsLabelled, Off
<1>2. ReachInv => OnlyLabelledReached
  BY DEF ReachInv, OnlyLabelledReached, Reachable
<1>3. QED
  BY <1>1, <1>2, ReachStep, PTL DEF Spec
=============================================================================
