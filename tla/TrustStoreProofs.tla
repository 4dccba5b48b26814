-------------------------- MODULE TrustStoreProofs --------------------------
(***************************************************************************)
(* What a connection was agreed on, and pins that stay, proved for every   *)
(* number of connect commands, servers, certificates and profiles.         *)
(***************************************************************************)
EXTENDS TrustStore, TLAPS

Pins == [Servers -> Certs \union {None}]
ProfileLists == [Profiles -> AProfile \union {None}]
Processes == [pc : {"idle", "dialing", "fetching", "asking", "verifying", "up"},
              addr : Servers \union {None}, fp : Certs \union {None},
              peer : Certs \union {None}, kh : Pins,
              name : Profiles \union {None}, want : Certs \union {None},
              missed : SUBSET Servers]

\* Types of the variables.
TrustTypes ==
    /\ cert \in [Servers -> Certs]
    /\ hosts \in Pins \union {Garbled}
    /\ profiles \in ProfileLists \union {Garbled}
    /\ proc \in [Procs -> Processes]
    /\ \A p \in Procs : proc[p].pc # "idle" => proc[p].addr \in Servers
    /\ \A p \in Procs : proc[p].pc = "asking" => proc[p].fp \in Certs
    /\ agreed \in [Servers -> SUBSET Certs]
    /\ expected \subseteq Servers

\* Every pin of the list was agreed on for its server.
Agreed(pins) == \A a \in Servers : pins[a] \in agreed[a] \union {None}

\* known_hosts.yaml holds pins that were agreed on, the expected ones among them.
FileSound ==
    /\ Agreed(KnownHosts)
    /\ \A a \in expected : KnownHosts[a] # None

\* What process p goes by at each stage.  A profile's fingerprint that is not overruled is
\* the pin in the file, so with one the user is never asked.  The list kept meanwhile is one
\* of agreed pins and lacks only expected ones that others wrote since.  The fingerprint to
\* verify is agreed, and the certificate of a connection is that one, or a CA's.
ProcSound(p) ==
    /\ proc[p].pc # "idle" => (proc[p].want # None => KnownHosts[proc[p].addr] = proc[p].want)
    /\ proc[p].pc = "dialing" => proc[p].fp = None
    /\ KeepsList(p) =>
         /\ proc[p].want = None
         /\ Agreed(proc[p].kh)
         /\ \A a \in expected \ proc[p].missed : proc[p].kh[a] # None
    /\ proc[p].pc = "verifying" =>
         /\ proc[p].fp \in agreed[proc[p].addr]
         /\ proc[p].want # None => proc[p].fp = proc[p].want
    /\ proc[p].pc = "up" =>
         /\ \/ proc[p].peer \in agreed[proc[p].addr]
            \/ proc[p].fp = None /\ proc[p].peer \in CASigned
         /\ proc[p].want # None => proc[p].peer = proc[p].want

\* The inductive invariant.
TrustInv == TrustTypes /\ FileSound /\ \A p \in Procs : ProcSound(p)

-----------------------------------------------------------------------------
(* Types.                                                                  *)

\* The process that waits for a command is a process.
LEMMA IdleProcess == NoPins \in Pins /\ Idle \in Processes /\ Idle.pc = "idle"
  BY DEF NoPins, Pins, Idle, Processes

\* loadKnownHosts returns a list of pins, whatever is in the file.
LEMMA KnownPins == TrustTypes => KnownHosts \in Pins
  BY IdleProcess DEF TrustTypes, KnownHosts

\* SavePin keeps the types of what it writes.
LEMMA SavePinType ==
  ASSUME TrustTypes, NEW p \in Procs, NEW kh \in Pins, NEW a \in Servers, NEW fp \in Certs,
         SavePin(p, kh, a, fp)
  PROVE  /\ hosts' = [kh EXCEPT ![a] = fp] /\ hosts' \in Pins
         /\ agreed' = [agreed EXCEPT ![a] = @ \union {fp}]
         /\ agreed' \in [Servers -> SUBSET Certs]
         /\ expected' = (expected \ proc[p].missed) \union {a}
         /\ expected' \subseteq Servers
  BY DEF SavePin, Pinned, TrustTypes, Pins

-----------------------------------------------------------------------------
(* Steps.                                                                  *)

\* A step of process p that leaves known_hosts.yaml alone.
LEMMA OwnStep ==
  ASSUME TrustInv, NEW p \in Procs, NEW me \in Processes, proc' = [proc EXCEPT ![p] = me],
         UNCHANGED <<cert, hosts, expected>>, profiles' \in ProfileLists \union {Garbled},
         agreed' \in [Servers -> SUBSET Certs],
         \A a \in Servers : agreed[a] \subseteq agreed'[a],
         me.pc # "idle" => me.addr \in Servers,
         me.pc = "asking" => me.fp \in Certs,
         ProcSound(p)'
  PROVE  TrustInv'
<1>1. proc'[p] = me /\ \A q \in Procs \ {p} : proc'[q] = proc[q]
  BY DEF TrustInv, TrustTypes
<1>2. TrustTypes'
  BY <1>1 DEF TrustInv, TrustTypes
<1>3. KnownHosts' = KnownHosts
  BY DEF KnownHosts
<1>4. \A pins : Agreed(pins) => Agreed(pins)'
  BY DEF Agreed
<1>5. FileSound'
  BY <1>3, <1>4 DEF TrustInv, FileSound, Agreed
<1>6. ASSUME NEW q \in Procs, q # p PROVE ProcSound(q)'
  <2>1. ProcSound(q) /\ proc'[q] = proc[q]
    BY <1>1, <1>6 DEF TrustInv
  <2>2. proc[q].pc # "idle" => agreed[proc[q].addr] \subseteq agreed'[proc[q].addr]
    BY DEF TrustInv, TrustTypes
  <2>3. QED
    BY <1>3, <2>1, <2>2 DEF ProcSound, KeepsList, Agreed
<1>7. QED
  BY <1>2, <1>5, <1>6 DEF TrustInv

\* A step of process p that writes the list kh with its pin for server a: kh was agreed on
\* and has every expected pin but those p knows it has missed.
LEMMA PinStep ==
  ASSUME TrustInv, NEW p \in Procs, NEW me \in Processes, NEW kh \in Pins,
         NEW a \in Servers, NEW fp \in Certs, SavePin(p, kh, a, fp),
         proc' = [q \in Procs |-> IF q = p THEN me ELSE Overtaken(q, a, hosts')],
         UNCHANGED <<cert, profiles>>,
         Agreed(kh), \A b \in expected \ proc[p].missed : kh[b] # None,
         me.addr = a,
         \/ me.pc = "dialing" /\ me.fp = None /\ me.want \in {fp, None}
         \/ me.pc = "verifying" /\ me.fp = fp /\ me.want = None
  PROVE  TrustInv'
<1>1. /\ hosts' = [kh EXCEPT ![a] = fp] /\ hosts' \in Pins
      /\ agreed' = [agreed EXCEPT ![a] = @ \union {fp}]
      /\ agreed' \in [Servers -> SUBSET Certs]
      /\ expected' = (expected \ proc[p].missed) \union {a}
      /\ expected' \subseteq Servers
  BY SavePinType DEF TrustInv
<1>2. hosts'[a] = fp /\ \A b \in Servers \ {a} : hosts'[b] = kh[b]
  BY <1>1 DEF Pins
<1>3. KnownHosts' = hosts'
  BY <1>1, GarbledAssumption DEF KnownHosts, Pins
<1>4. \A b \in Servers : agreed[b] \subseteq agreed'[b]
  BY <1>1 DEF TrustInv, TrustTypes
<1>5. fp \in agreed'[a]
  BY <1>1 DEF TrustInv, TrustTypes
<1>6. proc'[p] = me /\ \A q \in Procs \ {p} : proc'[q] = Overtaken(q, a, hosts')
  OBVIOUS
<1>7. ASSUME NEW q \in Procs, q # p
       PROVE  /\ proc'[q].pc = proc[q].pc /\ proc'[q].addr = proc[q].addr
              /\ proc'[q].fp = proc[q].fp /\ proc'[q].peer = proc[q].peer
              /\ proc'[q].kh = proc[q].kh
              /\ KeepsList(q) => proc'[q].missed = proc[q].missed \union {a}
              /\ proc'[q].want \in {None, proc[q].want}
              /\ proc[q].pc # "idle" /\ proc'[q].want # None =>
                   hosts'[proc[q].addr] = proc'[q].want
              /\ proc'[q] \in Processes
  <2>1. proc'[q] = Overtaken(q, a, hosts')
    BY <1>6, <1>7
  <2>2. TrustTypes
    BY DEF TrustInv
  <2>3. QED
    BY <2>1, <2>2 DEF Overtaken, StillWanted, KeepsList, TrustTypes, Processes
<1>8. TrustTypes'
  <2>1. proc' \in [Procs -> Processes]
    BY <1>6, <1>7
  <2>2. \A q \in Procs : proc'[q].pc # "idle" => proc'[q].addr \in Servers
    BY <1>6, <1>7 DEF TrustInv, TrustTypes
  <2>3. \A q \in Procs : proc'[q].pc = "asking" => proc'[q].fp \in Certs
    BY <1>6, <1>7 DEF TrustInv, TrustTypes
  <2>4. QED
    BY <1>1, <2>1, <2>2, <2>3 DEF TrustInv, TrustTypes
<1>9. FileSound'
  <2>1. \A b \in Servers : KnownHosts'[b] \in agreed'[b] \union {None}
    BY <1>2, <1>3, <1>4, <1>5 DEF Agreed
  <2>2. \A b \in expected' : KnownHosts'[b] # None
    BY <1>1, <1>2, <1>3, NoneAssumption
  <2>3. QED
    BY <2>1, <2>2 DEF FileSound, Agreed
<1>10. ProcSound(p)'
  BY <1>2, <1>3, <1>5, <1>6 DEF ProcSound, KeepsList
<1>11. ASSUME NEW q \in Procs, q # p PROVE ProcSound(q)'
  <2>1. /\ proc'[q].pc = proc[q].pc /\ proc'[q].addr = proc[q].addr
        /\ proc'[q].fp = proc[q].fp /\ proc'[q].peer = proc[q].peer
        /\ proc'[q].kh = proc[q].kh
        /\ KeepsList(q) => proc'[q].missed = proc[q].missed \union {a}
        /\ proc'[q].want \in {None, proc[q].want}
        /\ proc[q].pc # "idle" /\ proc'[q].want # None =>
             hosts'[proc[q].addr] = proc'[q].want
    BY <1>11, <1>7
  <2>2. ProcSound(q)
    BY DEF TrustInv
  <2>3. CASE proc[q].pc \in {"idle", "dialing"}
    BY <1>3, <2>1, <2>2, <2>3 DEF ProcSound, KeepsList
  <2>4. CASE KeepsList(q)
    <3>1. Agreed(proc[q].kh)'
      BY <1>4, <2>1, <2>2, <2>4 DEF ProcSound, Agreed
    <3>2. \A b \in expected' \ proc'[q].missed : proc'[q].kh[b] # None
      <4>1. \A b \in expected \ proc[q].missed : proc[q].kh[b] # None
        BY <2>2, <2>4 DEF ProcSound
      <4>2. proc'[q].missed = proc[q].missed \union {a} /\ proc'[q].kh = proc[q].kh
        BY <2>1, <2>4
      <4>3. QED
        BY <1>1, <4>1, <4>2
    <3>3. QED
      BY <2>1, <2>2, <2>4, <3>1, <3>2 DEF ProcSound, KeepsList
  <2>5. CASE proc[q].pc \in {"verifying", "up"}
    <3>1. agreed[proc[q].addr] \subseteq agreed'[proc[q].addr]
      BY <1>4, <2>5 DEF TrustInv, TrustTypes
    <3>2. QED
      BY <1>3, <2>1, <2>2, <2>5, <3>1 DEF ProcSound, KeepsList
  <2>6. QED
    BY <2>3, <2>4, <2>5 DEF TrustInv, TrustTypes, Processes, KeepsList
<1>12. QED
  BY <1>8, <1>9, <1>10, <1>11 DEF TrustInv

\* Every action keeps the invariant.
LEMMA TrustStep == TrustInv /\ [Next]_vars => TrustInv'
<1> SUFFICES ASSUME TrustInv, [Next]_vars PROVE TrustInv'
  OBVIOUS
<1>a. /\ TrustTypes /\ KnownHosts \in Pins /\ FileSound
      /\ \A p \in Procs : ProcSound(p) /\ proc[p] \in Processes
  BY KnownPins DEF TrustInv, TrustTypes
<1>1. ASSUME NEW p \in Procs, NEW a \in Servers, NEW n \in Profiles \union {None},
             ConnectTo(p, a, n)
      PROVE TrustInv'
  <2> DEFINE me == [Idle EXCEPT !.pc = "dialing", !.addr = a, !.name = n]
  <2>1. me \in Processes /\ me.pc = "dialing" /\ me.addr = a /\ me.fp = None /\ me.want = None
    BY IdleProcess DEF Processes, Idle
  <2>2. proc' = [proc EXCEPT ![p] = me] /\ UNCHANGED <<cert, hosts, profiles, agreed, expected>>
    BY <1>1 DEF ConnectTo
  <2> HIDE DEF me
  <2>3. ProcSound(p)'
    BY <1>a, <2>1, <2>2 DEF ProcSound, KeepsList, TrustTypes
  <2>4. QED
    BY <1>a, <2>1, <2>2, <2>3, OwnStep DEF TrustTypes
<1>2. ASSUME NEW p \in Procs, NEW n \in Profiles, ConnectBy(p, n) PROVE TrustInv'
  <2> DEFINE a == profiles[n].host
             fp == profiles[n].fingerprint
             me == [Idle EXCEPT !.pc = "dialing", !.addr = a, !.want = fp]
  <2>1. a \in Servers /\ fp \in Certs \union {None}
    BY <1>2, <1>a DEF ConnectBy, TrustTypes, ProfileLists, AProfile
  <2>2. me \in Processes /\ me.pc = "dialing" /\ me.addr = a /\ me.fp = None /\ me.want = fp
    BY <2>1, IdleProcess DEF Processes, Idle
  <2>3. UNCHANGED <<cert, profiles>>
    BY <1>2 DEF ConnectBy
  <2>4. CASE fp = None \/ KnownHosts[a] = fp
    <3>1. /\ proc' = [proc EXCEPT ![p] = me] /\ UNCHANGED <<hosts, expected>>
          /\ agreed' = [agreed EXCEPT ![a] = @ \union ({fp} \ {None})]
      BY <1>2, <2>4 DEF ConnectBy
    <3> HIDE DEF me, fp, a
    <3>2. /\ agreed' \in [Servers -> SUBSET Certs]
          /\ \A b \in Servers : agreed[b] \subseteq agreed'[b]
      BY <1>a, <2>1, <3>1 DEF TrustTypes
    <3>3. KnownHosts' = KnownHosts
      BY <3>1 DEF KnownHosts
    <3>4. ProcSound(p)'
      BY <1>a, <2>2, <2>4, <3>1, <3>3 DEF ProcSound, KeepsList, TrustTypes
    <3>5. QED
      BY <1>a, <2>1, <2>2, <2>3, <3>1, <3>2, <3>4, OwnStep DEF TrustTypes
  <2>5. CASE ~(fp = None \/ KnownHosts[a] = fp)
    <3>1. /\ SavePin(p, KnownHosts, a, fp)
          /\ proc' = [q \in Procs |-> IF q = p THEN me ELSE Overtaken(q, a, hosts')]
      BY <1>2, <2>5 DEF ConnectBy
    <3> HIDE DEF me, fp, a
    <3>2. Agreed(KnownHosts) /\ \A b \in expected \ proc[p].missed : KnownHosts[b] # None
      BY <1>a DEF FileSound
    <3>3. QED
      BY <1>a, <2>1, <2>2, <2>3, <2>5, <3>1, <3>2, PinStep
  <2>6. QED
    BY <2>4, <2>5
<1>3. ASSUME NEW p \in Procs, DialPinned(p) PROVE TrustInv'
  <2> DEFINE pin == KnownHosts[proc[p].addr]
             me == [proc[p] EXCEPT !.pc = "verifying", !.fp = pin]
  <2>1. proc[p].pc = "dialing" /\ pin # None /\ proc[p].addr \in Servers
    BY <1>3, <1>a DEF DialPinned, TrustTypes
  <2>2. pin \in Certs /\ pin \in agreed[proc[p].addr]
    BY <1>a, <2>1 DEF Pins, FileSound, Agreed
  <2>3. /\ proc' = [proc EXCEPT ![p].pc = "verifying", ![p].fp = pin]
        /\ UNCHANGED <<cert, hosts, profiles, agreed, expected>>
    BY <1>3 DEF DialPinned
  <2>4. /\ proc[p].want # None => pin = proc[p].want
        /\ KnownHosts'[proc[p].addr] = pin
    BY <1>a, <2>1, <2>3 DEF ProcSound, KnownHosts
  <2> HIDE DEF pin
  <2>5. proc' = [proc EXCEPT ![p] = me]
    BY <1>a, <2>3 DEF TrustTypes
  <2>6. /\ me \in Processes /\ me.pc = "verifying" /\ me.addr = proc[p].addr /\ me.fp = pin
        /\ me.want = proc[p].want
    BY <1>a, <2>2 DEF Processes
  <2> HIDE DEF me
  <2>7. ProcSound(p)'
    BY <1>a, <2>2, <2>3, <2>4, <2>5, <2>6 DEF ProcSound, KeepsList, TrustTypes
  <2>8. QED
    BY <1>a, <2>1, <2>3, <2>5, <2>6, <2>7, OwnStep DEF TrustTypes
<1>4. ASSUME NEW p \in Procs, DialCA(p) PROVE TrustInv'
  <2> DEFINE c == cert[proc[p].addr]
             me == [proc[p] EXCEPT !.pc = "up", !.peer = c]
  <2>1. /\ proc[p].pc = "dialing" /\ KnownHosts[proc[p].addr] = None /\ c \in CASigned
        /\ proc' = [proc EXCEPT ![p].pc = "up", ![p].peer = c]
        /\ UNCHANGED <<cert, hosts, profiles, agreed, expected>>
    BY <1>4 DEF DialCA
  <2>2. proc[p].fp = None /\ proc[p].want = None /\ proc[p].addr \in Servers /\ c \in Certs
    BY <1>a, <2>1 DEF ProcSound, KeepsList, TrustTypes
  <2> HIDE DEF c
  <2>3. proc' = [proc EXCEPT ![p] = me]
    BY <1>a, <2>1 DEF TrustTypes
  <2>4. /\ me \in Processes /\ me.pc = "up" /\ me.addr = proc[p].addr /\ me.fp = None
        /\ me.want = None /\ me.peer = c
    BY <1>a, <2>2 DEF Processes
  <2> HIDE DEF me
  <2>5. ProcSound(p)'
    BY <1>a, <2>1, <2>3, <2>4 DEF ProcSound, KeepsList, TrustTypes
  <2>6. QED
    BY <1>a, <2>1, <2>2, <2>3, <2>4, <2>5, OwnStep DEF TrustTypes
<1>5. ASSUME NEW p \in Procs, DialUntrusted(p) PROVE TrustInv'
  <2> DEFINE me == [proc[p] EXCEPT !.pc = "fetching", !.kh = KnownHosts]
  <2>1. /\ proc[p].pc = "dialing" /\ KnownHosts[proc[p].addr] = None
        /\ proc' = [proc EXCEPT ![p].pc = "fetching", ![p].kh = KnownHosts]
        /\ UNCHANGED <<cert, hosts, profiles, agreed, expected>>
    BY <1>5 DEF DialUntrusted
  <2>2. proc[p].want = None /\ proc[p].addr \in Servers
    BY <1>a, <2>1 DEF ProcSound, KeepsList, TrustTypes
  <2>3. proc' = [proc EXCEPT ![p] = me]
    BY <1>a, <2>1 DEF TrustTypes
  <2>4. /\ me \in Processes /\ me.pc = "fetching" /\ me.addr = proc[p].addr
        /\ me.kh = KnownHosts /\ me.want = None
    BY <1>a, <2>2 DEF Processes
  <2> HIDE DEF me
  <2>5. ProcSound(p)'
    BY <1>a, <2>1, <2>3, <2>4 DEF ProcSound, KeepsList, FileSound, Agreed, TrustTypes
  <2>6. QED
    BY <1>a, <2>1, <2>2, <2>3, <2>4, <2>5, OwnStep DEF TrustTypes
<1>f. ASSUME NEW p \in Procs, Fetch(p) PROVE TrustInv'
  <2> DEFINE c == cert[proc[p].addr]
             me == [proc[p] EXCEPT !.pc = "asking", !.fp = c]
  <2>1. /\ proc[p].pc = "fetching" /\ proc' = [proc EXCEPT ![p].pc = "asking", ![p].fp = c]
        /\ UNCHANGED <<cert, hosts, profiles, agreed, expected>>
    BY <1>f DEF Fetch
  <2>2. proc[p].want = None /\ proc[p].addr \in Servers /\ c \in Certs
    BY <1>a, <2>1 DEF ProcSound, KeepsList, TrustTypes
  <2> HIDE DEF c
  <2>3. proc' = [proc EXCEPT ![p] = me]
    BY <1>a, <2>1 DEF TrustTypes
  <2>4. /\ me \in Processes /\ me.pc = "asking" /\ me.addr = proc[p].addr /\ me.fp = c
        /\ me.kh = proc[p].kh /\ me.missed = proc[p].missed /\ me.want = None
    BY <1>a, <2>2 DEF Processes
  <2> HIDE DEF me
  <2>5. ProcSound(p)'
    BY <1>a, <2>1, <2>3, <2>4 DEF ProcSound, KeepsList, Agreed, TrustTypes
  <2>6. QED
    BY <1>a, <2>1, <2>2, <2>3, <2>4, <2>5, OwnStep DEF TrustTypes
<1>6. ASSUME NEW p \in Procs, Agree(p) PROVE TrustInv'
  <2> DEFINE me == [proc[p] EXCEPT !.pc = "verifying", !.kh = NoPins, !.missed = {}]
  <2>1. /\ proc[p].pc = "asking" /\ SavePin(p, proc[p].kh, proc[p].addr, proc[p].fp)
        /\ proc' = [q \in Procs |-> IF q = p THEN me ELSE Overtaken(q, proc[p].addr, hosts')]
        /\ UNCHANGED <<cert, profiles>>
    BY <1>6 DEF Agree
  <2>2. /\ proc[p].addr \in Servers /\ proc[p].fp \in Certs /\ proc[p].kh \in Pins
        /\ proc[p].want = None /\ Agreed(proc[p].kh)
        /\ \A b \in expected \ proc[p].missed : proc[p].kh[b] # None
    BY <1>a, <2>1 DEF ProcSound, KeepsList, TrustTypes, Processes
  <2>3. /\ me \in Processes /\ me.pc = "verifying" /\ me.addr = proc[p].addr
        /\ me.fp = proc[p].fp /\ me.want = None
    BY <1>a, <2>2, IdleProcess DEF Processes
  <2> HIDE DEF me
  <2>4. QED
    BY <2>1, <2>2, <2>3, PinStep
<1>7. ASSUME NEW p \in Procs, AgreeUnsaved(p) PROVE TrustInv'
  <2> DEFINE me == [proc[p] EXCEPT !.pc = "verifying", !.kh = NoPins, !.missed = {}]
  <2>1. /\ proc[p].pc = "asking"
        /\ agreed' = [agreed EXCEPT ![proc[p].addr] = @ \union {proc[p].fp}]
        /\ proc' = [proc EXCEPT ![p].pc = "verifying", ![p].kh = NoPins, ![p].missed = {}]
        /\ UNCHANGED <<cert, hosts, profiles, expected>>
    BY <1>7 DEF AgreeUnsaved
  <2>2. proc[p].addr \in Servers /\ proc[p].fp \in Certs /\ proc[p].want = None
    BY <1>a, <2>1 DEF ProcSound, KeepsList, TrustTypes
  <2>3. proc' = [proc EXCEPT ![p] = me]
    BY <1>a, <2>1 DEF TrustTypes
  <2>4. /\ me \in Processes /\ me.pc = "verifying" /\ me.addr = proc[p].addr
        /\ me.fp = proc[p].fp /\ me.want = None
    BY <1>a, <2>2, IdleProcess DEF Processes
  <2> HIDE DEF me
  <2>5. /\ agreed' \in [Servers -> SUBSET Certs] /\ proc[p].fp \in agreed'[proc[p].addr]
        /\ \A a \in Servers : agreed[a] \subseteq agreed'[a]
    BY <1>a, <2>1, <2>2 DEF TrustTypes
  <2>6. ProcSound(p)'
    BY <1>a, <2>3, <2>4, <2>5 DEF ProcSound, KeepsList, TrustTypes
  <2>7. QED
    BY <1>a, <2>1, <2>2, <2>3, <2>4, <2>5, <2>6, OwnStep DEF TrustTypes
<1>8. ASSUME NEW p \in Procs, Verify(p) PROVE TrustInv'
  <2> DEFINE c == cert[proc[p].addr]
             me == [proc[p] EXCEPT !.pc = "up", !.peer = c]
  <2>1. /\ proc[p].pc = "verifying" /\ c = proc[p].fp
        /\ proc' = [proc EXCEPT ![p].pc = "up", ![p].peer = c]
        /\ UNCHANGED <<cert, hosts, profiles, agreed, expected>>
    BY <1>8 DEF Verify
  <2>2. proc[p].addr \in Servers /\ c \in Certs
    BY <1>a, <2>1 DEF TrustTypes
  <2> HIDE DEF c
  <2>3. proc' = [proc EXCEPT ![p] = me]
    BY <1>a, <2>1 DEF TrustTypes
  <2>4. /\ me \in Processes /\ me.pc = "up" /\ me.addr = proc[p].addr
        /\ me.want = proc[p].want /\ me.peer = c
    BY <1>a, <2>2 DEF Processes
  <2> HIDE DEF me
  <2>5. ProcSound(p)'
    BY <1>a, <2>1, <2>3, <2>4 DEF ProcSound, KeepsList, KnownHosts, TrustTypes
  <2>6. QED
    BY <1>a, <2>1, <2>2, <2>3, <2>4, <2>5, OwnStep DEF TrustTypes
<1>9. ASSUME NEW p \in Procs, SaveProfileOnce(p) PROVE TrustInv'
  <2> DEFINE saved == [host |-> proc[p].addr, fingerprint |-> KnownHosts[proc[p].addr]]
             me == [proc[p] EXCEPT !.name = None]
  <2>1. /\ proc[p].pc = "up" /\ proc[p].name # None /\ SaveProfile(proc[p].name, saved)
        /\ proc' = [proc EXCEPT ![p].name = None]
        /\ UNCHANGED <<cert, hosts, agreed, expected>>
    BY <1>9 DEF SaveProfileOnce
  <2>2. proc[p].addr \in Servers /\ saved \in AProfile
    BY <1>a, <2>1 DEF TrustTypes, Pins, AProfile
  <2>3. proc' = [proc EXCEPT ![p] = me]
    BY <1>a, <2>1 DEF TrustTypes
  <2>4. /\ me \in Processes /\ me.pc = "up" /\ me.addr = proc[p].addr /\ me.fp = proc[p].fp
        /\ me.want = proc[p].want /\ me.peer = proc[p].peer
    BY <1>a, <2>1 DEF Processes
  <2> HIDE DEF me, saved
  <2>5. profiles' \in ProfileLists \union {Garbled}
    BY <1>a, <2>1, <2>2 DEF SaveProfile, TrustTypes, ProfileLists
  <2>6. ProcSound(p)'
    BY <1>a, <2>1, <2>3, <2>4 DEF ProcSound, KeepsList, KnownHosts, TrustTypes
  <2>7. QED
    BY <1>a, <2>1, <2>2, <2>3, <2>4, <2>5, <2>6, OwnStep DEF TrustTypes
<1>10. ASSUME NEW p \in Procs, Stop(p) PROVE TrustInv'
  <2>1. proc' = [proc EXCEPT ![p] = Idle] /\ UNCHANGED <<cert, hosts, profiles, agreed, expected>>
    BY <1>10 DEF Stop
  <2>2. ProcSound(p)'
    BY <1>a, <2>1, IdleProcess DEF ProcSound, KeepsList, TrustTypes
  <2>3. QED
    BY <1>a, <2>1, <2>2, IdleProcess, OwnStep DEF TrustTypes
<1>r. ASSUME NEW p \in Procs, Retry(p) PROVE TrustInv'
  <2> DEFINE me == [proc[p] EXCEPT !.pc = "dialing", !.fp = None, !.peer = None,
                                   !.kh = NoPins, !.missed = {}]
  <2>1. /\ proc[p].pc # "idle" /\ proc' = [proc EXCEPT ![p] = me]
        /\ UNCHANGED <<cert, hosts, profiles, agreed, expected>>
    BY <1>r DEF Retry
  <2>2. proc[p].addr \in Servers
    BY <1>a, <2>1 DEF TrustTypes
  <2>3. /\ me \in Processes /\ me.pc = "dialing" /\ me.addr = proc[p].addr /\ me.fp = None
        /\ me.want = proc[p].want
    BY <1>a, IdleProcess DEF Processes
  <2> HIDE DEF me
  <2>4. ProcSound(p)'
    BY <1>a, <2>1, <2>3 DEF ProcSound, KeepsList, KnownHosts, TrustTypes
  <2>5. QED
    BY <1>a, <2>1, <2>2, <2>3, <2>4, OwnStep DEF TrustTypes
<1>11. ASSUME NEW a \in Servers, Forget(a) PROVE TrustInv'
  <2>1. /\ hosts # Garbled /\ hosts \in Pins /\ UNCHANGED <<cert, profiles, agreed>>
        /\ hosts' \in {[hosts EXCEPT ![a] = None], Garbled}
        /\ expected' = IF hosts' = Garbled THEN {} ELSE expected \ {a}
    BY <1>11, <1>a DEF Forget, TrustTypes
  <2>2. ASSUME NEW q \in Procs
        PROVE  /\ proc'[q].pc = proc[q].pc /\ proc'[q].addr = proc[q].addr
               /\ proc'[q].fp = proc[q].fp /\ proc'[q].peer = proc[q].peer
               /\ proc'[q].kh = proc[q].kh /\ proc'[q].missed = proc[q].missed
               /\ proc'[q].want \in {None, proc[q].want}
               /\ proc[q].pc # "idle" /\ proc'[q].want # None =>
                    KnownHosts'[proc[q].addr] = proc'[q].want
               /\ proc'[q] \in Processes
    <3>1. proc'[q] = [proc[q] EXCEPT !.want = StillWanted(q, KnownHosts')]
      BY <1>11 DEF Forget, KnownHosts
    <3>2. StillWanted(q, KnownHosts') \in {None, proc[q].want}
      BY DEF StillWanted
    <3>3. QED
      BY <1>a, <3>1, <3>2 DEF Processes, StillWanted
  <2>3. hosts' \in Pins \union {Garbled} /\ expected' \subseteq expected
    BY <2>1 DEF Pins
  <2>4. TrustTypes'
    <3>1. DOMAIN proc' = Procs /\ proc' = [q \in Procs |-> proc'[q]]
      BY <1>11 DEF Forget
    <3>2. proc' \in [Procs -> Processes]
      BY <3>1, <2>2
    <3>3. QED
      BY <1>a, <2>1, <2>2, <2>3, <3>2 DEF TrustTypes
  <2>5. /\ hosts' = Garbled => KnownHosts' = NoPins
        /\ hosts' # Garbled => /\ KnownHosts'[a] = None
                               /\ \A b \in Servers \ {a} : KnownHosts'[b] = KnownHosts[b]
    BY <2>1 DEF KnownHosts, Pins
  <2>6. FileSound'
    <3>1. \A b \in Servers : KnownHosts'[b] \in {KnownHosts[b], None}
      BY <2>5 DEF NoPins
    <3>2. \A b \in expected' : KnownHosts'[b] # None
      BY <1>a, <2>1, <2>5 DEF FileSound, TrustTypes
    <3>3. QED
      BY <1>a, <2>1, <3>1, <3>2 DEF FileSound, Agreed
  <2>7. ASSUME NEW q \in Procs PROVE ProcSound(q)'
    <3>1. ProcSound(q)
      BY <1>a
    <3>2. proc[q].pc # "idle" => proc[q].addr \in Servers
      BY <1>a DEF TrustTypes
    <3>3. Agreed(proc[q].kh) => Agreed(proc[q].kh)'
      BY <2>1, <2>2 DEF Agreed
    <3>4. QED
      BY <2>1, <2>2, <2>3, <3>1, <3>2, <3>3 DEF ProcSound, KeepsList
  <2>8. QED
    BY <2>4, <2>6, <2>7 DEF TrustInv
<1>12. ASSUME cert' \in [Servers -> Certs], profiles' \in ProfileLists \union {Garbled},
              UNCHANGED <<hosts, proc, agreed, expected>>
       PROVE  TrustInv'
  BY <1>12 DEF TrustInv, TrustTypes, FileSound, ProcSound, KeepsList, Agreed, KnownHosts
<1>13. ASSUME NEW new \in Adds, ProfileAdd(new) PROVE TrustInv'
  <2> DEFINE old == profiles[new.name]
             prof == [host |-> IF new.host # None THEN new.host ELSE old.host,
                      fingerprint |-> IF new.fingerprint # None \/ old = None
                                      THEN new.fingerprint ELSE old.fingerprint]
  <2>1. /\ profiles # Garbled /\ (new.host # None \/ old # None)
        /\ SaveProfile(new.name, prof) /\ UNCHANGED <<cert, hosts, proc, agreed, expected>>
    BY <1>13 DEF ProfileAdd
  <2>2. /\ new.name \in Profiles /\ new.host \in Servers \union {None}
        /\ new.fingerprint \in Certs \union {None}
    BY AddsAssumption
  <2>3. old \in AProfile \union {None}
    BY <1>a, <2>1, <2>2 DEF TrustTypes, ProfileLists
  <2> HIDE DEF old
  <2>4. prof \in AProfile
    BY <2>1, <2>2, <2>3 DEF AProfile
  <2> HIDE DEF prof
  <2>5. profiles' \in ProfileLists
    BY <1>a, <2>1, <2>2, <2>4 DEF SaveProfile, TrustTypes, ProfileLists
  <2>6. QED
    BY <1>12, <1>a, <2>1, <2>5 DEF TrustTypes
<1>14. ASSUME NEW n \in Profiles, ProfileRemove(n) PROVE TrustInv'
  <2>1. profiles' \in ProfileLists
    BY <1>14, <1>a DEF ProfileRemove, TrustTypes, ProfileLists
  <2>2. QED
    BY <1>12, <1>14, <1>a, <2>1 DEF ProfileRemove, TrustTypes
<1>15. ASSUME NEW a \in Servers, NewCert(a) PROVE TrustInv'
  <2>1. cert' \in [Servers -> Certs]
    BY <1>15, <1>a, PresentsAssumption DEF NewCert, TrustTypes
  <2>2. QED
    BY <1>12, <1>15, <1>a, <2>1 DEF NewCert, TrustTypes
<1>16. CASE EditProfiles
  <2>1. NoProfiles \in ProfileLists
    BY DEF NoProfiles, ProfileLists
  <2>2. QED
    BY <1>12, <1>16, <1>a, <2>1 DEF EditProfiles, TrustTypes
<1>17. CASE UNCHANGED vars
  BY <1>12, <1>17, <1>a DEF vars, TrustTypes
<1>18. QED
  BY <1>1, <1>2, <1>3, <1>4, <1>5, <1>f, <1>6, <1>7, <1>8, <1>9, <1>10, <1>r, <1>11, <1>13,
     <1>14, <1>15, <1>16, <1>17 DEF Next, ConnectStep

\* The invariant holds in every reachable state.
LEMMA TrustInvAlways == Spec => []TrustInv
<1>1. Init => TrustInv
  <2> SUFFICES ASSUME Init PROVE TrustInv
    OBVIOUS
  <2>1. cert \in [Servers -> Certs]
    BY PresentsAssumption DEF Init
  <2>2. /\ hosts = NoPins /\ profiles = NoProfiles /\ expected = {}
        /\ proc = [p \in Procs |-> Idle] /\ agreed = [a \in Servers |-> {}]
    BY DEF Init
  <2>3. NoProfiles \in ProfileLists
    BY DEF NoProfiles, ProfileLists
  <2>4. TrustTypes
    BY <2>1, <2>2, <2>3, IdleProcess DEF TrustTypes
  <2>5. FileSound
    BY <2>2 DEF FileSound, Agreed, KnownHosts, NoPins
  <2>6. \A p \in Procs : ProcSound(p)
    BY <2>2, IdleProcess DEF ProcSound, KeepsList
  <2>7. QED
    BY <2>4, <2>5, <2>6 DEF TrustInv
<1>2. QED
  BY <1>1, TrustStep, PTL DEF Spec

-----------------------------------------------------------------------------
(* Theorems.                                                               *)

\* DialTLS, PinnedTLSConfig and TrustFingerprint: in every run, with any number of commands
\* and retries, the certificate presented on a connection that is up was agreed on for that
\* server (or is a CA's, with nothing pinned), and is the profile's own unless somebody else
\* has changed the server's entry in known_hosts.yaml since the profile's was put there.
THEOREM ConnectedAsAgreedAlways == Spec => []ConnectedAsAgreed
<1>1. TrustInv => ConnectedAsAgreed
  BY DEF TrustInv, ProcSound, ConnectedAsAgreed
<1>2. QED
  BY <1>1, TrustInvAlways, PTL

\* saveKnownHosts: a pin once written stays in known_hosts.yaml until it is removed by hand
\* or overwritten by a process that had loaded the list before.
THEOREM PinsKeptAlways == Spec => []PinsKept
<1>1. TrustInv => PinsKept
  BY DEF TrustInv, FileSound, KnownHosts, PinsKept
<1>2. QED
  BY <1>1, TrustInvAlways, PTL
=============================================================================
