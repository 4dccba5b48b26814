----------------------------- MODULE TrustStore -----------------------------
(***************************************************************************)
(* The client's memory of servers: known_hosts.yaml and its use in DialTLS *)
(* (internal/client/tofu.go, internal/tlsutil/tofu.go), profiles.yaml      *)
(* (internal/client/profile.go), and the commands on both: connect         *)
(* (cmd/main.go) and profile add and rm (cmd/profiles.go).                 *)
(*                                                                         *)
(* Commands of one user run side by side.  Loading a file and writing it   *)
(* back at once is one step; what a command keeps while it waits for the   *)
(* network or for an answer is state of its own.  writePrivate renames a   *)
(* finished file into place, so a reader sees the old file or the new one. *)
(***************************************************************************)
EXTENDS FiniteSets

CONSTANTS Procs,      \* processes of the connect command
          Servers,    \* server addresses
          Certs,      \* certificates, standing for their fingerprints
          Presents,   \* the certificates each server may have over time
          CASigned,   \* the certificates that a CA of the system has signed
          Profiles,   \* names of profiles
          Adds,       \* the profile add commands that may be given: [name, host, fingerprint]
          None,       \* no fingerprint, no profile, no name
          Garbled     \* a file that does not parse

AProfile == [host : Servers, fingerprint : Certs \union {None}]

ASSUME NoneAssumption == None \notin Certs
ASSUME PresentsAssumption == Presents \in [Servers -> SUBSET Certs]
ASSUME AddsAssumption ==
    Adds \subseteq [name : Profiles, host : Servers \union {None},
                    fingerprint : Certs \union {None}]
ASSUME GarbledAssumption ==
    /\ Garbled \notin [Servers -> Certs \union {None}]
    /\ Garbled \notin [Profiles -> AProfile \union {None}]

VARIABLES
  cert,     \* the certificate each server presents now
  hosts,    \* known_hosts.yaml: a fingerprint or None for each server, or Garbled
  profiles, \* profiles.yaml: a profile or None for each name, or Garbled
  proc,     \* the connect processes, see Idle
  agreed,   \* history: certificates accepted for a server by an answer or a profile
  expected  \* history: servers whose pin should be in known_hosts.yaml

vars == <<cert, hosts, profiles, proc, agreed, expected>>

NoPins == [a \in Servers |-> None]
NoProfiles == [n \in Profiles |-> None]

\* A process: where it is, the server it connects to, the fingerprint it will verify,
\* the certificate presented on its connection, the list of pins it has loaded, and the
\* name under which it will save the server.  History: the fingerprint of the profile it
\* was given, dropped for good once somebody else changes the server's entry in
\* known_hosts.yaml (StillWanted); the servers pinned by others since it loaded the list.
Idle == [pc |-> "idle", addr |-> None, fp |-> None, peer |-> None, kh |-> NoPins,
         name |-> None, want |-> None, missed |-> {}]

Init ==
    /\ cert \in {f \in [Servers -> Certs] : \A a \in Servers : f[a] \in Presents[a]}
    /\ hosts = NoPins
    /\ profiles = NoProfiles
    /\ proc = [p \in Procs |-> Idle]
    /\ agreed = [a \in Servers |-> {}]
    /\ expected = {}

-----------------------------------------------------------------------------
(* The files.                                                              *)

\* loadKnownHosts: a file that does not parse is an empty one.
KnownHosts == IF hosts = Garbled THEN NoPins ELSE hosts

\* Mutant: the list is written with the new entry only.
PinnedOnly(kh, a, fp) == [NoPins EXCEPT ![a] = fp]

Pinned(kh, a, fp) == [kh EXCEPT ![a] = fp]

\* saveKnownHosts by process p, with its new entry in the list kh.
SavePin(p, kh, a, fp) ==
    /\ hosts' = Pinned(kh, a, fp)
    /\ agreed' = [agreed EXCEPT ![a] = @ \union {fp}]
    /\ expected' = (expected \ proc[p].missed) \union {a}

\* Process q keeps the list it loaded while the server and then the user are asked.
KeepsList(q) == proc[q].pc \in {"fetching", "asking"}

\* The profile's fingerprint for process q when pins become the list.  It is overruled as
\* soon as the server's entry is not the profile's: another command has pinned another
\* certificate, or written back a list it had loaded before, for whichever server, or the
\* user has edited the file.
StillWanted(q, pins) ==
    IF proc[q].pc # "idle" /\ pins[proc[q].addr] # proc[q].want THEN None ELSE proc[q].want

\* History of process q when the pin of server a is written and pins become the list.
Overtaken(q, a, pins) ==
    [proc[q] EXCEPT !.missed = IF KeepsList(q) THEN @ \union {a} ELSE @,
                    !.want = StillWanted(q, pins)]

\* SaveProfile: adds or replaces; nothing is saved over a file that does not parse.
SaveProfile(n, p) ==
    IF profiles = Garbled THEN UNCHANGED profiles
                          ELSE profiles' = [profiles EXCEPT ![n] = p]

-----------------------------------------------------------------------------
(* connect                                                                 *)

\* By address.  In a terminal the server is offered to be saved (askProfileName), unless
\* a profile has it already; the name must not be taken, and is saved after connecting.
ConnectTo(p, a, n) ==
    /\ proc[p].pc = "idle"
    /\ n # None => /\ profiles # Garbled
                   /\ profiles[n] = None
                   /\ \A m \in Profiles : profiles[m] # None => profiles[m].host # a
    /\ proc' = [proc EXCEPT ![p] = [Idle EXCEPT !.pc = "dialing", !.addr = a, !.name = n]]
    /\ UNCHANGED <<cert, hosts, profiles, agreed, expected>>

\* By profile.  A fingerprint in it replaces the one known (TrustFingerprint).
ConnectBy(p, n) ==
    /\ proc[p].pc = "idle"
    /\ profiles # Garbled
    /\ profiles[n] # None
    /\ LET a == profiles[n].host
           fp == profiles[n].fingerprint
           me == [Idle EXCEPT !.pc = "dialing", !.addr = a, !.want = fp]
       IN IF fp = None \/ KnownHosts[a] = fp
          THEN /\ proc' = [proc EXCEPT ![p] = me]
               /\ agreed' = [agreed EXCEPT ![a] = @ \union ({fp} \ {None})]
               /\ UNCHANGED <<hosts, expected>>
          ELSE /\ SavePin(p, KnownHosts, a, fp)
               /\ proc' = [q \in Procs |-> IF q = p THEN me ELSE Overtaken(q, a, hosts')]
    /\ UNCHANGED <<cert, profiles>>

\* DialTLS: with a pin for the server the certificate is verified against it,
DialPinned(p) ==
    /\ proc[p].pc = "dialing"
    /\ KnownHosts[proc[p].addr] # None
    /\ proc' = [proc EXCEPT ![p].pc = "verifying", ![p].fp = KnownHosts[proc[p].addr]]
    /\ UNCHANGED <<cert, hosts, profiles, agreed, expected>>

\* without one a certificate signed by a CA is accepted,
DialCA(p) ==
    /\ proc[p].pc = "dialing"
    /\ KnownHosts[proc[p].addr] = None
    /\ cert[proc[p].addr] \in CASigned
    /\ proc' = [proc EXCEPT ![p].pc = "up", ![p].peer = cert[proc[p].addr]]
    /\ UNCHANGED <<cert, hosts, profiles, agreed, expected>>

\* and any other is not.  The list of pins stays loaded.
DialUntrusted(p) ==
    /\ proc[p].pc = "dialing"
    /\ KnownHosts[proc[p].addr] = None
    /\ cert[proc[p].addr] \notin CASigned
    /\ proc' = [proc EXCEPT ![p].pc = "fetching", ![p].kh = KnownHosts]
    /\ UNCHANGED <<cert, hosts, profiles, agreed, expected>>

\* The fingerprint is fetched, over a second connection, and shown.
Fetch(p) ==
    /\ proc[p].pc = "fetching"
    /\ proc' = [proc EXCEPT ![p].pc = "asking", ![p].fp = cert[proc[p].addr]]
    /\ UNCHANGED <<cert, hosts, profiles, agreed, expected>>

\* The user agrees, or there is no terminal and the server is trusted without asking.
Agree(p) ==
    /\ proc[p].pc = "asking"
    /\ SavePin(p, proc[p].kh, proc[p].addr, proc[p].fp)
    /\ proc' = [q \in Procs |->
                  IF q = p
                  THEN [proc[p] EXCEPT !.pc = "verifying", !.kh = NoPins, !.missed = {}]
                  ELSE Overtaken(q, proc[p].addr, hosts')]
    /\ UNCHANGED <<cert, profiles>>

\* Writing the list fails: the server is trusted for this connection only.
AgreeUnsaved(p) ==
    /\ proc[p].pc = "asking"
    /\ agreed' = [agreed EXCEPT ![proc[p].addr] = @ \union {proc[p].fp}]
    /\ proc' = [proc EXCEPT ![p].pc = "verifying", ![p].kh = NoPins, ![p].missed = {}]
    /\ UNCHANGED <<cert, hosts, profiles, expected>>

\* Mutant: whatever certificate is presented is taken.
VerifyNothing(p) ==
    /\ proc[p].pc = "verifying"
    /\ proc' = [proc EXCEPT ![p].pc = "up", ![p].peer = cert[proc[p].addr]]
    /\ UNCHANGED <<cert, hosts, profiles, agreed, expected>>

\* PinnedTLSConfig: the certificate presented must match.
Verify(p) ==
    /\ proc[p].pc = "verifying"
    /\ cert[proc[p].addr] = proc[p].fp
    /\ proc' = [proc EXCEPT ![p].pc = "up", ![p].peer = cert[proc[p].addr]]
    /\ UNCHANGED <<cert, hosts, profiles, agreed, expected>>

\* The tunnel is up: saveProfileOnce, with the fingerprint known now.
SaveProfileOnce(p) ==
    /\ proc[p].pc = "up"
    /\ proc[p].name # None
    /\ SaveProfile(proc[p].name,
                   [host |-> proc[p].addr, fingerprint |-> KnownHosts[proc[p].addr]])
    /\ proc' = [proc EXCEPT ![p].name = None]
    /\ UNCHANGED <<cert, hosts, agreed, expected>>

\* The certificate does not match, the answer is no, the server cannot be reached or
\* refuses: Connect fails, and ConnectWithReconnect calls it again.  The profile's
\* fingerprint was put in the file once, before the loop.
Retry(p) ==
    /\ proc[p].pc \notin {"idle", "dialing"}
    /\ proc' = [proc EXCEPT ![p] = [@ EXCEPT !.pc = "dialing", !.fp = None, !.peer = None,
                                            !.kh = NoPins, !.missed = {}]]
    /\ UNCHANGED <<cert, hosts, profiles, agreed, expected>>

\* Without --reconnect the command ends; so it does when the connection ends.
Stop(p) ==
    /\ proc[p].pc # "idle"
    /\ proc' = [proc EXCEPT ![p] = Idle]
    /\ UNCHANGED <<cert, hosts, profiles, agreed, expected>>

-----------------------------------------------------------------------------
(* profile add and profile rm, the user's editor, and the servers.         *)

\* A new profile needs a host; for an old one only what was passed changes (None keeps).
ProfileAdd(new) ==
    /\ profiles # Garbled
    /\ LET old == profiles[new.name] IN
       /\ new.host # None \/ old # None
       /\ SaveProfile(new.name,
            [host |-> IF new.host # None THEN new.host ELSE old.host,
             fingerprint |-> IF new.fingerprint # None \/ old = None THEN new.fingerprint
                             ELSE old.fingerprint])
    /\ UNCHANGED <<cert, hosts, proc, agreed, expected>>

ProfileRemove(n) ==
    /\ profiles # Garbled
    /\ profiles[n] # None
    /\ profiles' = [profiles EXCEPT ![n] = None]
    /\ UNCHANGED <<cert, hosts, proc, agreed, expected>>

\* "Delete the line to trust the server again"; or the edit breaks the file.
Forget(a) ==
    /\ hosts # Garbled
    /\ hosts' \in {[hosts EXCEPT ![a] = None], Garbled}
    /\ expected' = IF hosts' = Garbled THEN {} ELSE expected \ {a}
    /\ LET pins == IF hosts' = Garbled THEN NoPins ELSE hosts' IN
       proc' = [q \in Procs |-> [proc[q] EXCEPT !.want = StillWanted(q, pins)]]
    /\ UNCHANGED <<cert, profiles, agreed>>

\* profiles.yaml is broken by hand, or replaced by an empty one.
EditProfiles ==
    /\ profiles' = IF profiles = Garbled THEN NoProfiles ELSE Garbled
    /\ UNCHANGED <<cert, hosts, proc, agreed, expected>>

\* A server is installed anew, or something else answers at its address.
NewCert(a) ==
    /\ cert' \in {[cert EXCEPT ![a] = c] : c \in Presents[a] \ {cert[a]}}
    /\ UNCHANGED <<hosts, profiles, proc, agreed, expected>>

-----------------------------------------------------------------------------
ConnectStep(p) ==
    \/ \E a \in Servers, n \in Profiles \union {None} : ConnectTo(p, a, n)
    \/ \E n \in Profiles : ConnectBy(p, n)
    \/ DialPinned(p) \/ DialCA(p) \/ DialUntrusted(p) \/ Fetch(p)
    \/ Agree(p) \/ AgreeUnsaved(p) \/ Verify(p) \/ SaveProfileOnce(p)
    \/ Retry(p) \/ Stop(p)

Next ==
    \/ \E p \in Procs : ConnectStep(p)
    \/ \E new \in Adds : ProfileAdd(new)
    \/ \E n \in Profiles : ProfileRemove(n)
    \/ \E a \in Servers : Forget(a) \/ NewCert(a)
    \/ EditProfiles

Spec == Init /\ [][Next]_vars

-----------------------------------------------------------------------------
(* Properties.                                                             *)

\* "A changed cert is refused" (README) and a profile's fingerprint "pins every
\* connection" (profile add --fingerprint).  The certificate presented on a connection that
\* is up was accepted for this very server by the user or a profile, or is a CA's and
\* nothing was pinned (fp None), even if the server changes its certificate between the
\* question and the connection.  It is the one the profile names, also after retries, with
\* one exception: since TrustFingerprint wrote the profile's to known_hosts.yaml, somebody
\* else has changed the server's entry there, in one of the ways StillWanted lists.
ConnectedAsAgreed ==
    \A p \in Procs : proc[p].pc = "up" =>
      /\ \/ proc[p].peer \in agreed[proc[p].addr]
         \/ proc[p].fp = None /\ proc[p].peer \in CASigned
      /\ proc[p].want # None => proc[p].peer = proc[p].want

\* "Fingerprint saved - won't ask again" (DialTLS): a pin is lost only by hand, or by a
\* process that writes the list it had loaded before the pin was there.
PinsKept ==
    \A a \in expected : hosts # Garbled => hosts[a] # None
=============================================================================
