----------------------------- MODULE FrontDoor -----------------------------
(***************************************************************************)
(* Who gets in: the rate limiter (internal/auth/ratelimit.go) and the two  *)
(* places that use it, the admission checks of handleConn (server.go) and  *)
(* the SSH server's callbacks (sshsrv.go).                                 *)
(*                                                                         *)
(* A connection passes the checks one at a time, between steps of other    *)
(* connections from the same address: the ban is looked up before the AUTH *)
(* frame is read, the token validated under the token store's lock, and    *)
(* the outcome recorded under the limiter's.  Whether a token is valid is  *)
(* TokenStore's subject; here either answer may come.                      *)
(*                                                                         *)
(* Times are kept relative to now, in ticks.                               *)
(***************************************************************************)
EXTENDS Integers, FiniteSets

CONSTANTS IPs,         \* source addresses
          Conns,       \* connections that may be open at the same time
          MaxAttempts, \* maxAttempts (5)
          Window,      \* window (one minute), in ticks
          BanDuration  \* banDuration (one minute), in ticks

ASSUME ConnsFinite == IsFiniteSet(Conns)
ASSUME MaxAttemptsAssumption == MaxAttempts \in Nat \ {0}
ASSUME WindowAssumption == Window \in Nat \ {0}
ASSUME BanAssumption == BanDuration \in Nat /\ BanDuration >= Window

VARIABLES
  attempts,  \* RateLimiter.attempts: how many failures of each age are kept
  bans,      \* RateLimiter.bans: ticks until the ban ends, 0 when there is none
  conn,      \* the connections: program counter and source address
  whitelist, \* addresses the whitelist contains
  wrong,     \* history: wrong tokens refused at the tunnel port since the limiter
             \* was last reset for the address, by age
  failed     \* history: failures at either port since then, by age; counted up to
             \* MaxAttempts

limiterVars == <<attempts, bans>>
history == <<wrong, failed>>
doorVars == <<attempts, bans, conn, whitelist, wrong, failed>>

Ages == 0..(Window - 1)
NoneYet == [a \in Ages |-> 0]
NoAttempts == [a \in 0..Window |-> 0] \* age Window: that old or older, not pruned yet

\* What a count by age adds up to: a unit for each thing counted, and their number.
Units(count) == UNION {{a} \X (1..count[a]) : a \in DOMAIN count}
Total(count) == Cardinality(Units(count))

Free == [pc |-> "free", ip |-> CHOOSE i \in IPs : TRUE]

DoorInit ==
    /\ attempts = [i \in IPs |-> NoAttempts]
    /\ bans = [i \in IPs |-> 0]
    /\ conn = [c \in Conns |-> Free]
    /\ whitelist = {}
    /\ wrong = [i \in IPs |-> NoneYet]
    /\ failed = [i \in IPs |-> NoneYet]

-----------------------------------------------------------------------------
(* RateLimiter.                                                            *)

\* IsBanned; the entry of a ban that has ended is deleted.
IsBanned(i) == bans[i] > 0

\* Mutant: the failures that are kept are not limited to the window.
RecentUnpruned(i) == [attempts[i] EXCEPT ![0] = @ + 1]

\* The failures of the last minute, with the one being recorded.
Recent(i) == [attempts[i] EXCEPT ![0] = @ + 1, ![Window] = 0]

\* RecordFailure: the failure is added, and with the fifth within a minute the
\* address is banned and the failures forgotten.
RecordFailure(i) ==
    IF Total(Recent(i)) >= MaxAttempts
    THEN /\ attempts' = [attempts EXCEPT ![i] = NoAttempts]
         /\ bans' = [bans EXCEPT ![i] = BanDuration]
    ELSE /\ attempts' = [attempts EXCEPT ![i] = Recent(i)]
         /\ UNCHANGED bans

Reset(i) ==
    /\ attempts' = [attempts EXCEPT ![i] = NoAttempts]
    /\ bans' = [bans EXCEPT ![i] = 0]

Older(count) == [a \in Ages |-> IF a = 0 THEN 0 ELSE count[a - 1]]

\* The failures kept, one tick older.
Aged(count) ==
    [a \in 0..Window |-> (IF a = 0 THEN 0 ELSE count[a - 1])
                           + (IF a = Window THEN count[Window] ELSE 0)]

\* A tick of the clock.
Tick ==
    /\ attempts' = [i \in IPs |-> Aged(attempts[i])]
    /\ bans' = [i \in IPs |-> IF bans[i] > 0 THEN bans[i] - 1 ELSE 0]
    /\ wrong' = [i \in IPs |-> Older(wrong[i])]
    /\ failed' = [i \in IPs |-> Older(failed[i])]
    /\ UNCHANGED <<conn, whitelist>>

-----------------------------------------------------------------------------
(* handleConn, up to the point where a client is admitted.                 *)

Goto(c, from, to) ==
    /\ conn[c].pc = from
    /\ conn' = [conn EXCEPT ![c].pc = to]

Leave(c, from) ==
    /\ conn[c].pc = from
    /\ conn' = [conn EXCEPT ![c] = Free]

\* A connection is accepted, at the tunnel port or at the SSH port.
Accept(c, i, port) ==
    /\ conn[c].pc = "free"
    /\ conn' = [conn EXCEPT ![c] = [pc |-> port, ip |-> i]]
    /\ UNCHANGED <<limiterVars, whitelist, history>>

\* Mutant: a banned address is not turned away.
CheckBanIgnores(c) ==
    /\ Goto(c, "tunnel", "reading")
    /\ UNCHANGED <<limiterVars, whitelist, history>>

\* "blocked banned IP", or the AUTH frame is awaited.
CheckBan(c) ==
    /\ IF IsBanned(conn[c].ip) THEN Leave(c, "tunnel") ELSE Goto(c, "tunnel", "reading")
    /\ UNCHANGED <<limiterVars, whitelist, history>>

\* The read fails, or what arrives is not an AUTH frame: no strike.
NoAuth(c) ==
    /\ Leave(c, "reading")
    /\ UNCHANGED <<limiterVars, whitelist, history>>

\* The AUTH frame arrives.  A whitelisted address is let in without a token, any
\* other has its token validated.
Auth(c) ==
    /\ IF conn[c].ip \in whitelist
       THEN Goto(c, "reading", "in")
       ELSE Goto(c, "reading", "failing") \/ Goto(c, "reading", "passing")
    /\ UNCHANGED <<limiterVars, whitelist, history>>

Failed(i) ==
    failed' = [failed EXCEPT ![i][0] = IF @ < MaxAttempts THEN @ + 1 ELSE @]

Forgiven(i) ==
    /\ wrong' = [wrong EXCEPT ![i] = NoneYet]
    /\ failed' = [failed EXCEPT ![i] = NoneYet]

\* The token was refused: the failure is recorded and AUTH_FAIL sent.
Fail(c) ==
    /\ Leave(c, "failing")
    /\ RecordFailure(conn[c].ip)
    /\ Failed(conn[c].ip)
    /\ wrong' = [wrong EXCEPT ![conn[c].ip][0] = @ + 1]
    /\ UNCHANGED whitelist

\* The token was accepted: the limiter forgets the address.
Pass(c) ==
    /\ Goto(c, "passing", "in")
    /\ Reset(conn[c].ip)
    /\ Forgiven(conn[c].ip)
    /\ UNCHANGED whitelist

\* The session, in tunnel or proxy mode or over SSH, ends.
SessionEnds(c) ==
    /\ Leave(c, "in")
    /\ UNCHANGED <<limiterVars, whitelist, history>>

-----------------------------------------------------------------------------
(* The SSH server.  It asks for credentials whether the address is banned  *)
(* or not; PasswordCallback and PublicKeyCallback use the limiter alike.   *)
(* The library calls the latter when a client names a key, which it may do *)
(* before, or without, signing with it.                                    *)

\* A token or a key is offered and looked up.
SSHOffer(c) ==
    /\ \E from \in {"ssh", "sshSigning"}, to \in {"sshFailing", "sshPassing", "sshKeyFound"} :
         Goto(c, from, to)
    /\ UNCHANGED <<limiterVars, whitelist, history>>

\* It was refused; the client may offer another on the same connection.
SSHFail(c) ==
    /\ Goto(c, "sshFailing", "ssh")
    /\ RecordFailure(conn[c].ip)
    /\ Failed(conn[c].ip)
    /\ UNCHANGED <<whitelist, wrong>>

\* The token was accepted.
SSHPass(c) ==
    /\ Goto(c, "sshPassing", "in")
    /\ Reset(conn[c].ip)
    /\ Forgiven(conn[c].ip)
    /\ UNCHANGED whitelist

\* The key is an authorised one: the limiter forgets the address, but nobody is in yet.
SSHKeyFound(c) ==
    /\ Goto(c, "sshKeyFound", "sshSigning")
    /\ Reset(conn[c].ip)
    /\ Forgiven(conn[c].ip)
    /\ UNCHANGED whitelist

\* The signature comes, and is that of the key.
SSHSigned(c) ==
    /\ Goto(c, "sshSigning", "in")
    /\ UNCHANGED <<limiterVars, whitelist, history>>

\* The handshake is given up.
SSHEnds(c) ==
    /\ Leave(c, "ssh") \/ Leave(c, "sshSigning")
    /\ UNCHANGED <<limiterVars, whitelist, history>>

\* An admin adds the address to the whitelist or takes it out (see DirectForwards).
EditWhitelist(i) ==
    /\ whitelist' = IF i \in whitelist THEN whitelist \ {i} ELSE whitelist \union {i}
    /\ UNCHANGED <<limiterVars, conn, history>>

-----------------------------------------------------------------------------
ConnStep(c) ==
    \/ \E i \in IPs, port \in {"tunnel", "ssh"} : Accept(c, i, port)
    \/ CheckBan(c) \/ NoAuth(c) \/ Auth(c) \/ Fail(c) \/ Pass(c) \/ SessionEnds(c)
    \/ SSHOffer(c) \/ SSHFail(c) \/ SSHPass(c) \/ SSHKeyFound(c) \/ SSHSigned(c) \/ SSHEnds(c)

DoorNext ==
    \/ \E c \in Conns : ConnStep(c)
    \/ \E i \in IPs : EditWhitelist(i)
    \/ Tick

\* The clock runs; connections, peers and admins do as they like.
DoorSpec == DoorInit /\ [][DoorNext]_doorVars /\ WF_doorVars(Tick)

-----------------------------------------------------------------------------
(* Properties.                                                             *)

\* "RateLimiter blocks IPs that fail authentication too many times" (ratelimit.go): an
\* address has at most MaxAttempts wrong tokens refused within a window since the limiter
\* was last reset for it, and one more for each other connection that had passed the ban
\* check when the ban began.  A reset takes a valid token, at either port, or the name of
\* an authorised key at the SSH port, whether or not the client then proves to have it.
\* Takes a ban at least as long as the window.
RateBound == \A i \in IPs : Total(wrong[i]) <= MaxAttempts + Cardinality(Conns) - 1

\* RecordFailure "bans if threshold exceeded": a ban begins or is prolonged only with a
\* failure that is at least the MaxAttempts-th of its address within the window and
\* since the last reset, whichever ports the failures came from.
BanJustified ==
    [][\A i \in IPs : bans'[i] > bans[i] => Total(failed'[i]) >= MaxAttempts]_doorVars
=============================================================================
