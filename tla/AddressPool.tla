---------------------------- MODULE AddressPool ----------------------------
(***************************************************************************)
(* What the server's client registry promises about tunnel addresses: an   *)
(* address is leased to one connection at a time, the lowest free address  *)
(* is the one handed out, and a connection that has given its address back *)
(* is never granted another one.                                           *)
(***************************************************************************)
EXTENDS Integers

CONSTANTS Conns,     \* connections that may ever be accepted
          NoConn,    \* an address without a holder
          LastOctet  \* addresses are base.2 .. base.LastOctet

VARIABLES lease,     \* address -> holding connection or NoConn
          ended      \* connections whose lease is over

poolVars == <<lease, ended>>

Octets == 2..LastOctet

LowestFree(i) == lease[i] = NoConn /\ \A j \in Octets : j < i => lease[j] # NoConn

PoolInit == lease = [i \in Octets |-> NoConn] /\ ended = {}

Grant(c) ==
    /\ c \notin ended
    /\ \A i \in Octets : lease[i] # c
    /\ \E i \in Octets : LowestFree(i) /\ lease' = [lease EXCEPT ![i] = c]
    /\ UNCHANGED ended

Release(c) ==
    /\ \E i \in Octets : lease[i] = c /\ lease' = [lease EXCEPT ![i] = NoConn]
    /\ ended' = ended \union {c}

PoolNext == \E c \in Conns : Grant(c) \/ Release(c)

PoolSpec == PoolInit /\ [][PoolNext]_poolVars
=============================================================================
