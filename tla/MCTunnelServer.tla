--------------------------- MODULE MCTunnelServer ---------------------------
(* Small instances of the tunnel server.                                   *)
EXTENDS TunnelServer, TLC

\* Connections are interchangeable; used for safety only.
ConnSymmetry == Permutations(Conns)
=============================================================================
