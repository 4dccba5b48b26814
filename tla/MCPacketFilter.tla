-------------------------- MODULE MCPacketFilter --------------------------
(***************************************************************************)
(* Two Services on addresses of their own, one of which also has an IPv6   *)
(* address and a port without protocol; a configured route that covers     *)
(* them, one that covers the VPN server and one that is too broad; a name  *)
(* that resolves to the one or to the other; queries to the cluster DNS    *)
(* over UDP, and a policy that denies their answers.                       *)
(***************************************************************************)
EXTENDS PacketFilter

MCServices == {[ips |-> {"a"}, ports |-> {[proto |-> "tcp", port |-> 80]}],
               [ips |-> {"b", "b6"}, ports |-> {[proto |-> "", port |-> 80]}]}
MCIPv4 == {"a", "b", "dns", "self", "vpn"}
MCPushRoutes == {[covers |-> {"vpn"}, ones |-> 24], [covers |-> {"a", "b"}, ones |-> 4]}
MCAnswers == {{"a", "b6"}, {"b"}}
MCPolicies ==
  {[default |-> "deny",
    rules |-> [d \in {"dev"} |-> [allow |-> {[proto |-> "*", port |-> 0]},
                                  deny |-> {[proto |-> "udp", port |-> 0]}]]]}
=============================================================================
