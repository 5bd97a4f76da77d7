--------------------------- MODULE MCRosterHelpers ---------------------------
(* RosterHelpers for TLC: two keys whose unpadded hex strings coincide and *)
(* a short one; a host name, an IPv4 address and an IPv6 address.         *)
EXTENDS RosterHelpers

MCKeys == {<<1, 17>>, <<17, 1>>, <<0>>}

MCHosts == {<<Txt("localhost")>>,
            <<Num(127), Txt(".0.0.1")>>,
            <<Txt("["), Colon, Colon, Num(1), Txt("]")>>}

MCPorts == {7002}

=============================================================================
