-------------------------- MODULE MCNetworkManager --------------------------
(***************************************************************************)
(* Instances of NetworkManager: an intranet-only session, a full-tunnel    *)
(* session and an unprotected one, on one or on two interface names.       *)
(***************************************************************************)
EXTENDS NetworkManager

\* Split-tunnel profile with kill switch, DNS and the IPv6 shield.
Intranet(id, iface, server) ==
    [id |-> id, iface |-> iface, server |-> server, ip |-> TRUE,
     redirect |-> TRUE, intranet_only |-> TRUE, pushed |-> {"corp"},
     custom |-> {}, dns |-> TRUE, mode |-> "Strict", ipv6 |-> TRUE,
     lan |-> TRUE, webrtc |-> TRUE]

\* Full tunnel with pushed route and kill switch, IPv6 left alone.
Full(id, iface, server) ==
    [id |-> id, iface |-> iface, server |-> server, ip |-> TRUE,
     redirect |-> TRUE, intranet_only |-> FALSE, pushed |-> {"corp"},
     custom |-> {}, dns |-> TRUE, mode |-> "Standard", ipv6 |-> FALSE,
     lan |-> FALSE, webrtc |-> TRUE]

\* What the monitor passes when the driver has not been provisioned yet: no
\* address, no routes, no DNS; only a custom subnet.
Bare(id, iface, server, mode) ==
    [id |-> id, iface |-> iface, server |-> server, ip |-> FALSE,
     redirect |-> FALSE, intranet_only |-> FALSE, pushed |-> {},
     custom |-> {"corp"}, dns |-> FALSE, mode |-> mode, ipv6 |-> TRUE,
     lan |-> FALSE, webrtc |-> FALSE]

\* Sessions that share one interface name.
OneIface == {Intranet("s1", "tun0", "vpn1"), Full("s2", "tun0", "vpn1"),
             Bare("s3", "tun0", "vpn1", "Off")}

\* A reconnect on another interface.
TwoIfaces == {Intranet("s1", "tun0", "vpn1"), Full("s2", "wg0", "vpn1")}
=============================================================================
