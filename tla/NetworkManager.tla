--------------------------- MODULE NetworkManager ---------------------------
(***************************************************************************)
(* The Linux build of packages/daemon/src/network: the NetworkManager and  *)
(* the route, firewall, DNS, IPv6 and interface managers it owns.  Every   *)
(* method runs synchronously under the orchestrator's network mutex, so a  *)
(* method is one action.  The host (routing table, nftables chain,         *)
(* resolv.conf, IPv6 default route, links) is modelled next to what the    *)
(* managers remember about it, because rollback works from memory only.    *)
(***************************************************************************)
EXTENDS Naturals, Sequences, FiniteSets

CONSTANTS
    Requests,    \* argument lists of setup_vpn_network, see RequestType
    Sessions,    \* the connection attempts the requests belong to
    Ifaces,      \* tunnel interface names (tun0, wg0)
    Servers,     \* VPN server addresses
    Subnets,     \* pushed and custom corporate subnets
    UserRoutes,  \* subnets for which the user already has a static route of
                 \* the default metric, the one `ip route replace` replaces
    Failing,     \* external commands that may fail on this host
    NoTunnel,    \* active_tunnel = None
    NoSession,   \* no session: the contract's view of NoTunnel
    None         \* any other Rust None

Modes == {"Off", "Standard", "Strict"}

\* Destinations of the routes the daemon injects: the two /1 halves of the
\* default route (always handled together), the assigned tunnel address, a
\* server's host route, and subnets.
Dest == {"split_default", "vpn_net"} \cup Servers \cup Subnets

RequestType ==
    [id : Sessions, iface : Ifaces, server : Servers, ip : BOOLEAN,
     redirect : BOOLEAN, intranet_only : BOOLEAN, pushed : SUBSET Subnets,
     custom : SUBSET Subnets, dns : BOOLEAN, mode : Modes, ipv6 : BOOLEAN,
     lan : BOOLEAN,      \* lan_bypass, on a host whose LAN subnet is detected
     webrtc : BOOLEAN]   \* webrtc_protection

TunnelContext ==
    [id : Sessions, iface : Ifaces, server : Servers, intranet : BOOLEAN,
     subnets : SUBSET Dest, lan : BOOLEAN, webrtc : BOOLEAN, mode : Modes]

Block == [iface : Ifaces, server : Servers, intranet : BOOLEAN,
          subnets : SUBSET Dest, lan : BOOLEAN, webrtc : BOOLEAN]

Commands == {"ip_route", "ip6_route", "nft", "resolvectl",
             "resolv_read", "resolv_write", "resolv_restore"}

ASSUME RequestsAssumption == Requests \subseteq RequestType
ASSUME FailingAssumption == Failing \subseteq Commands
ASSUME DistinctDestinations ==
    /\ Servers \cap Subnets = {}
    /\ {"split_default", "vpn_net"} \cap (Servers \cup Subnets) = {}
    /\ UserRoutes \subseteq Subnets
ASSUME DistinctHops == {"bypass", "user", "absent", "physical"} \cap Ifaces = {}
ASSUME NoTunnelAssumption ==
    /\ NoTunnel \notin TunnelContext
    /\ NoSession \notin Sessions
    /\ None \notin Ifaces
    /\ None \notin {"original", "vpn"}

VARIABLES
    active_tunnel,    \* NetworkManager::active_tunnel
    injected_routes,  \* LinuxRouteManager::injected_routes, as <<dest, hop>>
    fw_active,        \* LinuxFirewallManager::is_active
    ipv6_active,      \* PlatformIpv6Manager::is_active
    dns_iface,        \* LinuxDnsManager::active_iface
    dns_backup,       \* LinuxDnsManager::resolv_conf_backup
    routes,           \* host: hop of each destination's route
    links,            \* host: persistent TUN links added by the daemon
    nft_chain,        \* host: rule blocks of the nftables output chain
    nft_policy,       \* host: policy of that chain
    iptables_chain,   \* host: the VPNHUB_OUTPUT chain of the fallback exists
    resolv_conf,      \* host: whose name servers /etc/resolv.conf lists
    link_dns,         \* host: links with systemd-resolved overrides
    ipv6_default      \* host: what the metric-1 IPv6 default route does

routeVars == <<routes, injected_routes>>
fwVars == <<fw_active, nft_chain, nft_policy, iptables_chain>>
dnsVars == <<dns_iface, dns_backup, resolv_conf, link_dns>>
ipv6Vars == <<ipv6_active, ipv6_default>>
netVars == <<active_tunnel, links, routeVars, fwVars, dnsVars, ipv6Vars>>

TypeOK ==
    /\ active_tunnel \in TunnelContext \cup {NoTunnel}
    /\ injected_routes \subseteq Dest \X (Ifaces \cup {"bypass"})
    /\ fw_active \in BOOLEAN
    /\ ipv6_active \in BOOLEAN
    /\ dns_iface \in Ifaces \cup {None}
    /\ dns_backup \in {"original", "vpn", None}
    /\ routes \in [Dest -> Ifaces \cup {"bypass", "user", "absent"}]
    /\ links \subseteq Ifaces
    /\ nft_chain \in Seq(Block)
    /\ nft_policy \in {"accept", "drop"}
    /\ iptables_chain \in BOOLEAN
    /\ resolv_conf \in {"original", "vpn"}
    /\ link_dns \subseteq Ifaces
    /\ ipv6_default \in {"native", "blackhole", "unreachable"}

\* The routing table as the user left it.
OriginalRoutes == [d \in Dest |-> IF d \in UserRoutes THEN "user" ELSE "absent"]

Init ==
    /\ active_tunnel = NoTunnel
    /\ injected_routes = {}
    /\ fw_active = FALSE
    /\ ipv6_active = FALSE
    /\ dns_iface = None
    /\ dns_backup = None
    /\ routes = OriginalRoutes
    /\ links = {}
    /\ nft_chain = <<>>
    /\ nft_policy = "accept"
    /\ iptables_chain = FALSE
    /\ resolv_conf = "original"
    /\ link_dns = {}
    /\ ipv6_default = "native"

\* Exit statuses an external command may report on this host.
Status(cmd) == IF cmd \in Failing THEN BOOLEAN ELSE {TRUE}
-----------------------------------------------------------------------------
(* Interface: InterfaceManager *)

\* `ip link show` decides whether a TUN device must be added; the driver's own
\* device already exists, unless it fell back to the mock.
configure_interface(iface) ==
    links' \in {links, links \cup {iface}}

teardown_interface(iface) == links' = links \ {iface}
-----------------------------------------------------------------------------
(* Routing: LinuxRouteManager *)

EffectiveFullTunnel(r) == r.redirect /\ ~r.intranet_only

\* Routes through the tunnel that a request asks for.
TunnelRoutes(r) ==
    LET scoped == IF EffectiveFullTunnel(r) THEN {"split_default"}
                  ELSE IF r.ip THEN {"vpn_net"} ELSE {}
    IN  (scoped \cup r.pushed \cup r.custom) \X {r.iface}

\* Routes that are remembered whatever `ip route replace` answers: all tunnel
\* routes in full-tunnel mode, only the address route in intranet mode.
AlwaysRemembered(r) ==
    IF EffectiveFullTunnel(r) THEN TunnelRoutes(r)
    ELSE TunnelRoutes(r) \cap ({"vpn_net"} \X {r.iface})

\* Effect of successful `ip route replace` commands on the host's table.
Replace(table, entries) ==
    [d \in Dest |-> IF \E e \in entries : e[1] = d
                    THEN (CHOOSE e \in entries : e[1] = d)[2]
                    ELSE table[d]]

\* `ip route del` matches destination and hop.
Delete(table, entries) ==
    [d \in Dest |-> IF <<d, table[d]>> \in entries THEN "absent" ELSE table[d]]

\* The host route to the server exists only if a default gateway was found.
setup_vpn_routing(r) ==
    \E host \in {{}, {<<r.server, "bypass">>}} :
    \E done \in IF "ip_route" \in Failing THEN SUBSET (host \cup TunnelRoutes(r))
                ELSE {host \cup TunnelRoutes(r)} :
        /\ routes' = Replace(routes, done)
        /\ injected_routes' = injected_routes \cup done \cup AlwaysRemembered(r)

\* Mutant: only the split default route is deleted.
teardown_vpn_routing_DefaultOnly(ctx) ==
    /\ routes' = Delete(routes, {<<"split_default", ctx.iface>>})
    /\ injected_routes' = {}

teardown_vpn_routing(ctx) ==
    /\ routes' = Delete(routes, injected_routes \cup {<<"split_default", ctx.iface>>})
    /\ injected_routes' = {}
-----------------------------------------------------------------------------
(* DNS: LinuxDnsManager *)

\* Mutant: every call takes a backup, also of the daemon's own file.
apply_resolv_conf_fallback_Rebackup ==
    \E read \in Status("resolv_read"), written \in Status("resolv_write") :
        /\ dns_backup' = IF read THEN resolv_conf ELSE dns_backup
        /\ resolv_conf' \in IF written THEN {"vpn"} ELSE {resolv_conf, "vpn"}

\* fs::write truncates before it writes: a failure leaves the file as it was or
\* empty, which is "vpn" here because it is the user's no more.
apply_resolv_conf_fallback ==
    \E read \in Status("resolv_read"), written \in Status("resolv_write") :
        /\ dns_backup' = IF dns_backup = None /\ read THEN resolv_conf
                         ELSE dns_backup
        /\ resolv_conf' \in IF written THEN {"vpn"} ELSE {resolv_conf, "vpn"}

configure_dns(iface) ==
    /\ dns_iface' = iface
    /\ \E resolved \in Status("resolvectl") :
          \/ /\ resolved
             /\ link_dns' = link_dns \cup {iface}
             /\ UNCHANGED <<dns_backup, resolv_conf>>
          \/ /\ ~resolved
             /\ apply_resolv_conf_fallback
             /\ UNCHANGED link_dns

restore_dns ==
    /\ link_dns' = link_dns \ {dns_iface}
    /\ \E written \in Status("resolv_restore") :
          resolv_conf' \in IF dns_backup = None THEN {resolv_conf}
                           ELSE IF written THEN {dns_backup}
                           ELSE {resolv_conf, "vpn"}
    /\ dns_backup' = None
    /\ dns_iface' = None
-----------------------------------------------------------------------------
(* IPv6: PlatformIpv6Manager *)

\* The flag is raised even when neither route could be added.
enable_ipv6_protection ==
    IF ipv6_active THEN UNCHANGED ipv6Vars
    ELSE /\ ipv6_active' = TRUE
         /\ ipv6_default' \in IF "ip6_route" \in Failing
                              THEN {"blackhole", "unreachable", ipv6_default}
                              ELSE {"blackhole"}

disable_ipv6_protection ==
    /\ ipv6_active' = FALSE
    /\ ipv6_default' = IF ipv6_active THEN "native" ELSE ipv6_default
-----------------------------------------------------------------------------
(* Firewall: LinuxFirewallManager *)

\* Mutant: no default drop.
ChainPolicy_Accept(ctx) == "accept"

\* The rules written for one tunnel, by what they depend on.
RuleBlock(ctx) ==
    [iface |-> ctx.iface, server |-> ctx.server, intranet |-> ctx.intranet,
     subnets |-> ctx.subnets, lan |-> ctx.lan, webrtc |-> ctx.webrtc]

\* A packet as the rules see it.  A "dhcp" packet stands for local broadcast too,
\* lan for the detected LAN subnet and multicast.
Packet == [to : Dest \cup {"internet"}, port : {"server", "stun", "dhcp", "other"},
           lan : BOOLEAN, established : BOOLEAN]

\* The rules of a block in their order: the first that matches a packet leaving on
\* interface i decides; "none" when the packet passes them all.
BlockVerdict(b, p, i) ==
    IF i = b.iface THEN "accept"
    ELSE IF ~b.intranet /\ p.to = b.server /\ p.port = "server" THEN "accept"
    ELSE IF ~b.intranet /\ p.port = "dhcp" THEN "accept"
    ELSE IF b.lan /\ p.lan THEN "accept"
    ELSE IF b.webrtc /\ p.port = "stun" THEN "drop"
    ELSE IF b.intranet /\ p.to \in b.subnets THEN "drop"
    ELSE IF p.established THEN "accept"
    ELSE "none"

ChainPolicy(ctx) == IF ctx.intranet THEN "accept" ELSE "drop"

\* `nft -f` declares the table without flushing it: the chain's policy is
\* replaced and the rules are appended.  A block that is already present
\* changes no verdict, so it is not repeated.
enable_kill_switch(ctx) ==
    /\ fw_active' = TRUE
    /\ \E applied \in Status("nft") :
          \/ /\ applied
             /\ nft_chain' = IF \E i \in 1..Len(nft_chain) : nft_chain[i] = RuleBlock(ctx)
                             THEN nft_chain ELSE Append(nft_chain, RuleBlock(ctx))
             /\ nft_policy' = ChainPolicy(ctx)
             /\ UNCHANGED iptables_chain
          \/ /\ ~applied
             /\ iptables_chain' = TRUE
             /\ UNCHANGED <<nft_chain, nft_policy>>

\* Mutant: the active flag is not reset.
disable_kill_switch_FlagKept ==
    /\ nft_chain' = <<>>
    /\ nft_policy' = "accept"
    /\ iptables_chain' = FALSE
    /\ UNCHANGED fw_active

disable_kill_switch ==
    IF fw_active
    THEN /\ nft_chain' = <<>>
         /\ nft_policy' = "accept"
         /\ iptables_chain' = FALSE
         /\ fw_active' = FALSE
    ELSE UNCHANGED fwVars
-----------------------------------------------------------------------------
(* NetworkManager *)

Context(r) ==
    [id |-> r.id, iface |-> r.iface, server |-> r.server,
     intranet |-> ~EffectiveFullTunnel(r),
     subnets |-> (IF r.ip THEN {"vpn_net"} ELSE {}) \cup r.pushed \cup r.custom,
     lan |-> r.lan, webrtc |-> r.webrtc, mode |-> r.mode]

setup_vpn_network(r) ==
    /\ configure_interface(r.iface)
    /\ setup_vpn_routing(r)
    /\ IF r.dns THEN configure_dns(r.iface) ELSE UNCHANGED dnsVars
    /\ IF r.ipv6 THEN enable_ipv6_protection ELSE UNCHANGED ipv6Vars
    /\ IF r.mode # "Off" THEN enable_kill_switch(Context(r)) ELSE UNCHANGED fwVars
    /\ active_tunnel' = Context(r)

teardown_vpn_network ==
    /\ disable_kill_switch
    /\ disable_ipv6_protection
    /\ restore_dns
    /\ IF active_tunnel # NoTunnel
       THEN /\ teardown_vpn_routing(active_tunnel)
            /\ teardown_interface(active_tunnel.iface)
       ELSE UNCHANGED <<routeVars, links>>
    /\ active_tunnel' = NoTunnel

WithMode(ctx, mode) ==
    [id |-> ctx.id, iface |-> ctx.iface, server |-> ctx.server,
     intranet |-> ctx.intranet, subnets |-> ctx.subnets, lan |-> ctx.lan,
     webrtc |-> ctx.webrtc, mode |-> mode]

\* An enable request stores the mode it carries, Off included, and engages the
\* firewall; a request without mode means Strict.
set_kill_switch(enabled, mode) ==
    /\ IF active_tunnel = NoTunnel THEN UNCHANGED <<active_tunnel, fwVars>>
       ELSE IF enabled
       THEN /\ active_tunnel' = WithMode(active_tunnel, mode)
            /\ enable_kill_switch(active_tunnel)
       ELSE /\ active_tunnel' = WithMode(active_tunnel, "Off")
            /\ disable_kill_switch
    /\ UNCHANGED <<links, routeVars, dnsVars, ipv6Vars>>

\* Drop of the manager when the daemon exits, followed by the next daemon start
\* with a fresh manager on the host as it was left.
drop_and_restart ==
    /\ IF active_tunnel # NoTunnel \/ fw_active \/ ipv6_active
       THEN teardown_vpn_network
       ELSE /\ dns_iface' = None
            /\ dns_backup' = None
            /\ injected_routes' = {}
            /\ UNCHANGED <<active_tunnel, links, routes, fwVars, ipv6Vars,
                           resolv_conf, link_dns>>

Next ==
    \/ \E r \in Requests : setup_vpn_network(r)
    \/ teardown_vpn_network
    \/ \E enabled \in BOOLEAN, mode \in Modes : set_kill_switch(enabled, mode)
    \/ drop_and_restart

Spec == Init /\ [][Next]_netVars
-----------------------------------------------------------------------------
(* Properties *)

\* Nothing of the daemon's is left in what the whole host shares.  It does not say
\* that the user's routes are back, see RoutesRestored.
HostFree ==
    /\ \A d \in Dest : routes[d] \in {"user", "absent"}
    /\ nft_chain = <<>>
    /\ ~iptables_chain
    /\ resolv_conf = "original"
    /\ ipv6_default = "native"

\* Nor is there a link the daemon added, or a name server on a link.
VpnFree == HostFree /\ links = {} /\ link_dns = {}

\* Every route through the tunnel or around it is in injected_routes, and
\* injected_routes is only non-empty while a context makes teardown drain it.
RoutesRemembered ==
    /\ \A d \in Dest : routes[d] \in Ifaces \cup {"bypass"}
                       => <<d, routes[d]>> \in injected_routes
    /\ injected_routes # {} => active_tunnel # NoTunnel

\* Firewall rules on the host imply the flag that makes teardown remove them,
\* and the flag implies a context, so that the user can still toggle it.
KillSwitchRemembered ==
    /\ nft_chain # <<>> \/ iptables_chain => fw_active
    /\ fw_active => active_tunnel # NoTunnel

\* An IPv6 blackhole implies the flag that makes teardown remove it.
Ipv6Remembered ==
    /\ ipv6_default # "native" => ipv6_active
    /\ ipv6_active => active_tunnel # NoTunnel

\* While resolv.conf is ours, the backup holds the user's file, however many
\* times DNS was configured in between.
DnsRemembered ==
    /\ resolv_conf = "vpn" => dns_backup = "original"
    /\ dns_backup \in {"original", None}
    /\ dns_backup # None => active_tunnel # NoTunnel

\* Rollback works from memory only: whatever order of set-ups (a reconnect after
\* an error included), toggles, teardowns and restarts, and whichever
\* installation commands failed, the managers remember every host change.
RollbackRemembered ==
    RoutesRemembered /\ KillSwitchRemembered /\ Ipv6Remembered /\ DnsRemembered

\* No context, no trace: after teardown_vpn_network, and before the first
\* set-up, nothing the daemon put on the host is left, TUN links and per-link name
\* servers included.  A user's route that was replaced is another matter
\* (RoutesRestored), and so are tunnels on two interfaces (README).
NoTunnelNoTrace ==
    active_tunnel = NoTunnel => VpnFree /\ ~fw_active

\* What network/mod.rs:174 says of teardown_vpn_network: it "reverts original
\* routes".  `ip route replace` puts the tunnel in the place of a user's static
\* route and nothing remembers what it replaced; teardown deletes the tunnel's.
RoutesRestored ==
    active_tunnel = NoTunnel => routes = OriginalRoutes

\* NetworkManager implements the contract the orchestrator relies on.
Contract == INSTANCE NetworkContract WITH
    tunnel <- IF active_tunnel = NoTunnel THEN NoSession ELSE active_tunnel.id,
    killSwitch <- fw_active,
    clean <- HostFree
ImplementsContract == Contract!ContractSpec

\* nftables verdict for packet p leaving on interface i: the first rule that
\* matches over all blocks decides, then the chain's policy.
Matching(p, i) ==
    {k \in 1..Len(nft_chain) : BlockVerdict(nft_chain[k], p, i) # "none"}
Dropped(p, i) ==
    IF Matching(p, i) = {} THEN nft_chain # <<>> /\ nft_policy = "drop"
    ELSE \E k \in Matching(p, i) :
            /\ \A l \in Matching(p, i) : k <= l
            /\ BlockVerdict(nft_chain[k], p, i) = "drop"

KillSwitchWanted == fw_active /\ active_tunnel.mode # "Off"

\* What the switch of a tunnel must keep off the physical interface.
Protected(ctx, p) == ctx.intranet => p.to \in ctx.subnets

\* What the rules of a block let out by intent: packets to its own server, DHCP
\* and its LAN.
Exempts(b, p) ==
    \/ ~b.intranet /\ p.to = b.server /\ p.port = "server"
    \/ ~b.intranet /\ p.port = "dhcp"
    \/ b.lan /\ p.lan

\* Fail-closed: with the kill switch reported active for the current tunnel, no
\* packet that opens a connection to a VPN subnet, and in full-tunnel mode no such
\* packet at all, may leave on the physical interface, unless a session whose
\* rules are still in the chain exempts it.
KillSwitchBlocksLeaks ==
    KillSwitchWanted =>
        \A p \in Packet :
            /\ Protected(active_tunnel, p)
            /\ ~p.established
            /\ \A k \in 1..Len(nft_chain) : ~Exempts(nft_chain[k], p)
            => Dropped(p, "physical")

\* What nft can promise: as long as every rule set since the switch was last off
\* has been accepted by nft, the accumulated chain opens no leak, whatever mix of
\* full-tunnel and intranet blocks, accepting and dropping rules earlier sessions
\* left in front of the current one.
NftBlocksLeaks == ~iptables_chain => KillSwitchBlocksLeaks

(* Statements of the ruleset's comments that the code refutes (README, "Refuted
   without a run of its own") *)

\* linux_nft.rs:76, "Drop any packet destined for VPN corporate subnets if not
\* going through the tunnel": true of a first session, its LAN aside; the block
\* of an earlier one accepts established connections in front of the drop.
SubnetsSealed ==
    KillSwitchWanted /\ ~iptables_chain /\ active_tunnel.intranet =>
        \A p \in Packet :
            p.to \in active_tunnel.subnets /\ ~(active_tunnel.lan /\ p.lan)
            => Dropped(p, "physical")

\* The firewall drops what does not go through the tunnel; traffic to the VPN
\* subnets on its interface is admitted.  True on one interface only.
TunnelTrafficAdmitted ==
    KillSwitchWanted =>
        \A p \in Packet :
            p.to \in active_tunnel.subnets => ~Dropped(p, active_tunnel.iface)
=============================================================================
