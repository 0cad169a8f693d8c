------------------------ MODULE NetworkManagerProofs ------------------------
(***************************************************************************)
(* What NetworkManager guarantees for every set of requests, interfaces,   *)
(* servers and subnets, and for every set of failing commands that leaves  *)
(* /etc/resolv.conf readable and restorable.                               *)
(***************************************************************************)
EXTENDS NetworkManager, WellFoundedInduction, TLAPS

Hops == Ifaces \cup {"bypass"}

(* Lemmas about the route table *)

\* `ip route replace` either leaves a destination alone or gives it the hop of
\* one of the entries that name it.
LEMMA ReplaceResult ==
    ASSUME NEW table \in [Dest -> Hops \cup {"user", "absent"}],
           NEW entries \in SUBSET (Dest \X Hops)
    PROVE  /\ Replace(table, entries) \in [Dest -> Hops \cup {"user", "absent"}]
           /\ \A d \in Dest : \/ Replace(table, entries)[d] = table[d]
                             \/ <<d, Replace(table, entries)[d]>> \in entries
<1> DEFINE Entry(x) == CHOOSE e \in entries : e[1] = x
<1>1. ASSUME NEW x \in Dest, \E e \in entries : e[1] = x
      PROVE  Entry(x) \in entries /\ Entry(x)[1] = x
  BY <1>1
<1>2. ASSUME NEW e \in entries
      PROVE  e = <<e[1], e[2]>> /\ e[1] \in Dest /\ e[2] \in Hops
  OBVIOUS
<1>3. ASSUME NEW x \in Dest
      PROVE  /\ Replace(table, entries)[x] \in Hops \cup {"user", "absent"}
             /\ \/ Replace(table, entries)[x] = table[x]
                \/ <<x, Replace(table, entries)[x]>> \in entries
  <2>1. CASE \E e \in entries : e[1] = x
    <3>1. Replace(table, entries)[x] = Entry(x)[2]
      BY <2>1 DEF Replace
    <3> QED BY <3>1, <2>1, <1>1, <1>2
  <2>2. CASE ~\E e \in entries : e[1] = x
    BY <2>2 DEF Replace
  <2> QED BY <2>1, <2>2
<1>4. Replace(table, entries) \in [Dest -> Hops \cup {"user", "absent"}]
  <2>1. Replace(table, entries) = [x \in Dest |-> Replace(table, entries)[x]]
    BY DEF Replace
  <2> QED BY <2>1, <1>3
<1> QED BY <1>3, <1>4

\* Deleting a set that holds every daemon route leaves only user routes.
LEMMA DeleteResult ==
    ASSUME NEW table \in [Dest -> Hops \cup {"user", "absent"}], NEW entries,
           \A d \in Dest : table[d] \in Hops => <<d, table[d]>> \in entries
    PROVE  /\ Delete(table, entries) \in [Dest -> Hops \cup {"user", "absent"}]
           /\ \A d \in Dest : Delete(table, entries)[d] \in {"user", "absent"}
BY DEF Delete

\* Deletion never invents a hop.
LEMMA DeleteType ==
    ASSUME NEW table \in [Dest -> Hops \cup {"user", "absent"}], NEW entries
    PROVE  Delete(table, entries) \in [Dest -> Hops \cup {"user", "absent"}]
BY DEF Delete

\* What a request asks for is a set of routes with known destinations and hops.
LEMMA RequestRoutes ==
    ASSUME NEW r \in Requests
    PROVE  /\ TunnelRoutes(r) \subseteq Dest \X Hops
           /\ AlwaysRemembered(r) \subseteq Dest \X Hops
           /\ {<<r.server, "bypass">>} \subseteq Dest \X Hops
           /\ Context(r) \in TunnelContext
           /\ Context(r) # NoTunnel
           /\ Context(r).id \in Sessions
<1>1. r \in RequestType
  BY RequestsAssumption
<1>2. TunnelRoutes(r) \subseteq Dest \X Hops
  BY <1>1 DEF TunnelRoutes, RequestType, Dest, Hops
<1>3. AlwaysRemembered(r) \subseteq Dest \X Hops
  BY <1>2 DEF AlwaysRemembered
<1>4. {<<r.server, "bypass">>} \subseteq Dest \X Hops
  BY <1>1 DEF RequestType, Dest, Hops
<1>5. EffectiveFullTunnel(r) \in BOOLEAN
  BY <1>1 DEF EffectiveFullTunnel, RequestType
<1>6. Context(r) \in TunnelContext /\ Context(r).id \in Sessions
  <2>1. (IF r.ip THEN {"vpn_net"} ELSE {}) \cup r.pushed \cup r.custom \in SUBSET Dest
    BY <1>1 DEF RequestType, Dest
  <2> QED BY <1>1, <1>5, <2>1 DEF Context, TunnelContext, RequestType
<1> QED BY <1>2, <1>3, <1>4, <1>6, NoTunnelAssumption
-----------------------------------------------------------------------------
(* Type correctness: one lemma per manager, then the specification *)

\* The route manager keeps its types.
LEMMA RoutingTypes ==
    ASSUME TypeOK,
           \/ \E r \in Requests : setup_vpn_routing(r)
           \/ teardown_vpn_routing(active_tunnel)
    PROVE  /\ injected_routes' \subseteq Dest \X Hops
           /\ routes' \in [Dest -> Hops \cup {"user", "absent"}]
<1>1. /\ injected_routes \subseteq Dest \X Hops
      /\ routes \in [Dest -> Hops \cup {"user", "absent"}]
  BY DEF TypeOK, Hops
<1>2. ASSUME NEW r \in Requests, setup_vpn_routing(r)
      PROVE  /\ injected_routes' \subseteq Dest \X Hops
             /\ routes' \in [Dest -> Hops \cup {"user", "absent"}]
  <2>1. PICK done \in SUBSET (Dest \X Hops) :
            /\ routes' = Replace(routes, done)
            /\ injected_routes' = injected_routes \cup done \cup AlwaysRemembered(r)
    BY <1>2, RequestRoutes DEF setup_vpn_routing
  <2> QED BY <2>1, <1>1, RequestRoutes, ReplaceResult
<1>3. CASE teardown_vpn_routing(active_tunnel)
  BY <1>1, <1>3, DeleteType DEF teardown_vpn_routing
<1> QED BY <1>2, <1>3

\* The DNS manager keeps its types.
LEMMA DnsTypes ==
    ASSUME TypeOK, \/ \E i \in Ifaces : configure_dns(i)
                   \/ restore_dns
                   \/ UNCHANGED dnsVars
    PROVE  /\ dns_iface' \in Ifaces \cup {None}
           /\ dns_backup' \in {"original", "vpn", None}
           /\ resolv_conf' \in {"original", "vpn"}
           /\ link_dns' \subseteq Ifaces
BY DEF TypeOK, configure_dns, apply_resolv_conf_fallback, restore_dns, dnsVars

\* The IPv6 shield keeps its types.
LEMMA Ipv6Types ==
    ASSUME TypeOK, enable_ipv6_protection \/ disable_ipv6_protection
                   \/ UNCHANGED ipv6Vars
    PROVE  /\ ipv6_active' \in BOOLEAN
           /\ ipv6_default' \in {"native", "blackhole", "unreachable"}
BY DEF TypeOK, enable_ipv6_protection, disable_ipv6_protection, ipv6Vars

\* The empty chain.
LEMMA EmptyChain == <<>> \in Seq(Block)
OBVIOUS

\* The firewall manager keeps its types.
LEMMA FirewallTypes ==
    ASSUME TypeOK, \/ \E ctx \in TunnelContext : enable_kill_switch(ctx)
                   \/ disable_kill_switch
                   \/ UNCHANGED fwVars
    PROVE  /\ fw_active' \in BOOLEAN
           /\ nft_chain' \in Seq(Block)
           /\ nft_policy' \in {"accept", "drop"}
           /\ iptables_chain' \in BOOLEAN
<1>1. ASSUME NEW ctx \in TunnelContext, enable_kill_switch(ctx)
      PROVE  /\ fw_active' \in BOOLEAN
             /\ nft_chain' \in Seq(Block)
             /\ nft_policy' \in {"accept", "drop"}
             /\ iptables_chain' \in BOOLEAN
  <2>1. RuleBlock(ctx) \in Block
    BY DEF RuleBlock, Block, TunnelContext
  <2>2. Append(nft_chain, RuleBlock(ctx)) \in Seq(Block)
    BY <2>1 DEF TypeOK
  <2> QED BY <1>1, <2>2 DEF TypeOK, enable_kill_switch, ChainPolicy
<1>2. CASE disable_kill_switch \/ UNCHANGED fwVars
  BY <1>2, EmptyChain DEF TypeOK, disable_kill_switch, fwVars
<1> QED BY <1>1, <1>2

\* Every method of NetworkManager keeps the type invariant.
LEMMA TypesPreserved ==
    ASSUME TypeOK, [Next]_netVars
    PROVE  TypeOK'
<1>1. ASSUME NEW r \in Requests, setup_vpn_network(r)
      PROVE  TypeOK'
  <2>1. Context(r) \in TunnelContext /\ r.iface \in Ifaces
    BY RequestRoutes, RequestsAssumption DEF RequestType
  <2>2. links' \subseteq Ifaces
    BY <1>1, <2>1 DEF TypeOK, setup_vpn_network, configure_interface
  <2>3. active_tunnel' \in TunnelContext
    BY <1>1, <2>1 DEF setup_vpn_network
  <2>4. setup_vpn_routing(r)
    BY <1>1 DEF setup_vpn_network
  <2>5. \/ \E i \in Ifaces : configure_dns(i)
        \/ UNCHANGED dnsVars
    BY <1>1, <2>1 DEF setup_vpn_network
  <2>6. enable_ipv6_protection \/ UNCHANGED ipv6Vars
    BY <1>1 DEF setup_vpn_network
  <2>7. \/ \E ctx \in TunnelContext : enable_kill_switch(ctx)
        \/ UNCHANGED fwVars
    BY <1>1, <2>1 DEF setup_vpn_network
  <2> QED
    BY <2>2, <2>3, <2>4, <2>5, <2>6, <2>7, RoutingTypes, DnsTypes, Ipv6Types,
       FirewallTypes DEF TypeOK, Hops
<1>2. ASSUME teardown_vpn_network
      PROVE  TypeOK'
  <2>1. links' \subseteq Ifaces /\ active_tunnel' = NoTunnel
    BY <1>2 DEF TypeOK, teardown_vpn_network, teardown_interface
  <2>2. teardown_vpn_routing(active_tunnel) \/ UNCHANGED routeVars
    BY <1>2 DEF teardown_vpn_network
  <2>3. /\ injected_routes' \subseteq Dest \X Hops
        /\ routes' \in [Dest -> Hops \cup {"user", "absent"}]
    BY <2>2, RoutingTypes DEF TypeOK, routeVars, Hops
  <2>4. restore_dns /\ disable_ipv6_protection /\ disable_kill_switch
    BY <1>2 DEF teardown_vpn_network
  <2> QED BY <2>1, <2>3, <2>4, DnsTypes, Ipv6Types, FirewallTypes DEF TypeOK, Hops
<1>3. ASSUME NEW enabled \in BOOLEAN, NEW mode \in Modes,
             set_kill_switch(enabled, mode)
      PROVE  TypeOK'
  <2>1. active_tunnel' \in TunnelContext \cup {NoTunnel}
    <3>1. ASSUME active_tunnel # NoTunnel, NEW m \in Modes
          PROVE  WithMode(active_tunnel, m) \in TunnelContext
      BY <3>1 DEF TypeOK, TunnelContext, WithMode
    <3>2. "Off" \in Modes
      BY DEF Modes
    <3> QED BY <1>3, <3>1, <3>2 DEF set_kill_switch, TypeOK
  <2>2. \/ \E ctx \in TunnelContext : enable_kill_switch(ctx)
        \/ disable_kill_switch
        \/ UNCHANGED fwVars
    BY <1>3 DEF set_kill_switch, TypeOK, fwVars
  <2>3. UNCHANGED <<links, routeVars, dnsVars, ipv6Vars>>
    BY <1>3 DEF set_kill_switch
  <2> QED
    BY <2>1, <2>2, <2>3, FirewallTypes DEF TypeOK, routeVars, dnsVars, ipv6Vars
<1>4. ASSUME drop_and_restart
      PROVE  TypeOK'
  BY <1>2, <1>4 DEF drop_and_restart, TypeOK, fwVars, ipv6Vars
<1>5. CASE UNCHANGED netVars
  BY <1>5 DEF TypeOK, netVars, routeVars, fwVars, dnsVars, ipv6Vars
<1> QED BY <1>1, <1>2, <1>3, <1>4, <1>5 DEF Next

\* NetworkManager's fields and the host state keep their types.
THEOREM NetworkTypeCorrect == Spec => []TypeOK
<1>1. Init => TypeOK
  BY EmptyChain DEF Init, OriginalRoutes, TypeOK
<1> QED BY <1>1, TypesPreserved, PTL DEF Spec
-----------------------------------------------------------------------------
(* Rollback *)

\* The user's resolv.conf can be read and written back; every other command may
\* fail at any time.
Restorable == {"resolv_read", "resolv_restore"} \cap Failing = {}

\* The inductive invariant.
Remembered == TypeOK /\ RollbackRemembered

\* A set-up writes every route it installs into injected_routes.
LEMMA RoutesRememberedBySetup ==
    ASSUME Remembered, NEW r \in Requests, setup_vpn_network(r)
    PROVE  RoutesRemembered'
<1>1. /\ routes \in [Dest -> Hops \cup {"user", "absent"}]
      /\ \A d \in Dest : routes[d] \in Hops => <<d, routes[d]>> \in injected_routes
  BY DEF Remembered, TypeOK, RollbackRemembered, RoutesRemembered, Hops
<1>2. PICK done \in SUBSET (Dest \X Hops) :
          /\ routes' = Replace(routes, done)
          /\ injected_routes' = injected_routes \cup done \cup AlwaysRemembered(r)
  BY RequestRoutes DEF setup_vpn_network, setup_vpn_routing
<1>3. active_tunnel' # NoTunnel
  BY RequestRoutes DEF setup_vpn_network
<1>4. ASSUME NEW d \in Dest, routes'[d] \in Hops
      PROVE  <<d, routes'[d]>> \in injected_routes'
  <2>1. \/ routes'[d] = routes[d]
        \/ <<d, routes'[d]>> \in done
    BY <1>1, <1>2, ReplaceResult
  <2> QED BY <2>1, <1>1, <1>2, <1>4
<1> QED BY <1>3, <1>4 DEF RoutesRemembered, Hops

\* The DNS fall-back backs up the user's file and nothing else.
LEMMA DnsRememberedByConfigure ==
    ASSUME Restorable, DnsRemembered, TypeOK, NEW i, configure_dns(i)
    PROVE  /\ resolv_conf' = "vpn" => dns_backup' = "original"
           /\ dns_backup' \in {"original", None}
BY NoTunnelAssumption
   DEF Restorable, DnsRemembered, TypeOK, configure_dns, apply_resolv_conf_fallback,
       Status

\* Teardown empties the memory and the host.
LEMMA TeardownForgets ==
    ASSUME Restorable, Remembered, teardown_vpn_network
    PROVE  /\ active_tunnel' = NoTunnel
           /\ ~fw_active'
           /\ HostFree'
           /\ RollbackRemembered'
<1>1. active_tunnel' = NoTunnel
  BY DEF teardown_vpn_network
<1>2. ~fw_active' /\ nft_chain' = <<>> /\ ~iptables_chain'
  BY DEF teardown_vpn_network, disable_kill_switch, fwVars, Remembered,
         RollbackRemembered, KillSwitchRemembered
<1>3. ~ipv6_active' /\ ipv6_default' = "native"
  BY DEF teardown_vpn_network, disable_ipv6_protection, Remembered,
         RollbackRemembered, Ipv6Remembered
<1>4. dns_backup' = None /\ resolv_conf' = "original"
  BY NoTunnelAssumption
     DEF teardown_vpn_network, restore_dns, Restorable, Status, Remembered, TypeOK,
         RollbackRemembered, DnsRemembered
<1>5. injected_routes' = {} /\ \A d \in Dest : routes'[d] \in {"user", "absent"}
  <2>1. /\ routes \in [Dest -> Hops \cup {"user", "absent"}]
        /\ \A d \in Dest : routes[d] \in Hops => <<d, routes[d]>> \in injected_routes
    BY DEF Remembered, TypeOK, RollbackRemembered, RoutesRemembered, Hops
  <2>2. CASE active_tunnel = NoTunnel
    <3>1. injected_routes = {} /\ UNCHANGED routeVars
      BY <2>2 DEF teardown_vpn_network, Remembered, RollbackRemembered, RoutesRemembered
    <3>2. \A d \in Dest : routes[d] \in {"user", "absent"}
      BY <2>1, <3>1
    <3> QED BY <3>1, <3>2 DEF routeVars
  <2>3. CASE active_tunnel # NoTunnel
    <3> DEFINE gone == injected_routes \cup {<<"split_default", active_tunnel.iface>>}
    <3>1. routes' = Delete(routes, gone) /\ injected_routes' = {}
      BY <2>3 DEF teardown_vpn_network, teardown_vpn_routing
    <3>2. \A d \in Dest : routes[d] \in Hops => <<d, routes[d]>> \in gone
      BY <2>1
    <3> HIDE DEF gone
    <3> QED BY <3>1, <3>2, <2>1, DeleteResult
  <2> QED BY <2>2, <2>3
<1>6. HostFree'
  BY <1>2, <1>3, <1>4, <1>5 DEF HostFree
<1>7. RoutesRemembered'
  BY <1>5, DistinctHops DEF RoutesRemembered
<1>8. KillSwitchRemembered' /\ Ipv6Remembered' /\ DnsRemembered'
  BY <1>2, <1>3, <1>4 DEF KillSwitchRemembered, Ipv6Remembered, DnsRemembered
<1> QED BY <1>1, <1>2, <1>6, <1>7, <1>8 DEF RollbackRemembered

\* A daemon that remembers nothing has nothing to roll back, so dropping the
\* manager without a teardown loses nothing.
LEMMA NothingRemembered ==
    ASSUME Remembered, active_tunnel = NoTunnel
    PROVE  /\ HostFree /\ ~fw_active /\ ~ipv6_active
           /\ injected_routes = {} /\ dns_backup = None
<1>1. injected_routes = {} /\ ~fw_active /\ ~ipv6_active /\ dns_backup = None
  BY DEF Remembered, RollbackRemembered, RoutesRemembered, KillSwitchRemembered,
         Ipv6Remembered, DnsRemembered
<1>2. \A d \in Dest : routes[d] \in {"user", "absent"}
  BY <1>1 DEF Remembered, TypeOK, RollbackRemembered, RoutesRemembered
<1>3. nft_chain = <<>> /\ ~iptables_chain /\ ipv6_default = "native"
  BY <1>1 DEF Remembered, RollbackRemembered, KillSwitchRemembered, Ipv6Remembered
<1>4. resolv_conf = "original"
  BY <1>1, NoTunnelAssumption DEF Remembered, TypeOK, RollbackRemembered, DnsRemembered
<1> QED BY <1>1, <1>2, <1>3, <1>4 DEF HostFree

\* Every method keeps the memory complete.
LEMMA RollbackPreserved ==
    ASSUME Restorable, Remembered, [Next]_netVars
    PROVE  RollbackRemembered'
<1>1. ASSUME NEW r \in Requests, setup_vpn_network(r)
      PROVE  RollbackRemembered'
  <2>1. active_tunnel' # NoTunnel
    BY <1>1, RequestRoutes DEF setup_vpn_network
  <2>2. RoutesRemembered'
    BY <1>1, RoutesRememberedBySetup
  <2>3. KillSwitchRemembered'
    BY <1>1, <2>1 DEF setup_vpn_network, enable_kill_switch, fwVars, Remembered,
                      RollbackRemembered, KillSwitchRemembered
  <2>4. Ipv6Remembered'
    BY <1>1, <2>1 DEF setup_vpn_network, enable_ipv6_protection, ipv6Vars, Remembered,
                      RollbackRemembered, Ipv6Remembered
  <2>5. DnsRemembered'
    <3>1. configure_dns(r.iface) \/ UNCHANGED dnsVars
      BY <1>1 DEF setup_vpn_network
    <3> QED
      BY <3>1, <2>1, DnsRememberedByConfigure
         DEF Remembered, RollbackRemembered, DnsRemembered, dnsVars
  <2> QED BY <2>2, <2>3, <2>4, <2>5 DEF RollbackRemembered
<1>2. ASSUME NEW enabled \in BOOLEAN, NEW mode \in Modes,
             set_kill_switch(enabled, mode)
      PROVE  RollbackRemembered'
  <2>1. active_tunnel' = NoTunnel <=> active_tunnel = NoTunnel
    <3>1. ASSUME active_tunnel # NoTunnel, NEW m \in Modes
          PROVE  WithMode(active_tunnel, m) # NoTunnel
      BY <3>1, NoTunnelAssumption DEF Remembered, TypeOK, TunnelContext, WithMode
    <3>2. "Off" \in Modes
      BY DEF Modes
    <3> QED BY <1>2, <3>1, <3>2 DEF set_kill_switch
  <2>2. UNCHANGED <<links, routeVars, dnsVars, ipv6Vars>>
    BY <1>2 DEF set_kill_switch
  <2>3. RoutesRemembered' /\ Ipv6Remembered' /\ DnsRemembered'
    BY <2>1, <2>2 DEF Remembered, RollbackRemembered, RoutesRemembered, Ipv6Remembered,
                      DnsRemembered, routeVars, dnsVars, ipv6Vars
  <2>4. KillSwitchRemembered'
    BY <1>2, <2>1 DEF set_kill_switch, enable_kill_switch, disable_kill_switch, fwVars,
                      Remembered, RollbackRemembered, KillSwitchRemembered
  <2> QED BY <2>3, <2>4 DEF RollbackRemembered
<1>3. ASSUME drop_and_restart
      PROVE  RollbackRemembered'
  <2>1. CASE teardown_vpn_network
    BY <2>1, TeardownForgets
  <2>2. CASE ~teardown_vpn_network
    <3>1. active_tunnel = NoTunnel
      BY <1>3, <2>2 DEF drop_and_restart
    <3>2. UNCHANGED <<active_tunnel, routes, fwVars, ipv6Vars, resolv_conf>>
      BY <1>3, <2>2 DEF drop_and_restart
    <3>3. injected_routes' = injected_routes /\ dns_backup' = dns_backup
      BY <1>3, <2>2, <3>1, NothingRemembered DEF drop_and_restart
    <3> QED
      BY <3>2, <3>3 DEF Remembered, RollbackRemembered, RoutesRemembered,
                        KillSwitchRemembered, Ipv6Remembered, DnsRemembered, fwVars,
                        ipv6Vars
  <2> QED BY <2>1, <2>2
<1>4. CASE UNCHANGED netVars
  BY <1>4 DEF Remembered, RollbackRemembered, RoutesRemembered, KillSwitchRemembered,
              Ipv6Remembered, DnsRemembered, netVars, routeVars, fwVars, dnsVars, ipv6Vars
<1> QED BY <1>1, <1>2, <1>3, <1>4, TeardownForgets DEF Next

\* Both invariants hold in the initial state.
LEMMA RememberedInitially == Init => Remembered
<1>1. Init => TypeOK
  BY EmptyChain DEF Init, OriginalRoutes, TypeOK
<1>2. Init => RoutesRemembered
  BY DistinctHops DEF Init, OriginalRoutes, RoutesRemembered
<1>3. Init => KillSwitchRemembered /\ Ipv6Remembered /\ DnsRemembered
  BY DEF Init, KillSwitchRemembered, Ipv6Remembered, DnsRemembered
<1> QED BY <1>1, <1>2, <1>3 DEF Remembered, RollbackRemembered

\* The managers remember every change they made to the host, in every order of
\* set-ups, toggles, teardowns and restarts and with every other command failing.
THEOREM RollbackIsRemembered == Restorable => (Spec => []RollbackRemembered)
<1> SUFFICES ASSUME Restorable PROVE Spec => []RollbackRemembered
  OBVIOUS
<1>1. Remembered /\ [Next]_netVars => Remembered'
  BY RollbackPreserved, TypesPreserved DEF Remembered
<1>2. Remembered => RollbackRemembered
  BY DEF Remembered
<1> QED BY RememberedInitially, <1>1, <1>2, PTL DEF Spec

\* All tunnels have the same interface name.
OneInterface == \E i : Ifaces \subseteq {i}

\* Links and per-link name servers: on one interface a context stands for all of
\* them, and so does active_iface for the name servers.
LinksRemembered ==
    /\ links # {} => active_tunnel # NoTunnel
    /\ link_dns # {} => dns_iface # None
    /\ dns_iface # None => active_tunnel # NoTunnel

\* Teardown of the only interface leaves neither a link nor its name servers.
LEMMA LinksTornDown ==
    ASSUME OneInterface, TypeOK, LinksRemembered, teardown_vpn_network
    PROVE  links' = {} /\ link_dns' = {} /\ dns_iface' = None
<1>1. PICK i : Ifaces \subseteq {i}
  BY DEF OneInterface
<1>2. links' = {}
  <2>1. CASE active_tunnel = NoTunnel
    BY <2>1 DEF teardown_vpn_network, LinksRemembered
  <2>2. CASE active_tunnel # NoTunnel
    <3>1. active_tunnel.iface = i /\ links \subseteq {i}
      BY <1>1, <2>2 DEF TypeOK, TunnelContext
    <3> QED BY <3>1, <2>2 DEF teardown_vpn_network, teardown_interface
  <2> QED BY <2>1, <2>2
<1>3. link_dns' = {} /\ dns_iface' = None
  <2>1. link_dns' = link_dns \ {dns_iface} /\ dns_iface' = None
    BY DEF teardown_vpn_network, restore_dns
  <2>2. link_dns # {} => dns_iface = i
    BY <1>1 DEF TypeOK, LinksRemembered
  <2>3. link_dns \subseteq {i}
    BY <1>1 DEF TypeOK
  <2> QED BY <2>1, <2>2, <2>3
<1> QED BY <1>2, <1>3

LEMMA LinksPreserved ==
    ASSUME OneInterface, TypeOK, LinksRemembered, [Next]_netVars
    PROVE  LinksRemembered'
<1>1. ASSUME NEW r \in Requests, setup_vpn_network(r)
      PROVE  LinksRemembered'
  <2>1. active_tunnel' # NoTunnel
    BY <1>1, RequestRoutes DEF setup_vpn_network
  <2>2. r.iface # None
    BY RequestsAssumption, NoTunnelAssumption DEF RequestType
  <2>3. link_dns' # {} => dns_iface' # None
    BY <1>1, <2>2 DEF setup_vpn_network, configure_dns, dnsVars, LinksRemembered
  <2> QED BY <2>1, <2>3 DEF LinksRemembered
<1>2. ASSUME teardown_vpn_network
      PROVE  LinksRemembered'
  BY <1>2, LinksTornDown DEF LinksRemembered
<1>3. ASSUME NEW enabled \in BOOLEAN, NEW mode \in Modes,
             set_kill_switch(enabled, mode)
      PROVE  LinksRemembered'
  <2>1. active_tunnel # NoTunnel => active_tunnel' # NoTunnel
    <3>1. ASSUME active_tunnel # NoTunnel, NEW m \in Modes
          PROVE  WithMode(active_tunnel, m) # NoTunnel
      BY <3>1, NoTunnelAssumption DEF TypeOK, TunnelContext, WithMode
    <3>2. "Off" \in Modes
      BY DEF Modes
    <3> QED BY <1>3, <3>1, <3>2 DEF set_kill_switch
  <2> QED BY <1>3, <2>1 DEF set_kill_switch, dnsVars, LinksRemembered
<1>4. ASSUME drop_and_restart
      PROVE  LinksRemembered'
  <2>1. CASE teardown_vpn_network
    BY <2>1, <1>2
  <2>2. CASE ~teardown_vpn_network
    <3>1. /\ active_tunnel = NoTunnel
          /\ UNCHANGED <<active_tunnel, links, link_dns>> /\ dns_iface' = None
      BY <1>4, <2>2 DEF drop_and_restart
    <3> QED BY <3>1 DEF LinksRemembered
  <2> QED BY <2>1, <2>2
<1>5. CASE UNCHANGED netVars
  BY <1>5 DEF netVars, dnsVars, LinksRemembered
<1> QED BY <1>1, <1>2, <1>3, <1>4, <1>5 DEF Next

\* On one interface, without a tunnel context nothing the daemon put on the host is
\* left: teardown, even after failed or repeated set-ups, removes every route,
\* rule, name server and link it made.  That a user's replaced route comes back is
\* not claimed; RoutesRestored refutes it.
THEOREM NoTraceWithoutTunnel ==
    Restorable /\ OneInterface => (Spec => []NoTunnelNoTrace)
<1> SUFFICES ASSUME Restorable, OneInterface PROVE Spec => []NoTunnelNoTrace
  OBVIOUS
<1>1. Remembered /\ [Next]_netVars => Remembered'
  BY RollbackPreserved, TypesPreserved DEF Remembered
<1>2. Init => LinksRemembered
  BY DEF Init, LinksRemembered
<1>3. Remembered /\ LinksRemembered /\ [Next]_netVars => LinksRemembered'
  BY LinksPreserved DEF Remembered
<1>4. Remembered /\ LinksRemembered => NoTunnelNoTrace
  BY NothingRemembered DEF NoTunnelNoTrace, VpnFree, LinksRemembered
<1> QED BY RememberedInitially, <1>1, <1>2, <1>3, <1>4, PTL DEF Spec
-----------------------------------------------------------------------------
(* Refinement of the contract the orchestrator relies on *)

\* Every method is a step of the contract, or invisible to it.
LEMMA ContractStep ==
    ASSUME Restorable, Remembered, [Next]_netVars
    PROVE  [Contract!ContractNext]_(Contract!contractVars)
<1>1. ASSUME NEW r \in Requests, setup_vpn_network(r)
      PROVE  Contract!ContractNext
  <2>1. active_tunnel' # NoTunnel /\ active_tunnel'.id = r.id /\ r.id \in Sessions
    BY <1>1, RequestRoutes DEF setup_vpn_network, Context
  <2>2. fw_active' = (fw_active \/ r.mode # "Off")
    BY <1>1 DEF setup_vpn_network, enable_kill_switch, fwVars, Remembered, TypeOK
  <2>3. HostFree' \in BOOLEAN
    BY DEF HostFree
  <2>4. Contract!Setup(r.id, r.mode # "Off")
    BY <2>1, <2>2, <2>3 DEF Contract!Setup
  <2> QED BY <2>1, <2>4 DEF Contract!ContractNext
<1>2. ASSUME teardown_vpn_network
      PROVE  Contract!ContractNext
  <2>1. active_tunnel' = NoTunnel /\ ~fw_active' /\ HostFree' /\ fw_active' \in BOOLEAN
    BY <1>2, TeardownForgets, TypesPreserved DEF Remembered, TypeOK, Next
  <2>2. Contract!Teardown
    BY <2>1 DEF Contract!Teardown, HostFree
  <2> QED BY <2>2 DEF Contract!ContractNext
<1>3. ASSUME NEW enabled \in BOOLEAN, NEW mode \in Modes,
             set_kill_switch(enabled, mode)
      PROVE  [Contract!ContractNext]_(Contract!contractVars)
  <2>1. CASE active_tunnel = NoTunnel
    <3>1. UNCHANGED netVars
      BY <1>3, <2>1 DEF set_kill_switch, netVars
    <3> QED
      BY <3>1 DEF Contract!contractVars, HostFree, netVars, routeVars, fwVars, dnsVars,
                  ipv6Vars
  <2>2. CASE active_tunnel # NoTunnel
    <3>1. active_tunnel' # NoTunnel /\ active_tunnel'.id = active_tunnel.id
      <4>1. ASSUME NEW m \in Modes
            PROVE  /\ WithMode(active_tunnel, m) # NoTunnel
                   /\ WithMode(active_tunnel, m).id = active_tunnel.id
        BY <2>2, NoTunnelAssumption DEF Remembered, TypeOK, TunnelContext, WithMode
      <4>2. "Off" \in Modes
        BY DEF Modes
      <4> QED BY <1>3, <2>2, <4>1, <4>2 DEF set_kill_switch
    <3>2. active_tunnel.id # NoSession
      BY <2>2, NoTunnelAssumption DEF Remembered, TypeOK, TunnelContext
    <3>3. fw_active' = enabled
      <4>1. CASE enabled
        BY <1>3, <2>2, <4>1 DEF set_kill_switch, enable_kill_switch
      <4>2. CASE ~enabled
        <5>1. disable_kill_switch
          BY <1>3, <2>2, <4>2 DEF set_kill_switch
        <5>2. fw_active' = FALSE
          BY <5>1 DEF disable_kill_switch, fwVars, Remembered, TypeOK
        <5> QED BY <4>2, <5>2
      <4> QED BY <4>1, <4>2
    <3>4. HostFree' \in BOOLEAN
      BY DEF HostFree
    <3>5. Contract!SetKillSwitch(enabled)
      BY <2>2, <3>1, <3>2, <3>3, <3>4 DEF Contract!SetKillSwitch
    <3> QED BY <3>5 DEF Contract!ContractNext
  <2> QED BY <2>1, <2>2
<1>4. ASSUME drop_and_restart
      PROVE  [Contract!ContractNext]_(Contract!contractVars)
  <2>1. CASE teardown_vpn_network
    BY <2>1, <1>2
  <2>2. CASE ~teardown_vpn_network
    <3>1. UNCHANGED <<active_tunnel, routes, fwVars, ipv6Vars, resolv_conf>>
      BY <1>4, <2>2 DEF drop_and_restart
    <3> QED BY <3>1 DEF Contract!contractVars, HostFree, fwVars, ipv6Vars
  <2> QED BY <2>1, <2>2
<1>5. CASE UNCHANGED netVars
  BY <1>5 DEF Contract!contractVars, HostFree, netVars, routeVars, fwVars, dnsVars, ipv6Vars
<1> QED BY <1>1, <1>2, <1>3, <1>4, <1>5 DEF Next

\* NetworkManager implements NetworkContract, which is all that Orchestrator
\* assumes of it.
THEOREM NetworkImplementsContract == Restorable => (Spec => ImplementsContract)
<1> SUFFICES ASSUME Restorable PROVE Spec => ImplementsContract
  OBVIOUS
<1>1. Init => Contract!ContractInit
  <2>1. Init => HostFree /\ active_tunnel = NoTunnel
    BY RememberedInitially, NothingRemembered DEF Init
  <2> QED BY <2>1 DEF Init, Contract!ContractInit, HostFree
<1>2. Remembered /\ [Next]_netVars => Remembered'
  BY RollbackPreserved, TypesPreserved DEF Remembered
<1>3. Remembered /\ [Next]_netVars => [Contract!ContractNext]_(Contract!contractVars)
  BY ContractStep
<1> QED
  BY RememberedInitially, <1>1, <1>2, <1>3, PTL
     DEF Spec, ImplementsContract, Contract!ContractSpec
-----------------------------------------------------------------------------
(* The firewall's verdicts *)

\* A set of numbers has a least one.
LEMMA Least ==
    ASSUME NEW T, T \subseteq Nat, T # {}
    PROVE  \E x \in T : \A y \in T : x <= y
<1> DEFINE R == OpToRel(<, Nat)
<1>1. IsWellFoundedOn(R, Nat)
  BY NatLessThanWellFounded
<1>2. \A x \in Nat, y \in Nat : y < x => <<y, x>> \in R
  BY DEF OpToRel
<1> HIDE DEF R
<1>3. \E x \in T : \A y \in T : ~ (<<y, x>> \in R)
  BY <1>1, WFMin
<1>4. PICK x \in T : \A y \in T : ~ (<<y, x>> \in R)
  BY <1>3
<1>5. ASSUME NEW y \in T PROVE x <= y
  <2>1. x \in Nat /\ y \in Nat
    OBVIOUS
  <2>2. ~(y < x)
    BY <1>2, <1>4, <2>1
  <2> QED BY <2>1, <2>2
<1> QED BY <1>5

\* While nft accepted every rule set, the chain holds the rules of the tunnel the
\* switch is wanted for, among whatever earlier sessions appended, and has its policy.
Enforced ==
    ~iptables_chain /\ KillSwitchWanted =>
        /\ \E k \in 1..Len(nft_chain) : nft_chain[k] = RuleBlock(active_tunnel)
        /\ nft_policy = ChainPolicy(active_tunnel)

\* A packet that opens a connection and that no block exempts.
Leak(p) ==
    /\ p \in Packet
    /\ ~p.established
    /\ \A k \in 1..Len(nft_chain) : ~Exempts(nft_chain[k], p)

\* On the physical interface the rules that accept such a packet do not match, in
\* whichever block, so the first rule that matches drops it.
LEMMA FirstMatchDrops ==
    ASSUME TypeOK, NEW p, Leak(p), Matching(p, "physical") # {}
    PROVE  Dropped(p, "physical")
<1>1. nft_chain \in Seq(Block) /\ Len(nft_chain) \in Nat
  BY DEF TypeOK
<1>2. Matching(p, "physical") \subseteq Nat /\ Matching(p, "physical") \subseteq 1..Len(nft_chain)
  BY <1>1 DEF Matching
<1>3. PICK k \in Matching(p, "physical") : \A l \in Matching(p, "physical") : k <= l
  BY <1>2, Least
<1>4. nft_chain[k] \in Block
  BY <1>1, <1>2
<1>5. nft_chain[k].iface # "physical"
  BY <1>4, DistinctHops DEF Block
<1>6. BlockVerdict(nft_chain[k], p, "physical") # "none"
  BY <1>3 DEF Matching
<1>7. ~Exempts(nft_chain[k], p) /\ ~p.established
  BY <1>2 DEF Leak
<1>8. BlockVerdict(nft_chain[k], p, "physical") = "drop"
  BY <1>5, <1>6, <1>7 DEF BlockVerdict, Exempts
<1> QED BY <1>3, <1>8 DEF Dropped

\* The rules and the policy of the wanted tunnel block every leak.
LEMMA EnforcedBlocks ==
    ASSUME TypeOK, Enforced, active_tunnel \in TunnelContext, ~iptables_chain, KillSwitchWanted
    PROVE  KillSwitchBlocksLeaks
<1>1. nft_chain \in Seq(Block) /\ Len(nft_chain) \in Nat
  BY DEF TypeOK
<1>2. PICK k \in 1..Len(nft_chain) : nft_chain[k] = RuleBlock(active_tunnel)
  BY DEF Enforced
<1>3. ASSUME NEW p \in Packet, Protected(active_tunnel, p), Leak(p)
      PROVE  Dropped(p, "physical")
  <2>1. CASE Matching(p, "physical") # {}
    BY <1>3, <2>1, FirstMatchDrops
  <2>2. CASE Matching(p, "physical") = {}
    <3>1. ~active_tunnel.intranet
      <4>1. SUFFICES ASSUME active_tunnel.intranet PROVE FALSE
        OBVIOUS
      <4>2. p.to \in active_tunnel.subnets
        BY <1>3, <4>1 DEF Protected
      <4>3. nft_chain[k].intranet /\ p.to \in nft_chain[k].subnets
        BY <1>2, <4>1, <4>2 DEF RuleBlock
      <4>4. BlockVerdict(nft_chain[k], p, "physical") # "none"
        BY <4>3 DEF BlockVerdict
      <4> QED BY <2>2, <4>4 DEF Matching
    <3>2. nft_chain # <<>>
      BY <1>1, <1>2
    <3>3. nft_policy = "drop"
      BY <3>1 DEF Enforced, ChainPolicy
    <3> QED BY <2>2, <3>2, <3>3 DEF Dropped
  <2> QED BY <2>1, <2>2
<1> QED BY <1>3 DEF KillSwitchBlocksLeaks, Leak

\* Engaging the switch for a context puts its rules in the chain, unless nft fails.
LEMMA EngageEnforces ==
    ASSUME TypeOK, NEW ctx \in TunnelContext, enable_kill_switch(ctx), ~iptables_chain'
    PROVE  /\ \E k \in 1..Len(nft_chain') : nft_chain'[k] = RuleBlock(ctx)
           /\ nft_policy' = ChainPolicy(ctx)
<1>1. nft_chain \in Seq(Block) /\ Len(nft_chain) \in Nat /\ RuleBlock(ctx) \in Block
  BY DEF TypeOK, RuleBlock, Block, TunnelContext
<1>2. nft_policy' = ChainPolicy(ctx)
  BY DEF enable_kill_switch
<1>3. CASE \E i \in 1..Len(nft_chain) : nft_chain[i] = RuleBlock(ctx)
  BY <1>2, <1>3 DEF enable_kill_switch
<1>4. CASE ~\E i \in 1..Len(nft_chain) : nft_chain[i] = RuleBlock(ctx)
  <2> DEFINE b == RuleBlock(ctx)
             w == Append(nft_chain, b)
  <2>1. nft_chain' = w
    BY <1>4 DEF enable_kill_switch
  <2> HIDE DEF b
  <2>2. Len(w) = Len(nft_chain) + 1 /\ w[Len(nft_chain) + 1] = b
    BY <1>1
  <2> HIDE DEF w
  <2>3. Len(nft_chain) + 1 \in 1..Len(w)
    BY <1>1, <2>2
  <2> QED BY <1>2, <2>1, <2>2, <2>3 DEF b
<1> QED BY <1>3, <1>4

LEMMA EnforcedStep ==
    ASSUME TypeOK, KillSwitchRemembered, Enforced, [Next]_netVars
    PROVE  Enforced'
<1>1. ASSUME NEW r \in Requests, setup_vpn_network(r)
      PROVE  Enforced'
  <2>1. Context(r) \in TunnelContext /\ active_tunnel' = Context(r)
    BY <1>1, RequestRoutes DEF setup_vpn_network
  <2>2. CASE r.mode = "Off"
    BY <2>1, <2>2 DEF Enforced, KillSwitchWanted, Context
  <2>3. CASE r.mode # "Off"
    <3>1. enable_kill_switch(Context(r))
      BY <1>1, <2>3 DEF setup_vpn_network
    <3> QED BY <2>1, <3>1, EngageEnforces DEF Enforced
  <2> QED BY <2>2, <2>3
<1>2. ASSUME teardown_vpn_network
      PROVE  Enforced'
  <2>1. ~fw_active'
    BY <1>2 DEF teardown_vpn_network, disable_kill_switch, fwVars
  <2> QED BY <2>1 DEF Enforced, KillSwitchWanted
<1>3. ASSUME NEW enabled \in BOOLEAN, NEW mode \in Modes, set_kill_switch(enabled, mode)
      PROVE  Enforced'
  <2>1. CASE active_tunnel = NoTunnel
    BY <1>3, <2>1 DEF set_kill_switch, fwVars, Enforced, KillSwitchWanted, RuleBlock, ChainPolicy
  <2>2. CASE active_tunnel # NoTunnel /\ enabled
    <3>1. active_tunnel \in TunnelContext /\ enable_kill_switch(active_tunnel) /\ active_tunnel' = WithMode(active_tunnel, mode)
      BY <1>3, <2>2 DEF set_kill_switch, TypeOK
    <3>2. RuleBlock(active_tunnel') = RuleBlock(active_tunnel) /\ ChainPolicy(active_tunnel') = ChainPolicy(active_tunnel)
      BY <3>1 DEF RuleBlock, ChainPolicy, WithMode
    <3> QED BY <3>1, <3>2, EngageEnforces DEF Enforced
  <2>3. CASE active_tunnel # NoTunnel /\ ~enabled
    <3>1. active_tunnel' = WithMode(active_tunnel, "Off")
      BY <1>3, <2>3 DEF set_kill_switch
    <3> QED BY <3>1 DEF Enforced, KillSwitchWanted, WithMode
  <2> QED BY <2>1, <2>2, <2>3
<1>4. ASSUME drop_and_restart
      PROVE  Enforced'
  BY <1>2, <1>4 DEF drop_and_restart, fwVars, Enforced, KillSwitchWanted
<1>5. CASE UNCHANGED netVars
  BY <1>5 DEF netVars, fwVars, Enforced, KillSwitchWanted, RuleBlock, ChainPolicy
<1> QED BY <1>1, <1>2, <1>3, <1>4, <1>5 DEF Next

\* The switch is only raised for a tunnel, whatever happens to resolv.conf.
LEMMA RaisedForTunnel ==
    ASSUME TypeOK, KillSwitchRemembered, [Next]_netVars
    PROVE  KillSwitchRemembered'
<1>1. ASSUME NEW r \in Requests, setup_vpn_network(r)
      PROVE  KillSwitchRemembered'
  BY <1>1, RequestRoutes DEF setup_vpn_network, enable_kill_switch, fwVars, KillSwitchRemembered
<1>2. ASSUME teardown_vpn_network
      PROVE  KillSwitchRemembered'
  BY <1>2 DEF teardown_vpn_network, disable_kill_switch, fwVars, KillSwitchRemembered
<1>3. ASSUME NEW enabled \in BOOLEAN, NEW mode \in Modes, set_kill_switch(enabled, mode)
      PROVE  KillSwitchRemembered'
  <2>1. active_tunnel # NoTunnel => \A m \in Modes : WithMode(active_tunnel, m) # NoTunnel
    BY NoTunnelAssumption DEF TypeOK, TunnelContext, WithMode
  <2>2. "Off" \in Modes
    BY DEF Modes
  <2> QED BY <1>3, <2>1, <2>2
         DEF set_kill_switch, enable_kill_switch, disable_kill_switch, fwVars, KillSwitchRemembered
<1>4. ASSUME drop_and_restart
      PROVE  KillSwitchRemembered'
  BY <1>2, <1>4 DEF drop_and_restart, fwVars, KillSwitchRemembered
<1>5. CASE UNCHANGED netVars
  BY <1>5 DEF netVars, fwVars, KillSwitchRemembered
<1> QED BY <1>1, <1>2, <1>3, <1>4, <1>5 DEF Next

\* As long as nft accepts its rule sets, the accumulated output chain lets no
\* opening packet for the tunnel leave on the physical interface that none of its
\* sessions exempts: the accepting rules an earlier session left in front let out
\* what they exempt and established connections, and no more.
THEOREM ChainBlocksLeaks == Spec => []NftBlocksLeaks
<1> DEFINE Inv == TypeOK /\ KillSwitchRemembered /\ Enforced
<1>1. Init => Inv
  BY RememberedInitially DEF Init, Remembered, RollbackRemembered, Enforced, KillSwitchWanted
<1>2. Inv /\ [Next]_netVars => Inv'
  BY TypesPreserved, RaisedForTunnel, EnforcedStep
<1>3. Inv => NftBlocksLeaks
  <2> SUFFICES ASSUME Inv, ~iptables_chain, KillSwitchWanted
               PROVE  KillSwitchBlocksLeaks
    BY DEF NftBlocksLeaks, KillSwitchBlocksLeaks
  <2>1. active_tunnel \in TunnelContext
    BY DEF TypeOK, KillSwitchRemembered, KillSwitchWanted
  <2> QED BY <2>1, EnforcedBlocks
<1> QED BY <1>1, <1>2, <1>3, PTL DEF Spec
=============================================================================
