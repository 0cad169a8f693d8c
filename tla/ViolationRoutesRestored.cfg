SPECIFICATION Spec
CONSTANTS
    Requests <- OneIface
    Sessions = {"s1", "s2", "s3"}
    Ifaces = {"tun0"}
    Servers = {"vpn1"}
    Subnets = {"corp"}
    UserRoutes = {"corp"}
    Failing = {}
    NoTunnel = NoTunnel
    NoSession = NoSession
    None = None
INVARIANT RoutesRestored
