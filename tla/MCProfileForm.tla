--------------------------- MODULE MCProfileForm ---------------------------
(* A small instance of ProfileForm for TLC. *)
EXTENDS ProfileForm

\* Two files: an OpenVPN one with both kinds of TLS key, and a WireGuard one.
MCFiles ==
    {[n |-> 1, kind |-> "openvpn", has |-> {"caCert", "tlsAuthKey", "tlsCryptKey", "authUserPass"}],
     [n |-> 2, kind |-> "wireguard", has |-> {"privateKey"}]}

\* Profiles on disk: an OpenVPN one with a password, a CA and a tls-auth key and
\* without a renegotiation interval, and a WireGuard one.
MCInitialProfiles ==
    LET Has(id, S) == [f \in Fields |-> IF f \in S THEN OnDisk(id) ELSE None]
    IN  <<[id |-> 1, protocol |-> "openvpn_udp", favorite |-> TRUE, mode |-> "static",
           format |-> "append", remoteTls |-> "off", raw |-> None,
           cred |-> [Has(1, {"password", "caCert", "tlsAuthKey", "keyDirection"}) EXCEPT !["renegSec"] = Null],
           flags |-> {"hasPassword", "hasCaCert", "hasTlsAuth"}],
          [id |-> 2, protocol |-> "wireguard", favorite |-> FALSE, mode |-> "static",
           format |-> "append", remoteTls |-> "unset", raw |-> None,
           cred |-> Has(2, {"privateKey"}), flags |-> {"hasPrivateKey"}]>>
=============================================================================
