---------------------------- MODULE ProfileCodec ----------------------------
(***************************************************************************)
(* The conversions a VPN profile goes through in the desktop application:  *)
(* configuration file -> parsed profile -> form -> profile and secret      *)
(* payload -> stored profile and vault entry -> profile shown after a      *)
(* restart, and the credentials of a connection request.                   *)
(*                                                                         *)
(* Keys, certificates and passwords are tokens that record where the       *)
(* material came from; the empty string, `undefined` and `null`, which the *)
(* code treats alike (x || undefined, x || ""), are the token None.  The   *)
(* exception is the number renegSec, whose `undefined`, `null` and 0 the   *)
(* code tells apart: they are None, Null and Zero (a 0 that somebody gave  *)
(* is a token like any number).                                            *)
(***************************************************************************)
EXTENDS Naturals, Sequences

\* Provenance of a piece of credential material: typed, or picked from a file,
\* in the n-th session of the form, read from configuration file n, or on disk
\* for profile n from the start.
Token == [from : {"none", "null", "zero", "typed", "picked", "file", "disk"}, n : Nat]
None  == [from |-> "none", n |-> 0]
Null  == [from |-> "null", n |-> 0]
Zero  == [from |-> "zero", n |-> 0]
Typed(n) == [from |-> "typed", n |-> n]
Picked(n) == [from |-> "picked", n |-> n]
FromFile(n) == [from |-> "file", n |-> n]
OnDisk(n) == [from |-> "disk", n |-> n]

AccountFields == {"username", "password", "totpSecret"}
TlsFields == {"caCert", "clientCert", "clientKey", "tlsAuthKey", "tlsCryptKey",
              "keyDirection", "renegSec"}
KeyFields == {"privateKey", "presharedKey"}
Fields == AccountFields \cup TlsFields \cup KeyFields

Protocols == {"wireguard", "openvpn_udp", "openvpn_tcp"}
Modes == {"unset", "static", "dynamic_prompt", "totp_auto"}
Formats == {"unset", "append", "prefix", "totp_only"}

\* remoteCertTlsServer is a boolean that may be undefined.
Switch == {"unset", "on", "off"}

\* The presence flags of VpnProfile.credentials.
Flags == {"hasPassword", "hasPrivateKey", "hasCert", "hasCaCert", "hasTlsAuth", "hasTlsCrypt"}

EmptyCred == [f \in Fields |-> None]

\* VpnProfile, as far as the conversions touch it.
Profile ==
    [id : Nat \ {0}, protocol : Protocols, favorite : BOOLEAN, mode : Modes, format : Formats,
     remoteTls : Switch, cred : [Fields -> Token], raw : Token, flags : SUBSET Flags]

\* What loadStorage shows of a profile that the application has saved: no WireGuard
\* key in an OpenVPN profile, and nothing but keys in a WireGuard one.
Coherent(p) ==
    IF p.protocol = "wireguard"
    THEN /\ \A f \in Fields \ KeyFields : p.cred[f] = None
         /\ p.remoteTls # "off"
         /\ p.flags \cap {"hasCaCert", "hasTlsAuth", "hasTlsCrypt"} = {}
    ELSE \A f \in KeyFields : p.cred[f] = None

\* a || b on strings and numbers, and on the two enumerations that default.
Or(a, b) == IF a \notin {None, Null, Zero} THEN a ELSE b
OrElse(a, b) == IF a # "unset" THEN a ELSE b

\* {flag : the condition holds} for the Boolean(...) lists of the code.
FlagSet(p, k, c, ca, a, x) ==
    {f \in Flags : \/ f = "hasPassword" /\ p
                   \/ f = "hasPrivateKey" /\ k
                   \/ f = "hasCert" /\ c
                   \/ f = "hasCaCert" /\ ca
                   \/ f = "hasTlsAuth" /\ a
                   \/ f = "hasTlsCrypt" /\ x}

-----------------------------------------------------------------------------
(***************************************************************************)
(* Importing a file: parseConfigContent of NewProfileHubModal.  A file is  *)
(* the number n, its kind, the directives it has, whether it asks for      *)
(* auth-user-pass and whether it says remote-cert-tls server.              *)
(***************************************************************************)
ParseConfigContent(file, id) ==
    LET read == IF file.kind = "wireguard" THEN KeyFields
                ELSE TlsFields \cup {"username"}
        cred == [f \in Fields |-> IF f \in file.has \cap read THEN FromFile(file.n) ELSE None]
    IN  [id |-> id,
         protocol |-> IF file.kind = "wireguard" THEN "wireguard"
                      ELSE IF "tcp" \in file.has THEN "openvpn_tcp" ELSE "openvpn_udp",
         favorite |-> FALSE, mode |-> "static", format |-> "append",
         remoteTls |-> IF file.kind # "wireguard" /\ "remoteTls" \in file.has THEN "on" ELSE "unset",
         cred |-> cred, raw |-> None,
         flags |-> FlagSet(file.kind # "wireguard" /\ "authUserPass" \in file.has,
                           cred["privateKey"] # None \/ cred["clientKey"] # None,
                           cred["clientCert"] # None, cred["caCert"] # None,
                           cred["tlsAuthKey"] # None, cred["tlsCryptKey"] # None)]

-----------------------------------------------------------------------------
(***************************************************************************)
(* The form of ProfileModal: what its effect fills in from the profile     *)
(* being edited, and for a new profile.                                    *)
(***************************************************************************)
FormOf(p) ==
    [protocol |-> p.protocol, cred |-> p.cred, format |-> OrElse(p.format, "append"),
     mode |-> OrElse(p.mode, IF p.cred["totpSecret"] # None THEN "totp_auto" ELSE "static"),
     remoteTls |-> OrElse(p.remoteTls, "on")]

BlankForm(defaultProtocol) ==
    [protocol |-> IF defaultProtocol = "openvpn" THEN "openvpn_udp" ELSE "wireguard",
     cred |-> EmptyCred, format |-> "append", mode |-> "static", remoteTls |-> "on"]

\* handleSubmit: the profile it builds.  There is no rawConfig in it; `old`
\* is the set of flags of the profile the form was opened with.
ProfileOfForm(form, id, favorite, old) ==
    [id |-> id, protocol |-> form.protocol, favorite |-> favorite,
     mode |-> form.mode, format |-> form.format, remoteTls |-> form.remoteTls,
     cred |-> form.cred, raw |-> None,
     flags |-> FlagSet(form.cred["password"] # None,
                       form.cred["privateKey"] # None \/ form.cred["clientKey"] # None,
                       form.cred["clientCert"] # None \/ "hasCert" \in old,
                       form.cred["caCert"] # None \/ "hasCaCert" \in old,
                       form.cred["tlsAuthKey"] # None \/ "hasTlsAuth" \in old,
                       form.cred["tlsCryptKey"] # None \/ "hasTlsCrypt" \in old)]

NoSecret == [type |-> "none"]

\* renegSec !== undefined ? Number(renegSec) : undefined, where Number(null) is 0.
SentValue(f, x) == IF f = "renegSec" /\ x = Null THEN Zero ELSE x

\* handleSubmit: the secret payload it sends along.
SecretOfForm(form) ==
    IF form.protocol = "wireguard"
    THEN IF form.cred["privateKey"] = None THEN NoSecret
         ELSE [type |-> "wireguard", cred |-> [f \in KeyFields |-> form.cred[f]]]
    ELSE [type |-> "user_password", format |-> form.format, remoteTls |-> form.remoteTls,
          cred |-> [f \in AccountFields \cup TlsFields |-> SentValue(f, form.cred[f])], raw |-> None]

-----------------------------------------------------------------------------
(***************************************************************************)
(* The certificate editor: what its effect copies from the form (the mode  *)
(* follows the key that is present, tls-crypt first), what handleSave      *)
(* hands back, and what the form does with it.                             *)
(***************************************************************************)
CertOfForm(form) ==
    [cred |-> [f \in TlsFields |-> form.cred[f]],
     remoteTls |-> OrElse(form.remoteTls, "on"),
     tlsMode |-> IF form.cred["tlsCryptKey"] # None THEN "tls-crypt"
                 ELSE IF form.cred["tlsAuthKey"] # None THEN "tls-auth" ELSE "none"]

CertConfig(cert) ==
    [cred |-> [f \in TlsFields |->
                 IF \/ f \in {"tlsAuthKey", "keyDirection"} /\ cert.tlsMode # "tls-auth"
                    \/ f = "tlsCryptKey" /\ cert.tlsMode # "tls-crypt"
                 THEN None ELSE cert.cred[f]],
     remoteTls |-> cert.remoteTls]

ApplyCert(form, config) ==
    [form EXCEPT !.cred = [f \in Fields |-> IF f \in TlsFields THEN config.cred[f] ELSE form.cred[f]],
                 !.remoteTls = OrElse(config.remoteTls, "on")]

-----------------------------------------------------------------------------
(***************************************************************************)
(* The store: addProfile and updateProfile merge the secret into the       *)
(* profile they keep in memory; the bridge converts it for the storage     *)
(* command; loadStorage reads it back.                                     *)
(***************************************************************************)
\* Mutant: the flags of cleared certificates are not recomputed.
MergeSecretKeepsFlags(p, secret) ==
    CASE secret.type = "none" -> p
      [] secret.type = "wireguard" ->
            [p EXCEPT !.cred = [f \in Fields |->
                                  IF f \in KeyFields THEN secret.cred[f] ELSE p.cred[f]]]
      [] secret.type = "user_password" ->
            LET cred == [f \in Fields |-> IF f \in AccountFields \cup TlsFields
                                          THEN Or(secret.cred[f], p.cred[f]) ELSE p.cred[f]]
            IN  [p EXCEPT !.cred = cred,
                          !.format = OrElse(secret.format, OrElse(p.format, "append")),
                          !.remoteTls = OrElse(secret.remoteTls, p.remoteTls)]

MergeSecret(p, secret) ==
    CASE secret.type = "none" -> p
      [] secret.type = "wireguard" ->
            [p EXCEPT !.cred = [f \in Fields |->
                                  IF f \in KeyFields THEN secret.cred[f] ELSE p.cred[f]]]
      [] secret.type = "user_password" ->
            LET cred == [f \in Fields |-> IF f \in AccountFields \cup TlsFields
                                          THEN Or(secret.cred[f], p.cred[f]) ELSE p.cred[f]]
            IN  [p EXCEPT !.cred = cred,
                          !.format = OrElse(secret.format, OrElse(p.format, "append")),
                          !.remoteTls = OrElse(secret.remoteTls, p.remoteTls),
                          !.flags = FlagSet("hasPassword" \in p.flags, "hasPrivateKey" \in p.flags,
                                            cred["clientCert"] # None, cred["caCert"] # None,
                                            cred["tlsAuthKey"] # None, cred["tlsCryptKey"] # None)]

SecretHas(secret, f) == secret.type # "none" /\ f \in DOMAIN secret.cred /\ secret.cred[f] # None

\* IpcBridge.saveProfile: the metadata that goes to profiles.json.  Of the six
\* flags it keeps three, under the names has_password, has_private_key and
\* has_client_cert.
StoredOf(p, secret) ==
    [id |-> p.id, protocol |-> p.protocol, favorite |-> p.favorite,
     username |-> p.cred["username"],
     mode |-> OrElse(p.mode, "static"), format |-> OrElse(p.format, "append"),
     flags |-> {f \in {"hasPassword", "hasPrivateKey", "hasCert"} :
                   \/ f \in p.flags
                   \/ f = "hasPassword" /\ (p.cred["password"] # None \/ SecretHas(secret, "password"))
                   \/ f = "hasPrivateKey" /\ (p.cred["privateKey"] # None \/ SecretHas(secret, "privateKey"))}]

\* Option<u32> in the vault: what was undefined is read back as null.
ReadValue(f, x) == IF f = "renegSec" /\ x = None THEN Null ELSE x

\* loadStorage: the profile it shows for a stored profile and its vault entry.
ProfileFromStorage(s, secret) ==
    LET ovpn == secret.type \in {"user_password", "raw_ovpn_config"}
        cred == [f \in Fields |->
                   IF f = "username"
                   THEN IF ovpn THEN Or(secret.cred["username"], s.username) ELSE s.username
                   ELSE IF secret.type # "none" /\ f \in DOMAIN secret.cred
                        THEN ReadValue(f, secret.cred[f]) ELSE None]
    IN  [id |-> s.id, protocol |-> s.protocol, favorite |-> s.favorite,
         mode |-> IF cred["totpSecret"] # None THEN OrElse(s.mode, "totp_auto")
                  ELSE OrElse(s.mode, "static"),
         format |-> IF ovpn THEN OrElse(secret.format, OrElse(s.format, "append"))
                    ELSE OrElse(s.format, "append"),
         remoteTls |-> IF secret.type = "user_password" THEN secret.remoteTls ELSE "unset",
         cred |-> cred,
         raw |-> IF ovpn THEN secret.raw ELSE None,
         flags |-> FlagSet(cred["password"] # None \/ "hasPassword" \in s.flags,
                           cred["privateKey"] # None \/ "hasPrivateKey" \in s.flags,
                           cred["clientCert"] # None \/ "hasCert" \in s.flags,
                           cred["caCert"] # None, cred["tlsAuthKey"] # None,
                           cred["tlsCryptKey"] # None)]

-----------------------------------------------------------------------------
(***************************************************************************)
(* Connecting: the password the store sends, and the credentials the       *)
(* daemon gets once vpn_connect has put the vault's secret in.             *)
(***************************************************************************)
\* append, prefix and totp_only, as both connect and ConnectMfaModal combine
\* a base password and a one-time code; a password is a sequence of parts.
Part(x) == IF x = None THEN <<>> ELSE <<x>>
CombinePassword(format, base, code) ==
    CASE format = "prefix" -> Part(code) \o Part(base)
      [] format = "totp_only" -> Part(Or(code, base))
      [] OTHER -> Part(base) \o Part(code)

\* connect: an override typed into the prompt, else a generated code for
\* totp_auto, else nothing.
FinalAuthPassword(p, override, otp) ==
    IF override # <<>> THEN override
    ELSE IF p.mode = "totp_auto" /\ p.cred["totpSecret"] # None
         THEN CombinePassword(OrElse(p.format, "append"), p.cred["password"], otp)
         ELSE <<>>

\* connect's auth_config, then vpn_connect's injection of the vault entry.
AuthSent(p, secret, password) ==
    IF secret.type = "wireguard" \/ (secret.type = "none" /\ p.protocol = "wireguard")
    THEN [type |-> "wireguard_key", password |-> <<>>,
          cred |-> [f \in KeyFields |-> IF secret.type = "none" THEN p.cred[f] ELSE secret.cred[f]]]
    ELSE IF secret.type = "none"
    THEN [type |-> "user_password", password |-> password,
          cred |-> [f \in TlsFields \cup {"username"} |-> p.cred[f]]]
    ELSE LET live == p.protocol # "wireguard" /\ password # <<>>
             user == IF secret.type = "raw_ovpn_config" /\ live
                     THEN Or(p.cred["username"], secret.cred["username"])
                     ELSE secret.cred["username"]
         IN  [type |-> secret.type,
              password |-> IF live THEN password ELSE Part(secret.cred["password"]),
              cred |-> [f \in (DOMAIN secret.cred \cap TlsFields) \cup {"username"} |->
                          IF f = "username" THEN user ELSE secret.cred[f]]]
=============================================================================
