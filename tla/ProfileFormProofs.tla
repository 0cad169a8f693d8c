-------------------------- MODULE ProfileFormProofs --------------------------
(***************************************************************************)
(* What the profile dialogs never get wrong, for any files, any saved      *)
(* profiles and any number of sessions: first what the conversions keep,   *)
(* then what the steps of the dialogs keep.                                *)
(***************************************************************************)
EXTENDS ProfileForm, TLAPS

-----------------------------------------------------------------------------
(* The fields *)

LEMMA FieldSets ==
    /\ Fields = AccountFields \cup TlsFields \cup KeyFields
    /\ AccountFields \cap TlsFields = {} /\ AccountFields \cap KeyFields = {} /\ TlsFields \cap KeyFields = {}
    /\ {"username", "password", "totpSecret"} \subseteq AccountFields
    /\ {"caCert", "clientCert", "clientKey", "tlsAuthKey", "tlsCryptKey", "keyDirection"} \subseteq TlsFields
    /\ {"privateKey", "presharedKey"} \subseteq KeyFields
BY DEF Fields, AccountFields, TlsFields, KeyFields

LEMMA Tokens ==
    /\ None \in Token
    /\ \A n \in Nat : Typed(n) \in Token /\ Picked(n) \in Token /\ FromFile(n) \in Token /\ OnDisk(n) \in Token
BY DEF None, Token, Typed, Picked, FromFile, OnDisk

LEMMA FlagSetTyped == \A p, k, c, ca, a, x : FlagSet(p, k, c, ca, a, x) \in SUBSET Flags
BY DEF FlagSet

\* Which flags a FlagSet has.
LEMMA FlagSetHas ==
    ASSUME NEW p, NEW k, NEW c, NEW ca, NEW a, NEW x
    PROVE  LET F == FlagSet(p, k, c, ca, a, x)
           IN  /\ "hasPassword" \in F <=> p
               /\ "hasPrivateKey" \in F <=> k
               /\ "hasCert" \in F <=> c
               /\ "hasCaCert" \in F <=> ca
               /\ "hasTlsAuth" \in F <=> a
               /\ "hasTlsCrypt" \in F <=> x
BY DEF FlagSet, Flags

\* Two sets of flags are equal if they agree on the six.
LEMMA FlagsEqual ==
    ASSUME NEW F \in SUBSET Flags, NEW G \in SUBSET Flags,
           "hasPassword" \in F <=> "hasPassword" \in G, "hasPrivateKey" \in F <=> "hasPrivateKey" \in G,
           "hasCert" \in F <=> "hasCert" \in G, "hasCaCert" \in F <=> "hasCaCert" \in G,
           "hasTlsAuth" \in F <=> "hasTlsAuth" \in G, "hasTlsCrypt" \in F <=> "hasTlsCrypt" \in G
    PROVE  F = G
<1>1. \A x \in Flags : x \in F <=> x \in G
  BY DEF Flags
<1> QED BY <1>1

-----------------------------------------------------------------------------
(* What the conversions keep *)

FormType == [protocol : Protocols, cred : Cred(Fields), mode : Modes, format : Formats, remoteTls : Switch]
CertType == [cred : Cred(TlsFields), remoteTls : Switch, tlsMode : {"none", "tls-auth", "tls-crypt"}]

\* The form shows no WireGuard key of an OpenVPN profile, and nothing else of a
\* WireGuard one.
CoherentForm(fm) ==
    /\ fm.mode # "unset" /\ fm.format # "unset"
    /\ IF fm.protocol = "wireguard"
       THEN (\A f \in Fields \ KeyFields : fm.cred[f] = None) /\ fm.remoteTls # "off"
       ELSE \A f \in KeyFields : fm.cred[f] = None

LEMMA ParseTyped ==
    ASSUME NEW file, file.n \in Nat, file.kind = "openvpn", NEW id \in Nat \ {0}
    PROVE  LET p == ParseConfigContent(file, id)
           IN  p \in Profile /\ p.id = id /\ p.protocol # "wireguard" /\ Coherent(p)
<1> DEFINE p == ParseConfigContent(file, id)
           has == file.has \cap (TlsFields \cup {"username"})
           cred == [f \in Fields |-> IF f \in has THEN FromFile(file.n) ELSE None]
<1>1. cred \in [Fields -> Token]
  BY Tokens
<1>2. /\ p.id = id /\ p.cred = cred
      /\ p.protocol \in {"openvpn_tcp", "openvpn_udp"} /\ p.remoteTls \in {"on", "unset"}
      /\ p.flags \in SUBSET Flags
  BY FlagSetTyped DEF ParseConfigContent
<1>3. p \in Profile
  <2> DEFINE protocol == p.protocol
             remoteTls == p.remoteTls
             flags == p.flags
  <2>1. p = [id |-> id, protocol |-> protocol, favorite |-> FALSE, mode |-> "static", format |-> "append",
             remoteTls |-> remoteTls, cred |-> cred, raw |-> None, flags |-> flags]
    BY DEF ParseConfigContent
  <2>2. protocol \in Protocols /\ remoteTls \in Switch /\ flags \in SUBSET Flags
    BY <1>2 DEF Protocols, Switch
  <2> HIDE DEF p, cred, protocol, remoteTls, flags
  <2>3. "static" \in Modes /\ "append" \in Formats /\ None \in Token
    BY Tokens DEF Modes, Formats
  <2> QED BY <1>1, <2>1, <2>2, <2>3 DEF Profile
<1>4. \A f \in KeyFields : cred[f] = None
  <2>1. \A f \in KeyFields : f \in Fields /\ f \notin TlsFields /\ f # "username"
    BY FieldSets
  <2> QED BY <2>1
<1> QED BY <1>2, <1>3, <1>4 DEF Coherent

LEMMA FormOfTyped ==
    ASSUME NEW p \in Profile, Coherent(p)
    PROVE  /\ FormOf(p) \in FormType /\ CoherentForm(FormOf(p))
           /\ FormOf(p).protocol = p.protocol /\ FormOf(p).cred = p.cred
<1> DEFINE fm == FormOf(p)
<1>1. /\ p.protocol \in Protocols /\ p.cred \in [Fields -> Token] /\ p.mode \in Modes /\ p.format \in Formats
      /\ p.remoteTls \in Switch
  BY DEF Profile
<1>2. /\ fm.protocol = p.protocol /\ fm.cred = p.cred
      /\ fm.mode = OrElse(p.mode, IF p.cred["totpSecret"] # None THEN "totp_auto" ELSE "static")
      /\ fm.format = OrElse(p.format, "append") /\ fm.remoteTls = OrElse(p.remoteTls, "on")
  BY DEF FormOf
<1>3. fm = [protocol |-> fm.protocol, cred |-> fm.cred, format |-> fm.format, mode |-> fm.mode,
            remoteTls |-> fm.remoteTls]
  BY DEF FormOf
<1> HIDE DEF fm
<1>4. fm.mode \in Modes /\ fm.mode # "unset" /\ fm.format \in Formats /\ fm.format # "unset" /\ fm.remoteTls \in Switch
      /\ (p.remoteTls # "off" => fm.remoteTls # "off")
  BY <1>1, <1>2 DEF OrElse, Modes, Formats, Switch
<1>5. fm \in FormType
  BY <1>1, <1>2, <1>3, <1>4 DEF FormType, Cred
<1>6. CoherentForm(fm)
  BY <1>2, <1>4 DEF CoherentForm, Coherent
<1> QED BY <1>2, <1>5, <1>6 DEF fm

LEMMA BlankTyped ==
    ASSUME NEW protocol
    PROVE  /\ BlankForm(protocol) \in FormType /\ CoherentForm(BlankForm(protocol))
           /\ \A f \in Fields : BlankForm(protocol).cred[f] = None
<1>1. EmptyCred \in Cred(Fields) /\ \A f \in Fields : EmptyCred[f] = None
  BY Tokens DEF EmptyCred, Cred
<1>2. BlankForm(protocol) \in FormType
  BY <1>1 DEF BlankForm, FormType, Protocols, Modes, Formats, Switch
<1>3. /\ BlankForm(protocol).cred = EmptyCred /\ BlankForm(protocol).mode = "static"
      /\ BlankForm(protocol).format = "append"
      /\ BlankForm(protocol).remoteTls = "on"
  BY DEF BlankForm
<1> QED BY <1>1, <1>2, <1>3, FieldSets DEF CoherentForm

LEMMA CertOfFormTyped ==
    ASSUME NEW fm \in FormType
    PROVE  /\ CertOfForm(fm) \in CertType /\ CertOfForm(fm).remoteTls # "unset"
           /\ \A f \in TlsFields : CertOfForm(fm).cred[f] = fm.cred[f]
<1>1. fm.cred \in [Fields -> Token] /\ fm.remoteTls \in Switch
  BY DEF FormType, Cred
<1>2. [f \in TlsFields |-> fm.cred[f]] \in Cred(TlsFields)
  BY <1>1, FieldSets DEF Cred
<1>3. CertOfForm(fm) \in CertType
  BY <1>1, <1>2 DEF CertOfForm, CertType, OrElse, Switch
<1>4. CertOfForm(fm).cred = [f \in TlsFields |-> fm.cred[f]] /\ CertOfForm(fm).remoteTls # "unset"
  BY DEF CertOfForm, OrElse
<1> QED BY <1>3, <1>4

LEMMA NoCertTyped == NoCert \in CertType /\ NoCert.remoteTls # "unset" /\ \A f \in TlsFields : NoCert.cred[f] = None
BY Tokens DEF NoCert, CertType, Cred, Switch

\* Saving the certificates changes the TLS fields and the switch, nothing else.
LEMMA ApplyTyped ==
    ASSUME NEW fm \in FormType, CoherentForm(fm), fm.protocol # "wireguard",
           NEW ct \in CertType
    PROVE  LET new == ApplyCert(fm, CertConfig(ct))
           IN  /\ new \in FormType /\ CoherentForm(new) /\ new.protocol = fm.protocol
               /\ \A f \in Fields \ TlsFields : new.cred[f] = fm.cred[f]
               /\ \A f \in TlsFields : new.cred[f] \in {None, ct.cred[f]}
<1> DEFINE config == CertConfig(ct)
           cred == [f \in Fields |-> IF f \in TlsFields THEN config.cred[f] ELSE fm.cred[f]]
           new == ApplyCert(fm, CertConfig(ct))
<1>0. ct.cred \in [TlsFields -> Token] /\ ct.remoteTls \in Switch /\ fm.cred \in [Fields -> Token]
  BY DEF CertType, FormType, Cred
<1>1. \A f \in TlsFields : config.cred[f] \in {None, ct.cred[f]}
  BY DEF CertConfig
<1>2. cred \in [Fields -> Token]
  BY <1>0, <1>1, Tokens
<1>3. config.remoteTls = ct.remoteTls
  BY DEF CertConfig
<1> HIDE DEF config
<1>4. new = [fm EXCEPT !.cred = cred, !.remoteTls = OrElse(config.remoteTls, "on")]
  BY DEF ApplyCert, config
<1>5. OrElse(config.remoteTls, "on") \in Switch
  BY <1>0, <1>3 DEF OrElse, Switch
<1>6. \A f \in Fields : cred[f] = IF f \in TlsFields THEN config.cred[f] ELSE fm.cred[f]
  OBVIOUS
<1> HIDE DEF cred, new
<1>7. new \in FormType /\ new.cred = cred /\ new.protocol = fm.protocol /\ new.mode = fm.mode /\ new.format = fm.format
  BY <1>2, <1>4, <1>5 DEF FormType, Cred
<1>8. \A f \in KeyFields : new.cred[f] = None
  BY <1>6, <1>7, FieldSets DEF CoherentForm
<1>9. CoherentForm(new)
  BY <1>7, <1>8 DEF CoherentForm
<1>10. \A f \in TlsFields : new.cred[f] = config.cred[f]
  BY <1>6, <1>7, FieldSets
<1> QED BY <1>1, <1>6, <1>7, <1>9, <1>10 DEF new

-----------------------------------------------------------------------------
(* Submitting *)

OldCerts == {"hasCaCert", "hasTlsAuth", "hasTlsCrypt"}

\* What the store keeps of a form: updateProfile or addProfile on handleSubmit's
\* profile and secret.
Kept(fm, id, favorite, old) == MergeSecret(ProfileOfForm(fm, id, favorite, old), SecretOfForm(fm))

\* What a form may be submitted with: the flags of the profile it was opened with.
Submittable(fm, id, favorite, old) ==
    /\ fm \in FormType /\ CoherentForm(fm)
    /\ id \in Nat \ {0} /\ favorite \in BOOLEAN /\ old \in SUBSET Flags
    /\ fm.protocol = "wireguard" => old \cap OldCerts = {}

\* The profile the form says, and its flags.
SaysFields(q, fm, id, favorite) ==
    /\ q.id = id /\ q.protocol = fm.protocol /\ q.favorite = favorite
    /\ q.mode = fm.mode /\ q.format = fm.format /\ q.remoteTls = fm.remoteTls /\ q.cred = fm.cred

SaysFlags(F, fm) ==
    /\ F \in SUBSET Flags
    /\ "hasPassword" \in F <=> fm.cred["password"] # None
    /\ "hasPrivateKey" \in F <=> fm.cred["privateKey"] # None \/ fm.cred["clientKey"] # None
    /\ fm.protocol = "wireguard" => F \cap OldCerts = {}
    /\ fm.protocol # "wireguard" =>
         /\ "hasCert" \in F <=> fm.cred["clientCert"] # None
         /\ "hasCaCert" \in F <=> fm.cred["caCert"] # None
         /\ "hasTlsAuth" \in F <=> fm.cred["tlsAuthKey"] # None
         /\ "hasTlsCrypt" \in F <=> fm.cred["tlsCryptKey"] # None

Says(q, fm, id, favorite) == SaysFields(q, fm, id, favorite) /\ SaysFlags(q.flags, fm)

LEMMA FormFields ==
    ASSUME NEW fm \in FormType
    PROVE  /\ fm.cred \in [Fields -> Token] /\ fm.protocol \in Protocols /\ fm.mode \in Modes
           /\ fm.format \in Formats /\ fm.remoteTls \in Switch
BY DEF FormType, Cred

\* A function on the fields that agrees with fm.cred is fm.cred.
LEMMA CredEqual ==
    ASSUME NEW S, NEW c \in [Fields -> S], NEW g, g = [f \in Fields |-> g[f]], \A f \in Fields : g[f] = c[f]
    PROVE  g = c
OBVIOUS

LEMMA KeptSays ==
    ASSUME NEW fm, NEW id, NEW favorite, NEW old, Submittable(fm, id, favorite, old)
    PROVE  Says(Kept(fm, id, favorite, old), fm, id, favorite)
<1> DEFINE p == ProfileOfForm(fm, id, favorite, old)
           secret == SecretOfForm(fm)
           q == Kept(fm, id, favorite, old)
<1>0. fm \in FormType /\ fm.cred \in [Fields -> Token] /\ old \in SUBSET Flags
  BY FormFields DEF Submittable
<1>1. /\ p.id = id /\ p.protocol = fm.protocol /\ p.favorite = favorite
      /\ p.mode = fm.mode /\ p.format = fm.format /\ p.remoteTls = fm.remoteTls /\ p.cred = fm.cred
  BY DEF ProfileOfForm
<1>2. /\ p.flags \in SUBSET Flags
      /\ "hasPassword" \in p.flags <=> fm.cred["password"] # None
      /\ "hasPrivateKey" \in p.flags <=> fm.cred["privateKey"] # None \/ fm.cred["clientKey"] # None
      /\ "hasCert" \in p.flags <=> fm.cred["clientCert"] # None \/ "hasCert" \in old
      /\ "hasCaCert" \in p.flags <=> fm.cred["caCert"] # None \/ "hasCaCert" \in old
      /\ "hasTlsAuth" \in p.flags <=> fm.cred["tlsAuthKey"] # None \/ "hasTlsAuth" \in old
      /\ "hasTlsCrypt" \in p.flags <=> fm.cred["tlsCryptKey"] # None \/ "hasTlsCrypt" \in old
  <2>1. p.flags = FlagSet(fm.cred["password"] # None,
                          fm.cred["privateKey"] # None \/ fm.cred["clientKey"] # None,
                          fm.cred["clientCert"] # None \/ "hasCert" \in old,
                          fm.cred["caCert"] # None \/ "hasCaCert" \in old,
                          fm.cred["tlsAuthKey"] # None \/ "hasTlsAuth" \in old,
                          fm.cred["tlsCryptKey"] # None \/ "hasTlsCrypt" \in old)
    BY DEF ProfileOfForm
  <2> QED BY <2>1 DEF FlagSet, Flags
<1>3. DOMAIN p = {"id", "protocol", "favorite", "mode", "format", "remoteTls", "cred", "raw", "flags"}
  BY DEF ProfileOfForm
<1>4. q = MergeSecret(p, secret)
  BY DEF Kept
<1> HIDE DEF p, q
<1>5. fm.protocol = "wireguard" => p.flags \cap OldCerts = {}
  <2> SUFFICES ASSUME fm.protocol = "wireguard" PROVE p.flags \cap OldCerts = {}
    OBVIOUS
  <2>1. fm.cred["caCert"] = None /\ fm.cred["tlsAuthKey"] = None /\ fm.cred["tlsCryptKey"] = None
    BY FieldSets DEF Submittable, CoherentForm
  <2>2. "hasCaCert" \notin old /\ "hasTlsAuth" \notin old /\ "hasTlsCrypt" \notin old
    BY DEF Submittable, OldCerts
  <2> QED BY <1>2, <2>1, <2>2 DEF OldCerts
<1>6. CASE fm.protocol = "wireguard" /\ fm.cred["privateKey"] = None
  <2>1. secret.type = "none"
    BY <1>6 DEF SecretOfForm, NoSecret
  <2>2. q = p
    BY <1>4, <2>1 DEF MergeSecret
  <2>3. SaysFields(p, fm, id, favorite)
    BY <1>1 DEF SaysFields
  <2>4. SaysFlags(p.flags, fm)
    BY <1>2, <1>5, <1>6 DEF SaysFlags
  <2> QED BY <2>2, <2>3, <2>4 DEF Says, q
<1>7. CASE fm.protocol = "wireguard" /\ fm.cred["privateKey"] # None
  <2> DEFINE cred == [f \in Fields |-> IF f \in KeyFields THEN secret.cred[f] ELSE p.cred[f]]
  <2>1. secret.type = "wireguard" /\ secret.cred = [f \in KeyFields |-> fm.cred[f]]
    BY <1>7 DEF SecretOfForm
  <2>2. q = [p EXCEPT !.cred = cred]
    BY <1>4, <2>1 DEF MergeSecret
  <2>3. cred = fm.cred
    BY <1>0, <1>1, <2>1
  <2> HIDE DEF cred
  <2>4. /\ q.id = p.id /\ q.protocol = p.protocol /\ q.favorite = p.favorite /\ q.mode = p.mode
        /\ q.format = p.format /\ q.remoteTls = p.remoteTls /\ q.flags = p.flags /\ q.cred = cred
    BY <1>3, <2>2
  <2>5. SaysFields(q, fm, id, favorite)
    BY <1>1, <2>3, <2>4 DEF SaysFields
  <2>6. SaysFlags(p.flags, fm)
    BY <1>2, <1>5, <1>7 DEF SaysFlags
  <2> QED BY <2>4, <2>5, <2>6, Zenon DEF Says, q
<1>8. CASE fm.protocol # "wireguard"
  <2> DEFINE cred == [f \in Fields |-> IF f \in AccountFields \cup TlsFields
                                       THEN Or(secret.cred[f], p.cred[f]) ELSE p.cred[f]]
             format == OrElse(secret.format, OrElse(p.format, "append"))
             remoteTls == OrElse(secret.remoteTls, p.remoteTls)
             flags == FlagSet("hasPassword" \in p.flags, "hasPrivateKey" \in p.flags,
                              cred["clientCert"] # None, cred["caCert"] # None,
                              cred["tlsAuthKey"] # None, cred["tlsCryptKey"] # None)
  <2>1. /\ secret.type = "user_password"
        /\ secret.cred = [f \in AccountFields \cup TlsFields |-> SentValue(f, fm.cred[f])]
        /\ secret.format = fm.format /\ secret.remoteTls = fm.remoteTls
    BY <1>8 DEF SecretOfForm
  <2> HIDE DEF secret
  <2>2. q = [p EXCEPT !.cred = cred, !.format = format, !.remoteTls = remoteTls, !.flags = flags]
    BY <1>4, <2>1 DEF MergeSecret
  <2>3. cred = fm.cred
    <3>1. \A f \in AccountFields \cup TlsFields : secret.cred[f] = SentValue(f, fm.cred[f])
      BY <2>1
    <3>2. \A f \in Fields : Or(SentValue(f, fm.cred[f]), fm.cred[f]) = fm.cred[f]
      BY DEF Or, SentValue
    <3> QED BY <1>0, <1>1, <3>1, <3>2
  <2>4. remoteTls = fm.remoteTls
    BY <1>1, <2>1 DEF OrElse
  <2>5. fm.format # "unset" => format = fm.format
    BY <2>1 DEF OrElse
  <2>6. /\ flags \in SUBSET Flags
        /\ "hasPassword" \in flags <=> "hasPassword" \in p.flags
        /\ "hasPrivateKey" \in flags <=> "hasPrivateKey" \in p.flags
        /\ "hasCert" \in flags <=> cred["clientCert"] # None
        /\ "hasCaCert" \in flags <=> cred["caCert"] # None
        /\ "hasTlsAuth" \in flags <=> cred["tlsAuthKey"] # None
        /\ "hasTlsCrypt" \in flags <=> cred["tlsCryptKey"] # None
    <3> HIDE DEF cred
    <3> QED BY DEF FlagSet, Flags
  <2> HIDE DEF cred, format, remoteTls, flags
  <2>7. /\ q.id = p.id /\ q.protocol = p.protocol /\ q.favorite = p.favorite /\ q.mode = p.mode
        /\ q.format = format /\ q.remoteTls = remoteTls /\ q.flags = flags /\ q.cred = cred
    BY <1>3, <2>2
  <2>8. fm.format # "unset"
    BY DEF Submittable, CoherentForm
  <2>9. SaysFields(q, fm, id, favorite)
    BY <1>1, <2>3, <2>4, <2>5, <2>7, <2>8 DEF SaysFields
  <2>10. SaysFlags(flags, fm)
    BY <1>2, <1>8, <2>3, <2>6 DEF SaysFlags
  <2> QED BY <2>7, <2>9, <2>10, Zenon DEF Says, q
<1> QED BY <1>6, <1>7, <1>8 DEF q

LEMMA KeptTyped ==
    ASSUME NEW fm, NEW id, NEW favorite, NEW old, Submittable(fm, id, favorite, old)
    PROVE  Kept(fm, id, favorite, old) \in Profile /\ Coherent(Kept(fm, id, favorite, old))
<1> DEFINE p == ProfileOfForm(fm, id, favorite, old)
           secret == SecretOfForm(fm)
           q == Kept(fm, id, favorite, old)
<1>1. Says(q, fm, id, favorite)
  BY KeptSays
<1>2. /\ fm.cred \in [Fields -> Token] /\ fm.protocol \in Protocols /\ fm.mode \in Modes
      /\ fm.format \in Formats /\ fm.remoteTls \in Switch
  BY FormFields DEF Submittable
<1>3. p \in Profile
  <2> DEFINE flags == p.flags
  <2>1. flags \in SUBSET Flags
    BY FlagSetTyped DEF ProfileOfForm
  <2>2. p = [id |-> id, protocol |-> fm.protocol, favorite |-> favorite, mode |-> fm.mode, format |-> fm.format,
             remoteTls |-> fm.remoteTls, cred |-> fm.cred, raw |-> None, flags |-> flags]
    BY DEF ProfileOfForm
  <2> HIDE DEF p, flags
  <2> QED BY <1>2, <2>1, <2>2, Tokens DEF Profile, Submittable
<1>4. q = MergeSecret(p, secret)
  BY DEF Kept
<1> HIDE DEF p, q
<1>5. q.cred \in [Fields -> Token] /\ q.format \in Formats /\ q.remoteTls \in Switch /\ q.flags \in SUBSET Flags
  BY <1>1, <1>2 DEF Says, SaysFields, SaysFlags
<1>6. \/ q = p
      \/ q = [p EXCEPT !.cred = q.cred]
      \/ q = [p EXCEPT !.cred = q.cred, !.format = q.format, !.remoteTls = q.remoteTls, !.flags = q.flags]
  <2>1. secret.type \in {"none", "wireguard", "user_password"}
    BY DEF SecretOfForm, NoSecret
  <2> HIDE DEF secret
  <2>2. CASE secret.type = "none"
    BY <1>4, <2>2 DEF MergeSecret
  <2>3. CASE secret.type = "wireguard"
    <3>1. PICK c : q = [p EXCEPT !.cred = c]
      BY <1>4, <2>3 DEF MergeSecret
    <3>2. q.cred = c
      BY <1>3, <3>1 DEF Profile
    <3> QED BY <3>1, <3>2
  <2>4. CASE secret.type = "user_password"
    <3>1. PICK c, g, r, F : q = [p EXCEPT !.cred = c, !.format = g, !.remoteTls = r, !.flags = F]
      BY <1>4, <2>4 DEF MergeSecret
    <3>2. q.cred = c /\ q.format = g /\ q.remoteTls = r /\ q.flags = F
      BY <1>3, <3>1 DEF Profile
    <3> QED BY <3>1, <3>2, Zenon
  <2> QED BY <2>1, <2>2, <2>3, <2>4
<1>7. q \in Profile
  <2> DEFINE c == q.cred
             g == q.format
             r == q.remoteTls
             F == q.flags
  <2>1. \/ q = p
        \/ q = [p EXCEPT !.cred = c]
        \/ q = [p EXCEPT !.cred = c, !.format = g, !.remoteTls = r, !.flags = F]
    BY <1>6
  <2>2. c \in [Fields -> Token] /\ g \in Formats /\ r \in Switch /\ F \in SUBSET Flags
    BY <1>5
  <2> HIDE DEF c, g, r, F
  <2> QED BY <1>3, <2>1, <2>2 DEF Profile
<1>8. Coherent(q)
  BY <1>1 DEF Says, SaysFields, SaysFlags, Submittable, CoherentForm, Coherent, OldCerts
<1> QED BY <1>7, <1>8 DEF q

\* What comes back from storage.
Back(q, secret) == ProfileFromStorage(StoredOf(q, secret), secret)
Survives(q, secret) ==
    /\ FormBesidesInterval(Back(q, secret)) = FormBesidesInterval(q)
    /\ q.cred["renegSec"] \notin {None, Null} => Back(q, secret).cred["renegSec"] = q.cred["renegSec"]
    /\ Back(q, secret).flags = q.flags /\ Back(q, secret).favorite = q.favorite

\* The vault entry holds fields of the form, and all that the protocol uses.
SecretSays(secret, fm) ==
    \/ /\ fm.protocol = "wireguard" /\ secret.type = "wireguard"
       /\ secret.cred = [f \in KeyFields |-> fm.cred[f]]
    \/ /\ fm.protocol # "wireguard" /\ secret.type = "user_password"
       /\ secret.cred = [f \in AccountFields \cup TlsFields |-> SentValue(f, fm.cred[f])]
       /\ secret.format = fm.format /\ secret.remoteTls = fm.remoteTls

LEMMA SecretFields ==
    ASSUME NEW fm, SecretOfForm(fm).type # "none"
    PROVE  SecretSays(SecretOfForm(fm), fm)
BY DEF SecretOfForm, NoSecret, SecretSays

\* The credentials come back as they were, but for an interval left open.
LEMMA CredBack ==
    ASSUME NEW fm, NEW id, NEW favorite, NEW old, Submittable(fm, id, favorite, old),
           NEW q, Says(q, fm, id, favorite), NEW secret, SecretSays(secret, fm)
    PROVE  /\ Back(q, secret).cred = [f \in Fields |-> Back(q, secret).cred[f]]
           /\ \A f \in Fields : (f = "renegSec" /\ fm.cred[f] \in {None, Null}) \/ Back(q, secret).cred[f] = fm.cred[f]
<1> DEFINE s == StoredOf(q, secret)
           ovpn == secret.type \in {"user_password", "raw_ovpn_config"}
           cred == [f \in Fields |->
                      IF f = "username"
                      THEN IF ovpn THEN Or(secret.cred["username"], s.username) ELSE s.username
                      ELSE IF secret.type # "none" /\ f \in DOMAIN secret.cred
                           THEN ReadValue(f, secret.cred[f]) ELSE None]
<1>1. Back(q, secret).cred = cred
  BY DEF Back, ProfileFromStorage
<1>2. s.username = fm.cred["username"]
  BY DEF StoredOf, Says, SaysFields
<1>3. fm.cred \in [Fields -> Token]
  BY FormFields DEF Submittable
<1> HIDE DEF s
<1>4. CASE fm.protocol = "wireguard"
  <2>1. ~ovpn /\ secret.type # "none" /\ DOMAIN secret.cred = KeyFields /\ \A f \in KeyFields : secret.cred[f] = fm.cred[f]
    BY <1>4 DEF SecretSays
  <2>2. \A f \in Fields \ KeyFields : fm.cred[f] = None
    BY <1>4 DEF Submittable, CoherentForm
  <2>3. \A f \in Fields : cred[f] = fm.cred[f]
    <3>1. \A f \in KeyFields : f # "renegSec" /\ f # "username"
      BY DEF KeyFields
    <3>2. "username" \notin KeyFields /\ "username" \in Fields
      BY FieldSets
    <3> QED BY <1>2, <2>1, <2>2, <3>1, <3>2 DEF ReadValue
  <2> QED BY <1>1, <2>3
<1>5. CASE fm.protocol # "wireguard"
  <2>1. /\ ovpn /\ secret.type # "none" /\ DOMAIN secret.cred = AccountFields \cup TlsFields
        /\ \A f \in AccountFields \cup TlsFields : secret.cred[f] = SentValue(f, fm.cred[f])
    BY <1>5 DEF SecretSays
  <2>2. \A f \in Fields : f \notin AccountFields \cup TlsFields => fm.cred[f] = None
    BY <1>5, FieldSets DEF Submittable, CoherentForm
  <2>3. "username" \in AccountFields
    BY FieldSets
  <2>4. \A f \in Fields : \/ f = "renegSec" /\ fm.cred[f] \in {None, Null}
                          \/ ReadValue(f, SentValue(f, fm.cred[f])) = fm.cred[f]
    BY DEF ReadValue, SentValue
  <2>5. cred["username"] = fm.cred["username"] /\ "username" \in Fields
    BY <1>2, <2>1, <2>3, FieldSets DEF Or, SentValue
  <2>6. \A f \in Fields : (f = "renegSec" /\ fm.cred[f] \in {None, Null}) \/ cred[f] = fm.cred[f]
    BY <2>1, <2>2, <2>4, <2>5
  <2> QED BY <1>1, <2>6
<1> QED BY <1>4, <1>5

\* A secret has a field only if the form has it.
LEMMA SecretHasForm ==
    ASSUME NEW fm, NEW secret, SecretSays(secret, fm), NEW f, SecretHas(secret, f)
    PROVE  fm.cred[f] # None
BY DEF SecretSays, SecretHas, SentValue, Null, None

\* handleSubmit's profile and secret, stored and loaded again, open the same form
\* and show the same flags.
LEMMA KeptSurvives ==
    ASSUME NEW fm, NEW id, NEW favorite, NEW old, Submittable(fm, id, favorite, old),
           SecretOfForm(fm).type # "none"
    PROVE  Survives(Kept(fm, id, favorite, old), SecretOfForm(fm))
<1> DEFINE q == Kept(fm, id, favorite, old)
           secret == SecretOfForm(fm)
           s == StoredOf(q, secret)
           back == Back(q, secret)
<1>1. Says(q, fm, id, favorite) /\ SecretSays(secret, fm)
  BY KeptSays, SecretFields
<1> HIDE DEF q, secret
<1>2. /\ back.cred = [f \in Fields |-> back.cred[f]]
      /\ \A f \in Fields : (f = "renegSec" /\ fm.cred[f] \in {None, Null}) \/ back.cred[f] = fm.cred[f]
  BY <1>1, CredBack
<1>3. fm.mode \in Modes \ {"unset"} /\ fm.format \in Formats \ {"unset"} /\ fm.remoteTls \in Switch
  BY FormFields DEF Submittable, CoherentForm
<1>4. s.protocol = fm.protocol /\ s.favorite = favorite /\ s.mode = fm.mode /\ s.format = fm.format
  BY <1>1, <1>3 DEF StoredOf, Says, SaysFields, OrElse
<1>5. /\ "hasPassword" \in s.flags <=> "hasPassword" \in q.flags
      /\ "hasPrivateKey" \in s.flags <=> "hasPrivateKey" \in q.flags
      /\ "hasCert" \in s.flags <=> "hasCert" \in q.flags
  <2>1. s.flags = {f \in {"hasPassword", "hasPrivateKey", "hasCert"} :
                    \/ f \in q.flags
                    \/ f = "hasPassword" /\ (q.cred["password"] # None \/ SecretHas(secret, "password"))
                    \/ f = "hasPrivateKey" /\ (q.cred["privateKey"] # None \/ SecretHas(secret, "privateKey"))}
    BY DEF StoredOf
  <2>2. /\ SecretHas(secret, "password") => fm.cred["password"] # None
        /\ SecretHas(secret, "privateKey") => fm.cred["privateKey"] # None
    BY <1>1, SecretHasForm
  <2>3. /\ q.cred["password"] # None => "hasPassword" \in q.flags
        /\ q.cred["privateKey"] # None => "hasPrivateKey" \in q.flags
        /\ SecretHas(secret, "password") => "hasPassword" \in q.flags
        /\ SecretHas(secret, "privateKey") => "hasPrivateKey" \in q.flags
    BY <1>1, <2>2 DEF Says, SaysFields, SaysFlags
  <2> HIDE DEF s
  <2> QED BY <2>1, <2>3
<1>6. /\ back.protocol = s.protocol /\ back.favorite = s.favorite
      /\ back.mode = IF back.cred["totpSecret"] # None THEN OrElse(s.mode, "totp_auto") ELSE OrElse(s.mode, "static")
      /\ back.format = IF secret.type \in {"user_password", "raw_ovpn_config"}
                       THEN OrElse(secret.format, OrElse(s.format, "append")) ELSE OrElse(s.format, "append")
      /\ back.remoteTls = IF secret.type = "user_password" THEN secret.remoteTls ELSE "unset"
  BY DEF Back, ProfileFromStorage
<1>7. back.flags = FlagSet(back.cred["password"] # None \/ "hasPassword" \in s.flags,
                           back.cred["privateKey"] # None \/ "hasPrivateKey" \in s.flags,
                           back.cred["clientCert"] # None \/ "hasCert" \in s.flags,
                           back.cred["caCert"] # None, back.cred["tlsAuthKey"] # None,
                           back.cred["tlsCryptKey"] # None)
  BY DEF Back, ProfileFromStorage
<1>8. FormBesidesInterval(back) = FormBesidesInterval(q) <=>
        /\ back.protocol = q.protocol
        /\ [back.cred EXCEPT !["renegSec"] = None] = [q.cred EXCEPT !["renegSec"] = None]
        /\ OrElse(back.format, "append") = OrElse(q.format, "append")
        /\ OrElse(back.mode, IF back.cred["totpSecret"] # None THEN "totp_auto" ELSE "static")
             = OrElse(q.mode, IF q.cred["totpSecret"] # None THEN "totp_auto" ELSE "static")
        /\ OrElse(back.remoteTls, "on") = OrElse(q.remoteTls, "on")
  <2> HIDE DEF back
  <2> QED BY DEF FormBesidesInterval, FormOf
<1> HIDE DEF s, back
<1>9. back.mode = fm.mode /\ back.format = fm.format
  <2>1. back.mode = fm.mode
    BY <1>3, <1>4, <1>6 DEF OrElse
  <2>2. back.format = fm.format
    BY <1>1, <1>3, <1>4, <1>6 DEF OrElse, SecretSays
  <2> QED BY <2>1, <2>2
<1>10. OrElse(back.remoteTls, "on") = OrElse(fm.remoteTls, "on")
  <2>1. CASE fm.protocol = "wireguard"
    <3>1. secret.type = "wireguard"
      BY <1>1, <2>1 DEF SecretSays
    <3>2. fm.remoteTls \in {"unset", "on"}
      BY <1>3, <2>1 DEF Submittable, CoherentForm, Switch
    <3> QED BY <1>6, <3>1, <3>2 DEF OrElse
  <2>2. CASE fm.protocol # "wireguard"
    BY <1>1, <1>6, <2>2 DEF SecretSays
  <2> QED BY <2>1, <2>2
<1>11. FormBesidesInterval(back) = FormBesidesInterval(q)
  <2>1. q.protocol = fm.protocol /\ q.cred = fm.cred /\ q.format = fm.format /\ q.mode = fm.mode /\ q.remoteTls = fm.remoteTls
    BY <1>1 DEF Says, SaysFields
  <2>2. back.protocol = fm.protocol
    BY <1>4, <1>6
  <2>3. fm.cred \in [Fields -> Token] /\ "renegSec" \in Fields /\ "totpSecret" \in Fields
    <3>1. fm.cred \in [Fields -> Token]
      BY FormFields DEF Submittable
    <3> QED BY <3>1 DEF Fields, AccountFields, TlsFields, KeyFields
  <2>4. [back.cred EXCEPT !["renegSec"] = None] = [fm.cred EXCEPT !["renegSec"] = None]
    BY <1>2, <2>3
  <2> QED BY <1>2, <1>8, <1>9, <1>10, <2>1, <2>2, <2>3, <2>4
<1>12. back.flags = q.flags
  <2>1. q.flags \in SUBSET Flags /\ back.flags \in SUBSET Flags
    BY <1>1, <1>7, FlagSetTyped DEF Says, SaysFlags
  <2>2. /\ "hasPassword" \in back.flags <=> fm.cred["password"] # None \/ "hasPassword" \in s.flags
        /\ "hasPrivateKey" \in back.flags <=> fm.cred["privateKey"] # None \/ "hasPrivateKey" \in s.flags
        /\ "hasCert" \in back.flags <=> fm.cred["clientCert"] # None \/ "hasCert" \in s.flags
        /\ "hasCaCert" \in back.flags <=> fm.cred["caCert"] # None
        /\ "hasTlsAuth" \in back.flags <=> fm.cred["tlsAuthKey"] # None
        /\ "hasTlsCrypt" \in back.flags <=> fm.cred["tlsCryptKey"] # None
    <3>1. \A f \in {"password", "privateKey", "clientCert", "caCert", "tlsAuthKey", "tlsCryptKey"} :
            f \in Fields /\ f # "renegSec"
      BY DEF Fields, AccountFields, TlsFields, KeyFields
    <3>2. \A f \in {"password", "privateKey", "clientCert", "caCert", "tlsAuthKey", "tlsCryptKey"} :
            back.cred[f] = fm.cred[f]
      BY <1>2, <3>1
    <3> QED BY <1>7, <3>2 DEF FlagSet, Flags
  <2>3. CASE fm.protocol = "wireguard"
    <3>1. /\ fm.cred["caCert"] = None /\ fm.cred["tlsAuthKey"] = None /\ fm.cred["tlsCryptKey"] = None
          /\ fm.cred["clientCert"] = None
      BY <2>3, FieldSets DEF Submittable, CoherentForm
    <3>2. "hasCaCert" \notin q.flags /\ "hasTlsAuth" \notin q.flags /\ "hasTlsCrypt" \notin q.flags
      BY <1>1, <2>3 DEF Says, SaysFlags, OldCerts
    <3>3. /\ "hasPassword" \in q.flags <=> fm.cred["password"] # None
          /\ "hasPrivateKey" \in q.flags <=> fm.cred["privateKey"] # None \/ fm.cred["clientKey"] # None
      BY <1>1 DEF Says, SaysFlags
    <3> QED BY <1>5, <2>1, <2>2, <3>1, <3>2, <3>3, FlagsEqual
  <2>4. CASE fm.protocol # "wireguard"
    <3>1. /\ "hasPassword" \in q.flags <=> fm.cred["password"] # None
          /\ "hasPrivateKey" \in q.flags <=> fm.cred["privateKey"] # None \/ fm.cred["clientKey"] # None
          /\ "hasCert" \in q.flags <=> fm.cred["clientCert"] # None
          /\ "hasCaCert" \in q.flags <=> fm.cred["caCert"] # None
          /\ "hasTlsAuth" \in q.flags <=> fm.cred["tlsAuthKey"] # None
          /\ "hasTlsCrypt" \in q.flags <=> fm.cred["tlsCryptKey"] # None
      BY <1>1, <2>4 DEF Says, SaysFlags
    <3> QED BY <1>5, <2>1, <2>2, <3>1, FlagsEqual
  <2> QED BY <2>3, <2>4
<1>13. back.favorite = q.favorite
  BY <1>1, <1>4, <1>6 DEF Says, SaysFields
<1>14. q.cred["renegSec"] \notin {None, Null} => back.cred["renegSec"] = q.cred["renegSec"]
  <2>1. q.cred = fm.cred /\ "renegSec" \in Fields
    BY <1>1 DEF Says, SaysFields, Fields, TlsFields
  <2> QED BY <1>2, <2>1
<1> QED BY <1>11, <1>12, <1>13, <1>14, Zenon DEF Survives, back, q, secret

-----------------------------------------------------------------------------
(* The inductive invariant *)

\* Every profile of the library is what the application saves, under its own id,
\* and ids to come are not in use.
LibInv ==
    /\ nextId \in Nat \ {0} /\ DOMAIN library \subseteq 1..(nextId - 1)
    /\ \A id \in DOMAIN library : library[id] \in Profile /\ library[id].id = id /\ Coherent(library[id])

\* Only OpenVPN files get past parsing.
HubInv ==
    /\ hub \in [open : BOOLEAN, isLoading : BOOLEAN, error : BOOLEAN]
    /\ reads \in [Files -> Nat] /\ timers \in [Files -> Nat]
    /\ \A f \in Files : timers[f] > 0 => f.kind = "openvpn"

\* What a field may hold: nothing, what was typed since the profile was shown, a
\* certificate that was picked, or that field of the profile shown.
Own(f) ==
    {None, Typed(session)} \cup {Picked(n) : n \in 0..session}
      \cup IF selected = NoProfile THEN {} ELSE {selected.cred[f]}

\* The form is one of the profile shown, of its protocol; this holds of the closed
\* form, too, since closing fills it again.
FormInv ==
    /\ formOpen \in BOOLEAN /\ session \in Nat /\ chosen \in {"wireguard", "openvpn"}
    /\ selected \in Profile \cup {NoProfile}
    /\ selected # NoProfile => Coherent(selected) /\ form.protocol = selected.protocol
    /\ form \in FormType /\ CoherentForm(form)
    /\ \A f \in Fields : form.cred[f] \in Own(f)

\* The certificate editor lies over an OpenVPN form and starts from it.
CertInv ==
    /\ certOpen \in BOOLEAN /\ cert \in CertType
    /\ certOpen => formOpen /\ form.protocol # "wireguard"
    /\ ~certOpen => cert = NoCert
    /\ \A f \in TlsFields : cert.cred[f] \in Own(f)
    /\ picking \in [field : TlsFields \cup {"none"}, session : Nat] /\ picking.session <= session
    /\ picking # NoPick => picking.field \in TlsFields

LEMMA OwnNone == \A f : None \in Own(f)
BY DEF Own

LEMMA ProfileNotNone == \A p \in Profile : p # NoProfile
<1>1. \A p \in Profile : p.id # 0
  BY DEF Profile
<1>2. NoProfile.id = 0
  BY DEF NoProfile
<1> QED BY <1>1, <1>2

\* The form as the effect fills it in.
Filled(profile, protocol) == IF profile = NoProfile THEN BlankForm(protocol) ELSE FormOf(profile)

LEMMA FilledFacts ==
    ASSUME NEW profile \in Profile \cup {NoProfile}, profile # NoProfile => Coherent(profile), NEW protocol
    PROVE  LET fm == Filled(profile, protocol)
           IN  /\ fm \in FormType /\ CoherentForm(fm)
               /\ profile # NoProfile => fm.protocol = profile.protocol
               /\ \A f \in Fields : fm.cred[f] \in {None} \cup IF profile = NoProfile THEN {} ELSE {profile.cred[f]}
<1>1. CASE profile = NoProfile
  BY <1>1, BlankTyped DEF Filled
<1>2. CASE profile # NoProfile
  BY <1>2, FormOfTyped DEF Filled
<1> QED BY <1>1, <1>2

\* Showing a profile, whatever is open, starts from that profile alone.
LEMMA ShowKeeps ==
    ASSUME FormInv, CertInv,
           NEW profile \in Profile \cup {NoProfile}, profile # NoProfile => Coherent(profile),
           NEW protocol \in {"wireguard", "openvpn"},
           certOpen => Filled(profile, protocol).protocol # "wireguard",
           ShowForm(profile, protocol)
    PROVE  FormInv' /\ CertInv'
<1> DEFINE fm == Filled(profile, protocol)
<1>1. /\ fm \in FormType /\ CoherentForm(fm)
      /\ profile # NoProfile => fm.protocol = profile.protocol
      /\ \A f \in Fields : fm.cred[f] \in {None} \cup IF profile = NoProfile THEN {} ELSE {profile.cred[f]}
  BY FilledFacts
<1>2. /\ formOpen' = TRUE /\ selected' = profile /\ chosen' = protocol /\ session' = session + 1
      /\ form' = fm /\ certOpen' = certOpen /\ picking' = picking
  BY DEF ShowForm, FillForm, Filled
<1>3. cert' = IF certOpen THEN CertOfForm(fm) ELSE cert
  BY <1>2 DEF ShowForm, SyncCert
<1> HIDE DEF fm
<1>4. \A f \in Fields : fm.cred[f] \in Own(f)'
  BY <1>1, <1>2 DEF Own
<1>5. session' \in Nat /\ picking.session <= session' /\ picking'.session \in Nat
  <2>1. session \in Nat /\ picking.session \in Nat /\ picking.session <= session
    BY DEF FormInv, CertInv
  <2> QED BY <1>2, <2>1
<1>6. FormInv'
  BY <1>1, <1>2, <1>4, <1>5 DEF FormInv
<1>7. cert' \in CertType /\ (~certOpen' => cert' = NoCert) /\ \A f \in TlsFields : cert'.cred[f] \in Own(f)'
  <2>1. CASE certOpen
    <3>1. cert' \in CertType /\ \A f \in TlsFields : cert'.cred[f] = fm.cred[f]
      BY <1>1, <1>3, <2>1, CertOfFormTyped
    <3> QED BY <1>2, <1>4, <2>1, <3>1, FieldSets
  <2>2. CASE ~certOpen
    <3>1. cert' = NoCert
      BY <1>3, <2>2 DEF CertInv
    <3>2. \A f : None \in Own(f)'
      BY DEF Own
    <3> QED BY <1>2, <3>1, <3>2, NoCertTyped
  <2> QED BY <2>1, <2>2
<1>8. certOpen' \in BOOLEAN /\ (certOpen' => formOpen' /\ form'.protocol # "wireguard")
  BY <1>2 DEF CertInv, fm
<1>9. CertInv'
  BY <1>2, <1>5, <1>7, <1>8 DEF CertInv
<1> QED BY <1>6, <1>9

\* Closing the form forgets what was edited and the file that was being picked.
LEMMA CloseKeeps ==
    ASSUME FormInv, CertInv, ~certOpen, CloseForm
    PROVE  FormInv' /\ CertInv'
<1> DEFINE fm == Filled(selected, chosen)
<1>1. /\ fm \in FormType /\ CoherentForm(fm)
      /\ selected # NoProfile => fm.protocol = selected.protocol
      /\ \A f \in Fields : fm.cred[f] \in {None} \cup IF selected = NoProfile THEN {} ELSE {selected.cred[f]}
  BY FilledFacts DEF FormInv
<1>2. /\ formOpen' = FALSE /\ selected' = selected /\ chosen' = chosen /\ session' = session
      /\ form' = fm /\ certOpen' = certOpen /\ cert' = cert /\ picking' = NoPick
  BY DEF CloseForm, FillForm, Filled
<1> HIDE DEF fm
<1>3. \A f : Own(f)' = Own(f)
  BY <1>2 DEF Own
<1>4. \A f \in Fields : fm.cred[f] \in Own(f)'
  BY <1>1, <1>2 DEF Own
<1>5. FormInv'
  BY <1>1, <1>2, <1>4 DEF FormInv
<1>6. NoPick \in [field : TlsFields \cup {"none"}, session : Nat] /\ NoPick.session = 0
  BY DEF NoPick
<1>7. cert' = NoCert /\ ~certOpen' /\ session' \in Nat
  BY <1>2 DEF CertInv, FormInv
<1>8. \A f \in TlsFields : cert'.cred[f] \in Own(f)'
  BY <1>3, <1>7, OwnNone, NoCertTyped
<1>9. NoPick.session <= session'
  BY <1>6, <1>7
<1>10. certOpen' \in BOOLEAN
  BY <1>2 DEF CertInv
<1>11. CertInv'
  BY <1>2, <1>6, <1>7, <1>8, <1>9, <1>10, NoCertTyped DEF CertInv
<1> QED BY <1>5, <1>11

\* Submitting writes one entry: that of the profile shown, or a new one.
SubmitWrites(id) ==
    /\ id = IF selected.id \in DOMAIN library THEN selected.id ELSE nextId
    /\ \E favorite, old :
         /\ Submittable(form, id, favorite, old)
         /\ library' = [i \in DOMAIN library \cup {id} |->
                          IF i = id THEN Kept(form, id, favorite, old) ELSE library[i]]
    /\ nextId' = IF selected.id \in DOMAIN library THEN nextId ELSE nextId + 1
    /\ submitted' = [id |-> id, secret |-> SecretOfForm(form)]

LEMMA SubmitEffect ==
    ASSUME LibInv, FormInv, Submit
    PROVE  \E id \in Nat \ {0} : SubmitWrites(id)
<1> DEFINE id == IF selected.id \in DOMAIN library THEN selected.id ELSE nextId
           favorite == IF selected = NoProfile THEN FALSE ELSE selected.favorite
           old == IF selected = NoProfile THEN {} ELSE selected.flags
<1>1. id \in Nat \ {0}
  <2>1. selected.id \in DOMAIN library => selected.id \in Nat \ {0}
    BY DEF LibInv
  <2>2. nextId \in Nat \ {0}
    BY DEF LibInv
  <2> QED BY <2>1, <2>2
<1>2. favorite \in BOOLEAN /\ old \in SUBSET Flags
  <2>1. selected # NoProfile => selected \in Profile
    BY DEF FormInv
  <2>2. selected # NoProfile => selected.favorite \in BOOLEAN /\ selected.flags \in SUBSET Flags
    BY <2>1 DEF Profile
  <2> QED BY <2>2
<1>3. form.protocol = "wireguard" => old \cap OldCerts = {}
  BY DEF FormInv, Coherent, OldCerts
<1>4. Submittable(form, id, favorite, old)
  <2> HIDE DEF id, favorite, old
  <2> QED BY <1>1, <1>2, <1>3 DEF Submittable, FormInv
<1>5. /\ library' = [i \in DOMAIN library \cup {id} |-> IF i = id THEN Kept(form, id, favorite, old) ELSE library[i]]
      /\ nextId' = IF selected.id \in DOMAIN library THEN nextId ELSE nextId + 1
      /\ submitted' = [id |-> id, secret |-> SecretOfForm(form)]
  BY DEF Submit, Kept
<1>6. id = IF selected.id \in DOMAIN library THEN selected.id ELSE nextId
  OBVIOUS
<1> HIDE DEF id, favorite, old
<1>7. SubmitWrites(id)
  BY <1>4, <1>5, <1>6 DEF SubmitWrites
<1> QED BY <1>1, <1>7

LEMMA MoreIds ==
    ASSUME NEW a \in Nat, NEW b \in Nat, a <= b
    PROVE  \A i \in 1..(a - 1) : i \in 1..(b - 1)
OBVIOUS

LEMMA SubmitKeepsLibrary ==
    ASSUME LibInv, NEW id \in Nat \ {0}, SubmitWrites(id)
    PROVE  /\ LibInv'
           /\ \A i \in DOMAIN library : i \in DOMAIN library' /\ (library'[i] # library[i] => selected.id = i)
<1>1. PICK favorite, old :
        /\ Submittable(form, id, favorite, old)
        /\ library' = [i \in DOMAIN library \cup {id} |-> IF i = id THEN Kept(form, id, favorite, old) ELSE library[i]]
  BY DEF SubmitWrites
<1> DEFINE q == Kept(form, id, favorite, old)
<1>2. q \in Profile /\ Coherent(q) /\ q.id = id
  BY <1>1, KeptTyped, KeptSays DEF Says, SaysFields
<1> HIDE DEF q
<1>3. DOMAIN library' = DOMAIN library \cup {id} /\ \A i \in DOMAIN library \cup {id} :
        library'[i] = IF i = id THEN q ELSE library[i]
  BY <1>1 DEF q
<1>4. /\ id \in DOMAIN library => id = selected.id
      /\ nextId' \in Nat \ {0} /\ nextId <= nextId' /\ id \in 1..(nextId' - 1)
  <2>1. nextId \in Nat \ {0} /\ nextId \notin DOMAIN library /\ DOMAIN library \subseteq 1..(nextId - 1)
    BY DEF LibInv
  <2>2. CASE selected.id \in DOMAIN library
    BY <2>1, <2>2 DEF SubmitWrites
  <2>3. CASE selected.id \notin DOMAIN library
    BY <2>1, <2>3 DEF SubmitWrites
  <2> QED BY <2>2, <2>3
<1>5. DOMAIN library' \subseteq 1..(nextId' - 1)
  <2>1. DOMAIN library \subseteq 1..(nextId - 1) /\ nextId \in Nat
    BY DEF LibInv
  <2>2. \A i \in 1..(nextId - 1) : i \in 1..(nextId' - 1)
    BY <1>4, <2>1, MoreIds
  <2> QED BY <1>3, <1>4, <2>1, <2>2
<1>6. \A i \in DOMAIN library' : library'[i] \in Profile /\ library'[i].id = i /\ Coherent(library'[i])
  BY <1>2, <1>3 DEF LibInv
<1>7. LibInv'
  BY <1>4, <1>5, <1>6 DEF LibInv
<1>8. \A i \in DOMAIN library : i \in DOMAIN library' /\ (library'[i] # library[i] => selected.id = i)
  BY <1>3, <1>4
<1> QED BY <1>7, <1>8

LEMMA SubmitSurvives ==
    ASSUME NEW id \in Nat \ {0}, SubmitWrites(id)
    PROVE  SubmitSurvivesRestart'
<1>1. PICK favorite, old :
        /\ Submittable(form, id, favorite, old)
        /\ library' = [i \in DOMAIN library \cup {id} |-> IF i = id THEN Kept(form, id, favorite, old) ELSE library[i]]
  BY DEF SubmitWrites
<1> DEFINE q == Kept(form, id, favorite, old)
           secret == SecretOfForm(form)
<1>2. submitted'.id = id /\ submitted'.secret = secret
  BY DEF SubmitWrites
<1>3. library'[id] = q
  BY <1>1
<1>4. secret.type # "none" => Survives(q, secret)
  BY <1>1, KeptSurvives
<1> HIDE DEF q, secret
<1>5. submitted'.secret.type # "none" => Survives(library'[submitted'.id], submitted'.secret)
  BY <1>2, <1>3, <1>4
<1> QED BY <1>5 DEF SubmitSurvivesRestart, Survives, Back

-----------------------------------------------------------------------------
(* The steps *)

\* The steps that neither show a profile nor submit one.
NextAside ==
    \/ OpenHub \/ CloseHub
    \/ \E f \in Files : PickFile(f) \/ ReadRefused(f) \/ ReadParsed(f)
    \/ \E f \in Files, heard \in 1..2 : NativeDrop(f, heard)
    \/ \E f \in Fields : TypeField(f) \/ TypeCert(f) \/ PickCertFile(f)
    \/ \E mode \in EditModes : ChooseMode(mode)
    \/ \E format \in EditFormats : ChooseFormat(format)
    \/ \E mode \in {"none", "tls-auth", "tls-crypt"} : ChooseTlsMode(mode)
    \/ CancelForm \/ OpenCert \/ CertFileLoaded \/ CancelCert \/ SaveCert \/ ToggleRemoteTls \/ Rerender

LEMMA NextSplit ==
    Next <=> \/ NextAside \/ ManualCreate \/ Submit
             \/ \E f \in Files : ImportTimer(f)
             \/ \E id \in 1..MaxId : EditProfile(id)
BY DEF Next, NextAside

LEMMA AsideKeepsStore == NextAside => UNCHANGED storeVars
<1>1. OpenHub \/ CloseHub => UNCHANGED storeVars
  BY DEF OpenHub, CloseHub
<1>2. \A f \in Files : PickFile(f) \/ ReadRefused(f) \/ ReadParsed(f) => UNCHANGED storeVars
  BY DEF PickFile, ReadRefused, ReadParsed
<1>3. \A f \in Files, heard \in 1..2 : NativeDrop(f, heard) => UNCHANGED storeVars
  BY DEF NativeDrop
<1>4. \A f \in Fields : TypeField(f) \/ TypeCert(f) \/ PickCertFile(f) => UNCHANGED storeVars
  BY DEF TypeField, TypeCert, PickCertFile
<1>5. \A mode : ChooseMode(mode) \/ ChooseFormat(mode) \/ ChooseTlsMode(mode) => UNCHANGED storeVars
  BY DEF ChooseMode, ChooseFormat, ChooseTlsMode
<1>6. CancelForm \/ OpenCert \/ CertFileLoaded \/ CancelCert => UNCHANGED storeVars
  BY DEF CancelForm, OpenCert, CertFileLoaded, CancelCert
<1>7. SaveCert \/ ToggleRemoteTls \/ Rerender => UNCHANGED storeVars
  BY DEF SaveCert, ToggleRemoteTls, Rerender
<1> QED BY <1>1, <1>2, <1>3, <1>4, <1>5, <1>6, <1>7 DEF NextAside

\* A step either submits, or leaves the list and what was submitted, or forgets
\* the latter; ids only grow.
LEMMA StoreStep ==
    ASSUME Next
    PROVE  \/ Submit
           \/ /\ library' = library /\ nextId' \in {nextId, nextId + 1}
              /\ submitted' \in {submitted, NoProfile}
<1>1. CASE NextAside
  BY <1>1, AsideKeepsStore DEF storeVars
<1>2. CASE ManualCreate
  BY <1>2 DEF ManualCreate, ShowForm
<1>3. ASSUME NEW f \in Files, ImportTimer(f)
      PROVE  library' = library /\ nextId' = nextId + 1 /\ submitted' = NoProfile
  BY <1>3 DEF ImportTimer, ShowForm
<1>4. ASSUME NEW id \in 1..MaxId, EditProfile(id)
      PROVE  library' = library /\ nextId' = nextId /\ submitted' = NoProfile
  BY <1>4 DEF EditProfile, ShowForm
<1> QED BY <1>1, <1>2, <1>3, <1>4, NextSplit

LEMMA LibStep ==
    ASSUME LibInv, FormInv, SubmitSurvivesRestart, Next
    PROVE  LibInv' /\ SubmitSurvivesRestart'
<1>1. CASE Submit
  BY <1>1, SubmitEffect, SubmitKeepsLibrary, SubmitSurvives
<1>2. CASE library' = library /\ nextId' \in {nextId, nextId + 1} /\ submitted' \in {submitted, NoProfile}
  <2>1. LibInv'
    <3>1. nextId \in Nat \ {0} /\ DOMAIN library \subseteq 1..(nextId - 1)
      BY DEF LibInv
    <3>2. nextId' \in Nat \ {0} /\ nextId <= nextId'
      BY <1>2, <3>1
    <3>3. \A i \in 1..(nextId - 1) : i \in 1..(nextId' - 1)
      BY <3>1, <3>2, MoreIds
    <3> QED BY <1>2, <3>1, <3>2, <3>3 DEF LibInv
  <2>2. CASE submitted' = submitted
    BY <1>2, <2>1, <2>2 DEF SubmitSurvivesRestart
  <2>3. CASE submitted' = NoProfile
    <3>1. submitted'.id = 0
      BY <2>3 DEF NoProfile
    <3> QED BY <2>1, <3>1 DEF SubmitSurvivesRestart
  <2> QED BY <1>2, <2>2, <2>3
<1> QED BY <1>1, <1>2, StoreStep

\* The hub only waits for OpenVPN files.
LEMMA HubStep ==
    ASSUME HubInv, Next
    PROVE  HubInv'
<1>0. /\ hub \in [open : BOOLEAN, isLoading : BOOLEAN, error : BOOLEAN]
      /\ reads \in [Files -> Nat] /\ timers \in [Files -> Nat]
      /\ \A f \in Files : timers[f] > 0 => f.kind = "openvpn"
  BY DEF HubInv
<1>1. CASE UNCHANGED hubVars
  BY <1>0, <1>1 DEF hubVars, HubInv
<1>2. CASE UNCHANGED <<reads, timers>> /\ hub' \in {ClosedHub, [hub EXCEPT !.open = TRUE]}
  <2>1. hub' \in [open : BOOLEAN, isLoading : BOOLEAN, error : BOOLEAN]
    <3>1. ClosedHub \in [open : BOOLEAN, isLoading : BOOLEAN, error : BOOLEAN]
      BY DEF ClosedHub
    <3>2. [hub EXCEPT !.open = TRUE] \in [open : BOOLEAN, isLoading : BOOLEAN, error : BOOLEAN]
      BY <1>0
    <3> QED BY <1>2, <3>1, <3>2
  <2> QED BY <1>0, <1>2, <2>1 DEF HubInv
<1>3. ASSUME NEW f \in Files, PickFile(f) PROVE HubInv'
  <2>1. reads' \in [Files -> Nat]
    BY <1>0, <1>3 DEF PickFile
  <2> QED BY <1>0, <1>3, <2>1 DEF PickFile, HubInv
<1>4. ASSUME NEW f \in Files, NEW heard \in 1..2, NativeDrop(f, heard) PROVE HubInv'
  <2>1. reads' \in [Files -> Nat]
    BY <1>0, <1>4 DEF NativeDrop
  <2> QED BY <1>0, <1>4, <2>1 DEF NativeDrop, HubInv
<1>5. ASSUME NEW f \in Files, ReadRefused(f) PROVE HubInv'
  <2>1. reads' \in [Files -> Nat]
    BY <1>0, <1>5 DEF ReadRefused
  <2> QED BY <1>0, <1>5, <2>1 DEF ReadRefused, HubInv
<1>6. ASSUME NEW f \in Files, ReadParsed(f) PROVE HubInv'
  <2>1. reads' \in [Files -> Nat] /\ timers' \in [Files -> Nat]
    BY <1>0, <1>6 DEF ReadParsed
  <2>2. \A g \in Files : timers'[g] > 0 => g.kind = "openvpn"
    BY <1>0, <1>6 DEF ReadParsed
  <2> QED BY <1>0, <1>6, <2>1, <2>2 DEF ReadParsed, HubInv
<1>7. ASSUME NEW f \in Files, ImportTimer(f) PROVE HubInv'
  <2>1. timers' \in [Files -> Nat]
    BY <1>0, <1>7 DEF ImportTimer
  <2>2. \A g \in Files : timers'[g] > 0 => g.kind = "openvpn"
    BY <1>0, <1>7 DEF ImportTimer
  <2>3. hub' \in [open : BOOLEAN, isLoading : BOOLEAN, error : BOOLEAN] /\ reads' = reads
    BY <1>7 DEF ImportTimer, ClosedHub
  <2> QED BY <1>0, <2>1, <2>2, <2>3 DEF HubInv
<1>8. OpenHub \/ CloseHub \/ ManualCreate => HubInv'
  BY <1>2 DEF OpenHub, CloseHub, ManualCreate
<1>9. /\ \A id \in 1..MaxId : EditProfile(id) => HubInv'
      /\ \A f \in Fields : TypeField(f) \/ TypeCert(f) \/ PickCertFile(f) => HubInv'
      /\ \A mode : ChooseMode(mode) \/ ChooseFormat(mode) \/ ChooseTlsMode(mode) => HubInv'
  BY <1>1 DEF EditProfile, TypeField, TypeCert, PickCertFile, ChooseMode, ChooseFormat, ChooseTlsMode
<1>10. CancelForm \/ Submit \/ OpenCert \/ CertFileLoaded \/ CancelCert => HubInv'
  BY <1>1 DEF CancelForm, Submit, OpenCert, CertFileLoaded, CancelCert
<1>11. SaveCert \/ ToggleRemoteTls \/ Rerender => HubInv'
  BY <1>1 DEF SaveCert, ToggleRemoteTls, Rerender
<1> QED BY <1>3, <1>4, <1>5, <1>6, <1>7, <1>8, <1>9, <1>10, <1>11 DEF Next

\* An edit of the form, with the certificate editor closed.
LEMMA EditKeeps ==
    ASSUME FormInv, CertInv, ~certOpen, UNCHANGED <<formOpen, selected, chosen, session>>, UNCHANGED certVars,
           form' \in FormType, CoherentForm(form'), form'.protocol = form.protocol,
           \A f \in Fields : form'.cred[f] \in Own(f)
    PROVE  FormInv' /\ CertInv'
<1>1. \A f : Own(f)' = Own(f)
  BY DEF Own
<1>2. CoherentForm(form)'
  BY DEF CoherentForm
<1>3. FormInv'
  BY <1>1, <1>2 DEF FormInv
<1>4. CertInv'
  BY <1>1 DEF CertInv, certVars
<1> QED BY <1>3, <1>4

\* A change of the editor's own copy, or of what is being picked for it.
LEMMA CertKeeps ==
    ASSUME FormInv, CertInv, UNCHANGED formVars, certOpen' => formOpen /\ form.protocol # "wireguard",
           certOpen' \in BOOLEAN, ~certOpen' => cert' = NoCert,
           cert' \in CertType, \A f \in TlsFields : cert'.cred[f] \in Own(f),
           \/ picking' = picking
           \/ picking' = NoPick
           \/ \E f \in TlsFields : picking' = [field |-> f, session |-> session]
    PROVE  FormInv' /\ CertInv'
<1>1. \A f : Own(f)' = Own(f)
  BY DEF Own, formVars
<1>2. FormInv'
  BY <1>1 DEF FormInv, formVars
<1>3. session' = session /\ session \in Nat
  BY DEF formVars, FormInv
<1>4. /\ picking' \in [field : TlsFields \cup {"none"}, session : Nat] /\ picking'.session <= session'
      /\ picking' # NoPick => picking'.field \in TlsFields
  <2>1. CASE picking' = picking
    BY <1>3, <2>1 DEF CertInv
  <2>2. CASE picking' = NoPick
    BY <1>3, <2>2 DEF NoPick
  <2>3. CASE \E f \in TlsFields : picking' = [field |-> f, session |-> session]
    BY <1>3, <2>3
  <2> QED BY <2>1, <2>2, <2>3
<1>5. CertInv'
  BY <1>1, <1>4 DEF CertInv, formVars
<1> QED BY <1>2, <1>5

\* Typing into the form, or choosing a mode or a format.
LEMMA EditStep ==
    ASSUME FormInv, CertInv
    PROVE  /\ \A f \in Fields : TypeField(f) => FormInv' /\ CertInv'
           /\ \A mode \in EditModes : ChooseMode(mode) => FormInv' /\ CertInv'
           /\ \A format \in EditFormats : ChooseFormat(format) => FormInv' /\ CertInv'
<1>0. /\ form \in FormType /\ form.cred \in [Fields -> Token] /\ session \in Nat
      /\ CoherentForm(form) /\ \A f \in Fields : form.cred[f] \in Own(f)
  BY FormFields DEF FormInv
<1>1. ASSUME NEW f \in Fields, TypeField(f) PROVE FormInv' /\ CertInv'
  <2> DEFINE v == IF form.cred[f] = None THEN Typed(session) ELSE None
  <2>1. /\ ~certOpen /\ form' = [form EXCEPT !.cred[f] = v]
        /\ IF form.protocol = "wireguard" THEN f \in KeyFields ELSE f \in AccountFields
        /\ UNCHANGED <<formOpen, selected, chosen, session>> /\ UNCHANGED certVars
    BY <1>1 DEF TypeField, FormOnTop
  <2>2. v \in Token /\ v \in Own(f)
    BY <1>0, Tokens, OwnNone DEF Own
  <2> HIDE DEF v
  <2>3. form' \in FormType
    BY <1>0, <2>1, <2>2 DEF FormType, Cred
  <2>4. /\ \A g \in Fields : form'.cred[g] = IF g = f THEN v ELSE form.cred[g]
        /\ form'.protocol = form.protocol /\ form'.mode = form.mode /\ form'.format = form.format
        /\ form'.remoteTls = form.remoteTls
    BY <1>0, <2>1 DEF FormType
  <2>5. CoherentForm(form')
    BY <1>0, <2>1, <2>4, FieldSets DEF CoherentForm
  <2>6. \A g \in Fields : form'.cred[g] \in Own(g)
    BY <1>0, <2>2, <2>4
  <2> QED BY <2>1, <2>3, <2>4, <2>5, <2>6, EditKeeps
<1>2. ASSUME NEW mode \in EditModes, ChooseMode(mode) PROVE FormInv' /\ CertInv'
  <2>1. /\ ~certOpen /\ form' = [form EXCEPT !.mode = mode]
        /\ UNCHANGED <<formOpen, selected, chosen, session>> /\ UNCHANGED certVars
    BY <1>2 DEF ChooseMode, FormOnTop
  <2>2. mode \in Modes /\ mode # "unset"
    BY FormAssumption
  <2>3. form' \in FormType
    BY <1>0, <2>1, <2>2 DEF FormType
  <2>4. /\ form'.cred = form.cred /\ form'.protocol = form.protocol /\ form'.mode = mode
        /\ form'.format = form.format /\ form'.remoteTls = form.remoteTls
    BY <1>0, <2>1 DEF FormType
  <2>5. CoherentForm(form')
    BY <1>0, <2>2, <2>4 DEF CoherentForm
  <2> QED BY <1>0, <2>1, <2>3, <2>4, <2>5, EditKeeps
<1>3. ASSUME NEW format \in EditFormats, ChooseFormat(format) PROVE FormInv' /\ CertInv'
  <2>1. /\ ~certOpen /\ form' = [form EXCEPT !.format = format]
        /\ UNCHANGED <<formOpen, selected, chosen, session>> /\ UNCHANGED certVars
    BY <1>3 DEF ChooseFormat, FormOnTop
  <2>2. format \in Formats /\ format # "unset"
    BY FormAssumption
  <2>3. form' \in FormType
    BY <1>0, <2>1, <2>2 DEF FormType
  <2>4. /\ form'.cred = form.cred /\ form'.protocol = form.protocol /\ form'.mode = form.mode
        /\ form'.format = format /\ form'.remoteTls = form.remoteTls
    BY <1>0, <2>1 DEF FormType
  <2>5. CoherentForm(form')
    BY <1>0, <2>2, <2>4 DEF CoherentForm
  <2> QED BY <1>0, <2>1, <2>3, <2>4, <2>5, EditKeeps
<1> QED BY <1>1, <1>2, <1>3

\* The certificate editor: its own fields, the file that is picked, cancelling and
\* being filled in again.
LEMMA CertStep ==
    ASSUME FormInv, CertInv
    PROVE  /\ \A f \in Fields : TypeCert(f) \/ PickCertFile(f) => FormInv' /\ CertInv'
           /\ \A mode \in {"none", "tls-auth", "tls-crypt"} : ChooseTlsMode(mode) => FormInv' /\ CertInv'
           /\ ToggleRemoteTls \/ CertFileLoaded \/ CancelCert \/ OpenCert \/ Rerender => FormInv' /\ CertInv'
<1>0. /\ cert \in CertType /\ cert.cred \in [TlsFields -> Token] /\ session \in Nat
      /\ \A f \in TlsFields : cert.cred[f] \in Own(f)
      /\ certOpen \in BOOLEAN /\ (certOpen => formOpen /\ form.protocol # "wireguard")
      /\ ~certOpen => cert = NoCert
  BY DEF FormInv, CertInv, CertType, Cred
<1>1. ASSUME NEW f \in TlsFields, NEW v \in Token, v \in Own(f), cert' = [cert EXCEPT !.cred[f] = v]
      PROVE  cert' \in CertType /\ \A g \in TlsFields : cert'.cred[g] \in Own(g)
  <2>1. cert' \in CertType
    BY <1>0, <1>1 DEF CertType, Cred
  <2>2. \A g \in TlsFields : cert'.cred[g] = IF g = f THEN v ELSE cert.cred[g]
    BY <1>0, <1>1 DEF CertType
  <2> QED BY <1>0, <1>1, <2>1, <2>2
<1>2. ASSUME NEW f \in Fields, TypeCert(f) PROVE FormInv' /\ CertInv'
  <2> DEFINE v == IF cert.cred[f] = None THEN Typed(session) ELSE None
  <2>1. /\ certOpen /\ f \in TlsFields /\ cert' = [cert EXCEPT !.cred[f] = v]
        /\ UNCHANGED formVars /\ certOpen' = certOpen /\ picking' = picking
    BY <1>2 DEF TypeCert, CertOnTop
  <2>2. v \in Token /\ v \in Own(f)
    BY <1>0, Tokens, OwnNone DEF Own
  <2> HIDE DEF v
  <2>3. cert' \in CertType /\ \A g \in TlsFields : cert'.cred[g] \in Own(g)
    BY <1>1, <2>1, <2>2
  <2> QED BY <1>0, <2>1, <2>3, CertKeeps
<1>3. ASSUME NEW f \in Fields, PickCertFile(f) PROVE FormInv' /\ CertInv'
  <2>1. /\ f \in TlsFields /\ picking' = [field |-> f, session |-> session]
        /\ UNCHANGED formVars /\ certOpen' = certOpen /\ cert' = cert
    BY <1>3 DEF PickCertFile, TlsFields
  <2> QED BY <1>0, <2>1, CertKeeps
<1>4. ASSUME NEW mode \in {"none", "tls-auth", "tls-crypt"}, ChooseTlsMode(mode) PROVE FormInv' /\ CertInv'
  <2>1. /\ certOpen /\ cert' = [cert EXCEPT !.tlsMode = mode]
        /\ UNCHANGED formVars /\ certOpen' = certOpen /\ picking' = picking
    BY <1>4 DEF ChooseTlsMode, CertOnTop
  <2>2. cert' \in CertType /\ cert'.cred = cert.cred
    BY <1>0, <2>1 DEF CertType
  <2> QED BY <1>0, <2>1, <2>2, CertKeeps
<1>5. ASSUME ToggleRemoteTls PROVE FormInv' /\ CertInv'
  <2> DEFINE v == IF cert.remoteTls = "on" THEN "off" ELSE "on"
  <2>1. /\ certOpen /\ cert' = [cert EXCEPT !.remoteTls = v]
        /\ UNCHANGED formVars /\ certOpen' = certOpen /\ picking' = picking
    BY <1>5 DEF ToggleRemoteTls, CertOnTop
  <2>2. v \in Switch
    BY DEF Switch
  <2> HIDE DEF v
  <2>3. cert' \in CertType /\ cert'.cred = cert.cred
    BY <1>0, <2>1, <2>2 DEF CertType
  <2> QED BY <1>0, <2>1, <2>3, CertKeeps
<1>6. ASSUME CertFileLoaded PROVE FormInv' /\ CertInv'
  <2>1. /\ picking # NoPick /\ picking' = NoPick /\ UNCHANGED formVars /\ certOpen' = certOpen
        /\ cert' = IF certOpen THEN [cert EXCEPT !.cred[picking.field] = Picked(picking.session)] ELSE cert
    BY <1>6 DEF CertFileLoaded
  <2>2. picking.field \in TlsFields /\ picking.session \in 0..session /\ picking.session \in Nat
    BY <1>0, <2>1 DEF CertInv
  <2>3. Picked(picking.session) \in Token /\ Picked(picking.session) \in Own(picking.field)
    BY <2>2, Tokens DEF Own
  <2>4. cert' \in CertType /\ \A g \in TlsFields : cert'.cred[g] \in Own(g)
    BY <1>0, <1>1, <2>1, <2>2, <2>3
  <2> QED BY <1>0, <2>1, <2>4, CertKeeps
<1>7. ASSUME CancelCert PROVE FormInv' /\ CertInv'
  <2>1. certOpen' = FALSE /\ cert' = NoCert /\ UNCHANGED formVars /\ picking' = picking
    BY <1>7 DEF CancelCert
  <2>2. cert' \in CertType /\ \A g \in TlsFields : cert'.cred[g] \in Own(g)
    BY <2>1, NoCertTyped, OwnNone
  <2> QED BY <2>1, <2>2, CertKeeps
<1>8. ASSUME OpenCert \/ Rerender PROVE FormInv' /\ CertInv'
  <2>1. /\ certOpen' = TRUE /\ cert' = CertOfForm(form) /\ UNCHANGED formVars /\ picking' = picking
        /\ formOpen /\ form.protocol # "wireguard"
    BY <1>0, <1>8 DEF OpenCert, Rerender, SyncCert, FormOnTop, CertOnTop
  <2>2. form \in FormType /\ \A f \in Fields : form.cred[f] \in Own(f)
    BY DEF FormInv
  <2>3. cert' \in CertType /\ \A g \in TlsFields : cert'.cred[g] \in Own(g)
    BY <2>1, <2>2, CertOfFormTyped, FieldSets
  <2> QED BY <2>1, <2>3, CertKeeps
<1> QED BY <1>2, <1>3, <1>4, <1>5, <1>6, <1>7, <1>8

\* Saving the certificates puts what the editor holds into the form.
LEMMA SaveStep ==
    ASSUME FormInv, CertInv, SaveCert
    PROVE  FormInv' /\ CertInv'
<1> DEFINE new == ApplyCert(form, CertConfig(cert))
<1>1. /\ form \in FormType /\ CoherentForm(form) /\ cert \in CertType
      /\ form.protocol # "wireguard"
  BY DEF FormInv, CertInv, SaveCert, CertOnTop
<1>2. /\ form' = new /\ certOpen' = FALSE /\ cert' = NoCert
      /\ UNCHANGED <<formOpen, selected, chosen, session, picking>>
  BY DEF SaveCert
<1>3. /\ new \in FormType /\ CoherentForm(new) /\ new.protocol = form.protocol
      /\ \A f \in Fields \ TlsFields : new.cred[f] = form.cred[f]
      /\ \A f \in TlsFields : new.cred[f] \in {None, cert.cred[f]}
  BY <1>1, ApplyTyped
<1> HIDE DEF new
<1>4. \A f : Own(f)' = Own(f)
  BY <1>2 DEF Own
<1>5. \A f \in Fields : new.cred[f] \in Own(f)
  BY <1>3, OwnNone DEF FormInv, CertInv
<1>6. FormInv'
  BY <1>2, <1>3, <1>4, <1>5 DEF FormInv
<1>7. CertInv'
  BY <1>2, <1>4, NoCertTyped, OwnNone DEF CertInv
<1> QED BY <1>6, <1>7

\* A new profile is shown: by the hub, by the library, or by a timer that fires
\* while anything is open.
LEMMA ShowStep ==
    ASSUME LibInv, HubInv, FormInv, CertInv
    PROVE  /\ ManualCreate => FormInv' /\ CertInv'
           /\ \A id \in 1..MaxId : EditProfile(id) => FormInv' /\ CertInv'
           /\ \A f \in Files : ImportTimer(f) => FormInv' /\ CertInv'
<1>1. ASSUME ManualCreate PROVE FormInv' /\ CertInv'
  <2>1. ~certOpen /\ ShowForm(NoProfile, "openvpn")
    BY <1>1 DEF ManualCreate, CertInv
  <2> QED BY <2>1, ShowKeeps
<1>2. ASSUME NEW id \in 1..MaxId, EditProfile(id) PROVE FormInv' /\ CertInv'
  <2> DEFINE protocol == IF library[id].protocol = "wireguard" THEN "wireguard" ELSE "openvpn"
  <2>1. ~certOpen /\ id \in DOMAIN library /\ ShowForm(library[id], protocol)
    BY <1>2 DEF EditProfile, CertInv
  <2>2. library[id] \in Profile /\ Coherent(library[id]) /\ protocol \in {"wireguard", "openvpn"}
    BY <2>1 DEF LibInv
  <2> HIDE DEF protocol
  <2> QED BY <2>1, <2>2, ShowKeeps
<1>3. ASSUME NEW f \in Files, ImportTimer(f) PROVE FormInv' /\ CertInv'
  <2> DEFINE p == ParseConfigContent(f, nextId)
  <2>1. ShowForm(p, "openvpn") /\ f.kind = "openvpn" /\ f.n \in Nat /\ nextId \in Nat \ {0}
    BY <1>3, FormAssumption DEF ImportTimer, HubInv, LibInv
  <2>2. p \in Profile /\ p.protocol # "wireguard" /\ Coherent(p)
    BY <2>1, ParseTyped
  <2> HIDE DEF p
  <2>3. Filled(p, "openvpn").protocol # "wireguard"
    BY <2>2, FilledFacts, ProfileNotNone
  <2> QED BY <2>1, <2>2, <2>3, ShowKeeps
<1> QED BY <1>1, <1>2, <1>3

LEMMA FormStep ==
    ASSUME LibInv, HubInv, FormInv, CertInv, Next
    PROVE  FormInv' /\ CertInv'
<1>1. ASSUME UNCHANGED <<formVars, certVars>> PROVE FormInv' /\ CertInv'
  <2>1. \A f : Own(f)' = Own(f)
    BY <1>1 DEF Own, formVars
  <2>2. UNCHANGED <<formOpen, selected, chosen, form, session>> /\ UNCHANGED <<certOpen, cert, picking>>
    BY <1>1 DEF formVars, certVars
  <2>3. FormInv'
    BY <2>1, <2>2 DEF FormInv
  <2>4. CertInv'
    BY <2>1, <2>2 DEF CertInv
  <2> QED BY <2>3, <2>4
<1>2. CASE NextAside
  <2>1. OpenHub \/ CloseHub => FormInv' /\ CertInv'
    BY <1>1 DEF OpenHub, CloseHub
  <2>2. \A f \in Files : PickFile(f) \/ ReadRefused(f) \/ ReadParsed(f) => FormInv' /\ CertInv'
    BY <1>1 DEF PickFile, ReadRefused, ReadParsed
  <2>3. \A f \in Files, heard \in 1..2 : NativeDrop(f, heard) => FormInv' /\ CertInv'
    BY <1>1 DEF NativeDrop
  <2>4. CancelForm => FormInv' /\ CertInv'
    BY CloseKeeps DEF CancelForm, FormOnTop
  <2> QED BY <1>2, <2>1, <2>2, <2>3, <2>4, EditStep, CertStep, SaveStep DEF NextAside
<1>3. CASE Submit
  BY <1>3, CloseKeeps DEF Submit, FormOnTop
<1> QED BY <1>2, <1>3, ShowStep, NextSplit

-----------------------------------------------------------------------------
(* The theorems *)

FormInvAll == LibInv /\ HubInv /\ FormInv /\ CertInv /\ SubmitSurvivesRestart

LEMMA InitHolds == Init => FormInvAll
<1> SUFFICES ASSUME Init PROVE FormInvAll
  OBVIOUS
<1>1. LibInv
  <2>1. /\ DOMAIN InitialProfiles = 1..Len(InitialProfiles) /\ Len(InitialProfiles) \in Nat
        /\ \A id \in DOMAIN InitialProfiles : InitialProfiles[id] \in Profile
    BY FormAssumption
  <2>2. nextId \in Nat \ {0} /\ nextId - 1 = Len(InitialProfiles)
    BY <2>1 DEF Init
  <2>3. library = InitialProfiles
    BY DEF Init
  <2>4. \A id \in DOMAIN library : library[id] \in Profile /\ library[id].id = id /\ Coherent(library[id])
    BY <2>1, <2>3, FormAssumption
  <2> QED BY <2>1, <2>2, <2>3, <2>4 DEF LibInv
<1>2. HubInv
  BY DEF Init, HubInv
<1>3. FormInv
  <2>1. form = BlankForm("wireguard") /\ selected = NoProfile /\ formOpen = FALSE /\ chosen = "wireguard" /\ session = 0
    BY DEF Init
  <2> QED BY <2>1, BlankTyped, OwnNone DEF FormInv
<1>4. CertInv
  <2>1. NoPick \in [field : TlsFields \cup {"none"}, session : Nat] /\ NoPick.session <= 0
    BY DEF NoPick
  <2>2. certOpen = FALSE /\ cert = NoCert /\ picking = NoPick /\ session = 0
    BY DEF Init
  <2> QED BY <2>1, <2>2, NoCertTyped, OwnNone DEF CertInv
<1>5. SubmitSurvivesRestart
  BY DEF Init, NoProfile, SubmitSurvivesRestart
<1> QED BY <1>1, <1>2, <1>3, <1>4, <1>5 DEF FormInvAll

LEMMA StepHolds == FormInvAll /\ [Next]_vars => FormInvAll'
<1> SUFFICES ASSUME FormInvAll, [Next]_vars PROVE FormInvAll'
  OBVIOUS
<1>1. CASE Next
  BY <1>1, LibStep, HubStep, FormStep DEF FormInvAll
<1>2. CASE UNCHANGED vars
  <2>1. UNCHANGED <<library, nextId, submitted>> /\ UNCHANGED <<hub, reads, timers>>
    BY <1>2 DEF vars, hubVars, storeVars
  <2>2. UNCHANGED <<formOpen, selected, chosen, form, session>> /\ UNCHANGED <<certOpen, cert, picking>>
    BY <1>2 DEF vars, formVars, certVars
  <2>3. LibInv' /\ HubInv' /\ SubmitSurvivesRestart'
    BY <2>1 DEF FormInvAll, LibInv, HubInv, SubmitSurvivesRestart
  <2>4. \A f : Own(f)' = Own(f)
    BY <2>2 DEF Own
  <2>5. FormInv' /\ CertInv'
    BY <2>2, <2>4 DEF FormInvAll, FormInv, CertInv
  <2> QED BY <2>3, <2>5 DEF FormInvAll
<1> QED BY <1>1, <1>2

LEMMA FormInvariant == Spec => []FormInvAll
BY InitHolds, StepHolds, PTL DEF Spec

\* Every variable keeps its type, whatever files, profiles and choices there are: in
\* particular no profile is filed under another's id and the id of a new profile is
\* in use by none (addProfile, useVpnStore.ts).
THEOREM FormTypeCorrect == Spec => []TypeOK
<1>1. FormInvAll => TypeOK
  BY DEF FormInvAll, LibInv, HubInv, FormInv, CertInv, TypeOK, FormType, CertType
<1> QED BY <1>1, FormInvariant, PTL

\* The open form and the open certificate editor never mix two profiles, whatever was
\* opened, cancelled, imported late or saved before (the effects of ProfileModal and
\* CertificateManagerModal).
THEOREM FormShowsOneProfile == Spec => []FormIsOneProfile
<1>1. FormInvAll => FormIsOneProfile
  BY DEF FormInvAll, FormInv, CertInv, FormIsOneProfile, Own
<1> QED BY <1>1, FormInvariant, PTL

\* What handleSubmit hands to the store comes back from loadStorage as it was shown:
\* metadata, secret and flags, for every form that the dialogs can build.
THEOREM SubmittedSurvivesRestart == Spec => []SubmitSurvivesRestart
<1>1. FormInvAll => SubmitSurvivesRestart
  BY DEF FormInvAll
<1> QED BY <1>1, FormInvariant, PTL

\* No step but the submission of its own form changes or removes a stored profile,
\* in particular no late or repeated import (handleSubmit, addProfile, updateProfile).
THEOREM OnlyOwnFormChanges == Spec => OnlyItsFormChangesAProfile
<1> DEFINE Step == \A id \in DOMAIN library :
                     /\ id \in DOMAIN library'
                     /\ library'[id] # library[id] => formOpen /\ selected.id = id
<1>1. ASSUME FormInvAll, Next PROVE Step
  <2>1. CASE Submit
    <3>1. formOpen
      BY <2>1 DEF Submit, FormOnTop
    <3>2. LibInv /\ FormInv
      BY <1>1 DEF FormInvAll
    <3> QED BY <2>1, <3>1, <3>2, SubmitEffect, SubmitKeepsLibrary
  <2>2. CASE library' = library
    BY <2>2
  <2> QED BY <1>1, <2>1, <2>2, StoreStep
<1>2. FormInvAll /\ [Next]_vars => [Step]_vars
  BY <1>1
<1> QED BY <1>2, FormInvariant, PTL DEF Spec, OnlyItsFormChangesAProfile
=============================================================================
