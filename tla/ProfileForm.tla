----------------------------- MODULE ProfileForm -----------------------------
(***************************************************************************)
(* The dialogs that create and edit profiles: ProfileLibraryView opens     *)
(* NewProfileHubModal (import a file or create by hand) and ProfileModal   *)
(* (the form), and ProfileModal opens CertificateManagerModal (the TLS     *)
(* material, edited on a local copy).                                      *)
(*                                                                         *)
(* What makes them hard: files are read asynchronously and an imported     *)
(* profile arrives 300 ms after it was parsed, whatever dialog is open by  *)
(* then; a native drop can be heard twice while the listener is being      *)
(* replaced; a file picked for a certificate arrives late; and any change  *)
(* of the store re-renders ProfileModal, which hands the certificate       *)
(* editor a fresh `config` object and so re-runs its effect.               *)
(***************************************************************************)
EXTENDS ProfileCodec, FiniteSets, Functions

CONSTANTS
    Files,          \* the configuration files on the user's disk
    InitialProfiles,\* profiles the library starts with
    EditFields,     \* the fields the user types into
    EditModes,      \* the password modes he chooses
    EditFormats,    \* the TOTP formats he chooses
    MaxId,          \* bound: a form is submitted while ids up to this are free
    MaxSession      \* bound: times the form is shown, imports on the way included

ASSUME FormAssumption ==
    /\ MaxId \in Nat /\ MaxSession \in Nat
    /\ InitialProfiles \in Seq(Profile) /\ Len(InitialProfiles) <= MaxId
    /\ \A id \in DOMAIN InitialProfiles : InitialProfiles[id].id = id /\ Coherent(InitialProfiles[id])
    /\ \A id \in DOMAIN InitialProfiles, f \in Fields \ {"renegSec"} :
          InitialProfiles[id].cred[f] \notin {Null, Zero}
    /\ \A f \in Files : f.n \in Nat /\ f.kind \in {"openvpn", "wireguard"}
    /\ EditFields \subseteq Fields
    /\ EditModes \subseteq Modes \ {"unset"} /\ EditFormats \subseteq Formats \ {"unset"}

VARIABLES
    library,    \* id -> profile, the store's list
    nextId,     \* crypto.randomUUID: ids are fresh
    hub,        \* NewProfileHubModal: open, isLoading, error
    reads,      \* files being read, with their multiplicity
    timers,     \* parsed files waiting for the 300 ms timer
    formOpen,   \* isProfileModalOpen
    selected,   \* selectedProfile (a profile, or NoProfile)
    chosen,     \* chosenProtocol
    form,       \* the form's state
    session,    \* how many times the form's effect has filled it in
    certOpen,   \* certModalOpened
    cert,       \* the certificate editor's local state
    picking,    \* the certificate field a file is being picked for, and the
                \* session of the form it was picked in
    submitted   \* what the form that was just submitted handed to the store

hubVars == <<hub, reads, timers>>
formVars == <<formOpen, selected, chosen, form, session>>
certVars == <<certOpen, cert, picking>>
storeVars == <<library, nextId, submitted>>
vars == <<hubVars, formVars, certVars, storeVars>>

\* How often the form has been shown or will be, if every file parses.
Shown == session + FoldFunction(+, 0, reads) + FoldFunction(+, 0, timers)

NoProfile == [id |-> 0]
NoPick == [field |-> "none", session |-> 0]
NoCert == [cred |-> [f \in TlsFields |-> None], remoteTls |-> "on", tlsMode |-> "none"]

Init ==
    /\ library = InitialProfiles
    /\ nextId = Len(InitialProfiles) + 1
    /\ hub = [open |-> FALSE, isLoading |-> FALSE, error |-> FALSE]
    /\ reads = [f \in Files |-> 0]
    /\ timers = [f \in Files |-> 0]
    /\ formOpen = FALSE
    /\ selected = NoProfile
    /\ chosen = "wireguard"
    /\ form = BlankForm("wireguard")
    /\ session = 0
    /\ certOpen = FALSE
    /\ cert = NoCert
    /\ picking = NoPick
    /\ submitted = NoProfile

-----------------------------------------------------------------------------
(***************************************************************************)
(* Effects                                                                 *)
(***************************************************************************)
\* Mutant: for a new profile the effect forgets the TLS fields.
FillFormKeepsTls(profile, protocol) ==
    form' = IF profile # NoProfile THEN FormOf(profile)
            ELSE [BlankForm(protocol) EXCEPT !.cred = [f \in Fields |->
                    IF f \in TlsFields THEN form.cred[f] ELSE None]]

\* The effect of ProfileModal on [initialProfile, opened, defaultProtocol]:
\* every field is set again.
FillForm(profile, protocol) ==
    form' = IF profile = NoProfile THEN BlankForm(protocol) ELSE FormOf(profile)

\* The effect of CertificateManagerModal on [opened, config]: `config` is an
\* object literal, new at every render of ProfileModal.
SyncCert(isOpen, newForm) ==
    cert' = IF isOpen THEN CertOfForm(newForm) ELSE cert

\* ProfileModal opens, or its initialProfile changes while it is open: both
\* effects run.  The certificate editor is a child of the modal, so closing
\* the form unmounts it and forgets a file that is still being picked.
ShowForm(profile, protocol) ==
    /\ formOpen' = TRUE
    /\ selected' = profile
    /\ chosen' = protocol
    /\ session' = session + 1
    /\ FillForm(profile, protocol)
    /\ certOpen' = certOpen
    /\ SyncCert(certOpen, form')
    /\ picking' = picking
    /\ submitted' = NoProfile

\* The library keeps selectedProfile; `opened` has changed, so the effect runs.
CloseForm ==
    /\ formOpen' = FALSE
    /\ FillForm(selected, chosen)
    /\ picking' = NoPick
    /\ UNCHANGED <<selected, chosen, session, certOpen, cert>>

\* The effect of NewProfileHubModal on [opened].
ClosedHub == [open |-> FALSE, isLoading |-> FALSE, error |-> FALSE]

-----------------------------------------------------------------------------
(***************************************************************************)
(* ProfileLibraryView and NewProfileHubModal.  A modal covers the view     *)
(* behind it: the library is reachable when no dialog is open, the hub     *)
(* when it is open and the form is not on top of it.                       *)
(***************************************************************************)
OpenHub ==
    /\ ~hub.open /\ ~formOpen
    /\ hub' = [hub EXCEPT !.open = TRUE]
    /\ UNCHANGED <<reads, timers, formVars, certVars, storeVars>>

CloseHub ==
    /\ hub.open /\ ~formOpen
    /\ hub' = ClosedHub
    /\ UNCHANGED <<reads, timers, formVars, certVars, storeVars>>

\* The file dialog of the drop zone (handleFiles), disabled while loading.
PickFile(f) ==
    /\ hub.open /\ ~formOpen /\ ~hub.isLoading /\ Shown < MaxSession
    /\ hub' = [hub EXCEPT !.isLoading = TRUE, !.error = FALSE]
    /\ reads' = [reads EXCEPT ![f] = @ + 1]
    /\ UNCHANGED <<timers, formVars, certVars, storeVars>>

\* A file dropped on the window: heard by every listener that is attached,
\* two of them while the effect is being re-run.  No isLoading guard.
NativeDrop(f, heard) ==
    /\ hub.open /\ Shown + heard <= MaxSession
    /\ hub' = [hub EXCEPT !.isLoading = TRUE]
    /\ reads' = [reads EXCEPT ![f] = @ + heard]
    /\ UNCHANGED <<timers, formVars, certVars, storeVars>>

\* Mutant: the error path leaves isLoading set.
ReadRefusedStaysLoading(f) ==
    /\ reads[f] > 0
    /\ hub' = [hub EXCEPT !.error = TRUE]
    /\ reads' = [reads EXCEPT ![f] = @ - 1]
    /\ UNCHANGED <<timers, formVars, certVars, storeVars>>

\* The read fails, or the file cannot be parsed, or it is a WireGuard file,
\* which is refused.
ReadRefused(f) ==
    /\ reads[f] > 0
    /\ hub' = [hub EXCEPT !.isLoading = FALSE, !.error = TRUE]
    /\ reads' = [reads EXCEPT ![f] = @ - 1]
    /\ UNCHANGED <<timers, formVars, certVars, storeVars>>

\* The file is parsed; the form opens 300 ms later.
ReadParsed(f) ==
    /\ reads[f] > 0 /\ f.kind = "openvpn"
    /\ reads' = [reads EXCEPT ![f] = @ - 1]
    /\ timers' = [timers EXCEPT ![f] = @ + 1]
    /\ UNCHANGED <<hub, formVars, certVars, storeVars>>

\* The timer: onClose and onImportParsed, whatever is open by now.
ImportTimer(f) ==
    /\ timers[f] > 0
    /\ timers' = [timers EXCEPT ![f] = @ - 1]
    /\ hub' = ClosedHub
    /\ ShowForm(ParseConfigContent(f, nextId), "openvpn")
    /\ nextId' = nextId + 1
    /\ UNCHANGED <<reads, library>>

\* The OpenVPN card of the hub.
ManualCreate ==
    /\ hub.open /\ ~formOpen /\ Shown < MaxSession
    /\ hub' = ClosedHub
    /\ ShowForm(NoProfile, "openvpn")
    /\ UNCHANGED <<reads, timers, library, nextId>>

\* handleEdit of the library.
EditProfile(id) ==
    /\ ~hub.open /\ ~formOpen /\ Shown < MaxSession
    /\ id \in DOMAIN library
    /\ ShowForm(library[id], IF library[id].protocol = "wireguard" THEN "wireguard" ELSE "openvpn")
    /\ UNCHANGED <<hubVars, library, nextId>>

-----------------------------------------------------------------------------
(***************************************************************************)
(* ProfileModal                                                            *)
(***************************************************************************)
FormOnTop == formOpen /\ ~certOpen

\* The fields of the form the protocol shows; an edit re-renders the modal.
TypeField(f) ==
    /\ FormOnTop
    /\ f \in EditFields \ TlsFields
    /\ IF form.protocol = "wireguard" THEN f \in KeyFields ELSE f \in AccountFields
    /\ f = "totpSecret" => form.mode = "totp_auto"
    /\ form' = [form EXCEPT !.cred[f] = IF @ = None THEN Typed(session) ELSE None]
    /\ UNCHANGED <<hubVars, formOpen, selected, chosen, session, certVars, storeVars>>

ChooseMode(mode) ==
    /\ FormOnTop /\ form.protocol # "wireguard" /\ form.mode # mode
    /\ form' = [form EXCEPT !.mode = mode]
    /\ UNCHANGED <<hubVars, formOpen, selected, chosen, session, certVars, storeVars>>

\* The TOTP format selector, shown for the mode totp_auto.
ChooseFormat(format) ==
    /\ FormOnTop /\ form.protocol # "wireguard" /\ form.mode = "totp_auto" /\ form.format # format
    /\ form' = [form EXCEPT !.format = format]
    /\ UNCHANGED <<hubVars, formOpen, selected, chosen, session, certVars, storeVars>>

CancelForm ==
    /\ FormOnTop
    /\ CloseForm
    /\ UNCHANGED <<hubVars, storeVars>>

\* Mutant: the id of a new profile is taken from the length of the list.
SubmitCountId ==
    /\ FormOnTop /\ nextId <= MaxId
    /\ LET isEdit == selected.id \in DOMAIN library
           id == IF isEdit THEN selected.id ELSE Cardinality(DOMAIN library)
           old == IF selected = NoProfile THEN {} ELSE selected.flags
           p == ProfileOfForm(form, id, IF selected = NoProfile THEN FALSE ELSE selected.favorite, old)
           secret == SecretOfForm(form)
       IN  /\ library' = [i \in DOMAIN library \cup {id} |->
                            IF i = id THEN MergeSecret(p, secret) ELSE library[i]]
           /\ nextId' = IF isEdit THEN nextId ELSE nextId + 1
           /\ submitted' = [id |-> id, secret |-> secret]
    /\ CloseForm
    /\ UNCHANGED hubVars

\* handleSubmit, and addProfile or updateProfile of the store.
Submit ==
    /\ FormOnTop /\ nextId <= MaxId
    /\ LET isEdit == selected.id \in DOMAIN library
           id == IF isEdit THEN selected.id ELSE nextId
           old == IF selected = NoProfile THEN {} ELSE selected.flags
           p == ProfileOfForm(form, id, IF selected = NoProfile THEN FALSE ELSE selected.favorite, old)
           secret == SecretOfForm(form)
       IN  /\ library' = [i \in DOMAIN library \cup {id} |->
                            IF i = id THEN MergeSecret(p, secret) ELSE library[i]]
           /\ nextId' = IF isEdit THEN nextId ELSE nextId + 1
           /\ submitted' = [id |-> id, secret |-> secret]
    /\ CloseForm
    /\ UNCHANGED hubVars

-----------------------------------------------------------------------------
(***************************************************************************)
(* CertificateManagerModal                                                 *)
(***************************************************************************)
OpenCert ==
    /\ FormOnTop /\ form.protocol # "wireguard"
    /\ certOpen' = TRUE
    /\ SyncCert(TRUE, form)
    /\ UNCHANGED <<hubVars, formVars, picking, storeVars>>

CertOnTop == formOpen /\ certOpen

\* The text areas and the clear buttons; the TLS tab shows one key only.
TypeCert(f) ==
    /\ CertOnTop
    /\ f \in EditFields \cap TlsFields
    /\ f \in {"tlsAuthKey", "keyDirection"} => cert.tlsMode = "tls-auth"
    /\ f = "tlsCryptKey" => cert.tlsMode = "tls-crypt"
    /\ cert' = [cert EXCEPT !.cred[f] = IF @ = None THEN Typed(session) ELSE None]
    /\ UNCHANGED <<hubVars, formVars, certOpen, picking, storeVars>>

ChooseTlsMode(mode) ==
    /\ CertOnTop /\ cert.tlsMode # mode
    /\ cert' = [cert EXCEPT !.tlsMode = mode]
    /\ UNCHANGED <<hubVars, formVars, certOpen, picking, storeVars>>

\* The server verification switch of the advanced tab.
ToggleRemoteTls ==
    /\ CertOnTop
    /\ cert' = [cert EXCEPT !.remoteTls = IF @ = "on" THEN "off" ELSE "on"]
    /\ UNCHANGED <<hubVars, formVars, certOpen, picking, storeVars>>

\* triggerFilePicker, and the FileReader that answers later.
PickCertFile(f) ==
    /\ CertOnTop /\ picking = NoPick
    /\ f \in EditFields \cap {"caCert", "tlsAuthKey", "tlsCryptKey", "clientCert", "clientKey"}
    /\ picking' = [field |-> f, session |-> session]
    /\ UNCHANGED <<hubVars, formVars, certOpen, cert, storeVars>>

CertFileLoaded ==
    /\ picking # NoPick
    /\ cert' = IF certOpen THEN [cert EXCEPT !.cred[picking.field] = Picked(picking.session)] ELSE cert
    /\ picking' = NoPick
    /\ UNCHANGED <<hubVars, formVars, certOpen, storeVars>>

CancelCert ==
    /\ CertOnTop
    /\ certOpen' = FALSE
    /\ cert' = NoCert
    /\ UNCHANGED <<hubVars, formVars, picking, storeVars>>

\* handleSave: onSave, then onClose.
SaveCert ==
    /\ CertOnTop
    /\ form' = ApplyCert(form, CertConfig(cert))
    /\ certOpen' = FALSE
    /\ cert' = NoCert
    /\ UNCHANGED <<hubVars, formOpen, selected, chosen, session, picking, storeVars>>

\* ProfileModal re-renders: it subscribes to the whole store (telemetry, logs,
\* pings) and ticks once a second while it previews a one-time code.
Rerender ==
    /\ CertOnTop
    /\ SyncCert(certOpen, form)
    /\ UNCHANGED <<hubVars, formVars, certOpen, picking, storeVars>>

-----------------------------------------------------------------------------
Next ==
    \/ OpenHub \/ CloseHub \/ ManualCreate
    \/ \E f \in Files : PickFile(f) \/ ReadRefused(f) \/ ReadParsed(f) \/ ImportTimer(f)
    \/ \E f \in Files, heard \in 1..2 : NativeDrop(f, heard)
    \/ \E id \in 1..MaxId : EditProfile(id)
    \/ \E f \in Fields : TypeField(f) \/ TypeCert(f) \/ PickCertFile(f)
    \/ \E mode \in EditModes : ChooseMode(mode)
    \/ \E format \in EditFormats : ChooseFormat(format)
    \/ \E mode \in {"none", "tls-auth", "tls-crypt"} : ChooseTlsMode(mode)
    \/ CancelForm \/ Submit
    \/ OpenCert \/ CertFileLoaded \/ CancelCert \/ SaveCert \/ ToggleRemoteTls \/ Rerender

\* The machine finishes what it started: a file read ends, a timer fires.
Fairness == \A f \in Files : WF_vars(ReadRefused(f) \/ ReadParsed(f)) /\ WF_vars(ImportTimer(f))

Spec == Init /\ [][Next]_vars

\* Spec under that fairness.
LiveSpec == Spec /\ Fairness

-----------------------------------------------------------------------------
(***************************************************************************)
(* Properties                                                              *)
(***************************************************************************)
Cred(S) == [S -> Token]

\* Type invariant.
TypeOK ==
    /\ DOMAIN library \subseteq 1..(nextId - 1)
    /\ \A id \in DOMAIN library : library[id] \in Profile /\ library[id].id = id
    /\ selected \in Profile \cup {NoProfile}
    /\ nextId \in Nat /\ session \in Nat
    /\ hub \in [open : BOOLEAN, isLoading : BOOLEAN, error : BOOLEAN]
    /\ reads \in [Files -> Nat] /\ timers \in [Files -> Nat]
    /\ formOpen \in BOOLEAN /\ certOpen \in BOOLEAN
    /\ chosen \in {"wireguard", "openvpn"}
    /\ form \in [protocol : Protocols, cred : Cred(Fields), mode : Modes, format : Formats,
                 remoteTls : Switch]
    /\ cert \in [cred : Cred(TlsFields), remoteTls : Switch,
                 tlsMode : {"none", "tls-auth", "tls-crypt"}]
    /\ picking \in [field : TlsFields \cup {"none"}, session : Nat]

\* The form never mixes two profiles: whatever was opened, cancelled, imported
\* late or saved in the certificate editor before, each field of the open form
\* and of the open editor is empty, was typed since this profile was shown, was
\* picked from a certificate file, or is that very field of the profile shown.
FormIsOneProfile ==
    LET Own(f) == {None, Typed(session)} \cup {Picked(n) : n \in 0..session}
                    \cup IF selected = NoProfile THEN {} ELSE {selected.cred[f]}
    IN  /\ formOpen => \A f \in Fields : form.cred[f] \in Own(f)
        /\ formOpen /\ certOpen => \A f \in TlsFields : cert.cred[f] \in Own(f)

\* The form of a profile but for the renegotiation interval.
FormBesidesInterval(p) == [FormOf(p) EXCEPT !.cred["renegSec"] = None]

\* What the user submitted is what he finds after a restart: the profile kept
\* in the store and the one loadStorage rebuilds from the metadata and the
\* secret that were sent to storage open the same form and show the same flags.
\* Only an interval left open (undefined or null) is not the same afterwards.
SubmitSurvivesRestart ==
    submitted.id # 0 /\ submitted.secret.type # "none" =>
        LET shown == library[submitted.id]
            back == ProfileFromStorage(StoredOf(shown, submitted.secret), submitted.secret)
        IN  /\ FormBesidesInterval(back) = FormBesidesInterval(shown)
            /\ shown.cred["renegSec"] \notin {None, Null} => back.cred["renegSec"] = shown.cred["renegSec"]
            /\ back.flags = shown.flags /\ back.favorite = shown.favorite

\* An interval left open stays open across a restart.  False: one that was read
\* from disk as null is sent as Number(null) = 0, which turns renegotiation off.
OpenIntervalStaysOpen ==
    submitted.id # 0 /\ submitted.secret.type # "none" =>
        LET shown == library[submitted.id]
            back == ProfileFromStorage(StoredOf(shown, submitted.secret), submitted.secret)
        IN  shown.cred["renegSec"] \in {None, Null} => back.cred["renegSec"] \in {None, Null}

\* A stored profile changes only when the form that shows it is submitted: an
\* import that arrives late, or twice, never overwrites one.
OnlyItsFormChangesAProfile ==
    [][\A id \in DOMAIN library :
          /\ id \in DOMAIN library'
          /\ library'[id] # library[id] => formOpen /\ selected.id = id]_vars

\* The import hub does not stay in its loading state, in which it accepts no
\* file: every read and every timer ends it.
LoadingEnds == hub.isLoading ~> ~hub.isLoading
=============================================================================
