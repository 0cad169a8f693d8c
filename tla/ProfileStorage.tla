--------------------------- MODULE ProfileStorage ---------------------------
(***************************************************************************)
(* How the desktop application keeps profiles and security settings: the   *)
(* store of the user interface changes at once and sends a storage command *)
(* it does not wait for; the commands run concurrently in the back end,    *)
(* which updates the secret vault, the profile list and the settings one   *)
(* after the other, each in memory and in a file of its own.               *)
(*                                                                         *)
(* A secret is the number of the command that carried it (0: none); what a *)
(* profile is made of besides is the subject of ProfileCodec.              *)
(***************************************************************************)
EXTENDS Naturals, Sequences, SequencesExt

CONSTANTS
    InitialProfiles, \* the list on disk at the start: [id, favorite], ids 1, 2, ...
    MaxOps,          \* bound: operations of the user
    MaxCrashes       \* bound: crashes of the application

ASSUME StorageAssumption ==
    /\ MaxOps \in Nat /\ MaxCrashes \in Nat
    /\ InitialProfiles \in Seq([id : Nat, favorite : BOOLEAN])
    /\ \A i \in DOMAIN InitialProfiles : InitialProfiles[i].id = i

VARIABLES
    store,     \* useVpnStore: isStorageLoaded, profiles, securitySettings, activeProfileId
    load,      \* the snapshot loadStorage is waiting for
    pending,   \* commands on their way, none of them awaited
    issued,    \* operations so far
    nextId,    \* crypto.randomUUID: ids are fresh
    mem,       \* StorageManager: profiles, vault cache, security_settings
    disk,      \* profiles.json, vault.enc, settings.json
    captured,  \* the kill switch policy of a connection being made, or "none"
    daemonKill,\* the policy in force with the tunnel that is up, or "none"
    dirty,     \* what commands overlapped on, or one failed for (Settings = 0)
    damaged,   \* files a failed write truncated, until a write completes
    killStale, \* the policy of the daemon may be an old one
    deleted,   \* ids the user deleted since the application started
    crashes

uiVars == <<store, load>>
daemonVars == <<captured, daemonKill>>
backVars == <<mem, disk, daemonVars>>
ghostVars == <<dirty, damaged, killStale, deleted>>
vars == <<uiVars, pending, issued, nextId, backVars, ghostVars, crashes>>

Settings == 0
MaxId == Len(InitialProfiles) + MaxOps
Ids == 1..MaxId
DefaultSettings == [kill |-> "strict", ipv6 |-> TRUE]

\* The state of the store before loadStorage has filled it.
EmptyStore == [loaded |-> FALSE, profiles |-> <<>>, settings |-> DefaultSettings, active |-> 0]
NoSnapshot == [taken |-> FALSE]
NoSecrets == [id \in Ids |-> 0]

\* The initial profiles have secrets number 1; commands carry numbers above.
InitialDisk ==
    [profiles |-> InitialProfiles,
     vault |-> [id \in Ids |-> IF id <= Len(InitialProfiles) THEN 1 ELSE 0],
     settings |-> DefaultSettings]

\* StorageManager::new and EncryptedVault::new: a file that cannot be read or
\* decrypted counts as empty ("will start fresh").
LoadedFrom(d) == [list |-> d.profiles, cache |-> d.vault, settings |-> d.settings]

Init ==
    /\ store = EmptyStore
    /\ load = NoSnapshot
    /\ pending = {}
    /\ issued = 0
    /\ nextId = Len(InitialProfiles) + 1
    /\ disk = InitialDisk
    /\ mem = LoadedFrom(InitialDisk)
    /\ captured = "none" /\ daemonKill = "none"
    /\ dirty = {} /\ damaged = {} /\ killStale = FALSE /\ deleted = {}
    /\ crashes = 0

-----------------------------------------------------------------------------
(***************************************************************************)
(* loadStorage                                                             *)
(***************************************************************************)
\* storage_load_all runs in the back end.
TakeSnapshot ==
    /\ ~store.loaded /\ load = NoSnapshot
    /\ load' = [taken |-> TRUE, list |-> mem.list, cache |-> mem.cache, settings |-> mem.settings]
    /\ UNCHANGED <<store, pending, issued, nextId, backVars, ghostVars, crashes>>

\* Array.filter and Vec::retain: the list without the entry of id.  No two
\* entries of a list have the same id (UniqueIds of ProfileStorageProofs).
Without(list, id) ==
    IF \E i \in DOMAIN list : list[i].id = id
    THEN RemoveAt(list, CHOOSE i \in DOMAIN list : list[i].id = id)
    ELSE list

FirstId(profiles) == IF profiles = <<>> THEN 0 ELSE profiles[1].id

\* The favourite the application selects at the start, else the first profile.
StartId(profiles) ==
    LET favorites == SelectSeq(profiles, LAMBDA p : p.favorite)
    IN  IF favorites # <<>> THEN favorites[1].id ELSE FirstId(profiles)

\* The snapshot arrives: it replaces whatever the store holds by now.
LoadStorage ==
    /\ load.taken
    /\ LET profiles == [i \in DOMAIN load.list |->
                          [id |-> load.list[i].id, favorite |-> load.list[i].favorite,
                           secret |-> load.cache[load.list[i].id]]]
       IN  store' = [loaded |-> TRUE, profiles |-> profiles, settings |-> load.settings,
                     active |-> StartId(profiles)]
    /\ load' = NoSnapshot
    /\ UNCHANGED <<pending, issued, nextId, backVars, ghostVars, crashes>>

-----------------------------------------------------------------------------
(***************************************************************************)
(* The operations of the store                                             *)
(***************************************************************************)
\* A command is sent and not awaited.  It makes its subject dirty if another
\* one for it is on its way, or the store is still to be loaded.
Issue(cmds, subject) ==
    /\ issued < MaxOps
    /\ pending' = pending \cup cmds
    /\ issued' = issued + 1
    /\ dirty' = IF (\E c \in pending : c.id = subject) \/ ~store.loaded
                THEN dirty \cup {subject} ELSE dirty

\* A save of profile p, with a secret or (0) without; the first step is the
\* vault only if there is a secret.
SaveCommand(p, secret) ==
    [n |-> issued + 2, op |-> "save", id |-> p.id, favorite |-> p.favorite, secret |-> secret,
     settings |-> DefaultSettings, at |-> IF secret = 0 THEN "list" ELSE "cache"]

\* Mutant: the deletion leaves the vault alone.
DeleteCommandListOnly(id) ==
    [n |-> issued + 2, op |-> "delete", id |-> id, favorite |-> FALSE, secret |-> 0,
     settings |-> DefaultSettings, at |-> "list"]

DeleteCommand(id) ==
    [n |-> issued + 2, op |-> "delete", id |-> id, favorite |-> FALSE, secret |-> 0,
     settings |-> DefaultSettings, at |-> "cache"]

SettingsCommand(op, settings) ==
    [n |-> issued + 2, op |-> op, id |-> Settings, favorite |-> FALSE, secret |-> 0,
     settings |-> settings, at |-> IF op = "settings" THEN "file" ELSE "daemon"]

AddProfile ==
    LET p == [id |-> nextId, favorite |-> FALSE, secret |-> issued + 2]
    IN  /\ store' = [store EXCEPT !.profiles = <<p>> \o @, !.active = p.id]
        /\ nextId' = nextId + 1
        /\ Issue({SaveCommand(p, p.secret)}, p.id)
        /\ UNCHANGED <<load, backVars, damaged, killStale, deleted, crashes>>

\* Mutant: the secret is not sent along.
UpdateProfileNoSecret(i, secret) ==
    /\ i \in DOMAIN store.profiles
    /\ LET p == [store.profiles[i] EXCEPT !.secret = secret]
       IN  /\ store' = [store EXCEPT !.profiles[i] = p]
           /\ Issue({SaveCommand(p, 0)}, p.id)
    /\ UNCHANGED <<load, nextId, backVars, damaged, killStale, deleted, crashes>>

\* The form was submitted with a new secret, or with the key of a WireGuard
\* profile left blank, in which case no secret is sent.
UpdateProfile(i, secret) ==
    /\ i \in DOMAIN store.profiles
    /\ LET p == [store.profiles[i] EXCEPT !.secret = secret]
       IN  /\ store' = [store EXCEPT !.profiles[i] = p]
           /\ Issue({SaveCommand(p, secret)}, p.id)
    /\ UNCHANGED <<load, nextId, backVars, damaged, killStale, deleted, crashes>>

\* Mutant: the profile is saved as it was before the toggle.
ToggleFavoriteStale(i) ==
    /\ i \in DOMAIN store.profiles
    /\ store' = [store EXCEPT !.profiles[i].favorite = ~@]
    /\ Issue({SaveCommand(store.profiles[i], 0)}, store.profiles[i].id)
    /\ UNCHANGED <<load, nextId, backVars, damaged, killStale, deleted, crashes>>

ToggleFavorite(i) ==
    /\ i \in DOMAIN store.profiles
    /\ LET p == [store.profiles[i] EXCEPT !.favorite = ~@]
       IN  /\ store' = [store EXCEPT !.profiles[i] = p]
           /\ Issue({SaveCommand(p, 0)}, p.id)
    /\ UNCHANGED <<load, nextId, backVars, damaged, killStale, deleted, crashes>>

\* The active profile falls back to the first of the list before the deletion.
DeleteProfile(i) ==
    /\ i \in DOMAIN store.profiles
    /\ LET id == store.profiles[i].id
       IN  /\ store' = [store EXCEPT !.profiles = Without(@, id),
                                     !.active = IF @ = id THEN FirstId(store.profiles) ELSE @]
           /\ Issue({DeleteCommand(id)}, id)
           /\ deleted' = deleted \cup {id}
    /\ UNCHANGED <<load, nextId, backVars, damaged, killStale, crashes>>

\* Mutant: the daemon is told the policy of before.
SetKillSwitchStale(mode) ==
    LET settings == [store.settings EXCEPT !.kill = mode]
    IN  /\ store' = [store EXCEPT !.settings = settings]
        /\ Issue({SettingsCommand("settings", settings),
                  SettingsCommand("daemon", store.settings)}, Settings)
        /\ killStale' = (killStale \/ ~store.loaded \/ \E c \in pending : c.op = "daemon")
        /\ UNCHANGED <<load, nextId, backVars, damaged, deleted, crashes>>

\* The settings are saved as a whole, and the daemon is told, side by side.
SetKillSwitch(mode) ==
    LET settings == [store.settings EXCEPT !.kill = mode]
    IN  /\ store' = [store EXCEPT !.settings = settings]
        /\ Issue({SettingsCommand("settings", settings), SettingsCommand("daemon", settings)}, Settings)
        /\ killStale' = (killStale \/ ~store.loaded \/ \E c \in pending : c.op = "daemon")
        /\ UNCHANGED <<load, nextId, backVars, damaged, deleted, crashes>>

\* Before the store is loaded this writes the default kill switch policy, too.
UpdateSecuritySettings(ipv6) ==
    LET settings == [store.settings EXCEPT !.ipv6 = ipv6]
    IN  /\ store' = [store EXCEPT !.settings = settings]
        /\ Issue({SettingsCommand("settings", settings)}, Settings)
        /\ killStale' = (killStale \/ ~store.loaded)
        /\ UNCHANGED <<load, nextId, backVars, damaged, deleted, crashes>>

-----------------------------------------------------------------------------
(***************************************************************************)
(* The tunnel and its kill switch, as far as they concern the policy       *)
(***************************************************************************)
\* connect sends the policy along; the daemon keeps it with the request.
Connect ==
    /\ issued < MaxOps /\ store.profiles # <<>>
    /\ captured = "none" /\ daemonKill = "none"
    /\ captured' = store.settings.kill
    /\ issued' = issued + 1
    /\ killStale' = (~store.loaded \/ (killStale /\ \E c \in pending : c.op = "daemon"))
    /\ UNCHANGED <<uiVars, pending, nextId, mem, disk, daemonKill, dirty, damaged, deleted, crashes>>

\* setup_vpn_network: the policy of the request comes into force.
TunnelUp ==
    /\ captured # "none"
    /\ captured' = "none" /\ daemonKill' = captured
    /\ UNCHANGED <<uiVars, pending, issued, nextId, mem, disk, ghostVars, crashes>>

\* The connection attempt ends, or the tunnel is torn down.
TunnelDown ==
    /\ captured # "none" \/ daemonKill # "none"
    /\ captured' = "none" /\ daemonKill' = "none"
    /\ UNCHANGED <<uiVars, pending, issued, nextId, mem, disk, ghostVars, crashes>>

-----------------------------------------------------------------------------
(***************************************************************************)
(* The commands in the back end                                            *)
(***************************************************************************)
Advance(c, at) == pending' = (pending \ {c}) \cup {[c EXCEPT !.at = at]}
Finish(c) == pending' = pending \ {c}

\* fs::write of the files written as a whole: when it completes the file is
\* what was to be written; when it fails it may have truncated the file first,
\* which then reads as empty.
Completes(at) == damaged' = damaged \ {at}
Fails(c, after) ==
    /\ dirty' = dirty \cup {c.id}
    /\ \/ disk' = disk /\ damaged' = damaged
       \/ disk' = after /\ damaged' = damaged \cup {c.at}

\* store_secret and remove_secret: the cache, under its lock.
CacheStep(c) ==
    /\ c.at = "cache"
    /\ mem' = [mem EXCEPT !.cache[c.id] = c.secret]
    /\ Advance(c, "vault")
    /\ UNCHANGED <<uiVars, issued, nextId, disk, daemonVars, ghostVars, crashes>>

\* Mutant: the file is written with this entry only.
VaultStepOneEntry(c) ==
    /\ c.at = "vault"
    /\ disk' = [disk EXCEPT !.vault = [NoSecrets EXCEPT ![c.id] = c.secret]]
    /\ Advance(c, "list")
    /\ Completes("vault")
    /\ UNCHANGED <<uiVars, issued, nextId, mem, daemonVars, dirty, killStale, deleted, crashes>>

\* save_to_disk: the cache as it is now, under its lock.
VaultStep(c) ==
    /\ c.at = "vault"
    /\ disk' = [disk EXCEPT !.vault = mem.cache]
    /\ Advance(c, "list")
    /\ Completes("vault")
    /\ UNCHANGED <<uiVars, issued, nextId, mem, daemonVars, dirty, killStale, deleted, crashes>>

\* The vault cannot be written: a save ends there, a deletion goes on.
VaultFails(c) ==
    /\ c.at = "vault"
    /\ IF c.op = "save" THEN Finish(c) ELSE Advance(c, "list")
    /\ Fails(c, [disk EXCEPT !.vault = NoSecrets])
    /\ UNCHANGED <<uiVars, issued, nextId, mem, daemonVars, killStale, deleted, crashes>>

\* save_profile replaces the entry or puts it first, delete_profile drops it.
NewList(c) ==
    IF c.op = "delete" THEN Without(mem.list, c.id)
    ELSE LET entry == [id |-> c.id, favorite |-> c.favorite]
         IN  IF \E i \in DOMAIN mem.list : mem.list[i].id = c.id
             THEN [i \in DOMAIN mem.list |-> IF mem.list[i].id = c.id THEN entry ELSE mem.list[i]]
             ELSE <<entry>> \o mem.list

\* The list and persist_profiles, under the lock of the list.
ListStep(c) ==
    /\ c.at = "list"
    /\ mem' = [mem EXCEPT !.list = NewList(c)]
    /\ disk' = [disk EXCEPT !.profiles = NewList(c)]
    /\ Finish(c)
    /\ Completes("list")
    /\ UNCHANGED <<uiVars, issued, nextId, daemonVars, dirty, killStale, deleted, crashes>>

ListFails(c) ==
    /\ c.at = "list"
    /\ mem' = [mem EXCEPT !.list = NewList(c)]
    /\ Finish(c)
    /\ Fails(c, [disk EXCEPT !.profiles = <<>>])
    /\ UNCHANGED <<uiVars, issued, nextId, daemonVars, killStale, deleted, crashes>>

\* save_security_settings: the file first, without a lock, then the memory.
SettingsFileStep(c) ==
    /\ c.at = "file"
    /\ disk' = [disk EXCEPT !.settings = c.settings]
    /\ Advance(c, "memory")
    /\ Completes("file")
    /\ UNCHANGED <<uiVars, issued, nextId, mem, daemonVars, dirty, killStale, deleted, crashes>>

SettingsFail(c) ==
    /\ c.at = "file"
    /\ Finish(c)
    /\ Fails(c, [disk EXCEPT !.settings = DefaultSettings])
    /\ UNCHANGED <<uiVars, issued, nextId, mem, daemonVars, killStale, deleted, crashes>>

SettingsMemoryStep(c) ==
    /\ c.at = "memory"
    /\ mem' = [mem EXCEPT !.settings = c.settings]
    /\ Finish(c)
    /\ UNCHANGED <<uiVars, issued, nextId, disk, daemonVars, ghostVars, crashes>>

\* set_kill_switch: a request to the daemon, which may be unreachable.  It
\* changes the tunnel that is up and nothing else: a connection being made
\* keeps the policy it was asked for with.
DaemonStep(c) ==
    /\ c.at = "daemon"
    /\ daemonKill' = IF daemonKill = "none" THEN "none" ELSE c.settings.kill
    /\ killStale' = (killStale \/ captured \notin {"none", c.settings.kill})
    /\ Finish(c)
    /\ UNCHANGED <<uiVars, issued, nextId, mem, disk, captured, dirty, damaged, deleted, crashes>>

DaemonFails(c) ==
    /\ c.at = "daemon"
    /\ Finish(c)
    /\ killStale' = TRUE
    /\ UNCHANGED <<uiVars, issued, nextId, backVars, dirty, damaged, deleted, crashes>>

\* The application dies, or is closed, and starts again.  A file that was being
\* written may be left truncated (fs::write), and then reads as empty; what
\* was not written is forgotten.  The daemon goes on.
Crash(torn) ==
    /\ crashes < MaxCrashes
    /\ \A at \in torn : \E c \in pending : c.at = at
    /\ LET d == [profiles |-> IF "list" \in torn THEN <<>> ELSE disk.profiles,
                 vault |-> IF "vault" \in torn THEN NoSecrets ELSE disk.vault,
                 settings |-> IF "file" \in torn THEN DefaultSettings ELSE disk.settings]
       IN  disk' = d /\ mem' = LoadedFrom(d)
    /\ store' = EmptyStore /\ load' = NoSnapshot
    /\ pending' = {}
    /\ dirty' = {} /\ damaged' = {} /\ deleted' = {}
    /\ killStale' = (killStale \/ dirty # {} \/ \E c \in pending : c.id = Settings)
    /\ crashes' = crashes + 1
    /\ UNCHANGED <<issued, nextId, daemonVars>>

-----------------------------------------------------------------------------
Step(c) ==
    \/ CacheStep(c) \/ VaultStep(c) \/ VaultFails(c) \/ ListStep(c) \/ ListFails(c)
    \/ SettingsFileStep(c) \/ SettingsFail(c) \/ SettingsMemoryStep(c)
    \/ DaemonStep(c) \/ DaemonFails(c)

Next ==
    \/ TakeSnapshot \/ LoadStorage
    \/ AddProfile
    \/ \E i \in 1..MaxId : \E secret \in {0, issued + 2} : UpdateProfile(i, secret)
    \/ \E i \in 1..MaxId : ToggleFavorite(i) \/ DeleteProfile(i)
    \/ \E mode \in {"off", "strict"} : SetKillSwitch(mode)
    \/ \E ipv6 \in BOOLEAN : UpdateSecuritySettings(ipv6)
    \/ Connect \/ TunnelUp \/ TunnelDown
    \/ \E c \in pending : Step(c)
    \/ \E torn \in SUBSET {"list", "vault", "file"} : Crash(torn)

Spec == Init /\ [][Next]_vars

-----------------------------------------------------------------------------
(***************************************************************************)
(* Properties                                                              *)
(***************************************************************************)
\* The entries of profiles.json, of the library, the settings, the commands.
EntryType == [id : Ids, favorite : BOOLEAN]
ProfileType == [id : Ids, favorite : BOOLEAN, secret : Nat]
PolicyType == [kill : {"off", "strict"}, ipv6 : BOOLEAN]
CommandType ==
    [n : Nat, op : {"save", "delete", "settings", "daemon"}, id : Ids \cup {Settings},
     favorite : BOOLEAN, secret : Nat, settings : PolicyType,
     at : {"cache", "vault", "list", "file", "memory", "daemon"}]

\* Type invariant.
TypeOK ==
    /\ store.loaded \in BOOLEAN /\ store.settings \in PolicyType
    /\ store.profiles \in Seq(ProfileType)
    /\ mem \in [list : Seq(EntryType), cache : [Ids -> Nat], settings : PolicyType]
    /\ disk \in [profiles : Seq(EntryType), vault : [Ids -> Nat], settings : PolicyType]
    /\ pending \subseteq CommandType
    /\ issued \in 0..MaxOps /\ nextId \in 1..(MaxId + 1)
    /\ captured \in {"none", "off", "strict"} /\ daemonKill \in {"none", "off", "strict"}
    /\ dirty \subseteq Ids \cup {Settings} /\ deleted \subseteq Ids
    /\ damaged \subseteq {"list", "vault", "file"}

\* Nothing is on its way for the subject, and nothing went wrong with it.
Settled(subject) ==
    store.loaded /\ subject \notin dirty /\ \A c \in pending : c.id # subject

\* The store's memory of a profile, and what the files hold of it.
Shown(id) == {[favorite |-> p.favorite] : p \in {q \in {store.profiles[i] : i \in DOMAIN store.profiles} : q.id = id}}
OnDisk(id) == {[favorite |-> p.favorite] : p \in {q \in {disk.profiles[i] : i \in DOMAIN disk.profiles} : q.id = id}}
ShownSecrets == {p \in {store.profiles[i] : i \in DOMAIN store.profiles} : p.secret # 0}

\* Whatever other saves, deletions, failures and crashes go on, a profile whose
\* own commands did not overlap or fail is on disk exactly as the library shows
\* it, so that a crash at this moment does not change it; and so are the
\* settings.  A failed write of the list or the vault, for whichever profile,
\* voids this for all of them until the next write of it completes, which
\* repairs it.
\* toggleFavorite, addProfile, updateProfile, deleteProfile, setKillSwitch and
\* loadStorage against StorageManager.
SettledIsDurable ==
    /\ "list" \notin damaged =>
           \A id \in 1..(nextId - 1) : Settled(id) => Shown(id) = OnDisk(id)
    /\ "vault" \notin damaged =>
           \A p \in ShownSecrets : Settled(p.id) => disk.vault[p.id] = p.secret
    /\ Settled(Settings) => disk.settings = store.settings

\* The secret that vpn_connect takes from the vault's cache is the one shown in
\* the form of the profile, once the save that carried it is through.
ConnectUsesShownSecret ==
    \A p \in ShownSecrets : Settled(p.id) => mem.cache[p.id] = p.secret

\* "Deleted profile and erased secrets": once the deletion is through nothing
\* of the profile is left in memory or on disk.
DeletedIsErased ==
    \A id \in deleted : Settled(id) =>
        /\ mem.cache[id] = 0 /\ disk.vault[id] = 0
        /\ \A i \in DOMAIN mem.list : mem.list[i].id # id
        /\ OnDisk(id) = {}

\* The policy in force with the tunnel is the one the security view shows,
\* unless two changes overlapped, a request failed, a crash cut a change in two,
\* or the policy was changed while the connection was being made: that change
\* is lost on the daemon until the next one, or the next connection.
KillSwitchAgrees ==
    store.loaded /\ ~killStale /\ (\A c \in pending : c.op # "daemon")
        => daemonKill \in {"none", store.settings.kill}

\* A secret the application still has, in memory or in vault.enc.
Kept(id) == mem.cache[id] # 0 \/ disk.vault[id] # 0

\* Concurrent saves never lose a secret, nor does a write that fails half-way:
\* a secret is gone from memory and file only because the user deleted the
\* profile, or because the application died with the vault file in the middle
\* of a write, truncated by an earlier one, or never written for this profile.
SecretsOnlyDeleted ==
    [][\A id \in Ids : Kept(id) /\ ~Kept(id)' =>
          \/ id \in deleted
          \/ /\ crashes' # crashes
             /\ id \in dirty \/ "vault" \in damaged \/ \E c \in pending : c.at = "vault"]_vars

\* "Atomic write": what vault.enc holds of a profile that is not deleted stays
\* there.  False: fs::write truncates the file in place before it writes.
VaultWriteAtomic ==
    [][\A id \in Ids : disk.vault[id] # 0 /\ disk.vault'[id] = 0 => id \in deleted]_vars
=============================================================================
